----------------------------- MODULE MCRemoteLLM -----------------------------
(* A client of the repository (c1) that calls twice and another (guest), a *)
(* server of the repository (s1) and another (alien).                      *)
EXTENDS RemoteLLM, TLC

CONSTANTS c1, guest, s1, alien

Calling == c1 :> 2 @@ guest :> 1

BadRequest  == [name |-> "LLM_REQUEST", decodes |-> FALSE]
BadResponse == [name |-> "LLM_RESPONSE", decodes |-> FALSE]

(* To a server BadResponse is another event, to a client BadRequest is. *)
OddMessages == {BadRequest, BadResponse, NoFrame}
=============================================================================
