----------------------------- MODULE MCNoisyLine -----------------------------
(* Bytes have seven values, so that some are no role and some no status,   *)
(* and words two bytes, so that magic numbers, lengths and checksums use   *)
(* both bytes of a word and ids all of theirs.  The magics of requests and *)
(* responses differ in one byte, as in the code.                           *)
EXTENDS NoisyLine

SomeMessages ==
    [type : {0, 3}, id : {0, 9, 342}, source : {<<>>, <<4>>}, target : {<<1>>, <<0, 6>>},
     name : {<<>>, <<2>>}, payload : {<<>>, <<3, 0>>, <<0, 0, 0>>}]

MagicOfRequest  == <<3, 1, 2>>
MagicOfResponse == <<3, 6, 2>>

SomePrompts ==
    {<<>>,
     <<[role |-> "User", content |-> <<>>]>>,
     <<[role |-> "System", content |-> <<4, 0>>], [role |-> "Tool", content |-> <<1>>]>>,
     <<[role |-> "Assistant", content |-> <<>>], [role |-> "User", content |-> <<0, 6, 1>>],
       [role |-> "Tool", content |-> <<2>>]>>}

SomeRequests ==
    [id : {<<>>, <<5, 0>>}, max_tokens : {0, 8}, temperature : {7}, top_p : {48},
     seed : {0, 47}, timeout_ms : {7}, stream : BOOLEAN, prompt : SomePrompts]

SomeResponses ==
    [id : {<<>>, <<5, 0>>}, status : Range(Codec!Statuses), text : {<<>>, <<0, 6, 1>>},
     prompt_tokens : {0, 9}, completion_tokens : {48}, elapsed_ms : {7},
     error_message : {<<>>, <<2>>}]
=============================================================================
