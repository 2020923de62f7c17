----------------------------- MODULE RemoteCalls -----------------------------
(***************************************************************************)
(* What RemoteLLM promises of its requests, each made once and never sent  *)
(* again: a server works on it at most once, not before it was made; an    *)
(* answer comes after that work; a request refused is never worked on, not *)
(* even later, so making another one is safe; about one that failed, or    *)
(* got an answer that another program made up, nothing is known, and it    *)
(* may be worked on afterwards.                                            *)
(***************************************************************************)
CONSTANT Request

VARIABLES
    done,       \* the requests worked on
    outcome     \* how each ended so far

vars == <<done, outcome>>

Init == done = {} /\ outcome = [r \in Request |-> "unmade"]

Make(r) == /\ outcome[r] = "unmade"
           /\ outcome' = [outcome EXCEPT ![r] = "made"]
           /\ UNCHANGED done

Work(r) == /\ outcome[r] \in {"made", "misled", "failed"}
           /\ r \notin done
           /\ done' = done \cup {r}
           /\ UNCHANGED outcome

Answer(r) == /\ outcome[r] = "made" /\ r \in done
             /\ outcome' = [outcome EXCEPT ![r] = "answered"]
             /\ UNCHANGED done

Mislead(r) == /\ outcome[r] = "made"
              /\ outcome' = [outcome EXCEPT ![r] = "misled"]
              /\ UNCHANGED done

Refuse(r) == /\ outcome[r] = "made" /\ r \notin done
             /\ outcome' = [outcome EXCEPT ![r] = "refused"]
             /\ UNCHANGED done

Fail(r) == /\ outcome[r] = "made"
           /\ outcome' = [outcome EXCEPT ![r] = "failed"]
           /\ UNCHANGED done

Next == \E r \in Request :
            Make(r) \/ Work(r) \/ Answer(r) \/ Mislead(r) \/ Refuse(r) \/ Fail(r)

Spec == Init /\ [][Next]_vars
=============================================================================
