---------------------------- MODULE MemoryBudgets ----------------------------
(***************************************************************************)
(* The agents' memory budgets: AgentMemoryBudget (memory/src/              *)
(* AgentMemoryBudget.cpp) and the map of them that MemoryManager keeps     *)
(* (memory/src/MemoryManager.cpp).  Sizes are size_t; they are taken small *)
(* enough for used_bytes_ + bytes not to wrap.                             *)
(***************************************************************************)
EXTENDS Integers

CONSTANT Agent

VARIABLE agent_budgets    \* agent_budgets_: a function on the agents that have one

Budget == [limit_bytes : Nat, used_bytes : Nat, peak_used_bytes : Nat]

TypeOK == /\ DOMAIN agent_budgets \subseteq Agent
          /\ agent_budgets \in [DOMAIN agent_budgets -> Budget]

Init == agent_budgets = <<>>

HasBudget(a) == a \in DOMAIN agent_budgets

(* Assigns a fresh budget to agent_budgets_[agent_id]: nothing is in use,  *)
(* whatever was.                                                           *)
SetAgentBudget(a, limit) ==
    agent_budgets' =
        [b \in DOMAIN agent_budgets \cup {a} |->
            IF b = a THEN [limit_bytes |-> limit, used_bytes |-> 0, peak_used_bytes |-> 0]
            ELSE agent_budgets[b]]

(* reserve_agent_memory returns true. *)
CanReserve(a, bytes) ==
    HasBudget(a) /\ agent_budgets[a].used_bytes + bytes <= agent_budgets[a].limit_bytes

Reserve(a, bytes) ==
    LET used == agent_budgets[a].used_bytes + bytes
        peak == agent_budgets[a].peak_used_bytes
    IN  agent_budgets' = [agent_budgets EXCEPT
            ![a].used_bytes = used,
            ![a].peak_used_bytes = IF peak < used THEN used ELSE peak]

(* Mutant of Release: the difference is taken whatever its sign. *)
ReleaseUnclamped(a, bytes) ==
    IF HasBudget(a)
    THEN agent_budgets' = [agent_budgets EXCEPT ![a].used_bytes = @ - bytes]
    ELSE UNCHANGED agent_budgets

(* Releasing more than is in use leaves nothing in use. *)
Release(a, bytes) ==
    IF HasBudget(a)
    THEN agent_budgets' = [agent_budgets EXCEPT
             ![a].used_bytes = IF bytes >= @ THEN 0 ELSE @ - bytes]
    ELSE UNCHANGED agent_budgets
=============================================================================
