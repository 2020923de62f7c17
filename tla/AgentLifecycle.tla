---------------------------- MODULE AgentLifecycle ----------------------------
(***************************************************************************)
(* What an Agent (core/include/galculus/core/agent.hpp) can rely on, with  *)
(* no registry, queue or call stack: the order in which its methods are    *)
(* called.  AgentRuntime implements it.                                    *)
(***************************************************************************)
CONSTANT Agent

VARIABLES
    phase,    \* how far in its life each agent is
    inside    \* the methods executing, as <<method, agent>>

vars == <<phase, inside>>

Init == phase = [a \in Agent |-> "absent"] /\ inside = {}

Enter(method, a) == inside' = inside \cup {<<method, a>>}

(* The runtime takes ownership of a new agent of that name. *)
Register(a) == /\ phase[a] = "absent"
               /\ phase' = [phase EXCEPT ![a] = "fresh"]
               /\ UNCHANGED inside

(* An agent is started when it is new or was stopped, never twice in a row. *)
OnStart(a) == /\ phase[a] \in {"fresh", "stopped"}
              /\ phase' = [phase EXCEPT ![a] = "active"]
              /\ Enter("on_start", a)

(* A message reaches an agent registered while the runtime was running     *)
(* without an on_start, but never one that was stopped.                    *)
OnMessage(a) == /\ phase[a] \in {"fresh", "active"}
                /\ Enter("on_message", a)
                /\ UNCHANGED phase

OnStop(a) == /\ phase[a] \in {"fresh", "active"}
             /\ phase' = [phase EXCEPT ![a] = "stopped"]
             /\ Enter("on_stop", a)

Return(a) == /\ \E m \in inside : m[2] = a /\ inside' = inside \ {m}
             /\ UNCHANGED phase

(* The agent is destroyed: never active, never executing. *)
Destroy(a) == /\ phase[a] \in {"fresh", "stopped"}
              /\ \A m \in inside : m[2] # a
              /\ phase' = [phase EXCEPT ![a] = "absent"]
              /\ UNCHANGED inside

Next == \E a \in Agent : \/ Register(a) \/ OnStart(a) \/ OnMessage(a)
                         \/ OnStop(a) \/ Return(a) \/ Destroy(a)

Spec == Init /\ [][Next]_vars
=============================================================================
