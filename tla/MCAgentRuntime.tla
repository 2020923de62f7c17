---------------------------- MODULE MCAgentRuntime ----------------------------
(* Values for the constants of AgentRuntime. *)
EXTENDS AgentRuntime, TLC

Sends == {"send", "publish_event", "broadcast_event"}

(* main calls everything; on_message changes the registry and the running  *)
(* flag, dispatches and unregisters what is not executing; on_start and    *)
(* on_stop only send.                                                      *)
MayCallRegistry ==
    ("main" :> Operation)
        @@ ("on_message" :> {"register_agent", "unregister_agent", "publish_event",
                             "start", "stop", "run_once", "drain"})
        @@ ("on_start" :> {"publish_event", "start"})
        @@ ("on_stop" :> {"broadcast_event"})

(* on_message dispatches messages itself, as a request that waits for its  *)
(* answer does, and nothing is unregistered from a callback.               *)
MayCallNested ==
    ("main" :> Operation)
        @@ ("on_message" :> {"register_agent", "publish_event", "stop", "run_once", "drain"})
        @@ ("on_start" :> {"send"})
        @@ ("on_stop" :> {"publish_event"})

AnyCallback == Callback

(* The runs below are of programs that keep the contract. *)
ASSUME ContractKept == SafeDiscipline

Symmetry == Permutations(Agent)
=============================================================================
