----------------------------- MODULE FramedQueue -----------------------------
(***************************************************************************)
(* Runtimes over FramedMessageTransports that share one                    *)
(* core/src/in_memory_byte_transport.cpp, drained by a thread each while   *)
(* others send.  A frame is what becomes of it: a message whose target the *)
(* runtime knows or does not know, or bytes that do not decode, which      *)
(* another user of the ByteTransport may have sent.                        *)
(***************************************************************************)
EXTENDS Naturals, SequencesExt

CONSTANTS
    Runtime,    \* the runtimes, with the same agents
    MaxSent     \* bound on the frames sent

ASSUME MaxSentAssumption == MaxSent \in Nat

Kind == {"known", "unknown", "bad"}

VARIABLES
    queue,      \* queue_
    running,    \* the runtimes whose running_ is set
    drain,      \* where each runtime is in drain
    sent,       \* history: the frames sent
    received    \* history: the frames received

queueVars == <<queue, running, drain, sent, received>>

QueueTypeOK == /\ queue \in Seq(Kind) /\ running \in SUBSET Runtime
          /\ drain \in [Runtime -> {"idle", "test", "run_once", "on_message"}]
          /\ sent \in Seq(Kind) /\ Len(sent) <= MaxSent
          /\ received \in Seq(Kind) /\ Len(received) <= Len(sent)

QueueInit == /\ queue = <<>> /\ running = {}
        /\ drain = [r \in Runtime |-> "idle"]
        /\ sent = <<>> /\ received = <<>>

(* By any thread, on_message among them. *)
Send(kind) == /\ Len(sent) < MaxSent
              /\ queue' = Append(queue, kind)
              /\ sent' = Append(sent, kind)
              /\ UNCHANGED <<running, drain, received>>

Goes(r, place) == drain' = [drain EXCEPT ![r] = place]

(* By the thread that drains the runtime, on_message included. *)
Start(r) == /\ drain[r] \in {"idle", "on_message"} /\ running' = running \cup {r}
            /\ UNCHANGED <<queue, drain, sent, received>>

Stop(r) == /\ drain[r] \in {"idle", "on_message"} /\ running' = running \ {r}
           /\ UNCHANGED <<queue, drain, sent, received>>

Drain(r) == drain[r] = "idle" /\ Goes(r, "test") /\ UNCHANGED <<queue, running, sent, received>>

Test(r) == /\ drain[r] = "test"
           /\ Goes(r, IF queue = <<>> THEN "idle" ELSE "run_once")
           /\ UNCHANGED <<queue, running, sent, received>>

(* Mutant of Dispatched: a frame that does not decode is an error, too. *)
DispatchedStrict(kind) == CASE kind = "known" -> "on_message" [] OTHER -> "idle"

(* Where a runtime is once it has received a frame: one that is not a      *)
(* message counts as nothing received, an unknown target ends the loop.    *)
Dispatched(kind) ==
    CASE kind = "known" -> "on_message" [] kind = "bad" -> "test" [] kind = "unknown" -> "idle"

(* Mutants of Received: the front is not popped; it is if it decodes. *)
ReceivedCopy(r) == /\ received' = Append(received, Head(queue))
                   /\ UNCHANGED queue
                   /\ Goes(r, Dispatched(Head(queue)))
ReceivedGood(r) == /\ IF Head(queue) = "bad" THEN UNCHANGED <<queue, received>>
                      ELSE received' = Append(received, Head(queue)) /\ queue' = Tail(queue)
                   /\ Goes(r, Dispatched(Head(queue)))

Received(r) == /\ received' = Append(received, Head(queue))
               /\ queue' = Tail(queue)
               /\ Goes(r, Dispatched(Head(queue)))

(* One that stopped fails; another may have taken the frame meanwhile. *)
RunOnce(r) == /\ drain[r] = "run_once"
              /\ CASE r \notin running -> Goes(r, "idle") /\ UNCHANGED <<queue, received>>
                   [] r \in running /\ queue = <<>> -> Goes(r, "test") /\ UNCHANGED <<queue, received>>
                   [] r \in running /\ queue # <<>> -> Received(r)
              /\ UNCHANGED <<running, sent>>

OnMessageReturns(r) ==
    drain[r] = "on_message" /\ Goes(r, "test") /\ UNCHANGED <<queue, running, sent, received>>

QueueNext == \/ \E kind \in Kind : Send(kind)
        \/ \E r \in Runtime : \/ Start(r) \/ Stop(r) \/ Drain(r)
                               \/ Test(r) \/ RunOnce(r) \/ OnMessageReturns(r)

(* A thread in drain goes on, and handlers return. *)
Fairness == \A r \in Runtime : WF_queueVars(Test(r) \/ RunOnce(r) \/ OnMessageReturns(r))

QueueSpec == QueueInit /\ [][QueueNext]_queueVars /\ Fairness

(* Some user keeps a runtime running and calls its drain again and again.  *)
Insisting == \E r \in Runtime : WF_queueVars(Drain(r)) /\ <>[](r \in running)

-----------------------------------------------------------------------------
(* drain gives up only at a message for an unknown agent or when a handler *)
(* or its caller stopped the runtime, and then without taking a frame.  It *)
(* goes on past what does not decode and past what another thread took,    *)
(* and otherwise ends only on an empty queue (runtime.cpp:128-154,         *)
(* message_byte_adapter.cpp:25-57, framed_message_transport.cpp:12-20).    *)
GivesUpRightly ==
    [][\A r \in Runtime :
           drain[r] # "idle" /\ drain'[r] = "idle" =>
               \/ queue = <<>>
               \/ r \notin running /\ queue' = queue
               \/ Len(received') > Len(received) /\ Last(received') = "unknown"]_queueVars

(* A message for an unknown agent does not block those behind it: if       *)
(* somebody keeps a runtime running and drains it again and again, every   *)
(* frame is received, although each such message ends a drain, whatever    *)
(* the other runtimes do, stopped ones included (runtime.cpp:128-154).     *)
NoneBlocks ==
    Insisting => \A n \in 1 .. MaxSent : Len(sent) >= n ~> Len(received) >= n
=============================================================================
