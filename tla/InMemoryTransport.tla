-------------------------- MODULE InMemoryTransport --------------------------
(***************************************************************************)
(* core/src/in_memory_transport.cpp: a FIFO of messages behind a mutex.    *)
(* Every operation holds the mutex from its first statement to its last,   *)
(* so each is one atomic step whichever thread makes it.                   *)
(***************************************************************************)
EXTENDS Sequences

CONSTANT Message    \* the messages that can be sent

VARIABLE queue      \* queue_: the messages sent and not yet received

(* send: push at the back; it never fails. *)
Send(m) == queue' = Append(queue, m)

(* receive when something is queued: the front is copied, popped, returned. *)
Front   == Head(queue)
Receive == queue # <<>> /\ queue' = Tail(queue)

(* receive on an empty queue returns nullopt. *)
ReceiveNothing == queue = <<>> /\ UNCHANGED queue

Empty == queue = <<>>

Init == queue = <<>>

TypeOK == queue \in Seq(Message)
=============================================================================
