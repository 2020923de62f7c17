---------------------------- MODULE MessageChannel ----------------------------
(***************************************************************************)
(* What a connection promises its two ends: what one sends the other gets  *)
(* in order, once, with nothing left out on the way.  A suffix may get     *)
(* lost.  A message whose send failed is not received, nor any after it.   *)
(* A message that is not one of Writable is lost, and its send succeeds.   *)
(***************************************************************************)
EXTENDS Naturals, Sequences

CONSTANTS Ends, Packets, Writable

VARIABLES
    sent,         \* the packets each end has begun to send
    delivered,    \* the packets each end has received
    failed,       \* the numbers of the sends of each end that failed
    lost          \* how many messages of each end were never written

vars == <<sent, delivered, failed, lost>>

Peer(e) == CHOOSE f \in Ends : f # e

Init == /\ sent = [e \in Ends |-> <<>>]
        /\ delivered = [e \in Ends |-> <<>>]
        /\ failed = [e \in Ends |-> {}]
        /\ lost = [e \in Ends |-> 0]

Send(e, packet) == /\ packet \in Writable
                   /\ sent' = [sent EXCEPT ![e] = Append(@, packet)]
                   /\ UNCHANGED <<delivered, failed, lost>>

Lose(e, packet) == /\ packet \notin Writable
                   /\ lost' = [lost EXCEPT ![e] = @ + 1]
                   /\ UNCHANGED <<sent, delivered, failed>>

Deliver(e) ==
    LET next == Len(delivered[e]) + 1
    IN  /\ next <= Len(sent[Peer(e)])
        /\ \A n \in 1 .. next : n \notin failed[Peer(e)]
        /\ delivered' = [delivered EXCEPT ![e] = Append(@, sent[Peer(e)][next])]
        /\ UNCHANGED <<sent, failed, lost>>

Fail(e) == /\ Len(sent[e]) > Len(delivered[Peer(e)])
           /\ failed' = [failed EXCEPT ![e] = @ \union {Len(sent[e])}]
           /\ UNCHANGED <<sent, delivered, lost>>

Next == \E e \in Ends : \/ \E packet \in Packets : Send(e, packet) \/ Lose(e, packet)
                        \/ Deliver(e) \/ Fail(e)

Spec == Init /\ [][Next]_vars
=============================================================================
