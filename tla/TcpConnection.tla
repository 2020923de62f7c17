---------------------------- MODULE TcpConnection ----------------------------
(***************************************************************************)
(* Two FramedMessageTransports over the two TcpByteTransports of one       *)
(* connection, each used by one thread: core/src/tcp_byte_transport.cpp,   *)
(* framed_message_transport.cpp, and AgentRuntime::drain where it uses     *)
(* them.  A message stands for its packet: Protocol gives it back whole    *)
(* (NoisyLine).  TCP itself is external: it takes and gives bytes in       *)
(* pieces of any size, holds Window of them, and once it fails stays so.   *)
(***************************************************************************)
EXTENDS Frame

CONSTANTS
    Ends,                     \* the two ends
    Packets,                  \* the packets sent, sequences of bytes
    Window,                   \* how many bytes TCP holds in one direction
    MaxSends                  \* bound: how many messages each end sends

ASSUME EndsAssumption == \E a, b \in Ends : a # b /\ Ends = {a, b}

(* A frame is shorter than 4 GiB: a 32-bit word holds its size. *)
ASSUME PacketsFit ==
    \A packet \in Packets :
        packet \in Seq(Byte) /\ Len(packet) + 3 * WordBytes < Power[WordBytes]

ASSUME WindowAssumption == Window \in Nat

VARIABLES
    wire,         \* the bytes TCP holds for each end
    open,         \* which ends have not closed their socket
    broken,       \* whether the connection was reset
    job,          \* the call each end is in: bytes it still sends, or has received
    draining,     \* which ends are in drain
    sent, delivered, failed, lost    \* as in MessageChannel

vars == <<wire, open, broken, job, draining, sent, delivered, failed, lost>>

(* static_cast<int> of a size *)
AsInt(n) ==
    LET word == n % Power[WordBytes]
    IN  IF 2 * word < Power[WordBytes] THEN word ELSE word - Power[WordBytes]

(* The packets whose frame has a size an int can hold. *)
Writable == {packet \in Packets : AsInt(Len(Encode(packet))) > 0}

Channel == INSTANCE MessageChannel

Peer(e) == Channel!Peer(e)

Nothing == [doing |-> "nothing", bytes |-> <<>>]
Sending(bytes) == [doing |-> "send", bytes |-> bytes]
Receiving(bytes) == [doing |-> "receive", bytes |-> bytes]

Idle(e) == open[e] /\ job[e].doing = "nothing"

(* The peer closed its socket, or the connection was reset. *)
Gone(e) == broken \/ ~open[Peer(e)]

Init ==
    /\ wire = [e \in Ends |-> <<>>]
    /\ open = [e \in Ends |-> TRUE]
    /\ broken = FALSE
    /\ job = [e \in Ends |-> Nothing]
    /\ draining = [e \in Ends |-> FALSE]
    /\ Channel!Init

-----------------------------------------------------------------------------
(* send, send_message, send_bytes, send_all *)

(* Mutant of Send: send_all takes a size_t, so long frames are written. *)
SendUncast(e, packet) ==
    /\ Idle(e)
    /\ Len(sent[e]) + lost[e] < MaxSends
    /\ job' = [job EXCEPT ![e] = Sending(Encode(packet))]
    /\ sent' = [sent EXCEPT ![e] = Append(@, packet)]
    /\ UNCHANGED <<wire, open, broken, draining, delivered, failed, lost>>

(* send_all is given the size of the frame as an int.  If that is negative *)
(* its loop ends at once and send returns true, with nothing written.      *)
Send(e, packet) ==
    /\ Idle(e)
    /\ Len(sent[e]) + lost[e] < MaxSends
    /\ IF packet \in Writable
       THEN /\ LET size == AsInt(Len(Encode(packet)))
               IN  job' = [job EXCEPT ![e] = Sending(SubSeq(Encode(packet), 1, size))]
            /\ sent' = [sent EXCEPT ![e] = Append(@, packet)]
            /\ UNCHANGED lost
       ELSE /\ lost' = [lost EXCEPT ![e] = @ + 1]
            /\ UNCHANGED <<job, sent>>
    /\ UNCHANGED <<wire, open, broken, draining, delivered, failed>>

(* What one call of the socket's send takes; a closed peer gets nothing. *)
Taken(e, n) ==
    IF open[Peer(e)]
    THEN /\ Len(wire[Peer(e)]) + n <= Window
         /\ wire' = [wire EXCEPT ![Peer(e)] = @ \o SubSeq(job[e].bytes, 1, n)]
    ELSE UNCHANGED wire

(* Mutant of SendSome: the loop goes on after the last byte. *)
SendSomeForever(e) ==
    /\ job[e].doing = "send"
    /\ ~broken
    /\ \E n \in 1 .. Len(job[e].bytes) :
           Taken(e, n) /\ job' = [job EXCEPT ![e].bytes = SubSeq(@, n + 1, Len(@))]
    /\ UNCHANGED <<open, broken, draining, sent, delivered, failed, lost>>

(* One turn of send_all's loop. *)
SendSome(e) ==
    /\ job[e].doing = "send"
    /\ ~broken
    /\ \E n \in 1 .. Len(job[e].bytes) :
           /\ Taken(e, n)
           /\ LET rest == SubSeq(job[e].bytes, n + 1, Len(job[e].bytes))
              IN  job' = [job EXCEPT ![e] = IF rest = <<>> THEN Nothing ELSE Sending(rest)]
    /\ UNCHANGED <<open, broken, draining, sent, delivered, failed, lost>>

SendFails(e) ==
    /\ job[e].doing = "send"
    /\ Gone(e)
    /\ job' = [job EXCEPT ![e] = Nothing]
    /\ failed' = [failed EXCEPT ![e] = @ \union {Len(sent[e])}]
    /\ UNCHANGED <<wire, open, broken, draining, sent, delivered, lost>>

-----------------------------------------------------------------------------
(* receive, receive_message, receive_bytes, recv_all *)

HeaderSize == 2 * WordBytes

(* remaining_size, in 32 bits *)
RemainingSize(received) ==
    (NumberAt(received, WordBytes, WordBytes) + WordBytes) % Power[WordBytes]

(* How many bytes receive_bytes waits for, knowing what it received: none  *)
(* after the header if the remaining size as an int is not positive.       *)
Wanted(received) ==
    IF Len(received) >= HeaderSize /\ AsInt(RemainingSize(received)) > 0
    THEN HeaderSize + RemainingSize(received) ELSE HeaderSize

Complete(received) == Len(received) >= HeaderSize /\ Len(received) = Wanted(received)

(* The frame receive_bytes returns, whose size is computed in 32 bits too. *)
Resized(received) ==
    [i \in 1 .. (HeaderSize + RemainingSize(received)) % Power[WordBytes] |->
         IF i <= Len(received) THEN received[i] ELSE 0]

Receive(e) ==
    /\ Idle(e)
    /\ ~draining[e]
    /\ job' = [job EXCEPT ![e] = Receiving(<<>>)]
    /\ UNCHANGED <<wire, open, broken, draining, sent, delivered, failed, lost>>

(* receive returns the message, or nothing if the frame does not decode.   *)
(* From drain the message is dispatched; dispatch may fail, or the agent   *)
(* stop the runtime.                                                       *)
Returns(e, frame) ==
    /\ job' = [job EXCEPT ![e] = Nothing]
    /\ IF Decodes(frame)
       THEN /\ delivered' = [delivered EXCEPT ![e] = Append(@, Payload(frame))]
            /\ \E goesOn \in BOOLEAN : draining' = [draining EXCEPT ![e] = @ /\ goesOn]
       ELSE UNCHANGED <<delivered, draining>>

(* One turn of recv_all's loop, for the header or for the rest. *)
ReceiveSome(e) ==
    /\ job[e].doing = "receive"
    /\ \E n \in 1 .. Len(wire[e]) :
           LET received == job[e].bytes \o SubSeq(wire[e], 1, n)
           IN  /\ Len(received) <= Wanted(job[e].bytes)
               /\ wire' = [wire EXCEPT ![e] = SubSeq(@, n + 1, Len(@))]
               /\ IF Complete(received) THEN Returns(e, Resized(received))
                  ELSE /\ job' = [job EXCEPT ![e] = Receiving(received)]
                       /\ UNCHANGED <<delivered, draining>>
    /\ UNCHANGED <<open, broken, sent, failed, lost>>

(* Mutant of ReceiveFails: recv returning 0, the peer closed, is no error. *)
ReceiveFailsOnError(e) ==
    /\ job[e].doing = "receive"
    /\ wire[e] = <<>>
    /\ broken
    /\ job' = [job EXCEPT ![e] = Nothing]
    /\ UNCHANGED <<wire, open, broken, draining, sent, delivered, failed, lost>>

ReceiveFails(e) ==
    /\ job[e].doing = "receive"
    /\ wire[e] = <<>>
    /\ Gone(e)
    /\ job' = [job EXCEPT ![e] = Nothing]
    /\ UNCHANGED <<wire, open, broken, draining, sent, delivered, failed, lost>>

-----------------------------------------------------------------------------
(* AgentRuntime::drain *)

Drain(e) ==
    /\ Idle(e)
    /\ ~draining[e]
    /\ draining' = [draining EXCEPT ![e] = TRUE]
    /\ UNCHANGED <<wire, open, broken, job, sent, delivered, failed, lost>>

(* Mutant of Empty: select's 0 is taken for a result. *)
EmptyNever(e) == FALSE

(* select finds nothing to read, which the end of the stream and an error are. *)
Empty(e) == wire[e] = <<>> /\ ~Gone(e)

(* drain ends when the transport is empty, or when run_once finds that the *)
(* runtime is not running.                                                 *)
DrainStep(e) ==
    /\ draining[e]
    /\ Idle(e)
    /\ \E running \in BOOLEAN :
           IF Empty(e) \/ ~running
           THEN draining' = [draining EXCEPT ![e] = FALSE] /\ UNCHANGED job
           ELSE job' = [job EXCEPT ![e] = Receiving(<<>>)] /\ UNCHANGED draining
    /\ UNCHANGED <<wire, open, broken, sent, delivered, failed, lost>>

-----------------------------------------------------------------------------
(* The destructor. *)
Close(e) ==
    /\ Idle(e)
    /\ ~draining[e]
    /\ open' = [open EXCEPT ![e] = FALSE]
    /\ wire' = [wire EXCEPT ![e] = <<>>]
    /\ UNCHANGED <<broken, job, draining, sent, delivered, failed, lost>>

(* TCP resets the connection: bytes it holds may still be read or not. *)
Break ==
    /\ ~broken
    /\ broken' = TRUE
    /\ \E kept \in SUBSET Ends :
           wire' = [e \in Ends |-> IF e \in kept THEN wire[e] ELSE <<>>]
    /\ UNCHANGED <<open, job, draining, sent, delivered, failed, lost>>

Next ==
    \/ \E e \in Ends :
           \/ \E packet \in Packets : Send(e, packet)
           \/ SendSome(e)
           \/ SendFails(e)
           \/ Receive(e)
           \/ ReceiveSome(e)
           \/ ReceiveFails(e)
           \/ Drain(e)
           \/ DrainStep(e)
           \/ Close(e)
    \/ Break

(* A thread in a call goes on; nobody has to make a call. *)
Fairness ==
    \A e \in Ends : /\ WF_vars(SendSome(e) \/ SendFails(e))
                    /\ WF_vars(ReceiveSome(e) \/ ReceiveFails(e))
                    /\ WF_vars(DrainStep(e))

Spec == Init /\ [][Next]_vars /\ Fairness

-----------------------------------------------------------------------------
TypeOK ==
    /\ wire \in [Ends -> Seq(Byte)]
    /\ open \in [Ends -> BOOLEAN]
    /\ broken \in BOOLEAN
    /\ draining \in [Ends -> BOOLEAN]
    /\ \A e \in Ends :
           /\ Len(wire[e]) <= Window
           /\ job[e].bytes \in Seq(Byte)
           /\ CASE job[e].doing = "nothing" -> job[e].bytes = <<>>
                [] job[e].doing = "send"    -> job[e].bytes # <<>>
                [] job[e].doing = "receive" -> Len(job[e].bytes) < Wanted(job[e].bytes)

(* The stream as a sequence of frames. *)
Frames(packets) == FoldLeft(LAMBDA bytes, packet : bytes \o Encode(packet), <<>>, packets)

(* While the connection stands, what an end has read of the next frame,    *)
(* what is on its way and what its peer has still to write are the frames  *)
(* of the messages it has not received: no call ever leaves the stream in  *)
(* the middle of a frame, frames too long for an int included, of which    *)
(* send_all writes nothing (tcp_byte_transport.cpp:35-75, 183-233).        *)
InStep ==
    \A e \in Ends : open[e] /\ ~broken =>
        LET received == IF job[e].doing = "receive" THEN job[e].bytes ELSE <<>>
            unsent   == IF job[Peer(e)].doing = "send" THEN job[Peer(e)].bytes ELSE <<>>
            missing  == SubSeq(sent[Peer(e)], Len(delivered[e]) + 1, Len(sent[Peer(e)]))
        IN  received \o wire[e] \o unsent = Frames(missing)

(* Messages arrive in order, once, none left out, and none whose send      *)
(* failed, whatever pieces TCP cuts the stream into and wherever it is     *)
(* closed or reset, but for those that are lost without a word: their      *)
(* frames are too long for an int (framed_message_transport.cpp:8-20,      *)
(* tcp_byte_transport.cpp:192-196).                                        *)
IsChannel == Channel!Spec

(* A receive returns if a message was sent to it or the connection ended   *)
(* (tcp_byte_transport.cpp:56-75, 199-233).                                *)
ReceiveEnds ==
    \A e \in Ends :
        job[e].doing = "receive" /\ (Gone(e) \/ Len(delivered[e]) < Len(sent[Peer(e)]))
            ~> job[e].doing # "receive"

(* drain returns, unless an agent it calls is stuck sending to a peer that *)
(* does not read, or the connection has ended: then empty() is false for   *)
(* ever (runtime.cpp:145-154, tcp_byte_transport.cpp:235-257).             *)
DrainEnds ==
    \A e \in Ends : draining[e] ~> ~draining[e] \/ job[e].doing = "send" \/ Gone(e)
=============================================================================
