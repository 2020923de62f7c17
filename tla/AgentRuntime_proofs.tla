------------------------- MODULE AgentRuntime_proofs -------------------------
(***************************************************************************)
(* Proofs about AgentRuntime for any set of agents, any bounds and, where  *)
(* the theorem says so, any discipline of the callbacks that keeps the     *)
(* contract SafeDiscipline.                                                *)
(***************************************************************************)
EXTENDS AgentRuntime, SequenceLemmas

-----------------------------------------------------------------------------
(* Type correctness. *)

LEMMA CallIsFrame ==
    ASSUME NEW op \in Callback \cup InProgress, NEW of \in SUBSET Agent
    PROVE  Call(op, of) \in Frame /\ Call(op, of).op = op /\ Call(op, of).of = of
  BY DEF Call, Frame

LEMMA StackTypes ==
    ASSUME stack \in Seq(Frame)
    PROVE  /\ \A f \in Frame : Push(f) \in Seq(Frame)
           /\ stack # <<>> => /\ Top \in Frame /\ Top.of \in SUBSET Agent
                             /\ Pop \in Seq(Frame)
                             /\ \A f \in Frame : Replace(f) \in Seq(Frame)
  <1>1. \A f \in Frame : Push(f) \in Seq(Frame)
    BY PushFacts DEF Push
  <1>2. ASSUME stack # <<>>
        PROVE  Top \in Frame /\ Top.of \in SUBSET Agent /\ Pop \in Seq(Frame)
    <2>1. stack[Len(stack)] \in Frame /\ SubSeq(stack, 1, Len(stack) - 1) \in Seq(Frame)
      BY <1>2, PopFacts
    <2> QED
      BY <2>1 DEF Top, Pop, Frame
  <1>3. ASSUME stack # <<>>, NEW f \in Frame
        PROVE  Replace(f) \in Seq(Frame)
    BY <1>2, <1>3, PushFacts DEF Replace
  <1> QED
    BY <1>1, <1>2, <1>3

(* An exception leaves a part of the stack from the bottom. *)
LEMMA ThrowCuts ==
    ASSUME stack \in Seq(Frame), NEW c \in Callback, Throw(c)
    PROVE  \E n \in Nat, k \in Nat :
              /\ k = Len(stack) /\ k # 0 /\ DOMAIN stack = 1 .. k /\ n \in 0 .. k - 1
              /\ Catches(n)
              /\ stack' \in Seq(Frame) /\ Len(stack') = n /\ DOMAIN stack' = 1 .. n
              /\ \A i \in 1 .. n : stack'[i] = stack[i]
  <1>1. stack # <<>>
    BY DEF Throw, OnTop
  <1>2. PICK k \in Nat : k = Len(stack) /\ k # 0 /\ DOMAIN stack = 1 .. k
    BY <1>1, PopFacts
  <1>3. PICK n \in 0 .. k - 1 : Catches(n) /\ stack' = SubSeq(stack, 1, n)
    BY <1>2 DEF Throw
  <1> DEFINE t == SubSeq(stack, 1, n)
  <1>4. n \in Nat /\ \A i \in 1 .. n : stack[i] \in Frame
    BY <1>2, <1>3, ElementOfSeq
  <1> HIDE DEF t
  <1>5. /\ t \in Seq(Frame)
        /\ Len(t) = IF 1 <= n THEN n - 1 + 1 ELSE 0
        /\ \A i \in 1 .. n - 1 + 1 : t[i] = stack[1 + i - 1]
    BY <1>4, SubSeqProperties DEF t
  <1>6. Len(t) = n /\ \A i \in 1 .. n : t[i] = stack[i]
    BY <1>4, <1>5
  <1>7. DOMAIN t = 1 .. n
    BY <1>5, <1>6, LenProperties
  <1> QED
    BY <1>2, <1>3, <1>4, <1>5, <1>6, <1>7 DEF t

LEMMA MessageTypes ==
    ASSUME NEW id \in Nat, NEW a \in Agent
    PROVE  [id |-> id, target |-> a] \in Message
  BY DEF Message

LEMMA TransmitType ==
    ASSUME TypeOK, NEW id \in Nat, NEW a \in Agent, NEW ok \in BOOLEAN,
           Transmit([id |-> id, target |-> a], ok)
    PROVE  queue' \in Seq(Message)
  <1> DEFINE m == [id |-> id, target |-> a]
  <1>1. m \in Message /\ queue \in Seq(Message)
    BY MessageTypes DEF TypeOK, Transport!TypeOK
  <1> HIDE DEF m
  <1>2. Append(queue, m) \in Seq(Message)
    BY <1>1, PushFacts
  <1>3. queue' = Append(queue, m) \/ queue' = queue
    BY DEF Transmit, Transport!Send, m
  <1> QED
    BY <1>1, <1>2, <1>3

LEMMA TypeInit == Init => TypeOK
  <1> SUFFICES ASSUME Init PROVE TypeOK
    OBVIOUS
  <1>1. queue \in Seq(Message) /\ stack \in Seq(Frame)
    BY DEF Init, Transport!Init
  <1>2. phase \in [Agent -> Phase]
    BY DEF Init, Phase
  <1>3. posted \in 0 .. MaxPosted
    BY BoundsAssumption DEF BoundsAssumption, Init
  <1>4. agents \in SUBSET Agent /\ running \in BOOLEAN /\ broken \in BOOLEAN
    BY DEF Init
  <1>5. next_message_id \in Nat /\ next_message_id > 0 /\ seen \in Nat /\ result \in Code
    BY DEF Init, Code
  <1> QED
    BY <1>1, <1>2, <1>3, <1>4, <1>5 DEF TypeOK, Transport!TypeOK

LEMMA ReceiveType ==
    ASSUME TypeOK, NEW done \in Seq(Frame), NEW failed \in Seq(Frame),
           ReceiveAndDispatch(done, failed)
    PROVE  TypeOK'
  <1> USE DEF TypeOK, ReceiveAndDispatch
  <1>1. CASE ~running
    BY <1>1 DEF Transport!TypeOK, Transport!ReceiveNothing, Transport!Receive, Code
  <1>2. CASE running /\ Transport!ReceiveNothing
    BY <1>2 DEF Transport!TypeOK, Transport!ReceiveNothing, Transport!Receive, Code
  <1>3. CASE running /\ Transport!Receive
    <2> DEFINE m == Transport!Front
    <2>1. m \in Message /\ m.id \in Nat /\ m.target \in Agent /\ queue' \in Seq(Message)
      <3>1. queue \in Seq(Message) /\ queue # <<>> /\ queue' = Tail(queue) /\ m = Head(queue)
        BY <1>3 DEF Transport!TypeOK, Transport!Receive, Transport!Front
      <3>2. m \in Message /\ queue' \in Seq(Message)
        BY <3>1, QueueFacts
      <3> QED
        BY <3>2 DEF Message
    <2>2. Append(done, Call("on_message", {m.target})) \in Seq(Frame)
      BY <2>1, CallIsFrame, PushFacts DEF Callback
    <2> QED
      BY <1>3, <2>1, <2>2 DEF Transport!TypeOK, Transport!ReceiveNothing, Transport!Receive, Code, Dispatch
  <1> QED
    BY <1>1, <1>2, <1>3

LEMMA TypeNext == TypeOK /\ [Next]_vars => TypeOK'
  <1> SUFFICES ASSUME TypeOK, [Next]_vars PROVE TypeOK'
    OBVIOUS
  <1> USE DEF TypeOK, Transport!TypeOK
  <1>1. CASE RegisterInvalid
    BY <1>1 DEF RegisterInvalid, Fails, Code
  <1>2. ASSUME NEW a \in Agent, RegisterAgent(a) PROVE TypeOK'
    BY <1>2 DEF RegisterAgent, Fails, Code, Phase, HoldsIterator
  <1>3. ASSUME NEW a \in Agent, UnregisterAgent(a) PROVE TypeOK'
    <2>1. Append(Push(Call("unregister_agent", {a})), Call("on_stop", {a})) \in Seq(Frame)
      BY StackTypes, CallIsFrame, PushFacts DEF Callback, InProgress
    <2> QED
      BY <1>3, <2>1 DEF UnregisterAgent, Fails, Erase, Executing, Code, Phase
  <1>4. ASSUME NEW a \in Agent, Send(a) PROVE TypeOK'
    <2>1. queue' \in Seq(Message) /\ result' \in Code
      BY <1>4, TransmitType, OutcomesAssumption DEF OutcomesAssumption, Send, ResultOf, Code
    <2>2. posted' \in 0 .. MaxPosted
      BY <1>4, BoundsAssumption DEF BoundsAssumption, Send
    <2> QED
      BY <1>4, <2>1, <2>2 DEF Send
  <1>5. ASSUME NEW a \in Agent, PublishEvent(a) PROVE TypeOK'
    BY <1>5, TransmitType, OutcomesAssumption DEF OutcomesAssumption, PublishEvent, ResultOf, Code
  <1>6. CASE BroadcastEvent
    BY <1>6, StackTypes, CallIsFrame DEF BroadcastEvent, InProgress
  <1>7. CASE BroadcastNext
    <2>1. stack # <<>> /\ Top.of \in SUBSET Agent
      BY <1>7, StackTypes DEF BroadcastNext, OnTop
    <2>2. \A a \in Agent, ok \in SendOutcomes :
              Transmit([id |-> next_message_id, target |-> a], ok) => queue' \in Seq(Message)
      BY TransmitType, OutcomesAssumption DEF OutcomesAssumption
    <2>3. Pop \in Seq(Frame) /\ \A a : Replace(Call("broadcast_event", Top.of \ {a})) \in Seq(Frame)
      BY <2>1, StackTypes, CallIsFrame DEF InProgress
    <2>4. result' \in Code /\ stack' \in Seq(Frame)
      BY <1>7, <2>3 DEF BroadcastNext, ResultOf, Code
    <2>6. next_message_id' \in Nat /\ next_message_id' > 0
      <3>1. next_message_id' = next_message_id \/ next_message_id' = next_message_id + 1
        BY <1>7 DEF BroadcastNext
      <3> QED
        BY <3>1
    <2>5. queue' \in Seq(Message)
      BY <1>7, <2>1, <2>2 DEF BroadcastNext
    <2>7. UNCHANGED <<agents, running, posted, seen, phase, broken>>
      BY <1>7 DEF BroadcastNext
    <2> QED
      BY <2>4, <2>5, <2>6, <2>7
  <1>8. CASE Start
    BY <1>8, StackTypes, CallIsFrame DEF Start, InProgress
  <1>9. CASE StartNext
    <2>1. stack # <<>> /\ Top.of \in SUBSET Agent /\ Pop \in Seq(Frame)
      BY <1>9, StackTypes DEF StartNext, OnTop
    <2>2. \A a \in Agent : Append(Replace(Call("start", Top.of \ {a})), Call("on_start", {a})) \in Seq(Frame)
      BY <2>1, StackTypes, CallIsFrame, PushFacts DEF InProgress, Callback
    <2> QED
      BY <1>9, <2>1, <2>2 DEF StartNext, Phase
  <1>10. CASE Stop
    BY <1>10, StackTypes, CallIsFrame DEF Stop, InProgress
  <1>11. CASE StopNext
    <2>1. stack # <<>> /\ Top.of \in SUBSET Agent /\ Pop \in Seq(Frame)
      BY <1>11, StackTypes DEF StopNext, OnTop
    <2>2. \A a \in Agent : Append(Replace(Call("stop", Top.of \ {a})), Call("on_stop", {a})) \in Seq(Frame)
      BY <2>1, StackTypes, CallIsFrame, PushFacts DEF InProgress, Callback
    <2> QED
      BY <1>11, <2>1, <2>2 DEF StopNext, Phase
  <1>12. CASE RunOnce
    BY <1>12, ReceiveType DEF RunOnce
  <1>13. CASE Drain
    BY <1>13, StackTypes, CallIsFrame DEF Drain, InProgress
  <1>14. CASE DrainTest
    BY <1>14, StackTypes, CallIsFrame DEF DrainTest, OnTop, InProgress
  <1>15. CASE DrainRunOnce
    <2>1. Pop \in Seq(Frame) /\ Replace(Call("drain", {})) \in Seq(Frame)
      BY <1>15, StackTypes, CallIsFrame DEF DrainRunOnce, OnTop, InProgress
    <2> QED
      BY <1>15, <2>1, ReceiveType DEF DrainRunOnce
  <1>16. CASE UnregisterErase
    BY <1>16, StackTypes DEF UnregisterErase, OnTop, Erase, Executing, Code, Phase
  <1>17. ASSUME NEW a \in Agent, ForeignSend(a) PROVE TypeOK'
    <2>1. queue' \in Seq(Message)
      BY <1>17, MessageTypes, PushFacts DEF ForeignSend, Transport!Send
    <2>2. posted' \in 0 .. MaxPosted
      BY <1>17, BoundsAssumption DEF BoundsAssumption, ForeignSend
    <2> QED
      BY <1>17, <2>1, <2>2 DEF ForeignSend
  <1>18. CASE ForeignReceive
    BY <1>18, QueueFacts DEF ForeignReceive, Transport!Receive
  <1>19. ASSUME NEW c \in Callback, Return(c) PROVE TypeOK'
    BY <1>19, StackTypes DEF Return, OnTop
  <1>20. ASSUME NEW c \in Callback, Throw(c) PROVE TypeOK'
    <2>1. stack' \in Seq(Frame)
      BY <1>20, ThrowCuts
    <2> QED
      BY <1>20, <2>1 DEF Throw
  <1>21. CASE UNCHANGED vars
    BY <1>21 DEF vars
  <1> QED
    BY <1>1, <1>2, <1>3, <1>4, <1>5, <1>6, <1>7, <1>8, <1>9, <1>10, <1>11, <1>12, <1>13,
       <1>14, <1>15, <1>16, <1>17, <1>18, <1>19, <1>20, <1>21 DEF Next, UserCall, RuntimeStep, Foreign

(* Every variable of the runtime keeps its type, whatever the callbacks    *)
(* call and throw.                                                         *)
THEOREM TypeCorrect == Spec => []TypeOK
  BY TypeInit, TypeNext, PTL DEF Spec

-----------------------------------------------------------------------------
(* Message ids. *)

LEMMA QueueTypes ==
    ASSUME TypeOK
    PROVE  /\ queue \in Seq(Message) /\ DOMAIN queue = 1 .. Len(queue) /\ Len(queue) \in Nat
           /\ next_message_id \in Nat /\ next_message_id > 0 /\ seen \in Nat
           /\ \A i \in 1 .. Len(queue) : queue[i].id \in Nat
  <1>1. /\ queue \in Seq(Message)
        /\ next_message_id \in Nat /\ next_message_id > 0 /\ seen \in Nat
    BY DEF TypeOK, Transport!TypeOK
  <1>2. DOMAIN queue = 1 .. Len(queue) /\ Len(queue) \in Nat
    BY <1>1, LenProperties
  <1>3. \A i \in 1 .. Len(queue) : queue[i] \in Message
    BY <1>1, ElementOfSeq
  <1> QED
    BY <1>1, <1>2, <1>3 DEF Message

LEMMA AppendInOrder ==
    ASSUME TypeOK, InOrder, NEW id \in Nat, NEW a \in Agent,
           queue' = Append(queue, [id |-> id, target |-> a]),
           seen' = seen, next_message_id' \in Nat, next_message_id' >= next_message_id,
           id # 0 => id = next_message_id /\ next_message_id' = next_message_id + 1
    PROVE  InOrder'
  <1> DEFINE m == [id |-> id, target |-> a]
  <1>1. m \in Message /\ m.id = id
    BY MessageTypes
  <1> HIDE DEF m
  <1>2. PICK n \in Nat : n = Len(queue)
    BY QueueTypes
  <1>3. /\ DOMAIN queue = 1 .. n
        /\ DOMAIN queue' = 1 .. n + 1
        /\ queue'[n + 1].id = id
        /\ \A i \in 1 .. n : queue'[i] = queue[i]
    BY <1>1, <1>2, QueueTypes, PushFacts DEF m
  <1>4. \A i \in 1 .. n : queue[i].id \in Nat
    BY <1>2, QueueTypes
  <1>5. seen < next_message_id /\ seen \in Nat /\ next_message_id \in Nat
    BY QueueTypes DEF InOrder
  <1>6. \A i \in 1 .. n : queue[i].id # 0 =>
            queue[i].id > seen /\ queue[i].id < next_message_id
    BY <1>3 DEF InOrder
  <1>7. \A i \in 1 .. n : queue[i].id # 0 => \A j \in 1 .. i - 1 : queue[j].id < queue[i].id
    BY <1>3 DEF InOrder
  <1>8. seen' < next_message_id'
    BY <1>5
  <1>9. ASSUME NEW i \in 1 .. n + 1, queue'[i].id # 0
        PROVE  /\ queue'[i].id > seen' /\ queue'[i].id < next_message_id'
               /\ \A j \in 1 .. i - 1 : queue'[j].id < queue'[i].id
    <2>1. CASE i = n + 1
      <3>1. id # 0 /\ id = next_message_id /\ next_message_id' = next_message_id + 1
        BY <1>3, <1>9, <2>1
      <3>2. \A j \in 1 .. n : queue'[j].id < id
        BY <1>3, <1>4, <1>5, <1>6, <3>1
      <3> QED
        BY <1>3, <1>5, <2>1, <3>1, <3>2
    <2>2. CASE i \in 1 .. n
      <3>1. queue[i].id # 0 /\ queue'[i].id = queue[i].id
        BY <1>3, <1>9, <2>2
      <3>2. queue[i].id > seen /\ queue[i].id < next_message_id /\ queue[i].id \in Nat
        BY <1>4, <1>6, <2>2, <3>1
      <3>3. \A j \in 1 .. i - 1 : j \in 1 .. n /\ queue'[j].id < queue'[i].id
        BY <1>3, <1>7, <2>2, <3>1
      <3>4. queue[i].id > seen' /\ queue[i].id < next_message_id'
        BY <1>5, <3>2
      <3> QED
        BY <3>1, <3>3, <3>4
    <2>3. i = n + 1 \/ i \in 1 .. n
      BY <1>9
    <2> QED
      BY <2>1, <2>2, <2>3
  <1> QED
    BY <1>3, <1>8, <1>9 DEF InOrder

LEMMA SameQueueInOrder ==
    ASSUME TypeOK, InOrder, queue' = queue, seen' = seen,
           next_message_id' \in Nat, next_message_id' >= next_message_id
    PROVE  InOrder'
  <1>1. seen < next_message_id /\ seen \in Nat /\ next_message_id \in Nat
    BY QueueTypes DEF InOrder
  <1>2. \A i \in DOMAIN queue : queue[i].id \in Nat
    BY QueueTypes
  <1>3. \A i \in DOMAIN queue : queue[i].id # 0 => queue[i].id < next_message_id'
    BY <1>1, <1>2 DEF InOrder
  <1> QED
    BY <1>1, <1>3 DEF InOrder

LEMMA ReceiveInOrder ==
    ASSUME TypeOK, InOrder, Transport!Receive,
           seen' = seen \/ seen' = IF Transport!Front.id = 0 THEN seen ELSE Transport!Front.id,
           next_message_id' = next_message_id
    PROVE  InOrder'
  <1>1. PICK n \in Nat : n = Len(queue) /\ n # 0
    BY QueueTypes, QueueFacts DEF Transport!Receive
  <1>2. /\ DOMAIN queue = 1 .. n
        /\ DOMAIN queue' = 1 .. n - 1
        /\ \A i \in 1 .. n - 1 : queue'[i] = queue[i + 1]
        /\ Transport!Front = queue[1]
    BY <1>1, QueueTypes, QueueFacts DEF Transport!Receive, Transport!Front
  <1>3. \A i \in 1 .. n : queue[i].id \in Nat
    BY <1>1, QueueTypes
  <1>4. seen < next_message_id /\ seen \in Nat /\ next_message_id \in Nat
    BY QueueTypes DEF InOrder
  <1>5. \A i \in 1 .. n : queue[i].id # 0 =>
            queue[i].id > seen /\ queue[i].id < next_message_id
    BY <1>2 DEF InOrder
  <1>6. \A i \in 1 .. n : queue[i].id # 0 => \A j \in 1 .. i - 1 : queue[j].id < queue[i].id
    BY <1>2 DEF InOrder
  <1>7. 1 \in 1 .. n
    BY <1>1
  <1>8. seen' = seen \/ (seen' = queue[1].id /\ queue[1].id # 0)
    BY <1>2
  <1>9. seen' < next_message_id'
    BY <1>4, <1>5, <1>7, <1>8
  <1>10. ASSUME NEW i \in 1 .. n - 1, queue'[i].id # 0
         PROVE  /\ queue'[i].id > seen' /\ queue'[i].id < next_message_id'
                /\ \A j \in 1 .. i - 1 : queue'[j].id < queue'[i].id
    <2>1. i + 1 \in 1 .. n /\ queue'[i].id = queue[i + 1].id /\ queue[i + 1].id # 0
      BY <1>1, <1>2, <1>10
    <2>2. queue[1].id < queue[i + 1].id
      <3>1. 1 \in 1 .. (i + 1) - 1
        BY <2>1
      <3> QED
        BY <1>6, <2>1, <3>1
    <2>3. \A j \in 1 .. i - 1 : queue'[j].id < queue'[i].id
      <3> TAKE j \in 1 .. i - 1
      <3>1. j \in 1 .. n - 1 /\ j + 1 \in 1 .. (i + 1) - 1
        BY <2>1
      <3>2. queue[j + 1].id < queue[i + 1].id
        BY <1>6, <2>1, <3>1
      <3> QED
        BY <1>2, <2>1, <3>1, <3>2
    <2> QED
      BY <1>4, <1>5, <1>8, <2>1, <2>2, <2>3
  <1> QED
    BY <1>2, <1>9, <1>10 DEF InOrder

LEMMA TransmitInOrder ==
    ASSUME TypeOK, InOrder, NEW id \in Nat, NEW a \in Agent, NEW ok \in BOOLEAN,
           Transmit([id |-> id, target |-> a], ok),
           seen' = seen, next_message_id' \in Nat, next_message_id' >= next_message_id,
           id # 0 => id = next_message_id /\ next_message_id' = next_message_id + 1
    PROVE  InOrder'
  <1> DEFINE m == [id |-> id, target |-> a]
  <1> HIDE DEF m
  <1>1. queue' = Append(queue, m) \/ queue' = queue
    BY DEF Transmit, Transport!Send, m
  <1>2. CASE queue' = Append(queue, m)
    BY <1>2, AppendInOrder DEF m
  <1>3. CASE queue' = queue
    BY <1>3, SameQueueInOrder
  <1> QED
    BY <1>1, <1>2, <1>3

LEMMA InOrderInit == Init => InOrder
  BY DEF Init, Transport!Init, InOrder

LEMMA ReceiveStepInOrder ==
    ASSUME TypeOK, InOrder, NEW done, NEW failed, ReceiveAndDispatch(done, failed)
    PROVE  InOrder'
  <1>1. next_message_id' = next_message_id /\ next_message_id \in Nat
    BY QueueTypes DEF ReceiveAndDispatch
  <1>2. CASE Transport!Receive /\ running
    <2>1. \/ seen' = seen
          \/ seen' = IF Transport!Front.id = 0 THEN seen ELSE Transport!Front.id
      BY <1>2 DEF ReceiveAndDispatch
    <2> QED
      BY <1>1, <1>2, <2>1, ReceiveInOrder
  <1>3. CASE queue' = queue /\ seen' = seen
    BY <1>1, <1>3, SameQueueInOrder
  <1>4. (Transport!Receive /\ running) \/ (queue' = queue /\ seen' = seen)
    BY DEF ReceiveAndDispatch, Transport!ReceiveNothing
  <1> QED
    BY <1>2, <1>3, <1>4

LEMMA InOrderNext == TypeOK /\ InOrder /\ [Next]_vars => InOrder'
  <1> SUFFICES ASSUME TypeOK, InOrder, [Next]_vars PROVE InOrder'
    OBVIOUS
  <1>1. next_message_id \in Nat /\ next_message_id >= next_message_id
        /\ next_message_id + 1 \in Nat /\ next_message_id + 1 >= next_message_id
        /\ next_message_id # 0 /\ 0 \in Nat
    BY QueueTypes
  <1>2. SendOutcomes \subseteq BOOLEAN
    BY OutcomesAssumption DEF OutcomesAssumption
  <1>3. CASE UNCHANGED <<queue, seen, next_message_id>>
    BY <1>1, <1>3, SameQueueInOrder
  <1>4. ASSUME NEW a \in Agent, Send(a) PROVE InOrder'
    <2>1. PICK ok \in SendOutcomes : Transmit([id |-> 0, target |-> a], ok)
      BY <1>4 DEF Send
    <2>2. seen' = seen /\ next_message_id' = next_message_id
      BY <1>4 DEF Send
    <2> QED
      BY <1>1, <1>2, <2>1, <2>2, TransmitInOrder
  <1>5. ASSUME NEW a \in Agent, PublishEvent(a) PROVE InOrder'
    <2>1. PICK ok \in SendOutcomes : Transmit([id |-> next_message_id, target |-> a], ok)
      BY <1>5 DEF PublishEvent
    <2>2. seen' = seen /\ next_message_id' = next_message_id + 1
      BY <1>5 DEF PublishEvent
    <2> QED
      BY <1>1, <1>2, <2>1, <2>2, TransmitInOrder
  <1>6. CASE BroadcastNext
    <2>1. CASE UNCHANGED <<next_message_id, queue>>
      BY <1>1, <1>6, <2>1, SameQueueInOrder DEF BroadcastNext
    <2>2. CASE ~ UNCHANGED <<next_message_id, queue>>
      <3>1. PICK a \in Top.of, ok \in SendOutcomes :
                /\ Transmit([id |-> next_message_id, target |-> a], ok)
                /\ next_message_id' = next_message_id + 1
        BY <1>6, <2>2 DEF BroadcastNext
      <3>2. seen' = seen /\ a \in Agent
        BY <1>6, StackTypes DEF BroadcastNext, OnTop, TypeOK
      <3> QED
        BY <1>1, <1>2, <3>1, <3>2, TransmitInOrder
    <2> QED
      BY <2>1, <2>2
  <1>7. CASE RunOnce
    BY <1>7, ReceiveStepInOrder DEF RunOnce
  <1>8. CASE DrainRunOnce
    BY <1>8, ReceiveStepInOrder DEF DrainRunOnce
  <1>9. ASSUME NEW a \in Agent, ForeignSend(a) PROVE InOrder'
    <2>1. queue' = Append(queue, [id |-> 0, target |-> a])
      BY <1>9 DEF ForeignSend, Transport!Send
    <2>2. seen' = seen /\ next_message_id' = next_message_id
      BY <1>9 DEF ForeignSend
    <2> QED
      BY <1>1, <2>1, <2>2, AppendInOrder
  <1>10. CASE ForeignReceive
    BY <1>10, ReceiveInOrder DEF ForeignReceive
  <1>11. \/ \E a \in Agent : Send(a) \/ PublishEvent(a) \/ ForeignSend(a)
         \/ BroadcastNext \/ RunOnce \/ DrainRunOnce \/ ForeignReceive
         \/ UNCHANGED <<queue, seen, next_message_id>>
    <2>1. ASSUME NEW a \in Agent, RegisterAgent(a) \/ UnregisterAgent(a)
          PROVE  UNCHANGED <<queue, seen, next_message_id>>
      BY <2>1 DEF RegisterAgent, UnregisterAgent, Fails
    <2>2. CASE RegisterInvalid \/ BroadcastEvent \/ Start \/ Stop \/ Drain
      BY <2>2 DEF RegisterInvalid, Fails, BroadcastEvent, Start, Stop, Drain
    <2>3. CASE UnregisterErase \/ StartNext \/ StopNext \/ DrainTest
      BY <2>3 DEF UnregisterErase, StartNext, StopNext, DrainTest
    <2>4. ASSUME NEW c \in Callback, Return(c) \/ Throw(c)
          PROVE  UNCHANGED <<queue, seen, next_message_id>>
      BY <2>4 DEF Return, Throw
    <2>5. CASE UNCHANGED vars
      BY <2>5 DEF vars
    <2> QED
      BY <2>1, <2>2, <2>3, <2>4, <2>5 DEF Next, UserCall, RuntimeStep, Foreign
  <1> QED
    BY <1>3, <1>4, <1>5, <1>6, <1>7, <1>8, <1>9, <1>10, <1>11

(* No id is used twice and no message is received twice or out of order,   *)
(* whatever the callbacks call and throw, the transport refuses and other  *)
(* threads send and receive.                                               *)
THEOREM IdsInOrder == Spec => []InOrder
  <1>1. Init => TypeOK /\ InOrder
    BY TypeInit, InOrderInit
  <1>2. TypeOK /\ InOrder /\ [Next]_vars => (TypeOK /\ InOrder)'
    BY TypeNext, InOrderNext
  <1> QED
    BY <1>1, <1>2, PTL DEF Spec

-----------------------------------------------------------------------------
(* The shape of the call stack under the contract.  Below an operation     *)
(* that iterates or dispatches there are only drains and the on_message    *)
(* they wait for; above a loop over the registry there is at most one      *)
(* on_start or on_stop and a broadcast it made.                            *)

Loops       == {"start", "stop", "unregister_agent"}
Dispatchers == {"drain", "on_message"}

FrameOK(s, i) ==
    /\ s[i].op \in Loops \cup Dispatchers \cup {"drain_run_once"} =>
           \A k \in 1 .. i - 1 : s[k].op \in Dispatchers
    /\ s[i].op = "on_start" => i # 1 /\ s[i - 1].op = "start"
    /\ s[i].op = "on_stop" => i # 1 /\ s[i - 1].op \in {"stop", "unregister_agent"}
    /\ s[i].op \in {"broadcast_event", "drain_run_once"} => i = Len(s)
    /\ s[i].op \in Callback \cup {"unregister_agent"} => \E a \in Agent : s[i].of = {a}
    /\ s[i].op = "unregister_agent" =>
           \A k \in 1 .. i - 1 : s[k].op = "on_message" => s[k].of \cap s[i].of = {}

Shaped(s) == \A i \in DOMAIN s : FrameOK(s, i)
Looping(s) == \E i \in DOMAIN s : s[i].op \in Loops

(* How far the agents are, by the loop over the registry in progress.  An  *)
(* exception of on_start or on_stop leaves the loop early, so what the     *)
(* loops find and the runtime is left with between two of them is known    *)
(* only without such exceptions.                                           *)
Phases ==
    /\ \A a \in Agent : a \in agents <=> phase[a] # "absent"
    /\ ~running => ~Looping(stack) /\ \A a \in Agent : phase[a] # "active"
    /\ LoopsUndisturbed /\ running /\ ~Looping(stack) =>
           \A a \in agents : phase[a] \in {"fresh", "active"}

FramePhases(f, ag, ph) ==
    /\ f.op = "start" => \A a \in ag :
           IF a \in f.of THEN ph[a] \in {"fresh", "stopped"} ELSE ph[a] = "active"
    /\ f.op = "stop" => \A a \in ag :
           IF a \in f.of THEN LoopsUndisturbed => ph[a] \in {"fresh", "active"}
           ELSE ph[a] = "stopped"
    /\ f.op = "unregister_agent" => f.of \subseteq ag /\ \A a \in ag :
           IF a \in f.of THEN ph[a] = "stopped"
           ELSE LoopsUndisturbed => ph[a] \in {"fresh", "active"}

LoopPhases(s, ag, ph) == \A i \in DOMAIN s : FramePhases(s[i], ag, ph)

Inv == /\ TypeOK
       /\ ~broken
       /\ Shaped(stack)
       /\ Phases
       /\ LoopPhases(stack, agents, phase)

-----------------------------------------------------------------------------
(* Pushing and popping keep the shape. *)

OnlyDispatchers(s) == \A k \in DOMAIN s : s[k].op \in Dispatchers

CanPush(s, n, f) ==
    /\ n # 0 => s[n].op \notin {"broadcast_event", "drain_run_once"}
    /\ f.op \in Loops \cup Dispatchers \cup {"drain_run_once"} => OnlyDispatchers(s)
    /\ f.op = "on_start" => n # 0 /\ s[n].op = "start"
    /\ f.op = "on_stop" => n # 0 /\ s[n].op \in {"stop", "unregister_agent"}
    /\ f.op \in Callback \cup {"unregister_agent"} => \E a \in Agent : f.of = {a}
    /\ f.op = "unregister_agent" =>
           \A k \in 1 .. n : s[k].op = "on_message" => s[k].of \cap f.of = {}

LEMMA PushShaped ==
    ASSUME NEW s \in Seq(Frame), NEW f \in Frame, NEW n \in Nat, n = Len(s),
           Shaped(s), CanPush(s, n, f)
    PROVE  Shaped(Append(s, f))
  <1> DEFINE t == Append(s, f)
  <1> HIDE DEF t
  <1>1. /\ DOMAIN s = 1 .. n /\ DOMAIN t = 1 .. n + 1 /\ Len(t) = n + 1
        /\ t[n + 1] = f /\ \A i \in 1 .. n : t[i] = s[i]
    BY PushFacts DEF t
  <1>2. ASSUME NEW i \in 1 .. n PROVE FrameOK(t, i)
    <2>1. FrameOK(s, i) /\ t[i] = s[i]
      BY <1>1 DEF Shaped
    <2>2. \A k \in 1 .. i - 1 : t[k] = s[k]
      BY <1>1
    <2>3. i # 1 => t[i - 1] = s[i - 1]
      BY <1>1
    <2>4. s[i].op \notin {"broadcast_event", "drain_run_once"}
      <3>1. CASE i = n
        BY <3>1 DEF CanPush
      <3>2. CASE i # n
        BY <2>1, <3>2 DEF FrameOK
      <3> QED
        BY <3>1, <3>2
    <2> QED
      BY <2>1, <2>2, <2>3, <2>4 DEF FrameOK
  <1>3. FrameOK(t, n + 1)
    <2>1. \A k \in 1 .. (n + 1) - 1 : k \in 1 .. n /\ t[k] = s[k]
      BY <1>1
    <2>2. (n + 1) - 1 = n /\ (n # 0 => n \in 1 .. n /\ t[n] = s[n])
      BY <1>1
    <2>3. n = 0 => n + 1 = 1
      OBVIOUS
    <2>4. n # 0 => n + 1 # 1
      OBVIOUS
    <2> QED
      BY <1>1, <2>1, <2>2, <2>3, <2>4 DEF FrameOK, CanPush, OnlyDispatchers
  <1>4. \A i \in 1 .. n + 1 : i \in 1 .. n \/ i = n + 1
    OBVIOUS
  <1> QED
    BY <1>1, <1>2, <1>3, <1>4 DEF Shaped, t

LEMMA PopShaped ==
    ASSUME NEW s \in Seq(Frame), s # <<>>, Shaped(s)
    PROVE  Shaped(SubSeq(s, 1, Len(s) - 1))
  <1> DEFINE t == SubSeq(s, 1, Len(s) - 1)
  <1> HIDE DEF t
  <1>1. PICK n \in Nat : n = Len(s) /\ n # 0
    BY PopFacts
  <1>2. /\ DOMAIN s = 1 .. n /\ DOMAIN t = 1 .. n - 1
        /\ \A i \in 1 .. n - 1 : t[i] = s[i]
    BY <1>1, PopFacts DEF t
  <1>3. ASSUME NEW i \in 1 .. n - 1 PROVE FrameOK(t, i)
    <2>1. FrameOK(s, i) /\ t[i] = s[i] /\ i # n
      BY <1>1, <1>2 DEF Shaped
    <2>2. \A k \in 1 .. i - 1 : t[k] = s[k]
      BY <1>1, <1>2
    <2>3. i # 1 => t[i - 1] = s[i - 1]
      BY <1>1, <1>2
    <2>4. s[i].op \notin {"broadcast_event", "drain_run_once"}
      BY <1>1, <2>1 DEF FrameOK
    <2> QED
      BY <2>1, <2>2, <2>3, <2>4 DEF FrameOK
  <1> QED
    BY <1>2, <1>3 DEF Shaped, t

(* What is below the top of a well-shaped stack. *)
LEMMA BelowTop ==
    ASSUME NEW s \in Seq(Frame), s # <<>>, Shaped(s),
           s[Len(s)].op \in Loops \cup Dispatchers \cup {"drain_run_once"}
    PROVE  /\ OnlyDispatchers(SubSeq(s, 1, Len(s) - 1))
           /\ s[Len(s)].op \in Dispatchers => OnlyDispatchers(s)
           /\ s[Len(s)].op \notin Loops => ~Looping(s)
  <1> DEFINE t == SubSeq(s, 1, Len(s) - 1)
  <1> HIDE DEF t
  <1>1. PICK n \in Nat : n = Len(s) /\ n # 0
    BY PopFacts
  <1>2. /\ DOMAIN s = 1 .. n /\ DOMAIN t = 1 .. n - 1
        /\ \A i \in 1 .. n - 1 : t[i] = s[i]
    BY <1>1, PopFacts DEF t
  <1>3. n \in 1 .. n
    BY <1>1
  <1>4. \A k \in 1 .. n - 1 : s[k].op \in Dispatchers
    BY <1>1, <1>2, <1>3 DEF Shaped, FrameOK
  <1>5. \A k \in 1 .. n : k \in 1 .. n - 1 \/ k = n
    OBVIOUS
  <1>6. \A op \in Dispatchers : op \notin Loops
    BY DEF Dispatchers, Loops
  <1>7. OnlyDispatchers(t)
    BY <1>2, <1>4 DEF OnlyDispatchers
  <1>8. s[n].op \in Dispatchers => OnlyDispatchers(s)
    BY <1>2, <1>4, <1>5 DEF OnlyDispatchers
  <1>9. s[n].op \notin Loops => ~Looping(s)
    BY <1>2, <1>4, <1>5, <1>6 DEF Looping
  <1> QED
    BY <1>1, <1>7, <1>8, <1>9 DEF t

LEMMA NotLooping ==
    ASSUME NEW s, OnlyDispatchers(s)
    PROVE  ~Looping(s)
  BY DEF OnlyDispatchers, Looping, Dispatchers, Loops

-----------------------------------------------------------------------------
(* Who calls what under the contract. *)

LEMMA StackLen ==
    ASSUME stack \in Seq(Frame)
    PROVE  \E n \in Nat : /\ n = Len(stack) /\ DOMAIN stack = 1 .. n
                          /\ (n = 0 <=> stack = <<>>)
  <1>1. Len(stack) \in Nat /\ DOMAIN stack = 1 .. Len(stack)
    BY LenProperties
  <1>2. stack = <<>> => Len(stack) = 0
    BY EmptySeq
  <1>3. stack # <<>> => Len(stack) # 0
    BY EmptySeq
  <1> QED
    BY <1>1, <1>2, <1>3

Restricted == {"register_agent", "unregister_agent", "start", "stop", "run_once", "drain"}

LEMMA CallerIsMainOrMessage ==
    ASSUME SafeDiscipline, TypeOK, Shaped(stack), Phases,
           NEW op \in Restricted, Calls(op), op = "start" => ~running
    PROVE  /\ OnlyDispatchers(stack)
           /\ stack # <<>> => Top.op = "on_message" /\ op \in MayCall["on_message"]
  <1>1. stack \in Seq(Frame)
    BY DEF TypeOK
  <1>2. PICK n \in Nat : n = Len(stack) /\ DOMAIN stack = 1 .. n /\ (n = 0 <=> stack = <<>>)
    BY <1>1, StackLen
  <1>3. CASE stack = <<>>
    BY <1>2, <1>3 DEF OnlyDispatchers
  <1>4. CASE stack # <<>>
    <2>1. Top \in Frame /\ Top.op \in Callback /\ op \in MayCall[Top.op]
      BY <1>1, <1>4, StackTypes DEF Calls, Caller, Frame, Callback, InProgress
    <2>2. n \in 1 .. n /\ FrameOK(stack, n) /\ Top = stack[n]
      BY <1>2, <1>4 DEF Shaped, Top
    <2>3. ASSUME Top.op # "on_message" PROVE FALSE
      <3>1. Top.op = "on_start" \/ Top.op = "on_stop"
        BY <2>1, <2>3 DEF Callback
      <3>2. op = "start" /\ ~running
        BY <2>1, <3>1 DEF SafeDiscipline, Restricted
      <3>3. n # 1 /\ stack[n - 1].op \in Loops
        BY <2>2, <3>1 DEF FrameOK, Loops
      <3>4. n - 1 \in 1 .. n
        BY <2>2, <3>3
      <3>5. Looping(stack)
        BY <1>2, <3>3, <3>4 DEF Looping
      <3> QED
        BY <3>2, <3>5 DEF Phases
    <2>4. Top.op = "on_message" /\ op \in MayCall["on_message"]
      BY <2>1, <2>3
    <2>5. stack[Len(stack)].op \in Dispatchers
      BY <2>4 DEF Top, Dispatchers
    <2> QED
      BY <1>1, <1>4, <2>4, <2>5, BelowTop
  <1> QED
    BY <1>3, <1>4

(* Under the contract an agent may be removed only where no method of its  *)
(* own is executing.                                                       *)
LEMMA RemovalIsSafe ==
    ASSUME SafeDiscipline, TypeOK, Shaped(stack), Phases, NEW a \in Agent, UnregisterAgent(a)
    PROVE  /\ ~Executing(a)
           /\ \A k \in DOMAIN stack : stack[k].op = "on_message" => a \notin stack[k].of
  <1>1. Calls("unregister_agent") /\ (Executing(a) => RemovesExecuting)
    BY DEF UnregisterAgent
  <1>2. /\ OnlyDispatchers(stack)
        /\ stack # <<>> => "unregister_agent" \in MayCall["on_message"]
    BY <1>1, CallerIsMainOrMessage DEF Restricted
  <1>3. CASE stack = <<>>
    <2>1. DOMAIN stack = {}
      BY <1>3, EmptySeq
    <2> QED
      BY <2>1 DEF Executing
  <1>4. CASE stack # <<>>
    <2>1. ~Executing(a)
      BY <1>1, <1>2, <1>4 DEF SafeDiscipline
    <2> QED
      BY <2>1 DEF Executing, Callback
  <1> QED
    BY <1>3, <1>4

(* unregister_agent erases an agent that is still there and not executing. *)
LEMMA EraseIsSafe ==
    ASSUME TypeOK, Shaped(stack), LoopPhases(stack, agents, phase),
           stack # <<>>, Top.op = "unregister_agent"
    PROVE  /\ Top.of \subseteq agents
           /\ \A a \in Top.of : ~Executing(a)
           /\ OnlyDispatchers(Pop)
  <1>1. stack \in Seq(Frame)
    BY DEF TypeOK
  <1>2. PICK n \in Nat : n = Len(stack) /\ DOMAIN stack = 1 .. n /\ n # 0
    BY <1>1, StackLen
  <1>3. n \in 1 .. n /\ FrameOK(stack, n) /\ Top = stack[n]
    BY <1>2 DEF Shaped, Top
  <1>4. \A k \in 1 .. n - 1 : /\ stack[k].op \in Dispatchers
                              /\ stack[k].op = "on_message" => stack[k].of \cap Top.of = {}
    BY <1>3 DEF FrameOK, Loops
  <1>5. \A k \in 1 .. n : k \in 1 .. n - 1 \/ k = n
    OBVIOUS
  <1>6. \A a \in Top.of, k \in 1 .. n : stack[k].op \in Callback => a \notin stack[k].of
    BY <1>3, <1>4, <1>5 DEF Dispatchers, Callback
  <1>7. Top.of \subseteq agents
    BY <1>2, <1>3 DEF LoopPhases, FramePhases
  <1>8. OnlyDispatchers(Pop)
    BY <1>1, <1>2, BelowTop DEF Top, Pop, Loops
  <1> QED
    BY <1>2, <1>6, <1>7, <1>8 DEF Executing

-----------------------------------------------------------------------------
(* The shape is kept by every step. *)

LEMMA PushLoop ==
    ASSUME NEW s \in Seq(Frame), Shaped(s), OnlyDispatchers(s),
           NEW op \in {"start", "stop", "drain", "drain_run_once"}, NEW of \in SUBSET Agent
    PROVE  /\ Append(s, Call(op, of)) \in Seq(Frame)
           /\ Shaped(Append(s, Call(op, of)))
           /\ Append(s, Call(op, of)) # <<>>
           /\ Append(s, Call(op, of))[Len(Append(s, Call(op, of)))].op = op
  <1>1. PICK n \in Nat : n = Len(s) /\ DOMAIN s = 1 .. n /\ (s = <<>> => n = 0)
    BY LenProperties, EmptySeq
  <1> DEFINE f == Call(op, of)
  <1>2. f \in Frame /\ f.op = op /\ f.of = of
    BY CallIsFrame DEF InProgress
  <1> HIDE DEF f
  <1>3. n # 0 => s[n].op \in Dispatchers
    BY <1>1 DEF OnlyDispatchers
  <1>4. CanPush(s, n, f)
    BY <1>1, <1>2, <1>3 DEF CanPush, Dispatchers, Callback
  <1>5. Shaped(Append(s, f))
    BY <1>1, <1>2, <1>4, PushShaped
  <1>6. /\ Append(s, f) \in Seq(Frame) /\ Append(s, f) # <<>>
        /\ Append(s, f)[Len(Append(s, f))].op = op
    BY <1>1, <1>2, PushFacts
  <1> QED
    BY <1>5, <1>6 DEF f

LEMMA PushMessage ==
    ASSUME NEW s \in Seq(Frame), Shaped(s), OnlyDispatchers(s), NEW a \in Agent
    PROVE  Shaped(Append(s, Call("on_message", {a})))
  <1>1. PICK n \in Nat : n = Len(s) /\ DOMAIN s = 1 .. n
    BY LenProperties
  <1> DEFINE f == Call("on_message", {a})
  <1>2. f \in Frame /\ f.op = "on_message" /\ f.of = {a}
    BY CallIsFrame DEF Callback
  <1> HIDE DEF f
  <1>3. n # 0 => s[n].op \in Dispatchers
    BY <1>1 DEF OnlyDispatchers
  <1>4. CanPush(s, n, f)
    BY <1>1, <1>2, <1>3 DEF CanPush, Dispatchers
  <1> QED
    BY <1>1, <1>2, <1>4, PushShaped DEF f

LEMMA PushCallback ==
    ASSUME NEW s \in Seq(Frame), s # <<>>, Shaped(s), NEW a \in Agent,
           NEW op \in {"on_start", "on_stop"},
           op = "on_start" => s[Len(s)].op = "start",
           op = "on_stop" => s[Len(s)].op \in {"stop", "unregister_agent"}
    PROVE  Shaped(Append(s, Call(op, {a})))
  <1>1. PICK n \in Nat : n = Len(s) /\ n # 0
    BY PopFacts
  <1> DEFINE f == Call(op, {a})
  <1>2. f \in Frame /\ f.op = op /\ f.of = {a}
    BY CallIsFrame DEF Callback
  <1> HIDE DEF f
  <1>3. CanPush(s, n, f)
    BY <1>1, <1>2 DEF CanPush, Dispatchers, Loops
  <1> QED
    BY <1>1, <1>2, <1>3, PushShaped DEF f

LEMMA PushBroadcast ==
    ASSUME NEW s \in Seq(Frame), Shaped(s), NEW of \in SUBSET Agent,
           s # <<>> => s[Len(s)].op \notin {"broadcast_event", "drain_run_once"}
    PROVE  Shaped(Append(s, Call("broadcast_event", of)))
  <1>1. PICK n \in Nat : n = Len(s) /\ (s = <<>> => n = 0)
    BY LenProperties, EmptySeq
  <1> DEFINE f == Call("broadcast_event", of)
  <1>2. f \in Frame /\ f.op = "broadcast_event"
    BY CallIsFrame DEF InProgress
  <1> HIDE DEF f
  <1>3. CanPush(s, n, f)
    BY <1>1, <1>2 DEF CanPush, Dispatchers, Loops, Callback
  <1> QED
    BY <1>1, <1>2, <1>3, PushShaped DEF f

LEMMA PushUnregister ==
    ASSUME NEW s \in Seq(Frame), Shaped(s), OnlyDispatchers(s), NEW a \in Agent,
           \A k \in DOMAIN s : s[k].op = "on_message" => a \notin s[k].of
    PROVE  Shaped(Append(Append(s, Call("unregister_agent", {a})), Call("on_stop", {a})))
  <1>1. PICK n \in Nat : n = Len(s) /\ DOMAIN s = 1 .. n
    BY LenProperties
  <1> DEFINE f == Call("unregister_agent", {a})
             t == Append(s, f)
  <1>2. f \in Frame /\ f.op = "unregister_agent" /\ f.of = {a}
    BY CallIsFrame DEF InProgress
  <1> HIDE DEF f
  <1>3. n # 0 => s[n].op \in Dispatchers
    BY <1>1 DEF OnlyDispatchers
  <1>4. CanPush(s, n, f)
    BY <1>1, <1>2, <1>3 DEF CanPush, Dispatchers, Callback
  <1>5. Shaped(t)
    BY <1>1, <1>2, <1>4, PushShaped
  <1>6. t \in Seq(Frame) /\ t # <<>> /\ t[Len(t)].op = "unregister_agent"
    BY <1>1, <1>2, PushFacts
  <1> HIDE DEF t
  <1>7. Shaped(Append(t, Call("on_stop", {a})))
    BY <1>5, <1>6, PushCallback
  <1> QED
    BY <1>7 DEF t, f

LEMMA PopOfTop ==
    ASSUME stack \in Seq(Frame), stack # <<>>, Shaped(stack)
    PROVE  /\ Pop \in Seq(Frame) /\ Shaped(Pop)
           /\ Top.op \in Loops \cup Dispatchers \cup {"drain_run_once"} => OnlyDispatchers(Pop)
           /\ Pop # <<>> => Pop[Len(Pop)].op \notin {"broadcast_event", "drain_run_once"}
  <1>1. Pop \in Seq(Frame) /\ Shaped(Pop)
    BY PopShaped, PopFacts DEF Pop
  <1>2. Top.op \in Loops \cup Dispatchers \cup {"drain_run_once"} => OnlyDispatchers(Pop)
    BY BelowTop DEF Top, Pop
  <1>3. PICK n \in Nat : /\ n = Len(stack) /\ n # 0 /\ DOMAIN stack = 1 .. n
                         /\ Len(Pop) = n - 1 /\ \A i \in 1 .. n - 1 : Pop[i] = stack[i]
    BY PopFacts DEF Pop
  <1>4. ASSUME Pop # <<>>
        PROVE  Pop[Len(Pop)].op \notin {"broadcast_event", "drain_run_once"}
    <2>1. Len(Pop) # 0
      BY <1>1, <1>4, EmptySeq
    <2>2. n - 1 \in 1 .. n - 1 /\ n - 1 \in 1 .. n /\ n - 1 # n
      BY <1>3, <2>1
    <2>3. FrameOK(stack, n - 1) /\ Pop[Len(Pop)] = stack[n - 1]
      BY <1>3, <2>2 DEF Shaped
    <2> QED
      BY <1>3, <2>2, <2>3 DEF FrameOK
  <1> QED
    BY <1>1, <1>2, <1>4

-----------------------------------------------------------------------------
(* The phases of the agents, as the stack grows and shrinks. *)

LEMMA PushPhases ==
    ASSUME NEW s \in Seq(Frame), NEW f \in Frame, NEW ag, NEW ph,
           LoopPhases(s, ag, ph), FramePhases(f, ag, ph)
    PROVE  /\ LoopPhases(Append(s, f), ag, ph)
           /\ Looping(Append(s, f)) <=> Looping(s) \/ f.op \in Loops
  <1> DEFINE t == Append(s, f)
  <1>1. PICK n \in Nat : n = Len(s) /\ DOMAIN s = 1 .. n
    BY LenProperties
  <1>2. /\ DOMAIN t = 1 .. n + 1 /\ t[n + 1] = f
        /\ \A i \in 1 .. n : t[i] = s[i]
    BY <1>1, PushFacts
  <1> HIDE DEF t
  <1>3. \A i \in 1 .. n + 1 : i \in 1 .. n \/ i = n + 1
    OBVIOUS
  <1>4. n + 1 \in 1 .. n + 1 /\ \A i \in 1 .. n : i \in 1 .. n + 1
    OBVIOUS
  <1>5. LoopPhases(t, ag, ph)
    BY <1>1, <1>2, <1>3 DEF LoopPhases
  <1>6. Looping(t) <=> Looping(s) \/ f.op \in Loops
    BY <1>1, <1>2, <1>3, <1>4 DEF Looping
  <1> QED
    BY <1>5, <1>6 DEF t

LEMMA PopPhases ==
    ASSUME NEW s \in Seq(Frame), s # <<>>, NEW ag, NEW ph, LoopPhases(s, ag, ph)
    PROVE  LET t == SubSeq(s, 1, Len(s) - 1)
           IN  /\ LoopPhases(t, ag, ph)
               /\ s[Len(s)].op \notin Loops => (Looping(t) <=> Looping(s))
  <1> DEFINE t == SubSeq(s, 1, Len(s) - 1)
  <1>1. PICK n \in Nat : /\ n = Len(s) /\ n # 0 /\ DOMAIN s = 1 .. n /\ DOMAIN t = 1 .. n - 1
                         /\ \A i \in 1 .. n - 1 : t[i] = s[i]
    BY PopFacts
  <1> HIDE DEF t
  <1>2. \A i \in 1 .. n - 1 : i \in 1 .. n
    BY <1>1
  <1>3. \A i \in 1 .. n : i \in 1 .. n - 1 \/ i = n
    OBVIOUS
  <1>4. LoopPhases(t, ag, ph)
    BY <1>1, <1>2 DEF LoopPhases
  <1>5. s[n].op \notin Loops => (Looping(t) <=> Looping(s))
    BY <1>1, <1>2, <1>3 DEF Looping
  <1> QED
    BY <1>1, <1>4, <1>5 DEF t

LEMMA OnlyDispatchersPhases ==
    ASSUME NEW s, OnlyDispatchers(s), NEW ag, NEW ph
    PROVE  LoopPhases(s, ag, ph) /\ ~Looping(s)
  BY NotLooping DEF OnlyDispatchers, LoopPhases, FramePhases, Dispatchers

(* The stacks a step may leave behind that changes neither the registry    *)
(* nor the running flag nor a phase.                                       *)
Kept(s) == /\ s \in Seq(Frame)
           /\ Shaped(s)
           /\ LoopPhases(s, agents, phase)
           /\ Looping(s) <=> Looping(stack)

LEMMA KeptIsEnough ==
    ASSUME Inv, TypeOK', Kept(stack'), UNCHANGED <<agents, running, phase, broken>>
    PROVE  Inv'
  BY DEF Inv, Kept, Phases

LEMMA KeptPop ==
    ASSUME Inv, stack # <<>>, Top.op \notin Loops
    PROVE  Kept(Pop)
  BY PopPhases, PopOfTop DEF Kept, Inv, TypeOK, Pop, Top

LEMMA KeptPush ==
    ASSUME NEW s, Kept(s), NEW op \in (Callback \cup InProgress) \ Loops, NEW of \in SUBSET Agent,
           Shaped(Append(s, Call(op, of)))
    PROVE  Kept(Append(s, Call(op, of)))
  <1> DEFINE f == Call(op, of)
  <1>1. f \in Frame /\ f.op = op /\ f.op \notin Loops
    BY CallIsFrame
  <1> HIDE DEF f
  <1>2. FramePhases(f, agents, phase)
    BY <1>1 DEF FramePhases, Loops
  <1>3. s \in Seq(Frame) /\ Append(s, f) \in Seq(Frame)
    BY <1>1, PushFacts DEF Kept
  <1>4. LoopPhases(Append(s, f), agents, phase) /\ (Looping(Append(s, f)) <=> Looping(s))
    BY <1>1, <1>2, <1>3, PushPhases DEF Kept
  <1> QED
    BY <1>3, <1>4 DEF Kept, f

-----------------------------------------------------------------------------
(* Inv is inductive under the contract. *)

LEMMA InvInit == Init => Inv
  <1> SUFFICES ASSUME Init PROVE Inv
    OBVIOUS
  <1>1. stack = <<>> /\ DOMAIN stack = {} /\ agents = {} /\ ~running /\ ~broken
    BY EmptySeq DEF Init
  <1>2. \A a \in Agent : phase[a] = "absent"
    BY DEF Init
  <1>3. Shaped(stack) /\ ~Looping(stack) /\ LoopPhases(stack, agents, phase)
    BY <1>1 DEF Shaped, Looping, LoopPhases
  <1>4. Phases
    BY <1>1, <1>2, <1>3 DEF Phases
  <1> QED
    BY <1>1, <1>3, <1>4, TypeInit DEF Inv

LEMMA InvRegister ==
    ASSUME SafeDiscipline, Inv, TypeOK', NEW a \in Agent, RegisterAgent(a)
    PROVE  Inv'
  <1>1. CASE a \in agents
    BY <1>1 DEF RegisterAgent, Fails, Inv, Phases
  <1>2. CASE a \notin agents
    <2>1. OnlyDispatchers(stack)
      BY CallerIsMainOrMessage DEF RegisterAgent, Restricted, Inv
    <2>2. ~Looping(stack) /\ \A ag, ph : LoopPhases(stack, ag, ph)
      BY <2>1, OnlyDispatchersPhases
    <2>3. /\ stack' = stack /\ running' = running /\ broken' = HoldsIterator
          /\ agents' = agents \cup {a} /\ phase' = [phase EXCEPT ![a] = "fresh"]
      BY <1>2 DEF RegisterAgent, Fails
    <2>4. ~broken'
      BY <2>2, <2>3 DEF HoldsIterator, Looping, Loops
    <2>5. phase \in [Agent -> Phase]
      BY DEF Inv, TypeOK
    <2>6. Phases'
      BY <2>2, <2>3, <2>5 DEF Inv, Phases
    <2>7. Shaped(stack') /\ LoopPhases(stack', agents', phase')
      BY <2>2, <2>3 DEF Inv
    <2> QED
      BY <2>4, <2>6, <2>7 DEF Inv
  <1> QED
    BY <1>1, <1>2

LEMMA InvUnregister ==
    ASSUME SafeDiscipline, Inv, TypeOK', NEW a \in Agent, UnregisterAgent(a)
    PROVE  Inv'
  <1>1. OnlyDispatchers(stack)
    BY CallerIsMainOrMessage DEF UnregisterAgent, Restricted, Inv
  <1>2. /\ ~Executing(a)
        /\ \A k \in DOMAIN stack : stack[k].op = "on_message" => a \notin stack[k].of
    BY RemovalIsSafe DEF Inv
  <1>3. ~Looping(stack) /\ \A ag, ph : LoopPhases(stack, ag, ph)
    BY <1>1, OnlyDispatchersPhases
  <1>4. phase \in [Agent -> Phase] /\ agents \in SUBSET Agent /\ stack \in Seq(Frame)
    BY DEF Inv, TypeOK
  <1>5. CASE a \notin agents
    BY <1>5 DEF UnregisterAgent, Fails, Inv, Phases
  <1>6. CASE a \in agents /\ ~running
    <2>1. /\ stack' = stack /\ running' = running /\ broken' = (a \notin agents \/ Executing(a))
          /\ agents' = agents \ {a} /\ phase' = [phase EXCEPT ![a] = "absent"]
      BY <1>6 DEF UnregisterAgent, Fails, Erase
    <2>2. Phases'
      BY <1>3, <1>4, <1>6, <2>1 DEF Inv, Phases
    <2>3. Shaped(stack') /\ LoopPhases(stack', agents', phase') /\ ~broken'
      BY <1>2, <1>3, <1>6, <2>1 DEF Inv
    <2> QED
      BY <2>2, <2>3 DEF Inv
  <1>7. CASE a \in agents /\ running
    <2> DEFINE f == Call("unregister_agent", {a})
               t == Append(stack, f)
               g == Call("on_stop", {a})
    <2>1. /\ stack' = Append(t, g) /\ running' = running /\ ~broken'
          /\ agents' = agents /\ phase' = [phase EXCEPT ![a] = "stopped"]
      <3>1. /\ phase' = [phase EXCEPT ![a] = "stopped"]
            /\ stack' = Append(Push(f), g)
            /\ UNCHANGED <<agents, running, broken>>
        BY <1>7 DEF UnregisterAgent
      <3> QED
        BY <3>1 DEF Push, Inv
    <2>2. Shaped(Append(t, g))
      BY <1>1, <1>2, <1>4, PushUnregister DEF Inv
    <2>3. f \in Frame /\ f.op = "unregister_agent" /\ f.of = {a} /\ g \in Frame /\ g.op = "on_stop"
      BY CallIsFrame DEF InProgress, Callback
    <2>4. \A b \in agents : IF b = a THEN phase'[b] = "stopped"
                            ELSE LoopsUndisturbed => phase'[b] \in {"fresh", "active"}
      BY <1>3, <1>4, <1>7, <2>1 DEF Inv, Phases
    <2> HIDE DEF f, g
    <2>5. FramePhases(f, agents', phase') /\ FramePhases(g, agents', phase')
      BY <1>7, <2>1, <2>3, <2>4 DEF FramePhases
    <2>6. t \in Seq(Frame) /\ LoopPhases(t, agents', phase') /\ Looping(t)
      BY <1>3, <1>4, <2>3, <2>5, PushPhases, PushFacts DEF Loops
    <2> HIDE DEF t
    <2>7. LoopPhases(stack', agents', phase') /\ Looping(stack')
      BY <2>1, <2>3, <2>5, <2>6, PushPhases
    <2>8. Phases'
      BY <1>4, <1>7, <2>1, <2>7 DEF Inv, Phases
    <2> QED
      BY <2>1, <2>2, <2>7, <2>8 DEF Inv, t, g
  <1> QED
    BY <1>5, <1>6, <1>7

LEMMA InvErase ==
    ASSUME Inv, TypeOK', UnregisterErase
    PROVE  Inv'
  <1>1. stack # <<>> /\ Top.op = "unregister_agent" /\ stack \in Seq(Frame)
    BY DEF UnregisterErase, OnTop, Inv, TypeOK
  <1>2. PICK a \in Top.of : Erase(a)
    BY DEF UnregisterErase
  <1>3. /\ Top.of \subseteq agents /\ ~Executing(a) /\ OnlyDispatchers(Pop)
    BY <1>1, EraseIsSafe DEF Inv
  <1>4. ~Looping(Pop) /\ \A ag, ph : LoopPhases(Pop, ag, ph)
    BY <1>3, OnlyDispatchersPhases
  <1>5. phase \in [Agent -> Phase] /\ agents \in SUBSET Agent
    BY DEF Inv, TypeOK
  <1>6. /\ stack' = Pop /\ running' = running /\ broken' = (a \notin agents \/ Executing(a))
        /\ agents' = agents \ {a} /\ phase' = [phase EXCEPT ![a] = "absent"]
    BY <1>2 DEF UnregisterErase, Erase
  <1>7. Top.of = {a} /\ Looping(stack) /\ FramePhases(Top, agents, phase)
    <2>1. PICK n \in Nat : n = Len(stack) /\ n # 0 /\ DOMAIN stack = 1 .. n
      BY <1>1, StackLen
    <2>2. n \in 1 .. n /\ Top = stack[n] /\ FrameOK(stack, n)
      BY <2>1 DEF Top, Inv, Shaped
    <2>3. Looping(stack) /\ FramePhases(Top, agents, phase)
      BY <1>1, <2>1, <2>2 DEF Looping, Loops, Inv, LoopPhases
    <2> QED
      BY <1>1, <2>2, <2>3 DEF FrameOK
  <1>8. running /\ (LoopsUndisturbed => \A b \in agents \ {a} : phase[b] \in {"fresh", "active"})
    BY <1>1, <1>7 DEF Inv, Phases, FramePhases
  <1>9. Phases'
    BY <1>3, <1>4, <1>5, <1>6, <1>8 DEF Inv, Phases
  <1>10. Shaped(stack') /\ LoopPhases(stack', agents', phase') /\ ~broken'
    BY <1>1, <1>3, <1>4, <1>6, PopOfTop DEF Inv
  <1> QED
    BY <1>9, <1>10 DEF Inv

(* Beginning a loop over the registry: the agents are where the loop       *)
(* expects them.                                                           *)
LEMMA InvBeginLoop ==
    ASSUME Inv, TypeOK', OnlyDispatchers(stack), NEW op \in {"start", "stop"},
           stack' = Append(stack, Call(op, agents)), running' = TRUE,
           UNCHANGED <<agents, phase, broken>>,
           op = "start" => \A a \in agents : phase[a] \in {"fresh", "stopped"},
           op = "stop" /\ LoopsUndisturbed => \A a \in agents : phase[a] \in {"fresh", "active"}
    PROVE  Inv'
  <1> DEFINE f == Call(op, agents)
  <1>1. stack \in Seq(Frame) /\ agents \in SUBSET Agent
    BY DEF Inv, TypeOK
  <1>2. f \in Frame /\ f.op = op /\ f.of = agents
    BY <1>1, CallIsFrame DEF InProgress
  <1>3. Shaped(Append(stack, f))
    BY <1>1, PushLoop DEF Inv
  <1> HIDE DEF f
  <1>4. FramePhases(f, agents, phase)
    BY <1>2 DEF FramePhases
  <1>5. LoopPhases(Append(stack, f), agents, phase) /\ Looping(Append(stack, f))
    BY <1>1, <1>2, <1>4, PushPhases DEF Inv, Loops
  <1>6. stack' = Append(stack, f)
    BY DEF f
  <1>7. Phases'
    BY <1>5, <1>6 DEF Inv, Phases
  <1> QED
    BY <1>3, <1>5, <1>6, <1>7 DEF Inv

LEMMA InvStart ==
    ASSUME SafeDiscipline, Inv, TypeOK', Start
    PROVE  Inv'
  <1>1. CASE running
    BY <1>1 DEF Start, Inv, Phases
  <1>2. CASE ~running
    <2>1. OnlyDispatchers(stack)
      BY <1>2, CallerIsMainOrMessage DEF Start, Restricted, Inv
    <2>2. \A a \in agents : phase[a] \in {"fresh", "stopped"}
      BY <1>2 DEF Inv, Phases, TypeOK, Phase
    <2>3. /\ stack' = Append(stack, Call("start", agents)) /\ running' = TRUE
          /\ UNCHANGED <<agents, phase, broken>>
      BY <1>2 DEF Start, Push
    <2> QED
      BY <2>1, <2>2, <2>3, InvBeginLoop
  <1> QED
    BY <1>1, <1>2

LEMMA InvStop ==
    ASSUME SafeDiscipline, Inv, TypeOK', Stop
    PROVE  Inv'
  <1>1. CASE ~running
    BY <1>1 DEF Stop, Inv, Phases
  <1>2. CASE running
    <2>1. OnlyDispatchers(stack)
      BY CallerIsMainOrMessage DEF Stop, Restricted, Inv
    <2>2. LoopsUndisturbed => \A a \in agents : phase[a] \in {"fresh", "active"}
      BY <1>2, <2>1, NotLooping DEF Inv, Phases
    <2>3. /\ stack' = Append(stack, Call("stop", agents)) /\ running' = TRUE
          /\ UNCHANGED <<agents, phase, broken>>
      BY <1>2 DEF Stop, Push
    <2> QED
      BY <2>1, <2>2, <2>3, InvBeginLoop
  <1> QED
    BY <1>1, <1>2

(* The loop frame on top of the stack, and what is below it. *)
LEMMA LoopOnTop ==
    ASSUME Inv, stack # <<>>, Top.op \in Loops
    PROVE  /\ stack \in Seq(Frame) /\ Pop \in Seq(Frame) /\ Shaped(Pop)
           /\ OnlyDispatchers(Pop) /\ Top.of \in SUBSET Agent
           /\ FramePhases(Top, agents, phase) /\ running
           /\ phase \in [Agent -> Phase] /\ agents \in SUBSET Agent
  <1>1. stack \in Seq(Frame) /\ phase \in [Agent -> Phase] /\ agents \in SUBSET Agent
    BY DEF Inv, TypeOK
  <1>2. PICK n \in Nat : n = Len(stack) /\ n # 0 /\ DOMAIN stack = 1 .. n
    BY <1>1, StackLen
  <1>3. n \in 1 .. n /\ Top = stack[n]
    BY <1>2 DEF Top
  <1>4. Looping(stack) /\ FramePhases(Top, agents, phase)
    BY <1>2, <1>3 DEF Looping, Inv, LoopPhases
  <1>5. running
    BY <1>4 DEF Inv, Phases
  <1>6. Top.of \in SUBSET Agent /\ Pop \in Seq(Frame)
    BY <1>1, StackTypes
  <1>7. Shaped(Pop) /\ OnlyDispatchers(Pop)
    BY <1>1, PopOfTop DEF Inv
  <1> QED
    BY <1>1, <1>4, <1>5, <1>6, <1>7

(* One iteration: a becomes what the loop makes of it, and is called back. *)
LEMMA InvIterate ==
    ASSUME Inv, TypeOK', stack # <<>>, NEW op \in {"start", "stop"}, Top.op = op,
           NEW a \in Top.of \cap agents, NEW cb,
           cb = IF op = "start" THEN "on_start" ELSE "on_stop",
           phase' = [phase EXCEPT ![a] = IF op = "start" THEN "active" ELSE "stopped"],
           stack' = Append(Replace(Call(op, Top.of \ {a})), Call(cb, {a})),
           UNCHANGED <<agents, running, broken>>
    PROVE  Inv'
  <1>1. /\ stack \in Seq(Frame) /\ Pop \in Seq(Frame) /\ Shaped(Pop)
        /\ OnlyDispatchers(Pop) /\ Top.of \in SUBSET Agent
        /\ FramePhases(Top, agents, phase) /\ running
        /\ phase \in [Agent -> Phase] /\ agents \in SUBSET Agent
    BY LoopOnTop DEF Loops
  <1> DEFINE f == Call(op, Top.of \ {a})
             t == Append(Pop, f)
             g == Call(cb, {a})
  <1>2. f \in Frame /\ f.op = op /\ f.of = Top.of \ {a}
    BY <1>1, CallIsFrame DEF InProgress
  <1>3. g \in Frame /\ g.op = cb
    <2>1. cb \in Callback \cup InProgress
      BY DEF Callback
    <2>2. {a} \in SUBSET Agent
      BY <1>1
    <2> QED
      BY <2>1, <2>2, CallIsFrame
  <1>4. t \in Seq(Frame) /\ Shaped(t) /\ t # <<>> /\ t[Len(t)].op = op
    <2> DEFINE below == Pop
               of == Top.of \ {a}
    <2>1. below \in Seq(Frame) /\ Shaped(below) /\ OnlyDispatchers(below) /\ of \in SUBSET Agent
      BY <1>1
    <2>2. op \in {"start", "stop", "drain", "drain_run_once"}
      OBVIOUS
    <2> HIDE DEF below, of, f, t, g
    <2>3. /\ Append(below, Call(op, of)) \in Seq(Frame)
          /\ Shaped(Append(below, Call(op, of)))
          /\ Append(below, Call(op, of)) # <<>>
          /\ Append(below, Call(op, of))[Len(Append(below, Call(op, of)))].op = op
      BY <2>1, <2>2, PushLoop
    <2>4. t = Append(below, Call(op, of))
      BY DEF t, f, below, of
    <2> QED
      BY <2>3, <2>4
  <1>5. stack' = Append(t, g)
    BY DEF Replace
  <1>6. Shaped(Append(t, g))
    BY <1>1, <1>4, PushCallback
  <1>7. \A b \in agents : phase'[b] = IF b = a THEN (IF op = "start" THEN "active" ELSE "stopped")
                                     ELSE phase[b]
    BY <1>1
  <1> HIDE DEF f, g
  <1>8. FramePhases(f, agents', phase')
    BY <1>1, <1>2, <1>7 DEF FramePhases
  <1>9. FramePhases(g, agents', phase')
    BY <1>3 DEF FramePhases
  <1>10. LoopPhases(t, agents', phase') /\ Looping(t)
    BY <1>1, <1>2, <1>8, OnlyDispatchersPhases, PushPhases DEF Loops
  <1> HIDE DEF t
  <1>11. LoopPhases(stack', agents', phase') /\ Looping(stack')
    BY <1>3, <1>4, <1>5, <1>9, <1>10, PushPhases
  <1>12. Phases'
    BY <1>1, <1>11 DEF Inv, Phases
  <1> QED
    BY <1>5, <1>6, <1>11, <1>12 DEF Inv

LEMMA InvStartNext ==
    ASSUME Inv, TypeOK', StartNext
    PROVE  Inv'
  <1>1. stack # <<>> /\ Top.op = "start" /\ Top.op \in Loops /\ UNCHANGED <<agents, running, broken>>
    BY DEF StartNext, OnTop, Loops
  <1>2. CASE Top.of \cap agents = {} /\ stack' = Pop /\ UNCHANGED phase
    <2>1. \A a \in agents : phase[a] = "active"
      BY <1>1, <1>2, LoopOnTop DEF FramePhases
    <2>2. ~Looping(Pop) /\ LoopPhases(Pop, agents, phase)
      BY <1>1, LoopOnTop, OnlyDispatchersPhases
    <2>3. Phases'
      BY <1>1, <1>2, <2>1, <2>2, LoopOnTop DEF Inv, Phases
    <2> QED
      BY <1>1, <1>2, <2>2, <2>3, LoopOnTop DEF Inv
  <1>3. ASSUME NEW a \in Top.of \cap agents,
               phase' = [phase EXCEPT ![a] = "active"],
               stack' = Append(Replace(Call("start", Top.of \ {a})), Call("on_start", {a}))
        PROVE  Inv'
    BY <1>1, <1>3, InvIterate
  <1> QED
    BY <1>2, <1>3 DEF StartNext

LEMMA InvStopNext ==
    ASSUME Inv, TypeOK', StopNext
    PROVE  Inv'
  <1>1. stack # <<>> /\ Top.op = "stop" /\ Top.op \in Loops /\ UNCHANGED <<agents, broken>>
    BY DEF StopNext, OnTop, Loops
  <1>2. CASE Top.of \cap agents = {} /\ stack' = Pop /\ running' = FALSE /\ UNCHANGED phase
    <2>1. \A a \in agents : phase[a] = "stopped"
      BY <1>1, <1>2, LoopOnTop DEF FramePhases
    <2>2. ~Looping(Pop) /\ LoopPhases(Pop, agents, phase)
      BY <1>1, LoopOnTop, OnlyDispatchersPhases
    <2>3. Phases'
      BY <1>1, <1>2, <2>1, <2>2 DEF Inv, Phases
    <2> QED
      BY <1>1, <1>2, <2>2, <2>3, LoopOnTop DEF Inv
  <1>3. ASSUME NEW a \in Top.of \cap agents,
               phase' = [phase EXCEPT ![a] = "stopped"],
               stack' = Append(Replace(Call("stop", Top.of \ {a})), Call("on_stop", {a})),
               UNCHANGED running
        PROVE  Inv'
    BY <1>1, <1>3, InvIterate
  <1> QED
    BY <1>2, <1>3 DEF StopNext

LEMMA KeptSelf ==
    ASSUME Inv
    PROVE  Kept(stack)
  BY DEF Inv, Kept, TypeOK

LEMMA InvBroadcastEvent ==
    ASSUME Inv, TypeOK', BroadcastEvent
    PROVE  Inv'
  <1>1. stack \in Seq(Frame) /\ agents \in SUBSET Agent /\ Shaped(stack)
    BY DEF Inv, TypeOK
  <1>2. stack # <<>> => stack[Len(stack)].op \notin {"broadcast_event", "drain_run_once"}
    BY DEF BroadcastEvent, Calls, Caller, Top, Callback
  <1>3. Shaped(Append(stack, Call("broadcast_event", agents)))
    BY <1>1, <1>2, PushBroadcast
  <1>4. Kept(Append(stack, Call("broadcast_event", agents)))
    BY <1>1, <1>3, KeptSelf, KeptPush DEF InProgress, Loops
  <1> QED
    BY <1>4, KeptIsEnough DEF BroadcastEvent, Push

LEMMA InvBroadcastNext ==
    ASSUME Inv, TypeOK', BroadcastNext
    PROVE  Inv'
  <1>1. stack # <<>> /\ Top.op = "broadcast_event" /\ stack \in Seq(Frame) /\ Shaped(stack)
    BY DEF BroadcastNext, OnTop, Inv, TypeOK
  <1>2. Kept(Pop) /\ Top.of \in SUBSET Agent
    BY <1>1, KeptPop, StackTypes DEF Loops
  <1>3. ASSUME NEW a PROVE Kept(Replace(Call("broadcast_event", Top.of \ {a})))
    <2>1. Shaped(Append(Pop, Call("broadcast_event", Top.of \ {a})))
      BY <1>1, <1>2, PopOfTop, PushBroadcast
    <2> QED
      BY <1>2, <2>1, KeptPush DEF Replace, InProgress, Loops
  <1>4. Kept(stack')
    BY <1>2, <1>3 DEF BroadcastNext
  <1>5. UNCHANGED <<agents, running, phase, broken>>
    BY DEF BroadcastNext
  <1> QED
    BY <1>4, <1>5, KeptIsEnough

(* Messages are dispatched by main, or by handlers up to any depth. *)
LEMMA DispatchedByHandlers ==
    ASSUME SafeDiscipline, Inv, NEW op \in {"run_once", "drain"}, Calls(op)
    PROVE  OnlyDispatchers(stack)
  BY CallerIsMainOrMessage DEF Restricted, Inv

LEMMA InvDrain ==
    ASSUME SafeDiscipline, Inv, TypeOK', Drain
    PROVE  Inv'
  <1>1. OnlyDispatchers(stack)
    BY DispatchedByHandlers DEF Drain
  <1>2. stack \in Seq(Frame) /\ Shaped(stack)
    BY DEF Inv, TypeOK
  <1>3. Shaped(Append(stack, Call("drain", {})))
    BY <1>1, <1>2, PushLoop
  <1>4. Kept(Append(stack, Call("drain", {})))
    BY <1>3, KeptSelf, KeptPush DEF InProgress, Loops
  <1> QED
    BY <1>4, KeptIsEnough DEF Drain, Push

(* A drain on top of the stack may return or go on. *)
LEMMA DrainOnTop ==
    ASSUME Inv, stack # <<>>, Top.op \in {"drain", "drain_run_once"},
           NEW op \in {"drain", "drain_run_once"}
    PROVE  /\ Kept(Pop) /\ Kept(Replace(Call(op, {})))
           /\ op = "drain" => OnlyDispatchers(Replace(Call(op, {})))
  <1>1. stack \in Seq(Frame) /\ Shaped(stack)
    BY DEF Inv, TypeOK
  <1>2. Kept(Pop)
    BY KeptPop DEF Loops
  <1>3. Pop \in Seq(Frame) /\ Shaped(Pop) /\ OnlyDispatchers(Pop)
    BY <1>1, PopOfTop DEF Dispatchers
  <1> DEFINE f == Call(op, {})
             t == Append(Pop, f)
  <1>4. Shaped(t)
    BY <1>3, PushLoop
  <1>5. Kept(t)
    BY <1>2, <1>4, KeptPush DEF InProgress, Loops
  <1>6. f \in Frame /\ f.op = op
    BY CallIsFrame DEF InProgress
  <1> HIDE DEF f
  <1>7. PICK n \in Nat : /\ n = Len(Pop) /\ DOMAIN Pop = 1 .. n /\ DOMAIN t = 1 .. n + 1
                         /\ t[n + 1] = f /\ \A i \in 1 .. n : t[i] = Pop[i]
    BY <1>3, <1>6, PushFacts
  <1> HIDE DEF t
  <1>8. \A k \in 1 .. n + 1 : k \in 1 .. n \/ k = n + 1
    OBVIOUS
  <1>9. op = "drain" => OnlyDispatchers(t)
    BY <1>3, <1>6, <1>7, <1>8 DEF OnlyDispatchers, Dispatchers
  <1> QED
    BY <1>2, <1>5, <1>9 DEF t, f, Replace

LEMMA InvDrainTest ==
    ASSUME Inv, TypeOK', DrainTest
    PROVE  Inv'
  <1>1. Kept(Pop) /\ Kept(Replace(Call("drain_run_once", {})))
    BY DrainOnTop DEF DrainTest, OnTop
  <1>2. stack' = Pop \/ stack' = Replace(Call("drain_run_once", {}))
    BY DEF DrainTest
  <1>3. UNCHANGED <<agents, running, phase, broken>>
    BY DEF DrainTest
  <1> QED
    BY <1>1, <1>2, <1>3, KeptIsEnough

LEMMA InvReceive ==
    ASSUME Inv, TypeOK', NEW done, NEW failed, Kept(done), Kept(failed), OnlyDispatchers(done),
           ReceiveAndDispatch(done, failed)
    PROVE  Inv'
  <1>1. UNCHANGED <<agents, running, phase, broken>>
    BY DEF ReceiveAndDispatch
  <1>2. CASE stack' = done \/ stack' = failed
    BY <1>1, <1>2, KeptIsEnough
  <1>3. ASSUME NEW a \in agents, stack' = Append(done, Call("on_message", {a})) PROVE Inv'
    <2>1. a \in Agent /\ done \in Seq(Frame) /\ Shaped(done)
      BY <1>3 DEF Inv, TypeOK, Kept
    <2>2. Shaped(Append(done, Call("on_message", {a})))
      BY <2>1, PushMessage
    <2>3. Kept(Append(done, Call("on_message", {a})))
      BY <2>1, <2>2, KeptPush DEF Callback, Loops
    <2> QED
      BY <1>1, <1>3, <2>3, KeptIsEnough
  <1>4. \/ stack' = done \/ stack' = failed
        \/ \E a \in agents : stack' = Append(done, Call("on_message", {a}))
    BY DEF ReceiveAndDispatch, Dispatch
  <1> QED
    BY <1>2, <1>3, <1>4

LEMMA InvRunOnce ==
    ASSUME SafeDiscipline, Inv, TypeOK', RunOnce
    PROVE  Inv'
  <1>1. OnlyDispatchers(stack)
    BY DispatchedByHandlers DEF RunOnce
  <1> QED
    BY <1>1, KeptSelf, InvReceive DEF RunOnce

LEMMA InvDrainRunOnce ==
    ASSUME Inv, TypeOK', DrainRunOnce
    PROVE  Inv'
  BY DrainOnTop, InvReceive DEF DrainRunOnce, OnTop

(* An exception leaves a loop over the registry only where on_start or     *)
(* on_stop throws: above an on_message that throws there is no loop.       *)
LEMMA InvThrow ==
    ASSUME Inv, TypeOK', NEW c \in Callback, Throw(c)
    PROVE  Inv'
  <1>1. stack \in Seq(Frame) /\ stack # <<>> /\ Top.op = c /\ c \in MayThrow
    BY DEF Inv, TypeOK, Throw, OnTop
  <1>2. UNCHANGED <<agents, running, phase, broken>>
    BY DEF Throw
  <1>3. PICK n \in Nat, k \in Nat :
              /\ k = Len(stack) /\ k # 0 /\ DOMAIN stack = 1 .. k /\ n \in 0 .. k - 1
              /\ Catches(n)
              /\ stack' \in Seq(Frame) /\ Len(stack') = n /\ DOMAIN stack' = 1 .. n
              /\ \A i \in 1 .. n : stack'[i] = stack[i]
    BY <1>1, ThrowCuts
  <1>4. \A i \in 1 .. n : i \in 1 .. k /\ i # k
    BY <1>3
  <1>5. ASSUME NEW i \in 1 .. n PROVE FrameOK(stack', i)
    <2>1. FrameOK(stack, i) /\ stack'[i] = stack[i] /\ i # k
      BY <1>3, <1>4 DEF Inv, Shaped
    <2>2. \A j \in 1 .. i - 1 : stack'[j] = stack[j]
      BY <1>3
    <2>3. i # 1 => stack'[i - 1] = stack[i - 1]
      BY <1>3
    <2>4. stack[i].op \notin {"broadcast_event", "drain_run_once"}
      BY <1>3, <2>1 DEF FrameOK
    <2> QED
      BY <2>1, <2>2, <2>3, <2>4 DEF FrameOK
  <1>6. Shaped(stack')
    BY <1>3, <1>5 DEF Shaped
  <1>7. LoopPhases(stack', agents, phase)
    BY <1>3, <1>4 DEF Inv, LoopPhases
  <1>8. Looping(stack') => Looping(stack)
    BY <1>3, <1>4 DEF Looping
  <1>9. LoopsUndisturbed => ~Looping(stack)
    <2>1. LoopsUndisturbed => Top.op = "on_message"
      BY <1>1 DEF LoopsUndisturbed
    <2> QED
      BY <1>1, <2>1, BelowTop DEF Inv, Top, Dispatchers, Loops
  <1>10. Phases'
    BY <1>2, <1>8, <1>9 DEF Inv, Phases
  <1> QED
    BY <1>2, <1>6, <1>7, <1>10 DEF Inv

LEMMA InvNext == SafeDiscipline /\ Inv /\ [Next]_vars => Inv'
  <1> SUFFICES ASSUME SafeDiscipline, Inv, [Next]_vars PROVE Inv'
    OBVIOUS
  <1>1. TypeOK'
    BY TypeNext DEF Inv
  <1>2. CASE UNCHANGED <<agents, running, phase, broken, stack>>
    BY <1>1, <1>2, KeptSelf, KeptIsEnough
  <1>3. ASSUME NEW a \in Agent, RegisterAgent(a) \/ UnregisterAgent(a) PROVE Inv'
    BY <1>1, <1>3, InvRegister, InvUnregister
  <1>4. ASSUME NEW a \in Agent, Send(a) \/ PublishEvent(a) \/ ForeignSend(a)
        PROVE  UNCHANGED <<agents, running, phase, broken, stack>>
    BY <1>4 DEF Send, PublishEvent, ForeignSend
  <1>5. CASE RegisterInvalid \/ ForeignReceive
    BY <1>2, <1>5 DEF RegisterInvalid, Fails, ForeignReceive
  <1>6. CASE BroadcastEvent \/ Start \/ Stop \/ RunOnce \/ Drain
    BY <1>1, <1>6, InvBroadcastEvent, InvStart, InvStop, InvRunOnce, InvDrain
  <1>7. CASE RuntimeStep
    BY <1>1, <1>7, InvErase, InvBroadcastNext, InvStartNext, InvStopNext, InvDrainTest,
       InvDrainRunOnce DEF RuntimeStep
  <1>8. ASSUME NEW c \in Callback, Return(c) PROVE Inv'
    <2>1. Kept(Pop)
      BY <1>8, KeptPop DEF Return, OnTop, Callback, Loops
    <2> QED
      BY <1>1, <1>8, <2>1, KeptIsEnough DEF Return
  <1>9. ASSUME NEW c \in Callback, Throw(c) PROVE Inv'
    BY <1>1, <1>9, InvThrow
  <1>10. CASE UNCHANGED vars
    BY <1>2, <1>10 DEF vars
  <1> QED
    BY <1>2, <1>3, <1>4, <1>5, <1>6, <1>7, <1>8, <1>9, <1>10 DEF Next, UserCall, Foreign

(* Under the contract the runtime has no undefined behaviour: no callback  *)
(* invalidates what the runtime holds while it runs, whichever throw and   *)
(* however deep handlers dispatch messages themselves.                     *)
THEOREM ContractSuffices == ASSUME SafeDiscipline PROVE Spec => []NoUndefined
  <1>1. Inv => NoUndefined
    BY DEF Inv, NoUndefined
  <1>2. Inv /\ [Next]_vars => Inv'
    BY InvNext
  <1> QED
    BY <1>1, <1>2, InvInit, PTL DEF Spec

(* Under the contract a runtime that is not running has stopped every      *)
(* agent it started, also when on_start and on_stop throw.                 *)
THEOREM NoActiveAgentWhenStopped == ASSUME SafeDiscipline PROVE Spec => []StoppedMeansStopped
  <1>1. Inv => StoppedMeansStopped
    BY DEF Inv, Phases, StoppedMeansStopped
  <1>2. Inv /\ [Next]_vars => Inv'
    BY InvNext
  <1> QED
    BY <1>1, <1>2, InvInit, PTL DEF Spec

-----------------------------------------------------------------------------
(* The runtime implements AgentLifecycle: how the methods executing follow *)
(* the call stack.                                                         *)

LEMMA InsidePush ==
    ASSUME NEW s \in Seq(Frame), NEW op \in Callback \cup InProgress, NEW of \in SUBSET Agent
    PROVE  /\ op \notin Callback => Inside(Append(s, Call(op, of))) = Inside(s)
           /\ \A a \in Agent : op \in Callback /\ of = {a} =>
                  Inside(Append(s, Call(op, of))) = Inside(s) \cup {<<op, a>>}
  <1> DEFINE f == Call(op, of)
             t == Append(s, f)
  <1>1. f \in Frame /\ f.op = op /\ f.of = of
    BY CallIsFrame
  <1> HIDE DEF f
  <1>2. PICK n \in Nat : /\ DOMAIN s = 1 .. n /\ DOMAIN t = 1 .. n + 1
                         /\ t[n + 1] = f /\ \A i \in 1 .. n : t[i] = s[i]
    BY <1>1, PushFacts
  <1> HIDE DEF t
  <1>3. /\ n + 1 \in 1 .. n + 1
        /\ \A i \in 1 .. n : i \in 1 .. n + 1
        /\ \A i \in 1 .. n + 1 : i \in 1 .. n \/ i = n + 1
    OBVIOUS
  <1>4. \A m \in Callback \X Agent : m \in Inside(t) <=> m \in Inside(s) \/ (op = m[1] /\ m[2] \in of)
    BY <1>1, <1>2, <1>3 DEF Inside
  <1>5. Inside(t) \subseteq Callback \X Agent /\ Inside(s) \subseteq Callback \X Agent
    BY DEF Inside
  <1>6. ASSUME op \notin Callback PROVE Inside(t) = Inside(s)
    BY <1>4, <1>5, <1>6
  <1>7. ASSUME NEW a \in Agent, op \in Callback, of = {a}
        PROVE  Inside(t) = Inside(s) \cup {<<op, a>>}
    <2>1. \A m \in Callback \X Agent : op = m[1] /\ m[2] \in of <=> m = <<op, a>>
      BY <1>7
    <2>2. <<op, a>> \in Callback \X Agent
      BY <1>7
    <2> QED
      BY <1>4, <1>5, <2>1, <2>2
  <1> QED
    BY <1>6, <1>7 DEF t, f

LEMMA InsidePop ==
    ASSUME TypeOK, stack # <<>>
    PROVE  /\ Top.op \notin Callback => Inside(Pop) = Inside(stack)
           /\ \A a \in Agent : Top.op \in Callback /\ Top.of = {a} =>
                  Inside(stack) = Inside(Pop) \cup {<<Top.op, a>>}
  <1> DEFINE f == Top
             t == Pop
  <1>1. stack \in Seq(Frame)
    BY DEF TypeOK
  <1>2. PICK n \in Nat : /\ n # 0 /\ DOMAIN stack = 1 .. n /\ DOMAIN t = 1 .. n - 1
                         /\ stack[n] = f /\ \A i \in 1 .. n - 1 : t[i] = stack[i]
    BY <1>1, PopFacts DEF Top, Pop
  <1> HIDE DEF t, f
  <1>3. /\ n \in 1 .. n
        /\ \A i \in 1 .. n - 1 : i \in 1 .. n
        /\ \A i \in 1 .. n : i \in 1 .. n - 1 \/ i = n
    BY <1>2
  <1>4. \A m \in Callback \X Agent : m \in Inside(stack) <=> m \in Inside(t) \/ (f.op = m[1] /\ m[2] \in f.of)
    BY <1>2, <1>3 DEF Inside
  <1>5. Inside(t) \subseteq Callback \X Agent /\ Inside(stack) \subseteq Callback \X Agent
    BY DEF Inside
  <1>6. ASSUME f.op \notin Callback PROVE Inside(t) = Inside(stack)
    BY <1>4, <1>5, <1>6
  <1>7. ASSUME NEW a \in Agent, f.op \in Callback, f.of = {a}
        PROVE  Inside(stack) = Inside(t) \cup {<<f.op, a>>}
    <2>1. \A m \in Callback \X Agent : f.op = m[1] /\ m[2] \in f.of <=> m = <<f.op, a>>
      BY <1>7
    <2>2. <<f.op, a>> \in Callback \X Agent
      BY <1>7
    <2> QED
      BY <1>4, <1>5, <2>1, <2>2
  <1> QED
    BY <1>6, <1>7 DEF t, f

LEMMA InsideReplace ==
    ASSUME TypeOK, stack # <<>>, Top.op \notin Callback,
           NEW op \in InProgress, NEW of \in SUBSET Agent
    PROVE  Replace(Call(op, of)) \in Seq(Frame) /\ Inside(Replace(Call(op, of))) = Inside(stack)
  <1>1. Pop \in Seq(Frame) /\ Replace(Call(op, of)) \in Seq(Frame)
    BY StackTypes, CallIsFrame DEF TypeOK
  <1>2. op \notin Callback
    BY DEF InProgress, Callback
  <1> QED
    BY <1>1, <1>2, InsidePop, InsidePush DEF Replace

(* No method of an agent executes that Executing does not see. *)
LEMMA NotInside ==
    ASSUME NEW a \in Agent, ~Executing(a)
    PROVE  \A m \in Inside(stack) : m[2] # a
  BY DEF Executing, Inside

-----------------------------------------------------------------------------
(* Each step of the runtime is a step of AgentLifecycle or leaves it alone. *)

LifecycleStep == Lifecycle!Next \/ UNCHANGED Lifecycle!vars

LEMMA StepRegister ==
    ASSUME Inv, NEW a \in Agent, RegisterAgent(a)
    PROVE  LifecycleStep
  <1>1. CASE a \in agents
    BY <1>1 DEF RegisterAgent, Fails, LifecycleStep, Lifecycle!vars
  <1>2. CASE a \notin agents
    <2>1. phase[a] = "absent"
      BY <1>2 DEF Inv, Phases
    <2>2. Lifecycle!Register(a)
      BY <1>2, <2>1 DEF RegisterAgent, Fails, Lifecycle!Register
    <2> QED
      BY <2>2 DEF LifecycleStep, Lifecycle!Next
  <1> QED
    BY <1>1, <1>2

LEMMA StepUnregister ==
    ASSUME SafeDiscipline, LoopsUndisturbed, Inv, NEW a \in Agent, UnregisterAgent(a)
    PROVE  LifecycleStep
  <1>1. OnlyDispatchers(stack)
    BY CallerIsMainOrMessage DEF UnregisterAgent, Restricted, Inv
  <1>2. ~Executing(a)
    BY RemovalIsSafe DEF Inv
  <1>3. CASE a \notin agents
    BY <1>3 DEF UnregisterAgent, Fails, LifecycleStep, Lifecycle!vars
  <1>4. CASE a \in agents /\ ~running
    <2>1. phase[a] \in {"fresh", "stopped"}
      BY <1>4 DEF Inv, TypeOK, Phase, Phases
    <2>2. Lifecycle!Destroy(a)
      BY <1>2, <1>4, <2>1, NotInside DEF UnregisterAgent, Erase, Fails, Lifecycle!Destroy
    <2> QED
      BY <2>2 DEF LifecycleStep, Lifecycle!Next
  <1>5. CASE a \in agents /\ running
    <2>1. phase[a] \in {"fresh", "active"}
      BY <1>1, <1>5, NotLooping DEF Inv, Phases
    <2>2. /\ phase' = [phase EXCEPT ![a] = "stopped"]
          /\ stack' = Append(Push(Call("unregister_agent", {a})), Call("on_stop", {a}))
      BY <1>5 DEF UnregisterAgent
    <2>3. stack \in Seq(Frame) /\ Push(Call("unregister_agent", {a})) \in Seq(Frame)
      BY StackTypes, CallIsFrame DEF Inv, TypeOK, InProgress
    <2>4. Inside(Push(Call("unregister_agent", {a}))) = Inside(stack)
      BY <2>3, InsidePush DEF Push, InProgress, Callback
    <2>5. Inside(stack') = Inside(stack) \cup {<<"on_stop", a>>}
      BY <2>2, <2>3, <2>4, InsidePush DEF Callback
    <2>6. Lifecycle!OnStop(a)
      BY <2>1, <2>2, <2>5 DEF Lifecycle!OnStop, Lifecycle!Enter, Inside
    <2> QED
      BY <2>6 DEF LifecycleStep, Lifecycle!Next
  <1> QED
    BY <1>3, <1>4, <1>5

LEMMA StepErase ==
    ASSUME Inv, UnregisterErase
    PROVE  LifecycleStep
  <1>1. stack # <<>> /\ Top.op = "unregister_agent"
    BY DEF UnregisterErase, OnTop
  <1>2. PICK a \in Top.of : Erase(a)
    BY DEF UnregisterErase
  <1>3. a \in agents /\ ~Executing(a)
    BY <1>1, <1>2, EraseIsSafe DEF Inv
  <1>4. phase[a] = "stopped"
    <2>1. FramePhases(Top, agents, phase)
      BY <1>1, LoopOnTop DEF Loops
    <2> QED
      BY <1>1, <1>3, <2>1 DEF FramePhases
  <1>5. Inside(stack') = Inside(stack)
    BY <1>1, InsidePop DEF UnregisterErase, Inv, Callback
  <1>6. a \in Agent
    BY <1>3 DEF Inv, TypeOK
  <1>7. Lifecycle!Destroy(a)
    BY <1>2, <1>3, <1>4, <1>5, <1>6, NotInside DEF Erase, Lifecycle!Destroy, Inside
  <1> QED
    BY <1>6, <1>7 DEF LifecycleStep, Lifecycle!Next

LEMMA StepStartNext ==
    ASSUME Inv, StartNext
    PROVE  LifecycleStep
  <1>1. stack # <<>> /\ Top.op = "start" /\ Top.op \notin Callback /\ TypeOK
    BY DEF StartNext, OnTop, Callback, Inv
  <1>2. FramePhases(Top, agents, phase) /\ agents \in SUBSET Agent /\ Top.of \in SUBSET Agent
    BY <1>1, LoopOnTop DEF Loops
  <1>3. CASE stack' = Pop /\ UNCHANGED phase
    BY <1>1, <1>3, InsidePop DEF LifecycleStep, Lifecycle!vars, Inside
  <1>4. ASSUME NEW a \in Top.of \cap agents,
               phase' = [phase EXCEPT ![a] = "active"],
               stack' = Append(Replace(Call("start", Top.of \ {a})), Call("on_start", {a}))
        PROVE  LifecycleStep
    <2>1. a \in Agent /\ phase[a] \in {"fresh", "stopped"}
      BY <1>1, <1>2, <1>4 DEF FramePhases
    <2> DEFINE s == Replace(Call("start", Top.of \ {a}))
    <2>2. s \in Seq(Frame) /\ Inside(s) = Inside(stack)
      BY <1>1, <1>2, InsideReplace DEF InProgress
    <2>3. stack' = Append(s, Call("on_start", {a}))
      BY <1>4
    <2> HIDE DEF s
    <2>4. Inside(stack') = Inside(stack) \cup {<<"on_start", a>>}
      BY <2>3, <2>1, <2>2, InsidePush DEF Callback
    <2>5. Lifecycle!OnStart(a)
      BY <1>4, <2>1, <2>4 DEF Lifecycle!OnStart, Lifecycle!Enter, Inside
    <2> QED
      BY <2>1, <2>5 DEF LifecycleStep, Lifecycle!Next
  <1> QED
    BY <1>3, <1>4 DEF StartNext

LEMMA StepStopNext ==
    ASSUME LoopsUndisturbed, Inv, StopNext
    PROVE  LifecycleStep
  <1>1. stack # <<>> /\ Top.op = "stop" /\ Top.op \notin Callback /\ TypeOK
    BY DEF StopNext, OnTop, Callback, Inv
  <1>2. FramePhases(Top, agents, phase) /\ agents \in SUBSET Agent /\ Top.of \in SUBSET Agent
    BY <1>1, LoopOnTop DEF Loops
  <1>3. CASE stack' = Pop /\ UNCHANGED phase
    BY <1>1, <1>3, InsidePop DEF LifecycleStep, Lifecycle!vars, Inside
  <1>4. ASSUME NEW a \in Top.of \cap agents,
               phase' = [phase EXCEPT ![a] = "stopped"],
               stack' = Append(Replace(Call("stop", Top.of \ {a})), Call("on_stop", {a}))
        PROVE  LifecycleStep
    <2>1. a \in Agent /\ phase[a] \in {"fresh", "active"}
      BY <1>1, <1>2, <1>4 DEF FramePhases
    <2> DEFINE s == Replace(Call("stop", Top.of \ {a}))
    <2>2. s \in Seq(Frame) /\ Inside(s) = Inside(stack)
      BY <1>1, <1>2, InsideReplace DEF InProgress
    <2>3. stack' = Append(s, Call("on_stop", {a}))
      BY <1>4
    <2> HIDE DEF s
    <2>4. Inside(stack') = Inside(stack) \cup {<<"on_stop", a>>}
      BY <2>3, <2>1, <2>2, InsidePush DEF Callback
    <2>5. Lifecycle!OnStop(a)
      BY <1>4, <2>1, <2>4 DEF Lifecycle!OnStop, Lifecycle!Enter, Inside
    <2> QED
      BY <2>1, <2>5 DEF LifecycleStep, Lifecycle!Next
  <1> QED
    BY <1>3, <1>4 DEF StopNext

(* A message is handled in a stack that loops over no registry, so its     *)
(* target was not stopped.                                                 *)
LEMMA StepReceive ==
    ASSUME LoopsUndisturbed, Inv, NEW done, NEW failed, Kept(done), OnlyDispatchers(done),
           Inside(done) = Inside(stack), Inside(failed) = Inside(stack),
           ReceiveAndDispatch(done, failed)
    PROVE  LifecycleStep
  <1>1. UNCHANGED phase
    BY DEF ReceiveAndDispatch
  <1>2. CASE stack' = done \/ stack' = failed
    BY <1>1, <1>2 DEF LifecycleStep, Lifecycle!vars, Inside
  <1>3. ASSUME running, NEW a \in agents, stack' = Append(done, Call("on_message", {a}))
        PROVE  LifecycleStep
    <2>1. a \in Agent /\ done \in Seq(Frame)
      BY <1>3 DEF Inv, TypeOK, Kept
    <2>2. ~Looping(stack)
      BY NotLooping DEF Kept
    <2>3. phase[a] \in {"fresh", "active"}
      BY <1>3, <2>2 DEF Inv, Phases
    <2>4. Inside(stack') = Inside(stack) \cup {<<"on_message", a>>}
      BY <1>3, <2>1, InsidePush DEF Callback
    <2>5. Lifecycle!OnMessage(a)
      BY <1>1, <2>3, <2>4 DEF Lifecycle!OnMessage, Lifecycle!Enter, Inside
    <2> QED
      BY <2>1, <2>5 DEF LifecycleStep, Lifecycle!Next
  <1>4. \/ stack' = done \/ stack' = failed
        \/ running /\ \E a \in agents : stack' = Append(done, Call("on_message", {a}))
    BY DEF ReceiveAndDispatch, Dispatch
  <1> QED
    BY <1>2, <1>3, <1>4

LEMMA StepRunOnce ==
    ASSUME SafeDiscipline, LoopsUndisturbed, Inv, RunOnce
    PROVE  LifecycleStep
  <1>1. OnlyDispatchers(stack)
    BY DispatchedByHandlers DEF RunOnce
  <1> QED
    BY <1>1, KeptSelf, StepReceive DEF RunOnce

LEMMA StepDrainRunOnce ==
    ASSUME LoopsUndisturbed, Inv, DrainRunOnce
    PROVE  LifecycleStep
  <1>1. stack # <<>> /\ Top.op = "drain_run_once" /\ Top.op \notin Callback /\ TypeOK
    BY DEF DrainRunOnce, OnTop, Callback, Inv
  <1>2. Inside(Replace(Call("drain", {}))) = Inside(stack) /\ Inside(Pop) = Inside(stack)
    BY <1>1, InsideReplace, InsidePop DEF InProgress
  <1>3. Kept(Replace(Call("drain", {}))) /\ OnlyDispatchers(Replace(Call("drain", {})))
    BY <1>1, DrainOnTop
  <1> QED
    BY <1>2, <1>3, StepReceive DEF DrainRunOnce

(* The callback on top leaves: its agent's method has returned, unless the *)
(* same method of the same agent is executing further down.                *)
LEMMA StepLeave ==
    ASSUME Inv, NEW c \in Callback, stack # <<>>, Top.op = c,
           Inside(stack') = Inside(Pop), UNCHANGED phase
    PROVE  LifecycleStep
  <1>1. stack # <<>> /\ Top.op = c /\ Inside(stack') = Inside(Pop) /\ UNCHANGED phase /\ TypeOK
    BY DEF Inv
  <1>2. PICK a \in Agent : Top.of = {a}
    <2>1. PICK n \in Nat : n = Len(stack) /\ DOMAIN stack = 1 .. n /\ n # 0
      BY <1>1, StackLen DEF TypeOK
    <2>2. n \in DOMAIN stack
      BY <2>1
    <2>3. FrameOK(stack, n)
      BY <2>2 DEF Inv, Shaped
    <2> QED
      BY <1>1, <2>1, <2>3 DEF FrameOK, Top
  <1>3. Inside(stack) = Inside(Pop) \cup {<<c, a>>}
    BY <1>1, <1>2, InsidePop
  <1>4. CASE <<c, a>> \in Inside(Pop)
    BY <1>1, <1>3, <1>4 DEF LifecycleStep, Lifecycle!vars, Inside
  <1>5. CASE <<c, a>> \notin Inside(Pop)
    <2> DEFINE m == <<c, a>>
    <2>1. m \in Inside(stack) /\ m[2] = a /\ Inside(stack') = Inside(stack) \ {m}
      BY <1>1, <1>3, <1>5
    <2>2. Lifecycle!Return(a)
      BY <1>1, <2>1 DEF Lifecycle!Return, Inside
    <2> QED
      BY <2>2 DEF LifecycleStep, Lifecycle!Next
  <1> QED
    BY <1>4, <1>5

LEMMA StepReturn ==
    ASSUME Inv, NEW c \in Callback, Return(c)
    PROVE  LifecycleStep
  BY StepLeave DEF Return, OnTop

(* An exception leaves one method only: user code catches it, or main. *)
LEMMA StepThrow ==
    ASSUME Inv, NEW c \in Callback, Throw(c)
    PROVE  LifecycleStep
  <1>1. stack \in Seq(Frame) /\ stack # <<>> /\ Top.op = c /\ UNCHANGED phase
    BY DEF Inv, TypeOK, Throw, OnTop
  <1>2. PICK n \in Nat, k \in Nat :
              /\ k = Len(stack) /\ k # 0 /\ DOMAIN stack = 1 .. k /\ n \in 0 .. k - 1
              /\ Catches(n)
              /\ stack' \in Seq(Frame) /\ Len(stack') = n /\ DOMAIN stack' = 1 .. n
              /\ \A i \in 1 .. n : stack'[i] = stack[i]
    BY <1>1, ThrowCuts
  <1>3. /\ DOMAIN Pop = 1 .. k - 1
        /\ \A i \in 1 .. k - 1 : Pop[i] = stack[i]
    BY <1>1, <1>2, PopFacts DEF Pop
  <1>4. /\ \A i \in 1 .. n : i \in 1 .. k - 1
        /\ \A i \in 1 .. k - 1 : i \in 1 .. n \/ stack[i].op \notin Callback
    <2>1. \A i \in n + 1 .. k - 1 : stack[i].op \notin Callback
      BY <1>2 DEF Catches
    <2>2. \A i \in 1 .. k - 1 : i \in 1 .. n \/ i \in n + 1 .. k - 1
      BY <1>2
    <2>3. \A i \in 1 .. n : i \in 1 .. k - 1
      BY <1>2
    <2> QED
      BY <2>1, <2>2, <2>3
  <1>5. \A m \in Callback \X Agent : m \in Inside(stack') <=> m \in Inside(Pop)
    <2> SUFFICES ASSUME NEW m \in Callback \X Agent
                 PROVE  m \in Inside(stack') <=> m \in Inside(Pop)
      OBVIOUS
    <2>1. ASSUME m \in Inside(stack') PROVE m \in Inside(Pop)
      <3>1. PICK i \in 1 .. n : stack'[i].op = m[1] /\ m[2] \in stack'[i].of
        BY <2>1, <1>2 DEF Inside
      <3>2. i \in 1 .. k - 1 /\ Pop[i] = stack'[i]
        BY <3>1, <1>2, <1>3, <1>4
      <3> QED
        BY <3>1, <3>2, <1>3 DEF Inside
    <2>2. ASSUME m \in Inside(Pop) PROVE m \in Inside(stack')
      <3>1. PICK i \in 1 .. k - 1 : Pop[i].op = m[1] /\ m[2] \in Pop[i].of
        BY <2>2, <1>3 DEF Inside
      <3>2. Pop[i] = stack[i] /\ stack[i].op \in Callback
        BY <3>1, <1>3
      <3>3. i \in 1 .. n /\ stack'[i] = Pop[i]
        BY <3>2, <1>2, <1>4
      <3> QED
        BY <3>1, <3>3, <1>2 DEF Inside
    <2> QED
      BY <2>1, <2>2
  <1>6. Inside(stack') = Inside(Pop)
    BY <1>5 DEF Inside
  <1> QED
    BY <1>1, <1>6, StepLeave

(* The calls and loops that enter no method of an agent. *)
LEMMA StepQuiet ==
    ASSUME Inv, \/ BroadcastEvent \/ Start \/ Stop \/ Drain
                \/ BroadcastNext \/ DrainTest
    PROVE  LifecycleStep
  <1>1. UNCHANGED phase
    BY DEF BroadcastEvent, Start, Stop, Drain, BroadcastNext, DrainTest
  <1>2. stack \in Seq(Frame) /\ agents \in SUBSET Agent /\ TypeOK
    BY DEF Inv, TypeOK
  <1>3. \A op \in InProgress : \A of \in SUBSET Agent : Inside(Push(Call(op, of))) = Inside(stack)
    BY <1>2, InsidePush DEF Push, InProgress, Callback
  <1>4. CASE BroadcastEvent \/ Start \/ Stop \/ Drain
    <2>1. stack' = stack \/ \E op \in InProgress, of \in SUBSET Agent : stack' = Push(Call(op, of))
      BY <1>2, <1>4 DEF BroadcastEvent, Start, Stop, Drain, InProgress
    <2> QED
      BY <1>1, <1>3, <2>1 DEF LifecycleStep, Lifecycle!vars, Inside
  <1>5. CASE BroadcastNext \/ DrainTest
    <2>1. stack # <<>> /\ Top.op \notin Callback /\ Top.of \in SUBSET Agent
      BY <1>2, <1>5, StackTypes DEF BroadcastNext, DrainTest, OnTop, Callback
    <2>2. /\ Inside(Pop) = Inside(stack)
          /\ \A op \in InProgress : \A of \in SUBSET Agent : Inside(Replace(Call(op, of))) = Inside(stack)
      BY <1>2, <2>1, InsidePop, InsideReplace
    <2>3. \/ stack' = Pop
          \/ \E op \in InProgress, of \in SUBSET Agent : stack' = Replace(Call(op, of))
      <3>1. \A a : Top.of \ {a} \in SUBSET Agent
        BY <2>1
      <3> QED
        BY <1>5, <3>1 DEF BroadcastNext, DrainTest, InProgress
    <2> QED
      BY <1>1, <2>2, <2>3 DEF LifecycleStep, Lifecycle!vars, Inside
  <1> QED
    BY <1>4, <1>5

LEMMA StepNext ==
    ASSUME SafeDiscipline, LoopsUndisturbed, Inv, [Next]_vars
    PROVE  LifecycleStep
  <1>1. CASE UNCHANGED <<phase, stack>>
    BY <1>1 DEF LifecycleStep, Lifecycle!vars, Inside
  <1>2. ASSUME NEW a \in Agent, RegisterAgent(a) \/ UnregisterAgent(a) PROVE LifecycleStep
    BY <1>2, StepRegister, StepUnregister
  <1>3. ASSUME NEW a \in Agent, Send(a) \/ PublishEvent(a) \/ ForeignSend(a)
        PROVE  UNCHANGED <<phase, stack>>
    BY <1>3 DEF Send, PublishEvent, ForeignSend
  <1>4. CASE RegisterInvalid \/ ForeignReceive
    BY <1>1, <1>4 DEF RegisterInvalid, Fails, ForeignReceive
  <1>5. CASE BroadcastEvent \/ Start \/ Stop \/ RunOnce \/ Drain
    BY <1>5, StepQuiet, StepRunOnce
  <1>6. CASE RuntimeStep
    BY <1>6, StepErase, StepQuiet, StepStartNext, StepStopNext, StepDrainRunOnce DEF RuntimeStep
  <1>7. ASSUME NEW c \in Callback, Return(c) PROVE LifecycleStep
    BY <1>7, StepReturn
  <1>8. ASSUME NEW c \in Callback, Throw(c) PROVE LifecycleStep
    BY <1>8, StepThrow
  <1>9. CASE UNCHANGED vars
    BY <1>1, <1>9 DEF vars
  <1> QED
    BY <1>1, <1>2, <1>3, <1>4, <1>5, <1>6, <1>7, <1>8, <1>9 DEF Next, UserCall, Foreign

(* Under the contract, when on_start and on_stop throw nothing, the        *)
(* runtime implements AgentLifecycle: every behaviour of the runtime's     *)
(* callbacks is one an agent may rely on, exceptions of on_message         *)
(* included.                                                               *)
THEOREM ImplementsLifecycle ==
    ASSUME SafeDiscipline, LoopsUndisturbed PROVE Spec => KeepsLifecycle
  <1>1. Init => Lifecycle!Init
    BY DEF Init, Lifecycle!Init, Inside
  <1>2. Inv /\ [Next]_vars => Inv'
    BY InvNext
  <1>3. Inv /\ [Next]_vars => [Lifecycle!Next]_(Lifecycle!vars)
    BY StepNext DEF LifecycleStep
  <1> QED
    BY <1>1, <1>2, <1>3, InvInit, PTL DEF Spec, KeepsLifecycle, Lifecycle!Spec
=============================================================================
