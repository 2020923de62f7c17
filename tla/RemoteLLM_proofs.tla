-------------------------- MODULE RemoteLLM_proofs --------------------------
(***************************************************************************)
(* Proofs about RemoteLLM, for any clients and servers, any numbers of     *)
(* requests and any messages of other programs.                            *)
(***************************************************************************)
EXTENDS RemoteLLM, SequenceLemmas, TLAPS

(* Nobody has worked on a request, or is about to. *)
Fresh(r) ==
    r \notin done /\ \A s \in Server : server[s] \in {"working", "answering"} => accepted[s] # r

(* What a connection brings to its client. *)
OwnOrForeign(r) ==
    \/ outbox[r] \in Strange \cup Forged \cup {None}
    \/ r \in done /\ outbox[r] \in Genuine(r)

InProgress == \A c \in Client : call[c] # "idle" => Current(c) \in Request /\ outcome[Current(c)] = "made"

Unmade == \A r \in Request : counter[r[1]] < r[2] => outcome[r] = "unmade"

Known == /\ \A r \in Queued \cup done : outcome[r] # "unmade"
         /\ \A s \in Server : accepted[s] # None => outcome[accepted[s]] # "unmade"

Apart == /\ \A r \in Queued, s \in Server : accepted[s] # r
         /\ \A s, t \in Server : s # t /\ accepted[s] # None => accepted[s] # accepted[t]

Unsent == \A c \in Client : call[c] = "connected" => Fresh(Current(c)) /\ inbox[Current(c)] = None

Unread == \A r \in Request : inbox[r] # None => Fresh(r) /\ outcome[r] \in {"made", "misled", "failed"}

Working == \A s \in Server :
               server[s] = "working" => /\ accepted[s] \notin done
                                        /\ outcome[accepted[s]] \in {"made", "misled", "failed"}

Answers == /\ \A s \in Server : server[s] = "answering" => accepted[s] \in done
           /\ \A r \in Request : OwnOrForeign(r)

Inv == /\ TypeOK /\ InProgress /\ Unmade /\ Known /\ Apart
       /\ Unsent /\ Unread /\ Working /\ Answers /\ OwnAnswer

-----------------------------------------------------------------------------
LEMMA RequestFacts ==
    ASSUME NEW r \in Request
    PROVE  /\ r[1] \in Client /\ r[2] \in Nat
           /\ r = <<r[1], r[2]>> /\ r # None
  BY RemoteAssumption DEF RemoteAssumption, Request

LEMMA NextRequest ==
    ASSUME TypeOK, NEW c \in Client, counter[c] < MaxCalls[c]
    PROVE  <<c, counter[c] + 1>> \in Request
  <1>1. counter[c] \in Nat /\ MaxCalls[c] \in Nat
    BY RemoteAssumption DEF RemoteAssumption, TypeOK
  <1>2. counter[c] + 1 \in 1 .. MaxCalls[c]
    BY <1>1
  <1> QED
    BY <1>2 DEF Request

(* A process past accept has a connection. *)
LEMMA Holding ==
    ASSUME TypeOK, NEW s \in Server, server[s] \in {"receiving", "working", "answering"}
    PROVE  accepted[s] \in Request /\ accepted[s] # None
  <1>1. accepted[s] # None
    BY DEF TypeOK
  <1> QED
    BY <1>1 DEF TypeOK

LEMMA MessageFacts ==
    /\ \A r \in Request : RequestMessage(r) \in Message
    /\ \A r \in Request : Genuine(r) \subseteq Message
    /\ \A r \in Request : \A m \in Genuine(r) : m.status \in Results /\ m.of = r
    /\ \A m \in Forged : m.status \in Results /\ m.of \in Request /\ m.worked = FALSE
    /\ Strange \subseteq Message /\ Forged \subseteq Message
    /\ None \notin Message
    /\ Results \subseteq Status
  <1>1. /\ \A r \in Request : RequestMessage(r) \in Message
        /\ \A r \in Request : Genuine(r) \subseteq Message
        /\ Strange \subseteq Message /\ Forged \subseteq Message
    BY DEF Message
  <1>2. \A r \in Request : \A m \in Genuine(r) : m.status \in Results /\ m.of = r
    BY DEF Genuine, ResponseMessage
  <1>6. \A m \in Forged : m.status \in Results /\ m.of \in Request /\ m.worked = FALSE
    BY DEF Forged, ResponseMessage
  <1>3. None \notin Message
    BY RemoteAssumption DEF RemoteAssumption
  <1>4. Results \subseteq {"Ok", "InvalidPrompt"}
    BY RemoteAssumption DEF RemoteAssumption
  <1>5. Results \subseteq Status
    BY <1>4 DEF Status
  <1> QED
    BY <1>1, <1>2, <1>3, <1>5, <1>6

LEMMA QueuedFacts ==
    ASSUME queue \in Seq(Request)
    PROVE  /\ Queued \subseteq Request
           /\ queue # <<>> => Head(queue) \in Queued
           /\ \A r \in Request : queue' = Append(queue, r) => Queued' = Queued \cup {r}
           /\ queue' = <<>> => Queued' = {}
  <1>1. DOMAIN queue = 1 .. Len(queue) /\ Len(queue) \in Nat
    BY LenProperties
  <1>2. Queued \subseteq Request
    BY <1>1, ElementOfSeq DEF Queued
  <1>3. ASSUME queue # <<>> PROVE Head(queue) \in Queued
    <2>1. Head(queue) = queue[1] /\ Len(queue) # 0
      BY <1>3, EmptySeq
    <2>2. 1 \in DOMAIN queue
      BY <2>1, <1>1
    <2> QED
      BY <2>1, <2>2 DEF Queued
  <1>4. ASSUME NEW r \in Request, queue' = Append(queue, r)
        PROVE  Queued' = Queued \cup {r}
    <2>0. PICK n \in Nat : n = Len(queue)
      BY <1>1
    <2>1. /\ DOMAIN queue' = 1 .. n + 1
          /\ queue'[n + 1] = r
          /\ \A i \in 1 .. n : queue'[i] = queue[i]
      BY <1>4, <2>0, PushFacts
    <2>2. 1 .. n + 1 = (1 .. n) \cup {n + 1} /\ DOMAIN queue = 1 .. n
      BY <2>0, <1>1
    <2>3. {queue'[i] : i \in (1 .. n) \cup {n + 1}} = {queue'[i] : i \in 1 .. n} \cup {r}
      BY <2>1
    <2>4. {queue'[i] : i \in 1 .. n} = {queue[i] : i \in 1 .. n}
      BY <2>1
    <2> QED
      BY <2>1, <2>2, <2>3, <2>4 DEF Queued
  <1>5. ASSUME queue' = <<>> PROVE Queued' = {}
    BY <1>5 DEF Queued
  <1> QED
    BY <1>2, <1>3, <1>4, <1>5

-----------------------------------------------------------------------------
LEMMA InitInv == Init => Inv
  <1> SUFFICES ASSUME Init PROVE Inv
    OBVIOUS
  <1>1. TypeOK
    BY EmptySeq DEF Init, TypeOK, Status
  <1>2. Queued = {}
    BY DEF Init, Queued
  <1>3. InProgress /\ Unmade /\ Unsent /\ Unread /\ Working /\ Answers
    BY RequestFacts DEF Init, InProgress, Unmade, Unsent, Unread, Working, Answers, OwnOrForeign
  <1>4. Known /\ Apart /\ OwnAnswer
    BY <1>2 DEF Init, Known, Apart, OwnAnswer
  <1> QED
    BY <1>1, <1>3, <1>4 DEF Inv

(* generate returns, whatever it returns: nothing that a server still has  *)
(* to do belongs to a request that was answered or refused.                *)
LEMMA ReturnInv ==
    ASSUME Inv, NEW c \in Client, call[c] # "idle",
           NEW status \in Status, NEW of \in Request \cup {None},
           NEW how \in {"answered", "misled", "refused", "failed"},
           Return(c, status, of, how),
           of \in {None, Current(c)} \/ how = "misled",
           how \notin {"misled", "failed"} =>
                             /\ inbox[Current(c)] = None
                             /\ \A s \in Server : server[s] = "working" => accepted[s] # Current(c),
           inbox' = inbox,
           outbox' \in {outbox, [outbox EXCEPT ![Current(c)] = None]}
    PROVE  Inv'
  <1>0. Current(c) \in Request /\ \A d \in Client : Current(d)' = Current(d) /\ (d # c => Current(d) # Current(c))
    BY DEF Inv, InProgress, Return, Current
  <1>1. TypeOK'
    BY <1>0 DEF Inv, TypeOK, Return
  <1>2. /\ \A d \in Client : call'[d] = IF d = c THEN "idle" ELSE call[d]
        /\ \A r \in Request : outcome'[r] = IF r = Current(c) THEN how ELSE outcome[r]
        /\ \A r \in Request : outbox'[r] \in {outbox[r], None}
        /\ Queued' = Queued
    BY <1>0 DEF Inv, TypeOK, Return, Queued
  <1>3. InProgress'
    BY <1>0, <1>2 DEF Inv, InProgress
  <1>4. Unmade'
    <2>1. counter[c] \in Nat /\ Current(c)[1] = c /\ Current(c)[2] = counter[c]
      BY DEF Inv, TypeOK, Current
    <2>2. ~(counter[Current(c)[1]] < Current(c)[2])
      BY <2>1
    <2> QED
      BY <1>0, <1>2, <2>2 DEF Inv, Unmade, Return
  <1>5. Known' /\ Apart'
    <2>1. Queued \subseteq Request /\ done \subseteq Request
          /\ \A s \in Server : accepted[s] \in Request \cup {None}
      BY QueuedFacts DEF Inv, TypeOK
    <2> QED
      BY <1>2, <2>1 DEF Inv, Known, Apart, Return
  <1>6. Unsent'
    BY <1>0, <1>2 DEF Inv, Unsent, Fresh, Return
  <1>7. Unread'
    BY <1>0, <1>2 DEF Inv, Unread, Fresh, Return
  <1>8. Working'
    <2>1. \A s \in Server : server[s] = "working" => accepted[s] \in Request
      BY Holding DEF Inv
    <2> QED
      BY <1>2, <2>1 DEF Inv, Working, Return
  <1>9. Answers'
    BY <1>2 DEF Inv, Answers, OwnOrForeign, Return
  <1>10. OwnAnswer'
    <2>1. \A d \in Client : result'[d].of = IF d = c THEN of ELSE result[d].of
      BY DEF Inv, TypeOK, Return
    <2> QED
      BY <1>0, <1>2, <2>1 DEF Inv, OwnAnswer, Misled
  <1> QED
    BY <1>1, <1>3, <1>4, <1>5, <1>6, <1>7, <1>8, <1>9, <1>10 DEF Inv

(* A process ends: no connection of its own is left. *)
LEMMA ExitInv ==
    ASSUME Inv, NEW s \in Server, server[s] # "down", Exit(s), done' = done,
           outbox' \in [Request -> Message \cup {None}],
           \A r \in Request : OwnOrForeign(r)'
    PROVE  Inv'
  <1>1. /\ \A t \in Server : server'[t] = IF t = s THEN "down" ELSE server[t]
        /\ \A t \in Server : accepted'[t] = IF t = s THEN None ELSE accepted[t]
        /\ \A r \in Request : inbox'[r] \in {inbox[r], None}
        /\ UNCHANGED <<call, counter, result, outcome>>
        /\ open' \subseteq open
    BY DEF Inv, TypeOK, Exit
  <1>2. queue' \in {queue, <<>>} /\ Queued' \subseteq Queued
    <2>1. CASE queue' = <<>>
      BY <2>1, QueuedFacts DEF Inv, TypeOK
    <2>2. CASE queue' = queue
      BY <2>2 DEF Queued
    <2> QED
      BY <2>1, <2>2 DEF Exit
  <1>3. TypeOK'
    <2>1. queue' \in Seq(Request)
      BY <1>2, EmptySeq DEF Inv, TypeOK
    <2>2. server' \in [Server -> {"down", "listening", "receiving", "working", "answering"}]
      BY DEF Inv, TypeOK, Exit
    <2>3. accepted' \in [Server -> Request \cup {None}]
      BY DEF Inv, TypeOK, Exit
    <2>4. inbox' \in [Request -> Message \cup {None}]
      BY DEF Inv, TypeOK, Exit
    <2>5. \A t \in Server : accepted'[t] = None <=> server'[t] \in {"down", "listening"}
      BY <1>1 DEF Inv, TypeOK
    <2> QED
      BY <1>1, <2>1, <2>2, <2>3, <2>4, <2>5 DEF Inv, TypeOK
  <1>4. InProgress' /\ Unmade' /\ OwnAnswer'
    BY <1>1 DEF Inv, InProgress, Unmade, OwnAnswer, Misled, Current
  <1>5. Known'
    BY <1>1, <1>2 DEF Inv, Known
  <1>6. Apart'
    <2>1. \A r \in Queued : r # None
      BY QueuedFacts, RequestFacts DEF Inv, TypeOK
    <2> QED
      BY <1>1, <1>2, <2>1 DEF Inv, Apart
  <1>7. \A r \in Request : Fresh(r) => Fresh(r)'
    BY <1>1 DEF Fresh
  <1>8. Unsent'
    BY <1>1, <1>7 DEF Inv, InProgress, Unsent, Current
  <1>9. Unread'
    BY <1>1, <1>7 DEF Inv, Unread
  <1>10. Working' /\ Answers'
    BY <1>1 DEF Inv, Working, Answers
  <1> QED
    BY <1>3, <1>4, <1>5, <1>6, <1>8, <1>9, <1>10 DEF Inv

LEMMA ConnectInv ==
    ASSUME Inv, NEW c \in Client, Connect(c)
    PROVE  Inv'
  <1>0. PICK r \in Request : r = <<c, counter[c] + 1>>
    BY NextRequest DEF Inv, Connect
  <1>1. r[1] = c /\ r[2] = counter[c] + 1 /\ counter[c] \in Nat
    BY <1>0 DEF Inv, TypeOK
  <1>2. outcome[r] = "unmade"
    BY <1>1 DEF Inv, Unmade
  <1>3. /\ queue' = Append(queue, r) /\ queue' \in Seq(Request)
        /\ Queued' = Queued \cup {r} /\ Queued \subseteq Request
    <2>1. queue' = Append(queue, r) /\ queue \in Seq(Request)
      BY <1>0 DEF Inv, TypeOK, Connect
    <2>2. Append(queue, r) \in Seq(Request)
      BY <2>1, PushFacts
    <2> QED
      BY <2>1, <2>2, QueuedFacts
  <1>4. /\ \A d \in Client : counter'[d] = IF d = c THEN counter[c] + 1 ELSE counter[d]
        /\ \A d \in Client : call'[d] = IF d = c THEN "connected" ELSE call[d]
        /\ \A q \in Request : outcome'[q] = IF q = r THEN "made" ELSE outcome[q]
        /\ UNCHANGED <<result, server, accepted, inbox, outbox, done>>
    BY <1>0, <1>1 DEF Inv, TypeOK, Connect
  <1>5. Current(c)' = r /\ \A d \in Client : d # c => Current(d)' = Current(d) /\ Current(d) # r
    BY <1>0, <1>1, <1>4 DEF Current
  <1>6. TypeOK'
    <2>1. counter' \in [Client -> Nat]
      BY <1>1 DEF Inv, TypeOK, Connect
    <2>2. open' \subseteq Request /\ outcome' \in [Request -> {"unmade", "made", "answered", "misled", "refused", "failed"}]
      BY <1>0 DEF Inv, TypeOK, Connect
    <2>3. call' \in [Client -> {"idle", "connected", "waiting"}]
      BY DEF Inv, TypeOK, Connect
    <2> QED
      BY <1>3, <1>4, <2>1, <2>2, <2>3 DEF Inv, TypeOK
  <1>7. InProgress'
    BY <1>1, <1>4, <1>5 DEF Inv, InProgress
  <1>8. Unmade'
    <2> SUFFICES ASSUME NEW q \in Request, counter'[q[1]] < q[2] PROVE outcome'[q] = "unmade"
      BY DEF Unmade
    <2>1. q[1] \in Client /\ q[2] \in Nat /\ counter[q[1]] \in Nat
      BY RequestFacts DEF Inv, TypeOK
    <2>2. counter[q[1]] < q[2] /\ q # r
      BY <1>1, <1>4, <2>1
    <2> QED
      BY <1>4, <2>2 DEF Inv, Unmade
  <1>9. Known'
    <2>1. \A s \in Server : accepted[s] \in Request \cup {None}
      BY DEF Inv, TypeOK
    <2>2. done \subseteq Request
      BY DEF Inv, TypeOK
    <2> QED
      BY <1>1, <1>3, <1>4, <2>1, <2>2 DEF Inv, Known
  <1>10. Apart'
    <2>1. \A s \in Server : accepted[s] # r
      BY <1>1, <1>2, RequestFacts DEF Inv, Known
    <2> QED
      BY <1>3, <1>4, <2>1 DEF Inv, Apart
  <1>11. r \notin done /\ inbox[r] = None /\ \A s \in Server : accepted[s] # r
    BY <1>1, <1>2, RequestFacts DEF Inv, Known, Unread
  <1>12. \A q \in Request : Fresh(q)' <=> Fresh(q)
    BY <1>4 DEF Fresh
  <1>13. Unsent'
    <2>1. Fresh(r)'
      BY <1>4, <1>11 DEF Fresh
    <2> QED
      BY <1>4, <1>5, <1>11, <1>12, <2>1 DEF Inv, InProgress, Unsent
  <1>14. Unread'
    BY <1>4, <1>11, <1>12 DEF Inv, Unread
  <1>15. Working' /\ Answers'
    <2>1. \A s \in Server : server[s] = "working" => accepted[s] \in Request
      BY Holding DEF Inv
    <2> QED
      BY <1>4, <1>11, <2>1 DEF Inv, Working, Answers, OwnOrForeign
  <1>16. OwnAnswer'
    BY <1>4, <1>5 DEF Inv, OwnAnswer, Misled
  <1> QED
    BY <1>6, <1>7, <1>8, <1>9, <1>10, <1>13, <1>14, <1>15, <1>16 DEF Inv

LEMMA SendInv ==
    ASSUME Inv, NEW c \in Client, Send(c)
    PROVE  Inv'
  <1>1. /\ Current(c) \in Request /\ outcome[Current(c)] = "made"
        /\ Fresh(Current(c))
    BY DEF Inv, InProgress, Unsent, Send
  <1>2. inbox' = inbox \/ \E m \in Message : inbox' = [inbox EXCEPT ![Current(c)] = m]
    BY <1>1, MessageFacts DEF Send
  <1>3. /\ \A d \in Client : call'[d] = IF d = c THEN "waiting" ELSE call[d]
        /\ \A r \in Request : r # Current(c) => inbox'[r] = inbox[r]
        /\ \A d \in Client : Current(d)' = Current(d) /\ (d # c => Current(d) # Current(c))
        /\ Queued' = Queued
        /\ UNCHANGED <<counter, result, server, queue, accepted, open, outbox, done, outcome>>
    BY <1>1, <1>2 DEF Inv, TypeOK, Send, Current, Queued
  <1>4. TypeOK'
    <2>1. inbox' \in [Request -> Message \cup {None}]
      BY <1>1, <1>2 DEF Inv, TypeOK
    <2>2. call' \in [Client -> {"idle", "connected", "waiting"}]
      BY DEF Inv, TypeOK, Send
    <2> QED
      BY <1>3, <2>1, <2>2 DEF Inv, TypeOK
  <1>5. InProgress' /\ Unmade' /\ OwnAnswer'
    BY <1>1, <1>3 DEF Inv, InProgress, Unmade, OwnAnswer, Misled, Send
  <1>6. Known' /\ Apart' /\ Working'
    BY <1>3 DEF Inv, Known, Apart, Working
  <1>7. \A r \in Request : (Fresh(r)' <=> Fresh(r)) /\ (OwnOrForeign(r)' <=> OwnOrForeign(r))
    BY <1>3 DEF Fresh, OwnOrForeign
  <1>8. Unsent'
    BY <1>3, <1>7 DEF Inv, InProgress, Unsent
  <1>9. Unread'
    BY <1>1, <1>3, <1>7 DEF Inv, Unread
  <1>10. Answers'
    BY <1>3, <1>7 DEF Inv, Answers
  <1> QED
    BY <1>4, <1>5, <1>6, <1>8, <1>9, <1>10 DEF Inv

LEMMA SendFailsInv ==
    ASSUME Inv, NEW c \in Client, SendFails(c)
    PROVE  Inv'
  <1>1. /\ inbox[Current(c)] = None
        /\ \A s \in Server : server[s] = "working" => accepted[s] # Current(c)
    BY DEF Inv, Unsent, Fresh, SendFails
  <1> QED
    BY <1>1, ReturnInv DEF SendFails, Status

(* What a client receives as an answer is one to its request, which some   *)
(* server has worked on, or one that another program made up.              *)
LEMMA ReceivedAnswer ==
    ASSUME Inv, NEW c \in Client, Receive(c)
    PROVE  LET m == outbox[Current(c)]
           IN  m.name = "LLM_RESPONSE" /\ m.decodes =>
                   /\ m.status \in Status /\ m.of \in Request
                   /\ m.worked => m.of = Current(c) /\ Current(c) \in done
  <1> DEFINE m == outbox[Current(c)]
  <1> SUFFICES ASSUME m.name = "LLM_RESPONSE", m.decodes
               PROVE  /\ m.status \in Status /\ m.of \in Request
                      /\ m.worked => m.of = Current(c) /\ Current(c) \in done
    OBVIOUS
  <1>1. Current(c) \in Request /\ m # None
    BY DEF Inv, InProgress, Receive, Source
  <1>2. m \notin Strange
    BY RemoteAssumption DEF RemoteAssumption
  <1>3. m \in Forged \/ (Current(c) \in done /\ m \in Genuine(Current(c)))
    BY <1>1, <1>2 DEF Inv, Answers, OwnOrForeign
  <1> QED
    BY <1>1, <1>3, MessageFacts

(* The ways in which a call that sent its request can end. *)
LEMMA ReceiveReturns ==
    ASSUME Inv, NEW c \in Client, Receive(c) \/ ReceiveFails(c)
    PROVE  \E status \in Status, of \in Request \cup {None}, how \in {"answered", "misled", "failed"} :
               /\ Return(c, status, of, how)
               /\ of \in {None, Current(c)} \/ how = "misled"
               /\ how = "answered" => Current(c) \in done
  <1>1. CASE ReceiveFails(c)
    BY <1>1 DEF ReceiveFails, Status
  <1>2. CASE Receive(c)
    <2> DEFINE m == outbox[Current(c)]
    <2>1. CASE m.name # "LLM_RESPONSE"
      BY <1>2, <2>1 DEF Receive, Source, Status
    <2>2. CASE m.name = "LLM_RESPONSE" /\ ~m.decodes
      BY <1>2, <2>2 DEF Receive, Source, Status
    <2>3. CASE m.name = "LLM_RESPONSE" /\ m.decodes
      <3>1. Return(c, m.status, m.of, IF m.worked THEN "answered" ELSE "misled")
        BY <1>2, <2>3 DEF Receive, Source
      <3> QED
        BY <1>2, <2>3, <3>1, ReceivedAnswer
    <2> QED
      BY <2>1, <2>2, <2>3
  <1> QED
    BY <1>1, <1>2

LEMMA ReceiveInv ==
    ASSUME Inv, NEW c \in Client, Receive(c) \/ ReceiveFails(c)
    PROVE  Inv'
  <1>1. \E status \in Status, of \in Request \cup {None}, how \in {"answered", "misled", "failed"} :
            /\ Return(c, status, of, how)
            /\ of \in {None, Current(c)} \/ how = "misled"
            /\ how = "answered" => Current(c) \in done
    BY ReceiveReturns
  <1>2. /\ call[c] # "idle" /\ Current(c) \in Request
        /\ inbox' = inbox
        /\ outbox' \in {outbox, [outbox EXCEPT ![Current(c)] = None]}
    BY DEF Inv, InProgress, Receive, ReceiveFails, Source
  <1>3. Current(c) \in done => /\ inbox[Current(c)] = None
                               /\ \A s \in Server : server[s] = "working" => accepted[s] # Current(c)
    BY <1>2 DEF Inv, Unread, Fresh, Working
  <1> QED
    BY <1>1, <1>2, <1>3, ReturnInv

-----------------------------------------------------------------------------
LEMMA AcceptInv ==
    ASSUME Inv, NEW s \in Server, Accept(s)
    PROVE  Inv'
  <1> DEFINE h == Head(queue)
  <1>1. h \in Queued /\ h \in Request /\ Queued' = {} /\ queue' \in Seq(Request)
    BY QueuedFacts, EmptySeq DEF Inv, TypeOK, Accept
  <1>2. /\ \A t \in Server : server'[t] = IF t = s THEN "receiving" ELSE server[t]
        /\ \A t \in Server : accepted'[t] = IF t = s THEN h ELSE accepted[t]
        /\ \A r \in Request : inbox'[r] \in {inbox[r], None}
        /\ UNCHANGED <<call, counter, result, outbox, done, outcome>>
    BY DEF Inv, TypeOK, Accept
  <1>3. TypeOK'
    <2>1. server' \in [Server -> {"down", "listening", "receiving", "working", "answering"}]
      BY DEF Inv, TypeOK, Accept
    <2>2. accepted' \in [Server -> Request \cup {None}]
      BY <1>1 DEF Inv, TypeOK, Accept
    <2>3. inbox' \in [Request -> Message \cup {None}]
      BY DEF Inv, TypeOK, Accept
    <2>4. \A t \in Server : accepted'[t] = None <=> server'[t] \in {"down", "listening"}
      BY <1>1, <1>2, RequestFacts DEF Inv, TypeOK
    <2>5. open' \subseteq Request
      BY DEF Inv, TypeOK, Accept
    <2> QED
      BY <1>1, <1>2, <2>1, <2>2, <2>3, <2>4, <2>5 DEF Inv, TypeOK
  <1> HIDE DEF h
  <1>4. InProgress' /\ Unmade' /\ OwnAnswer'
    BY <1>2 DEF Inv, InProgress, Unmade, OwnAnswer, Misled, Current
  <1>5. Known'
    BY <1>1, <1>2 DEF Inv, Known
  <1>6. Apart'
    BY <1>1, <1>2 DEF Inv, Apart
  <1>7. \A r \in Request : Fresh(r) => Fresh(r)'
    BY <1>2 DEF Fresh
  <1>8. Unsent'
    BY <1>2, <1>7 DEF Inv, InProgress, Unsent, Current
  <1>9. Unread'
    BY <1>2, <1>7 DEF Inv, Unread
  <1>10. Working' /\ Answers'
    BY <1>2 DEF Inv, Working, Answers, OwnOrForeign
  <1> QED
    BY <1>3, <1>4, <1>5, <1>6, <1>8, <1>9, <1>10 DEF Inv

(* A process that goes on without exiting, with the connection it has. *)
LEMMA ReadRequestInv ==
    ASSUME Inv, NEW s \in Server, server[s] = "receiving", inbox[accepted[s]] # None,
           server' = [server EXCEPT ![s] = "working"],
           inbox' = [inbox EXCEPT ![accepted[s]] = None],
           UNCHANGED <<call, counter, result, queue, accepted, open, outbox, done, outcome>>
    PROVE  Inv'
  <1> DEFINE r == accepted[s]
  <1>1. r \in Request /\ r # None
    BY Holding DEF Inv
  <1>2. Fresh(r) /\ outcome[r] \in {"made", "misled", "failed"}
    BY <1>1 DEF Inv, Unread
  <1>3. /\ \A t \in Server : server'[t] = IF t = s THEN "working" ELSE server[t]
        /\ \A q \in Request : inbox'[q] = IF q = r THEN None ELSE inbox[q]
        /\ Queued' = Queued /\ \A c \in Client : Current(c)' = Current(c)
    BY <1>1 DEF Inv, TypeOK, Queued, Current
  <1>4. TypeOK'
    BY <1>1, <1>3 DEF Inv, TypeOK
  <1>5. InProgress' /\ Unmade' /\ Known' /\ Apart' /\ OwnAnswer'
    BY <1>3 DEF Inv, InProgress, Unmade, Known, Apart, OwnAnswer, Misled
  <1>6. \A q \in Request : q # r /\ Fresh(q) => Fresh(q)'
    BY <1>3 DEF Fresh
  <1>7. Unsent'
    BY <1>3, <1>6 DEF Inv, InProgress, Unsent
  <1>8. Unread'
    BY <1>3, <1>6 DEF Inv, Unread
  <1>9. Working'
    BY <1>2, <1>3 DEF Inv, Working, Fresh
  <1>10. Answers'
    BY <1>3 DEF Inv, Answers, OwnOrForeign
  <1> QED
    BY <1>4, <1>5, <1>7, <1>8, <1>9, <1>10 DEF Inv

LEMMA ReceiveRequestInv ==
    ASSUME Inv, NEW s \in Server, ReceiveRequest(s) \/ ReceiveRequestFails(s) \/ Crash(s)
    PROVE  Inv'
  <1>1. CASE server[s] # "down" /\ Exit(s) /\ UNCHANGED <<outbox, done>>
    <2>1. \A r \in Request : OwnOrForeign(r)'
      BY <1>1 DEF Inv, Answers, OwnOrForeign
    <2> QED
      BY <1>1, <2>1, ExitInv DEF Inv, TypeOK
  <1>2. CASE ReceiveRequest(s) /\ ~Exit(s)
    BY <1>2, ReadRequestInv DEF ReceiveRequest
  <1> QED
    BY <1>1, <1>2 DEF ReceiveRequest, ReceiveRequestFails, Crash

LEMMA GenerateInv ==
    ASSUME Inv, NEW s \in Server, Generate(s)
    PROVE  Inv'
  <1> DEFINE r == accepted[s]
  <1>1. r \in Request /\ r # None
    BY Holding DEF Inv, Generate
  <1>2. outcome[r] \in {"made", "misled", "failed"} /\ ~Fresh(r)
    BY DEF Inv, Working, Generate, Fresh
  <1>3. /\ \A t \in Server : server'[t] = IF t = s THEN "answering" ELSE server[t]
        /\ done' = done \cup {r}
        /\ Queued' = Queued /\ \A c \in Client : Current(c)' = Current(c)
        /\ UNCHANGED <<call, counter, result, queue, accepted, open, inbox, outbox, outcome>>
    BY DEF Inv, TypeOK, Generate, Queued, Current
  <1>4. TypeOK'
    <2>1. server' \in [Server -> {"down", "listening", "receiving", "working", "answering"}]
      BY DEF Inv, TypeOK, Generate
    <2>2. \A t \in Server : accepted'[t] = None <=> server'[t] \in {"down", "listening"}
      BY <1>1, <1>3 DEF Inv, TypeOK
    <2>3. done' \subseteq Request
      BY <1>1, <1>3 DEF Inv, TypeOK
    <2> QED
      BY <1>3, <2>1, <2>2, <2>3 DEF Inv, TypeOK
  <1>5. InProgress' /\ Unmade' /\ Known' /\ Apart' /\ OwnAnswer'
    BY <1>1, <1>2, <1>3 DEF Inv, InProgress, Unmade, Known, Apart, OwnAnswer, Misled
  <1>6. \A q \in Request : Fresh(q) => Fresh(q)'
    BY <1>2, <1>3 DEF Fresh, Generate
  <1>7. Unsent'
    BY <1>3, <1>6 DEF Inv, InProgress, Unsent
  <1>8. Unread'
    BY <1>3, <1>6 DEF Inv, Unread
  <1>9. Working'
    BY <1>1, <1>3 DEF Inv, Working, Apart
  <1>10. Answers'
    BY <1>3 DEF Inv, Answers, OwnOrForeign
  <1> QED
    BY <1>4, <1>5, <1>7, <1>8, <1>9, <1>10 DEF Inv

LEMMA AnswerInv ==
    ASSUME Inv, NEW s \in Server, Answer(s)
    PROVE  Inv'
  <1>1. accepted[s] \in Request /\ accepted[s] \in done
    BY Holding DEF Inv, Answers, Answer
  <1>2. PICK m \in Genuine(accepted[s]) :
            outbox' \in {outbox, [outbox EXCEPT ![accepted[s]] = m]}
    BY DEF Answer
  <1>3. outbox' \in [Request -> Message \cup {None}]
    BY <1>1, <1>2, MessageFacts DEF Inv, TypeOK
  <1>4. \A r \in Request : OwnOrForeign(r)'
    <2>1. /\ UNCHANGED done
          /\ \A r \in Request : outbox'[r] = outbox[r] \/ (r = accepted[s] /\ outbox'[r] = m)
      BY <1>1, <1>2 DEF Inv, TypeOK, Answer
    <2> QED
      BY <1>1, <1>2, <2>1 DEF Inv, Answers, OwnOrForeign
  <1> QED
    BY <1>3, <1>4, ExitInv DEF Answer

(* Steps that change only what connections hold or who listens. *)
LEMMA OtherInv ==
    ASSUME Inv,
           \/ \E s \in Server : Listen(s) \/ ForeignAnswer(s)
           \/ \E r \in Request : Reset(r)
           \/ \E c \in Client : ConnectFails(c)
           \/ UNCHANGED vars
    PROVE  Inv'
  <1>1. UNCHANGED <<call, counter, queue, accepted, done, outcome>>
    BY DEF Listen, ForeignAnswer, Reset, ConnectFails, vars
  <1>2. \A r \in Request : inbox'[r] \in {inbox[r], None} /\ outbox'[r] \in {outbox[r], None} \cup Strange \cup Forged
    BY DEF Inv, TypeOK, Listen, ForeignAnswer, Reset, ConnectFails, vars
  <1>3. \A t \in Server : server'[t] = server[t] \/ (server[t] = "down" /\ server'[t] = "listening")
    BY DEF Inv, TypeOK, Listen, ForeignAnswer, Reset, ConnectFails, vars
  <1>4. \A c \in Client : result'[c].of \in {result[c].of, None}
    BY DEF Inv, TypeOK, Listen, ForeignAnswer, Reset, ConnectFails, vars
  <1>5. TypeOK'
    <2>1. inbox' \in [Request -> Message \cup {None}]
      BY DEF Inv, TypeOK, Listen, ForeignAnswer, Reset, ConnectFails, vars
    <2>2. outbox' \in [Request -> Message \cup {None}]
      <3>1. CASE \E s \in Server : ForeignAnswer(s)
        BY <3>1, MessageFacts DEF Inv, TypeOK, ForeignAnswer
      <3>2. CASE outbox' = outbox \/ \E r \in Request : outbox' = [outbox EXCEPT ![r] = None]
        BY <3>2 DEF Inv, TypeOK
      <3> QED
        BY <3>1, <3>2 DEF Listen, Reset, ConnectFails, vars
    <2>3. server' \in [Server -> {"down", "listening", "receiving", "working", "answering"}]
      BY DEF Inv, TypeOK, Listen, ForeignAnswer, Reset, ConnectFails, vars
    <2>4. result' \in [Client -> [status : Status, of : Request \cup {None}]]
      BY DEF Inv, TypeOK, Listen, ForeignAnswer, Reset, ConnectFails, vars, Status
    <2>5. open' \subseteq Request
      BY DEF Inv, TypeOK, Listen, ForeignAnswer, Reset, ConnectFails, vars
    <2> QED
      BY <1>1, <1>3, <2>1, <2>2, <2>3, <2>4, <2>5 DEF Inv, TypeOK
  <1>6. Queued' = Queued /\ \A c \in Client : Current(c)' = Current(c)
    BY <1>1 DEF Queued, Current
  <1>7. InProgress' /\ Unmade' /\ Known' /\ Apart' /\ OwnAnswer'
    BY <1>1, <1>4, <1>6 DEF Inv, InProgress, Unmade, Known, Apart, OwnAnswer, Misled
  <1>8. \A r \in Request : Fresh(r) => Fresh(r)'
    BY <1>1, <1>3 DEF Fresh
  <1>9. Unsent' /\ Unread'
    BY <1>1, <1>2, <1>6, <1>8 DEF Inv, InProgress, Unsent, Unread
  <1>10. Working' /\ Answers'
    BY <1>1, <1>2, <1>3 DEF Inv, Working, Answers, OwnOrForeign
  <1> QED
    BY <1>5, <1>7, <1>9, <1>10 DEF Inv

LEMMA NextInv == Inv /\ [Next]_vars => Inv'
  BY ConnectInv, SendInv, SendFailsInv, ReceiveInv, AcceptInv, ReceiveRequestInv, GenerateInv,
     AnswerInv, OtherInv DEF Next

(* Every variable of clients and servers keeps its type; in particular a   *)
(* process has a connection just from accept to its end.                   *)
THEOREM TypeCorrect == Spec => []TypeOK
  <1>1. Inv => TypeOK
    BY DEF Inv
  <1> QED
    BY <1>1, InitInv, NextInv, PTL DEF Spec

(* What a server of the repository generated never answers another         *)
(* request, for any clients, servers, crashes and messages of other        *)
(* programs, well-formed answers to other requests included: RemoteLLM.cpp *)
(* never compares request ids (98), and the connection of its own that     *)
(* each call has is enough against all but the program that accepted it.   *)
THEOREM AnswersAreOwn == Spec => []OwnAnswer
  <1>1. Inv => OwnAnswer
    BY DEF Inv
  <1> QED
    BY <1>1, InitInv, NextInv, PTL DEF Spec

-----------------------------------------------------------------------------
(* Each step is one of RemoteCalls or leaves its variables alone. *)
LEMMA StepRefines ==
    ASSUME Inv, [Next]_vars
    PROVE  [Calls!Next]_(Calls!vars)
  <1>1. ASSUME NEW c \in Client, Connect(c) PROVE Calls!Next
    <2>1. PICK r \in Request : r = <<c, counter[c] + 1>>
      BY <1>1, NextRequest DEF Inv, Connect
    <2>2. outcome[r] = "unmade"
      <3>1. r[1] = c /\ r[2] = counter[c] + 1 /\ counter[c] \in Nat
        BY <2>1 DEF Inv, TypeOK
      <3> QED
        BY <3>1 DEF Inv, Unmade
    <2>3. Calls!Make(r)
      BY <1>1, <2>1, <2>2 DEF Calls!Make, Connect
    <2> QED
      BY <2>3 DEF Calls!Next
  <1>2. ASSUME NEW c \in Client, SendFails(c) PROVE Calls!Next
    <2>1. Current(c) \in Request /\ outcome[Current(c)] = "made" /\ Current(c) \notin done
      BY <1>2 DEF Inv, InProgress, Unsent, Fresh, SendFails
    <2>2. Calls!Refuse(Current(c))
      BY <1>2, <2>1 DEF Calls!Refuse, SendFails, Return
    <2> QED
      BY <2>1, <2>2 DEF Calls!Next
  <1>3. ASSUME NEW c \in Client, Receive(c) \/ ReceiveFails(c) PROVE Calls!Next
    <2>1. Current(c) \in Request /\ outcome[Current(c)] = "made"
      BY <1>3 DEF Inv, InProgress, Receive, ReceiveFails
    <2>2. PICK how \in {"answered", "misled", "failed"} :
              /\ outcome' = [outcome EXCEPT ![Current(c)] = how] /\ done' = done
              /\ how = "answered" => Current(c) \in done
      BY <1>3, ReceiveReturns DEF Return
    <2>3. Calls!Answer(Current(c)) \/ Calls!Mislead(Current(c)) \/ Calls!Fail(Current(c))
      BY <2>1, <2>2 DEF Calls!Answer, Calls!Mislead, Calls!Fail
    <2> QED
      BY <2>1, <2>3 DEF Calls!Next
  <1>4. ASSUME NEW s \in Server, Generate(s) PROVE Calls!Next
    <2>1. accepted[s] \in Request
      BY <1>4, Holding DEF Inv, Generate
    <2>2. Calls!Work(accepted[s])
      BY <1>4 DEF Calls!Work, Inv, Working, Generate
    <2> QED
      BY <2>1, <2>2 DEF Calls!Next
  <1>5. ASSUME NEW s \in Server,
               \/ Listen(s) \/ Accept(s) \/ ReceiveRequest(s) \/ ReceiveRequestFails(s)
               \/ Answer(s) \/ ForeignAnswer(s) \/ Crash(s)
        PROVE  UNCHANGED Calls!vars
    BY <1>5 DEF Listen, Accept, ReceiveRequest, ReceiveRequestFails, Answer, ForeignAnswer, Crash,
                Exit, Calls!vars
  <1>6. ASSUME \/ \E c \in Client : ConnectFails(c) \/ Send(c)
               \/ \E r \in Request : Reset(r)
               \/ UNCHANGED vars
        PROVE  UNCHANGED Calls!vars
    BY <1>6 DEF ConnectFails, Send, Reset, vars, Calls!vars
  <1> QED
    BY <1>1, <1>2, <1>3, <1>4, <1>5, <1>6 DEF Next

(* For any clients, servers, crashes and resets: a request is worked on at *)
(* most once, is answered only after that, and is never worked on when     *)
(* generate reported that its send had failed.                             *)
THEOREM ImplementsCalls == Spec => AtMostOnce
  <1>1. Init => Calls!Init
    BY DEF Init, Calls!Init
  <1>2. Inv /\ [Next]_vars => [Calls!Next]_(Calls!vars)
    BY StepRefines
  <1> QED
    BY <1>1, <1>2, InitInv, NextInv, PTL DEF Spec, AtMostOnce, Calls!Spec
=============================================================================
