------------------------ MODULE SmallComponents_proofs ------------------------
(***************************************************************************)
(* Three components that know nothing of each other and need few theorems: *)
(* TokenScheduler, for words of any width and any budgets; FramedQueue,    *)
(* for any number of runtimes; ToolAgent, for any tools and texts.         *)
(***************************************************************************)
EXTENDS TokenScheduler, FramedQueue, ToolAgent, SequenceLemmas

-----------------------------------------------------------------------------
(* TokenScheduler *)

LEMMA BudgetFields ==
    ASSUME TypeOK
    PROVE  /\ Remaining \in Word
           /\ budget.max_prompt_tokens \in Word
           /\ budget.max_completion_tokens \in Word
  BY DEF TypeOK, TokenBudget, Remaining

LEMMA TaskFields ==
    ASSUME NEW t \in ScheduledLLMTask
    PROVE  /\ t.estimated_prompt_tokens \in Word
           /\ t.requested_completion_tokens \in Word
           /\ t.allow_truncation \in BOOLEAN
           /\ t.allow_fallback \in BOOLEAN
  BY DEF ScheduledLLMTask

(* Words add up to a word, and exactly so when the sum fits. *)
LEMMA PlusIsWord ==
    ASSUME NEW x \in Word, NEW y \in Word
    PROVE  /\ Plus(x, y) \in Word
           /\ x + y < Modulus => Plus(x, y) = x + y
  BY BudgetsAssumption DEF BudgetsAssumption, Plus, Word

LEMMA LeastIsLeast ==
    ASSUME NEW x \in Word, NEW y \in Word
    PROVE  Least(x, y) \in Word /\ Least(x, y) <= x /\ Least(x, y) <= y
           /\ Least(x, y) \in {x, y}
  BY BudgetsAssumption DEF BudgetsAssumption, Least, Word

(* No decision charges more than remains. *)
LEMMA ChargeIsCovered ==
    ASSUME TypeOK, NEW t \in ScheduledLLMTask
    PROVE  Charge(t) \in Word /\ Charge(t) <= Remaining
  <1>1. Remaining \in Word /\ Total(t) \in Word
    <2>1. Completion(t) \in Word
      BY BudgetFields, TaskFields, LeastIsLeast DEF Completion
    <2> QED
      BY <2>1, BudgetFields, TaskFields, PlusIsWord DEF Total
  <1>2. Fits(t) => Total(t) <= Remaining
    BY DEF Fits
  <1>3. Charge(t) \in {Total(t), Remaining, 0} /\ (Charge(t) = Total(t) => Fits(t) \/ Charge(t) \in {Remaining, 0})
    BY DEF Charge
  <1> QED
    BY <1>1, <1>2, <1>3, BudgetsAssumption DEF BudgetsAssumption, Word

LEMMA TypeNext == TypeOK /\ [Next]_budget => TypeOK'
  <1> SUFFICES ASSUME TypeOK, [Next]_budget PROVE TypeOK'
    OBVIOUS
  <1>1. \A w \in Word : [budget EXCEPT !.remaining_tokens = w] \in TokenBudget
    BY DEF TypeOK, TokenBudget
  <1>2. ASSUME NEW t \in ScheduledLLMTask, Schedule(t) PROVE TypeOK'
    <2>1. Remaining - Charge(t) \in Word
      BY ChargeIsCovered, BudgetFields, BudgetsAssumption DEF BudgetsAssumption, Word
    <2> QED
      BY <1>1, <1>2, <2>1 DEF Schedule, TypeOK
  <1>3. ASSUME NEW used \in Word, Release(used) PROVE TypeOK'
    <2>1. Least(Plus(Remaining, used), Cap) \in Word
      BY BudgetFields, PlusIsWord, LeastIsLeast DEF Cap
    <2> QED
      BY <1>1, <1>3, <2>1 DEF Release, TypeOK
  <1>4. CASE UNCHANGED budget
    BY <1>4 DEF TypeOK
  <1> QED
    BY <1>2, <1>3, <1>4 DEF Next

(* The budget keeps its type: no subtraction goes below zero. *)
THEOREM TypeCorrect == Spec => []TypeOK
  <1>1. Init => TypeOK
    BY BudgetsAssumption DEF BudgetsAssumption, Init, TypeOK
  <1> QED
    BY <1>1, TypeNext, PTL DEF Spec

-----------------------------------------------------------------------------
LEMMA BestDecision ==
    ASSUME TypeOK, NoWrap, NEW t \in ScheduledLLMTask
    PROVE  IsBest(t)
  <1> DEFINE p == t.estimated_prompt_tokens
             q == t.requested_completion_tokens
             maxp == budget.max_prompt_tokens
             maxc == budget.max_completion_tokens
             trunc == t.allow_truncation
             c == Completion(t)
  <1>1. p \in Nat /\ q \in Nat /\ maxp \in Nat /\ maxc \in Nat /\ Remaining \in Nat
    BY BudgetFields, TaskFields DEF Word
  <1>2. c \in Nat /\ c <= q /\ c <= maxc /\ (c = q \/ c = maxc)
    BY <1>1 DEF Completion, Least
  <1>3. Admissible(t) => Total(t) = p + c
    <2> SUFFICES ASSUME Admissible(t) PROVE Total(t) = p + c
      OBVIOUS
    <2>1. p + c < Modulus /\ p \in Word /\ c \in Word
      BY <1>1, <1>2, BudgetsAssumption, BudgetFields, TaskFields
         DEF BudgetsAssumption, Admissible, NoWrap, Word
    <2> QED
      BY <2>1, PlusIsWord DEF Total
  <1>4. \A x \in Affordable(t) : /\ x \in 0 .. q /\ p <= maxp /\ x <= maxc
                                 /\ p + x <= Remaining /\ (x = q \/ trunc)
                                 /\ (x > 0 \/ q = 0 \/ maxc = 0)
    BY DEF Affordable
  <1>5. ASSUME Fits(t) PROVE IsBest(t)
    <2>1. p <= maxp /\ (q <= maxc \/ trunc) /\ p + c <= Remaining /\ Total(t) = p + c
      BY <1>3, <1>5 DEF Fits, Admissible
    <2>2. c \in Affordable(t)
      <3>1. c \in 0 .. q /\ (c = q \/ trunc) /\ (c > 0 \/ q = 0 \/ maxc = 0)
        <4>1. q <= maxc => c = q
          BY <1>1, <1>2 DEF Completion, Least
        <4> QED
          BY <1>1, <1>2, <2>1, <4>1
      <3> QED
        BY <1>2, <2>1, <3>1 DEF Affordable
    <2>3. \A x \in Affordable(t) : x <= c
      BY <1>1, <1>2, <1>4
    <2>4. AllowedCompletion(t) = c /\ Charge(t) = p + c
      BY <1>5, <2>1 DEF AllowedCompletion, Charge
    <2>5. DecisionType(t) \in {"Allow", "ReduceTokens"} /\ (DecisionType(t) = "Allow" <=> c = q)
      BY <1>5 DEF DecisionType
    <2> QED
      BY <2>2, <2>3, <2>4, <2>5 DEF IsBest
  <1>6. ASSUME ~Fits(t), FitsInPart(t) PROVE IsBest(t)
    <2> DEFINE r == Remaining - p
    <2>1. p <= maxp /\ trunc /\ p + c > Remaining /\ Remaining > p
      BY <1>3, <1>6 DEF FitsInPart, Admissible
    <2>2. r \in 0 .. q /\ r > 0 /\ r < c /\ p + r = Remaining /\ r <= maxc /\ r # q
      BY <1>1, <1>2, <2>1
    <2>3. r \in Affordable(t)
      BY <1>1, <2>1, <2>2 DEF Affordable
    <2>4. \A x \in Affordable(t) : x <= r
      BY <1>1, <1>4
    <2>5. AllowedCompletion(t) = r /\ Charge(t) = p + r
      BY <1>6, <2>2 DEF AllowedCompletion, Charge
    <2>6. DecisionType(t) = "ReduceTokens"
      BY <1>6 DEF DecisionType
    <2> QED
      BY <2>2, <2>3, <2>4, <2>5, <2>6 DEF IsBest
  <1>7. ASSUME ~Fits(t), ~FitsInPart(t) PROVE IsBest(t)
    <2>1. Affordable(t) = {}
      <3> SUFFICES ASSUME NEW x \in Affordable(t) PROVE FALSE
        OBVIOUS
      <3>1. /\ x \in 0 .. q /\ p <= maxp /\ x <= maxc /\ p + x <= Remaining
            /\ (x = q \/ trunc) /\ (x > 0 \/ q = 0 \/ maxc = 0)
        BY <1>4
      <3>2. q <= maxc \/ trunc
        BY <3>1
      <3>3. Admissible(t)
        BY <3>1, <3>2 DEF Admissible
      <3>4. Total(t) = p + c /\ p + c > Remaining
        BY <1>1, <1>2, <1>3, <1>7, <3>3 DEF Fits
      <3>5. x # q
        BY <1>1, <1>2, <3>1, <3>4
      <3>6. trunc /\ x > 0
        BY <1>1, <1>2, <3>1, <3>4, <3>5
      <3>7. Remaining > p
        BY <1>1, <3>1, <3>6
      <3> QED
        BY <1>1, <1>7, <3>3, <3>4, <3>6, <3>7 DEF FitsInPart
    <2>2. DecisionType(t) = (IF t.allow_fallback THEN "UseFallback" ELSE "Reject") /\ Charge(t) = 0
      BY <1>7 DEF DecisionType, Charge
    <2> QED
      BY <2>1, <2>2, TaskFields DEF IsBest
  <1> QED
    BY <1>5, <1>6, <1>7

(* Every decision is the best one, whatever the width of the word, the     *)
(* budget and what was scheduled and released before, provided the sum of  *)
(* the maxima fits a word.                                                 *)
THEOREM AlwaysBest == Spec => []DecidesBest
  <1>1. TypeOK => DecidesBest
    BY BestDecision DEF DecidesBest
  <1> QED
    BY <1>1, TypeCorrect, PTL

-----------------------------------------------------------------------------
(* FramedQueue *)

(* The front of the queue goes to the end of what was received. *)
Moves(a, b) == Append(a, Head(b)) \o Tail(b) = a \o b

LEMMA HeadMoves ==
    ASSUME NEW S, NEW a \in Seq(S), NEW b \in Seq(S), b # <<>>
    PROVE  Moves(a, b)
  <1>1. PICK x \in S, t \in Seq(S), n \in Nat :
            /\ x = Head(b) /\ t = Tail(b) /\ n = Len(t) /\ Len(b) = n + 1
            /\ x = b[1] /\ \A i \in 1 .. n : t[i] = b[i + 1]
    <2>1. /\ Len(b) \in Nat \ {0} /\ Head(b) \in S /\ Head(b) = b[1] /\ Tail(b) \in Seq(S)
          /\ Len(Tail(b)) = Len(b) - 1 /\ \A i \in 1 .. Len(b) - 1 : Tail(b)[i] = b[i + 1]
      BY QueueFacts
    <2>2. PICK l \in Nat \ {0} : l = Len(b)
      BY <2>1
    <2>3. l - 1 \in Nat /\ (l - 1) + 1 = l
      OBVIOUS
    <2> QED
      BY <2>1, <2>2, <2>3
  <1>2. PICK h \in Seq(S) : h = <<x>> /\ Len(h) = 1 /\ h[1] = x
    <2>1. <<x>> \in Seq(S) /\ Len(<<x>>) = 1 /\ <<x>>[1] = x
      OBVIOUS
    <2> QED
      BY <2>1
  <1>3. PICK z : z = h \o t
    OBVIOUS
  <1>4. Joined(S, z, h, 1, t, n)
    BY <1>1, <1>2, <1>3, TwoParts
  <1>5. z \in Seq(S) /\ Len(z) = n + 1
    BY <1>4 DEF Joined
  <1>6. ASSUME NEW i \in 1 .. n + 1 PROVE z[i] = b[i]
    <2>1. z[i] = IF i <= 1 THEN h[i] ELSE t[i - 1]
      BY <1>4 DEF Joined
    <2>2. CASE i = 1
      BY <1>1, <1>2, <2>1, <2>2
    <2>3. CASE i # 1
      <3>1. i - 1 \in 1 .. n /\ (i - 1) + 1 = i /\ ~(i <= 1)
        BY <2>3
      <3>2. t[i - 1] = b[i]
        BY <1>1, <3>1
      <3> QED
        BY <2>1, <3>1, <3>2
    <2> QED
      BY <2>2, <2>3
  <1>7. z = b
    BY <1>1, <1>5, <1>6, SeqEqual
  <1>8. Associates(a, h, t)
    BY <1>1, <1>2, Association
  <1>9. Append(a, x) = a \o h
    BY <1>2, AppendIsConcat
  <1> QED
    BY <1>1, <1>3, <1>7, <1>8, <1>9 DEF Associates, Moves

Extends(a, b, e) == a \o Append(b, e) = Append(a \o b, e)

LEMMA AppendExtends ==
    ASSUME NEW S, NEW a \in Seq(S), NEW b \in Seq(S), NEW e \in S
    PROVE  Extends(a, b, e)
  <1>1. PICK h \in Seq(S) : h = <<e>>
    <2>1. <<e>> \in Seq(S)
      OBVIOUS
    <2> QED
      BY <2>1
  <1>2. PICK c \in Seq(S) : c = a \o b
    BY ConcatProperties
  <1>3. Associates(a, b, h)
    BY <1>1, Association
  <1>4. Append(b, e) = b \o h /\ Append(c, e) = c \o h
    BY <1>1, AppendIsConcat
  <1> QED
    BY <1>2, <1>3, <1>4 DEF Associates, Extends

(* What was received and what is queued is what was sent, in this order. *)
NothingLost == received \o queue = sent

QueueInv == QueueTypeOK /\ NothingLost

LEMMA ReceivedFits ==
    ASSUME NEW a \in Seq(Kind), NEW b \in Seq(Kind), NEW c, c = a \o b
    PROVE  Len(a) <= Len(c)
  <1>1. PICK i \in Nat, j \in Nat : i = Len(a) /\ j = Len(b)
    BY LenProperties
  <1>2. Joined(Kind, c, a, i, b, j)
    BY <1>1, TwoParts
  <1> QED
    BY <1>1, <1>2 DEF Joined

LEMMA QueueInvInit == QueueInit => QueueInv
  <1> SUFFICES ASSUME QueueInit PROVE QueueInv
    OBVIOUS
  <1>1. <<>> \in Seq(Kind) /\ Len(<<>>) = 0
    OBVIOUS
  <1>2. received \o queue = <<>>
    BY <1>1, ConcatEmptySeq DEF QueueInit
  <1> QED
    BY <1>1, <1>2, MaxSentAssumption DEF QueueInit, QueueInv, QueueTypeOK, NothingLost

LEMMA QueueInvNext == QueueInv /\ [QueueNext]_queueVars => QueueInv'
  <1> SUFFICES ASSUME QueueInv, [QueueNext]_queueVars PROVE QueueInv'
    OBVIOUS
  <1>0. /\ queue \in Seq(Kind) /\ sent \in Seq(Kind) /\ received \in Seq(Kind)
        /\ drain \in [Runtime -> {"idle", "test", "run_once", "on_message"}]
        /\ received \o queue = sent /\ Len(sent) <= MaxSent /\ running \in SUBSET Runtime
    BY DEF QueueInv, QueueTypeOK, NothingLost
  <1>1. ASSUME NEW kind \in Kind, Send(kind) PROVE QueueInv'
    <2>1. queue' = Append(queue, kind) /\ sent' = Append(sent, kind) /\ Len(sent) < MaxSent
          /\ drain' = drain /\ received' = received /\ running' = running
      BY <1>1 DEF Send
    <2>2. queue' \in Seq(Kind) /\ sent' \in Seq(Kind) /\ Len(sent') = Len(sent) + 1
          /\ Len(sent) \in Nat
      BY <1>0, <2>1, PushFacts
    <2>3. Extends(received, queue, kind)
      BY <1>0, AppendExtends
    <2>4. received' \o queue' = sent'
      BY <1>0, <2>1, <2>3 DEF Extends
    <2>5. Len(received') <= Len(sent')
      BY <1>0, <2>1, <2>2, <2>4, ReceivedFits
    <2>6. Len(sent') <= MaxSent
      BY <2>1, <2>2, MaxSentAssumption
    <2> QED
      BY <1>0, <2>1, <2>2, <2>4, <2>5, <2>6 DEF QueueInv, QueueTypeOK, NothingLost
  <1>2. ASSUME NEW r \in Runtime, UNCHANGED <<queue, running, sent, received>>,
               NEW place \in {"idle", "test", "run_once", "on_message"}, Goes(r, place)
        PROVE  QueueInv'
    BY <1>2 DEF QueueInv, QueueTypeOK, NothingLost, Goes
  <1>3. ASSUME NEW r \in Runtime, Drain(r) PROVE QueueInv'
    BY <1>2, <1>3 DEF Drain
  <1>4. ASSUME NEW r \in Runtime, Test(r) PROVE QueueInv'
    BY <1>2, <1>4 DEF Test
  <1>5. ASSUME NEW r \in Runtime, OnMessageReturns(r) PROVE QueueInv'
    BY <1>2, <1>5 DEF OnMessageReturns
  <1>6. ASSUME NEW r \in Runtime, RunOnce(r) PROVE QueueInv'
    <2>1. CASE r \notin running \/ queue = <<>>
      BY <1>2, <1>6, <2>1 DEF RunOnce
    <2>2. CASE r \in running /\ queue # <<>>
      <3>1. /\ received' = Append(received, Head(queue)) /\ queue' = Tail(queue)
            /\ sent' = sent /\ running' = running /\ Goes(r, Dispatched(Head(queue)))
        BY <1>6, <2>2 DEF RunOnce, Received
      <3>2. Head(queue) \in Kind /\ queue' \in Seq(Kind)
        BY <1>0, <2>2, <3>1, QueueFacts
      <3>3. received' \in Seq(Kind)
        BY <1>0, <3>1, <3>2, PushFacts
      <3>4. Moves(received, queue)
        BY <1>0, <2>2, HeadMoves
      <3>5. received' \o queue' = sent'
        BY <1>0, <3>1, <3>4 DEF Moves
      <3>6. Len(received') <= Len(sent')
        BY <3>2, <3>3, <3>5, ReceivedFits
      <3>7. Dispatched(Head(queue)) \in {"idle", "test", "on_message"}
        BY <3>2 DEF Dispatched, Kind
      <3>8. drain' \in [Runtime -> {"idle", "test", "run_once", "on_message"}]
        BY <1>0, <3>1, <3>7 DEF Goes
      <3> QED
        BY <1>0, <3>1, <3>2, <3>3, <3>5, <3>6, <3>8 DEF QueueInv, QueueTypeOK, NothingLost
    <2> QED
      BY <2>1, <2>2
  <1>7. CASE UNCHANGED queueVars
    BY <1>7 DEF queueVars, QueueInv, QueueTypeOK, NothingLost
  <1>8. ASSUME NEW r \in Runtime, Start(r) \/ Stop(r) PROVE QueueInv'
    BY <1>8 DEF Start, Stop, QueueInv, QueueTypeOK, NothingLost
  <1> QED
    BY <1>1, <1>3, <1>4, <1>5, <1>6, <1>7, <1>8 DEF QueueNext

(* QueueTypeOK holds, whatever number of runtimes drains the queue. *)
THEOREM QueueTypeCorrect == QueueSpec => []QueueTypeOK
  <1>1. QueueInv => QueueTypeOK
    BY DEF QueueInv
  <1> QED
    BY <1>1, QueueInvInit, QueueInvNext, PTL DEF QueueSpec

(* in_memory_byte_transport.cpp: each frame is received once, by one of the *)
(* runtimes, in the order of sending, or is still in the queue.            *)
THEOREM FramesInOrder == QueueSpec => []NothingLost
  <1>1. QueueInv => NothingLost
    BY DEF QueueInv
  <1> QED
    BY <1>1, QueueInvInit, QueueInvNext, PTL DEF QueueSpec

(* A drain gives up only on an empty queue, at an unknown target, or       *)
(* without taking a frame when its runtime was stopped.                    *)
THEOREM DrainGivesUpRightly == QueueSpec => GivesUpRightly
  <1> DEFINE Rightly == \A r \in Runtime :
                           drain[r] # "idle" /\ drain'[r] = "idle" =>
                               \/ queue = <<>>
                               \/ r \notin running /\ queue' = queue
                               \/ Len(received') > Len(received) /\ Last(received') = "unknown"
  <1>1. QueueInv /\ [QueueNext]_queueVars => [Rightly]_queueVars
    <2> SUFFICES ASSUME QueueInv, QueueNext, NEW r \in Runtime,
                        drain[r] # "idle", drain'[r] = "idle", queue # <<>>,
                        ~(r \notin running /\ queue' = queue)
                 PROVE  Len(received') > Len(received) /\ Last(received') = "unknown"
      OBVIOUS
    <2>0. /\ queue \in Seq(Kind) /\ received \in Seq(Kind)
          /\ drain \in [Runtime -> {"idle", "test", "run_once", "on_message"}]
      BY DEF QueueInv, QueueTypeOK
    <2>1. ASSUME NEW q \in Runtime, NEW place, Goes(q, place)
          PROVE  q = r /\ place = "idle"
      BY <2>0, <2>1 DEF Goes
    <2>2. RunOnce(r)
      <3>1. ~ \E kind \in Kind : Send(kind)
        BY <2>0 DEF Send
      <3>2. \A q \in Runtime : ~Drain(q) /\ ~Test(q) /\ ~OnMessageReturns(q)
        BY <2>1 DEF Drain, Test, OnMessageReturns
      <3>2a. \A q \in Runtime : ~Start(q) /\ ~Stop(q)
        BY <2>0 DEF Start, Stop
      <3>3. PICK q \in Runtime : RunOnce(q)
        BY <3>1, <3>2, <3>2a DEF QueueNext
      <3>4. \E place : Goes(q, place)
        BY <3>3 DEF RunOnce, Received
      <3> QED
        BY <2>1, <3>3, <3>4
    <2>2a. r \in running
      BY <2>2 DEF RunOnce
    <2>3. received' = Append(received, Head(queue)) /\ Goes(r, Dispatched(Head(queue)))
      BY <2>2, <2>2a DEF RunOnce, Received
    <2>4. Head(queue) \in Kind
      BY <2>0, QueueFacts
    <2>5. Head(queue) = "unknown"
      BY <2>1, <2>3, <2>4 DEF Dispatched, Kind
    <2>6. /\ Len(received) \in Nat /\ Len(received') = Len(received) + 1
          /\ received'[Len(received) + 1] = Head(queue)
      BY <2>0, <2>3, <2>4, PushFacts
    <2> QED
      BY <2>5, <2>6 DEF Last
  <1> QED
    BY <1>1, QueueInvInit, QueueInvNext, PTL DEF QueueSpec, GivesUpRightly

-----------------------------------------------------------------------------
(* ToolAgent: what parse finds in a text, line after line. *)

Values == {line.value : line \in Lines} \cup {NoName}

Calls == [name : Values, throws : BOOLEAN]

Parsing == [p \in Calls \X Lines |-> ParseLine(p[1], p[2])]

LEMMA ParsingType == NoCall \in Calls /\ Parsing \in [Calls \X Lines -> Calls]
  <1>1. NoCall \in Calls
    BY DEF NoCall, Calls, Values
  <1>2. ASSUME NEW call \in Calls, NEW line \in Lines PROVE ParseLine(call, line) \in Calls
    <2>1. line.value \in Values
      BY DEF Values
    <2> QED
      BY <2>1 DEF ParseLine, Calls
  <1> QED
    BY <1>1, <1>2 DEF Parsing

LEMMA ParseFolds ==
    ASSUME NEW q \in Seq(Lines)
    PROVE  Folds(Calls, NoCall, Parsing, q, Parse(q))
  <1> DEFINE Fold(it) == [s \in SUBSET DOMAIN q |->
                             IF s = {} THEN NoCall
                             ELSE ParseLine(it[s \ {Max(s)}], q[Max(s)])]
  <1>1. PICK n \in Nat : n = Len(q) /\ DOMAIN q = 1 .. n /\ q \in [1 .. n -> Lines]
    BY LenProperties
  <1>2. ASSUME NEW g, g = Fold(g)
        PROVE  \E it : it = Fold(it) /\ Parse(q) = it[DOMAIN q]
    BY <1>2 DEF Parse, FoldLeft, MapThenFoldSet
  <1>3. NoCall \in Calls /\ Parsing \in [Calls \X Lines -> Calls]
    BY ParsingType
  <1>4. ASSUME NEW s \in SUBSET DOMAIN q, s # {}, NEW v \in Calls
        PROVE  Parsing[<<v, q[Max(s)]>>] = ParseLine(v, q[Max(s)])
    <2>1. Max(s) \in 1 .. n
      BY <1>1, <1>4, MaxExists
    <2> QED
      BY <1>1, <2>1 DEF Parsing
  <1>5. PICK g \in [SUBSET DOMAIN q -> Calls] : Iterates(g, Calls, NoCall, Parsing, q)
    BY <1>3, FoldIteration
  <1>6. g = Fold(g)
    <2>1. ASSUME NEW s \in SUBSET DOMAIN q, s # {}
          PROVE  g[s] = ParseLine(g[s \ {Max(s)}], q[Max(s)])
      <3>1. g[s \ {Max(s)}] \in Calls
        OBVIOUS
      <3> QED
        BY <1>4, <1>5, <2>1, <3>1 DEF Iterates
    <2> QED
      BY <1>5, <2>1 DEF Iterates
  <1>7. PICK it : it = Fold(it) /\ Parse(q) = it[DOMAIN q]
    BY <1>2, <1>6
  <1>8. Iterates(it, Calls, NoCall, Parsing, q)
    <2>1. it[{}] = NoCall
      BY <1>7
    <2>2. ASSUME NEW s \in SUBSET DOMAIN q, s # {}, it[s \ {Max(s)}] \in Calls
          PROVE  it[s] = Parsing[<<it[s \ {Max(s)}], q[Max(s)]>>]
      BY <1>4, <1>7, <2>2
    <2> QED
      BY <2>1, <2>2 DEF Iterates
  <1> HIDE DEF Fold
  <1>9. Folds(Calls, NoCall, Parsing, q, it[DOMAIN q])
    BY <1>3, <1>8, FoldResult
  <1> QED
    BY <1>7, <1>9

(* What the first k lines of a text say of a call that was parsed from them. *)
NamedBy(call, q, k) ==
    ~call.throws =>
        /\ call.name # NoName =>
               \E i \in 1 .. k : /\ q[i].key = "tool" /\ q[i].value = call.name
                                /\ \A j \in i + 1 .. k : q[j].key # "tool"
        /\ \A i \in 1 .. k : q[i].key = "confidence" => q[i].value \in Numbers

LEMMA NextLine ==
    ASSUME NEW n \in Nat, NEW q \in [1 .. n -> Lines], NEW k \in Nat, k < n,
           NEW call \in Calls, NamedBy(call, q, k)
    PROVE  NamedBy(ParseLine(call, q[k + 1]), q, k + 1)
  <1> DEFINE line == q[k + 1]
             next == ParseLine(call, line)
  <1>1. SUFFICES ASSUME ~next.throws PROVE NamedBy(next, q, k + 1)
    BY DEF NamedBy
  <1>2. k + 1 \in 1 .. n /\ 1 .. k + 1 = 1 .. k \cup {k + 1} /\ k + 1 \in Nat
    OBVIOUS
  <1>3. ~call.throws
    BY <1>1 DEF ParseLine
  <1>4. line.key = "confidence" => line.value \in Numbers
    BY <1>1, <1>3 DEF ParseLine, Calls
  <1>5. \A i \in 1 .. k + 1 : q[i].key = "confidence" => q[i].value \in Numbers
    BY <1>2, <1>3, <1>4 DEF NamedBy
  <1>6. CASE line.key = "tool"
    <2>1. next.name = line.value
      BY <1>3, <1>6 DEF ParseLine, Calls
    <2>2. \A j \in (k + 1) + 1 .. k + 1 : q[j].key # "tool"
      OBVIOUS
    <2> HIDE DEF next
    <2>3. \E i \in 1 .. k + 1 : /\ q[i].key = "tool" /\ q[i].value = next.name
                               /\ \A j \in i + 1 .. k + 1 : q[j].key # "tool"
      BY <1>2, <1>6, <2>1, <2>2
    <2> QED
      BY <1>5, <2>3 DEF NamedBy
  <1>7. CASE line.key # "tool"
    <2>1. next = call
      BY <1>1, <1>3, <1>7 DEF ParseLine, Calls
    <2> HIDE DEF next
    <2>2. ASSUME next.name # NoName
          PROVE  \E i \in 1 .. k + 1 : /\ q[i].key = "tool" /\ q[i].value = next.name
                                     /\ \A j \in i + 1 .. k + 1 : q[j].key # "tool"
      <3>1. PICK i \in 1 .. k : /\ q[i].key = "tool" /\ q[i].value = next.name
                                /\ \A j \in i + 1 .. k : q[j].key # "tool"
        BY <1>3, <2>1, <2>2 DEF NamedBy
      <3>2. \A j \in i + 1 .. k + 1 : j \in i + 1 .. k \/ j = k + 1
        OBVIOUS
      <3>3. \A j \in i + 1 .. k + 1 : q[j].key # "tool"
        BY <1>7, <3>1, <3>2
      <3> QED
        BY <1>2, <3>1, <3>3
    <2> QED
      BY <1>5, <2>2 DEF NamedBy
  <1> QED
    BY <1>6, <1>7

LEMMA ParseNames ==
    ASSUME NEW q \in Seq(Lines), NEW n \in Nat, n = Len(q)
    PROVE  Parse(q) \in Calls /\ NamedBy(Parse(q), q, n)
  <1>1. q \in [1 .. n -> Lines]
    BY LenProperties
  <1>2. PICK acc \in [0 .. n -> Calls] :
            /\ acc[0] = NoCall
            /\ \A k \in 1 .. n : acc[k] = Parsing[<<acc[k - 1], q[k]>>]
            /\ acc[n] = Parse(q)
    BY ParseFolds DEF Folds
  <1> DEFINE S == {k \in Nat : k <= n => NamedBy(acc[k], q, k)}
  <1>3. 0 \in S
    BY <1>2 DEF NamedBy, NoCall
  <1>4. ASSUME NEW k \in Nat, k \in S PROVE k + 1 \in S
    <2> SUFFICES ASSUME k + 1 <= n PROVE NamedBy(acc[k + 1], q, k + 1)
      OBVIOUS
    <2>1. k \in 0 .. n /\ k + 1 \in 1 .. n /\ (k + 1) - 1 = k /\ k < n /\ k <= n
      OBVIOUS
    <2>2. acc[k] \in Calls /\ q[k + 1] \in Lines /\ NamedBy(acc[k], q, k)
      BY <1>1, <1>2, <1>4, <2>1
    <2>3. acc[k + 1] = ParseLine(acc[k], q[k + 1])
      BY <1>2, <2>1, <2>2 DEF Parsing
    <2>4. NamedBy(ParseLine(acc[k], q[k + 1]), q, k + 1)
      BY <1>1, <2>1, <2>2, NextLine
    <2> QED
      BY <2>3, <2>4
  <1> HIDE DEF S
  <1>5. Nat \subseteq S
    BY <1>3, <1>4, Induction
  <1>6. NamedBy(acc[n], q, n)
    BY <1>5 DEF S
  <1>7. acc[n] \in Calls
    BY <1>2
  <1> QED
    BY <1>2, <1>6, <1>7

-----------------------------------------------------------------------------
(* ToolAgent: registry, policy and what executes. *)

ToolsInv == ToolsTypeOK /\ LastNamedStarts

Replies == {"none", "llm failed", "not a call", "not registered", "blocked", "succeeded",
            "failed", "threw", "terminated"}

Executions == [tool : tools, policy : Policy]

ToolTypes == /\ tools \in SUBSET Tool
             /\ allowed \in [Policy -> SUBSET Tool] /\ blocked \in [Policy -> SUBSET Tool]
             /\ stack \in Seq(Executions) /\ Len(stack) \in Nat /\ Len(stack) <= MaxDepth
             /\ text \in Texts /\ reply \in Replies /\ first \in Tool \cup {NoName}

LEMMA ToolTypesHold == ToolsTypeOK <=> ToolTypes
  BY LenProperties DEF ToolsTypeOK, ToolTypes, Replies, Executions

LEMMA ToolsInvInit == ToolsInit => ToolsInv
  <1> SUFFICES ASSUME ToolsInit PROVE ToolsInv
    OBVIOUS
  <1>1. stack \in Seq(Executions) /\ Len(stack) = 0
    BY DEF ToolsInit
  <1>2. 0 \in Nat /\ 0 <= MaxDepth
    BY ToolsAssumption
  <1>3. ToolTypes
    BY <1>1, <1>2, ToolsAssumption DEF ToolsInit, ToolTypes, Replies
  <1> QED
    BY <1>3, ToolTypesHold DEF ToolsInit, ToolsInv, LastNamedStarts

LEMMA WiderStack ==
    ASSUME NEW S, NEW T, S \subseteq T, NEW s \in Seq(S)
    PROVE  s \in Seq(T)
  <1>1. PICK n \in Nat : n = Len(s) /\ s \in [1 .. n -> S]
    BY LenProperties
  <1>2. s \in [1 .. n -> T]
    BY <1>1
  <1> QED
    BY <1>2, SeqDef

(* execute lets in only what is registered and allowed. *)
Starts(name, p) == /\ stack' = Append(stack, Executing(name, p)) /\ reply' = reply
                   /\ name \in tools /\ IsAllowed(name, p)

LEMMA ExecuteFacts ==
    ASSUME NEW name, NEW p, Execute(name, p)
    PROVE  \/ stack' = stack /\ reply' \in {"not registered", "blocked"}
           \/ Starts(name, p)
  BY DEF Execute, Starts

LEMMA StartsType ==
    ASSUME ToolTypes, NEW name, NEW p \in Policy, Starts(name, p), UNCHANGED tools,
           Len(stack) < MaxDepth
    PROVE  stack' \in Seq(Executions') /\ Len(stack') \in Nat /\ Len(stack') <= MaxDepth
  <1>1. Executing(name, p) \in Executions /\ Executions' = Executions
    BY DEF Starts, Executing, Executions
  <1>2. stack \in Seq(Executions) /\ stack' = Append(stack, Executing(name, p))
    BY DEF ToolTypes, Starts
  <1>3. stack' \in Seq(Executions) /\ Len(stack') = Len(stack) + 1 /\ Len(stack) \in Nat
    BY <1>1, <1>2, PushFacts
  <1> QED
    BY <1>1, <1>3, ToolsAssumption

LEMMA ToolsInvNext == ToolsInv /\ [ToolsNext]_toolsVars => ToolsInv'
  <1> SUFFICES ASSUME ToolsInv, [ToolsNext]_toolsVars PROVE ToolsInv'
    OBVIOUS
  <1>0. ToolTypes /\ LastNamedStarts
    BY ToolTypesHold DEF ToolsInv
  <1>1. SUFFICES ToolTypes' /\ LastNamedStarts'
    BY ToolTypesHold DEF ToolsInv, ToolsTypeOK, ToolTypes, Replies, Executions
  <1>2. ASSUME UNCHANGED <<text, first>> PROVE LastNamedStarts'
    BY <1>0, <1>2 DEF LastNamedStarts
  <1>3. ASSUME NEW name \in Tool, RegisterTool(name) PROVE ToolTypes' /\ LastNamedStarts'
    <2>1. /\ tools' = tools \cup {name}
          /\ UNCHANGED <<allowed, blocked, stack, text, reply, first>>
      BY <1>3 DEF RegisterTool
    <2>2. Executions \subseteq Executions'
      BY <2>1 DEF Executions
    <2>3. stack' \in Seq(Executions')
      BY <1>0, <2>1, <2>2, WiderStack DEF ToolTypes
    <2> QED
      BY <1>0, <1>2, <2>1, <2>3 DEF ToolTypes
  <1>4. ASSUME NEW name \in Tool, NEW p \in Policy, AllowTool(name, p)
        PROVE  ToolTypes' /\ LastNamedStarts'
    <2>1. /\ allowed' = [allowed EXCEPT ![p] = @ \cup {name}]
          /\ UNCHANGED <<tools, blocked, stack, text, reply, first>>
      BY <1>4 DEF AllowTool
    <2>2. allowed' \in [Policy -> SUBSET Tool]
      BY <1>0, <2>1 DEF ToolTypes
    <2> QED
      BY <1>0, <1>2, <2>1, <2>2 DEF ToolTypes, Executions
  <1>5. ASSUME NEW name \in Tool, NEW p \in Policy, BlockTool(name, p)
        PROVE  ToolTypes' /\ LastNamedStarts'
    <2>1. /\ blocked' = [blocked EXCEPT ![p] = @ \cup {name}]
          /\ UNCHANGED <<tools, allowed, stack, text, reply, first>>
      BY <1>5 DEF BlockTool
    <2>2. blocked' \in [Policy -> SUBSET Tool]
      BY <1>0, <2>1 DEF ToolTypes
    <2> QED
      BY <1>0, <1>2, <2>1, <2>2 DEF ToolTypes, Executions
  <1>6. ASSUME NEW name \in Tool, NEW p \in Policy, ExecuteNested(name, p)
        PROVE  ToolTypes' /\ LastNamedStarts'
    <2>1. /\ Execute(name, p) /\ Len(stack) < MaxDepth
          /\ UNCHANGED <<tools, allowed, blocked, text, first>>
      BY <1>6 DEF ExecuteNested
    <2>2. CASE stack' = stack /\ reply' \in {"not registered", "blocked"}
      BY <1>0, <1>2, <2>1, <2>2 DEF ToolTypes, Replies, Executions
    <2>3. CASE Starts(name, p)
      <3>1. stack' \in Seq(Executions') /\ Len(stack') \in Nat /\ Len(stack') <= MaxDepth
        BY <1>0, <2>1, <2>3, StartsType
      <3> QED
        BY <1>0, <1>2, <2>1, <2>3, <3>1 DEF ToolTypes, Starts
    <2> QED
      BY <2>1, <2>2, <2>3, ExecuteFacts
  <1>7. ASSUME HandlerReturns PROVE ToolTypes' /\ LastNamedStarts'
    <2>1. /\ stack # <<>> /\ stack' = SubSeq(stack, 1, Len(stack) - 1)
          /\ reply' \in {"succeeded", "failed"}
          /\ UNCHANGED <<tools, allowed, blocked, text, first>>
      BY <1>7 DEF HandlerReturns, Front
    <2>2. stack \in Seq(Executions)
      BY <1>0 DEF ToolTypes
    <2>3. stack' \in Seq(Executions') /\ Len(stack') = Len(stack) - 1 /\ Len(stack) \in Nat \ {0}
      <3>1. Executions' = Executions
        BY <2>1 DEF Executions
      <3> QED
        BY <2>1, <2>2, <3>1, PopFacts
    <2>4. Len(stack') \in Nat /\ Len(stack') <= MaxDepth
      BY <1>0, <2>3, ToolsAssumption DEF ToolTypes
    <2> QED
      BY <1>0, <1>2, <2>1, <2>3, <2>4 DEF ToolTypes, Replies
  <1>8. ASSUME HandlerThrows PROVE ToolTypes' /\ LastNamedStarts'
    <2>1. PICK n \in 0 .. Len(stack) - 1 :
              /\ stack' = SubSeq(stack, 1, n)
              /\ reply' = IF n = 0 THEN "terminated" ELSE "threw"
      BY <1>8 DEF HandlerThrows
    <2>2. UNCHANGED <<tools, allowed, blocked, text, first>>
      BY <1>8 DEF HandlerThrows
    <2>3. stack \in Seq(Executions) /\ Len(stack) \in Nat /\ Len(stack) <= MaxDepth
      BY <1>0 DEF ToolTypes
    <2>4. stack' \in Seq(Executions') /\ Len(stack') = n
      <3>1. 0 \in Nat /\ n \in Nat /\ 0 <= n /\ n <= Len(stack) /\ 0 + 1 = 1 /\ n - 0 = n
        BY <2>3
      <3>2. stack' = SubSeq(stack, 0 + 1, n)
        BY <2>1, <3>1
      <3>3. stack' \in Seq(Executions) /\ Len(stack') = n - 0
        BY <2>3, <3>1, <3>2, PartFacts
      <3>4. Executions' = Executions
        BY <2>2 DEF Executions
      <3> QED
        BY <3>1, <3>3, <3>4
    <2>5. n \in Nat /\ n <= MaxDepth
      BY <2>3, ToolsAssumption
    <2> QED
      BY <1>0, <1>2, <2>1, <2>2, <2>4, <2>5 DEF ToolTypes, Replies
  <1>9. ASSUME NEW ok \in BOOLEAN, NEW lines \in Texts, Answer(ok, lines)
        PROVE  ToolTypes' /\ LastNamedStarts'
    <2> DEFINE call == Parse(lines)
    <2>1. stack = <<>> /\ UNCHANGED <<tools, allowed, blocked>>
      BY <1>9 DEF Answer
    <2>2. \/ \E why \in {"llm failed", "terminated", "not a call"} : Refuse(why)
          \/ /\ ~call.throws
             /\ Execute(call.name, MainPolicy)
             /\ text' = lines
             /\ first' = IF stack' = <<>> THEN NoName ELSE stack'[1].tool
      BY <1>9 DEF Answer
    <2> HIDE DEF call
    <2>3. CASE \E why \in {"llm failed", "terminated", "not a call"} : Refuse(why)
      BY <1>0, <1>2, <2>1, <2>3 DEF Refuse, ToolTypes, Replies, Executions
    <2>4. CASE /\ ~call.throws
               /\ Execute(call.name, MainPolicy)
               /\ text' = lines
               /\ first' = IF stack' = <<>> THEN NoName ELSE stack'[1].tool
      <3>1. CASE stack' = stack /\ reply' \in {"not registered", "blocked"}
        BY <1>0, <2>1, <2>4, <3>1 DEF ToolTypes, Replies, LastNamedStarts, Executions
      <3>2. CASE Starts(call.name, MainPolicy)
        <4>1. Len(stack) < MaxDepth
          <5>1. Len(stack) = 0
            BY <2>1
          <5> QED
            BY <5>1, ToolsAssumption
        <4>2. stack' \in Seq(Executions') /\ Len(stack') \in Nat /\ Len(stack') <= MaxDepth
          BY <1>0, <2>1, <3>2, <4>1, StartsType, ToolsAssumption
        <4>3. first' = call.name /\ call.name \in tools
          <5>1. stack' = Append(<<>>, Executing(call.name, MainPolicy)) /\ call.name \in tools
            BY <2>1, <3>2 DEF Starts
          <5>2. stack' # <<>> /\ stack'[1] = Executing(call.name, MainPolicy)
            BY <5>1
          <5>3. stack'[1].tool = call.name
            BY <5>2 DEF Executing
          <5> QED
            BY <2>4, <5>1, <5>2, <5>3
        <4>4. ToolTypes'
          BY <1>0, <2>1, <2>4, <3>2, <4>2, <4>3 DEF ToolTypes, Starts
        <4>5. PICK n \in Nat : n = Len(lines) /\ lines \in Seq(Lines) /\ lines \in [1 .. n -> Lines]
          BY ToolsAssumption, LenProperties
        <4>6. NamedBy(call, lines, n)
          BY <4>5, ParseNames DEF call
        <4>7. LastNamedStarts'
          <5>1. SUFFICES ASSUME call.name # NoName
                         PROVE  /\ \E i \in 1 .. n :
                                       /\ lines[i] = [key |-> "tool", value |-> call.name]
                                       /\ \A j \in i + 1 .. n : lines[j].key # "tool"
                                /\ \A i \in 1 .. n :
                                       lines[i].key = "confidence" => lines[i].value \in Numbers
            BY <2>4, <4>3, <4>5 DEF LastNamedStarts
          <5>2. PICK i \in 1 .. n : /\ lines[i].key = "tool" /\ lines[i].value = call.name
                                    /\ \A j \in i + 1 .. n : lines[j].key # "tool"
            BY <2>4, <4>6, <5>1 DEF NamedBy
          <5>3. lines[i] = [key |-> lines[i].key, value |-> lines[i].value]
            BY <4>5, ToolsAssumption
          <5> QED
            BY <2>4, <4>6, <5>2, <5>3 DEF NamedBy
        <4> QED
          BY <4>4, <4>7
      <3> QED
        BY <2>4, <3>1, <3>2, ExecuteFacts
    <2> QED
      BY <2>2, <2>3, <2>4
  <1>10. CASE UNCHANGED toolsVars
    BY <1>0, <1>2, <1>10 DEF toolsVars, ToolTypes, Executions
  <1> QED
    BY <1>3, <1>4, <1>5, <1>6, <1>7, <1>8, <1>9, <1>10 DEF ToolsNext

(* ToolsTypeOK: what executes is registered, whatever handlers do. *)
THEOREM ToolsTypeCorrect == ToolsSpec => []ToolsTypeOK
  <1>1. ToolsInv => ToolsTypeOK
    BY DEF ToolsInv
  <1> QED
    BY <1>1, ToolsInvInit, ToolsInvNext, PTL DEF ToolsSpec

(* ToolCallParser.cpp: for texts of any length main starts the tool that    *)
(* the last line naming one names.                                          *)
THEOREM StartsLastNamed == ToolsSpec => []LastNamedStarts
  <1>1. ToolsInv => LastNamedStarts
    BY DEF ToolsInv
  <1> QED
    BY <1>1, ToolsInvInit, ToolsInvNext, PTL DEF ToolsSpec

(* SafetyPolicy.cpp, ToolRegistry.cpp: no handler is ever entered against   *)
(* the policy given to execute, at any depth of nesting and whatever other  *)
(* policies say, and no policy is ever loosened.                            *)
THEOREM PolicyAlwaysHolds == ToolsSpec => PolicyHolds
  <1> DEFINE Holds == PoliciesGrow /\ StartsLawfully
  <1>1. ToolsInv /\ [ToolsNext]_toolsVars => [Holds]_toolsVars
    <2> SUFFICES ASSUME ToolsInv, ToolsNext PROVE Holds
      OBVIOUS
    <2>0. stack \in Seq(Executions)
      BY DEF ToolsInv, ToolsTypeOK, Executions
    <2>1. ASSUME stack' = stack, PoliciesGrow PROVE Holds
      BY <2>1 DEF StartsLawfully
    <2>2. ASSUME NEW name, NEW p, Execute(name, p), UNCHANGED <<allowed, blocked>> PROVE Holds
      <3>0. PoliciesGrow
        BY <2>2 DEF PoliciesGrow
      <3>1. CASE stack' = stack
        BY <2>1, <3>0, <3>1
      <3>2. CASE Starts(name, p)
        <4> DEFINE e == Executing(name, p)
        <4>1. DOMAIN stack' \ DOMAIN stack \subseteq {Len(stack) + 1} /\ stack'[Len(stack) + 1] = e
          <5>1. stack' = Append(stack, e)
            BY <3>2 DEF Starts
          <5> HIDE DEF e
          <5>2. Len(stack) \in Nat /\ DOMAIN stack = 1 .. Len(stack)
            BY <2>0, LenProperties
          <5>3. DOMAIN stack' = 1 .. Len(stack) + 1 /\ stack'[Len(stack) + 1] = e
            BY <2>0, <5>1, <5>2
          <5> QED
            BY <5>2, <5>3
        <4>2. e.tool = name /\ e.policy = p
          BY DEF Executing
        <4>3. /\ name \in tools /\ name \notin blocked[p]
              /\ allowed[p] = {} \/ name \in allowed[p]
          BY <3>2 DEF Starts, IsAllowed
        <4> HIDE DEF e
        <4>4. Lawful(e)
          BY <4>2, <4>3 DEF Lawful
        <4> QED
          BY <3>0, <4>1, <4>4 DEF StartsLawfully
      <3> QED
        BY <2>2, <3>1, <3>2, ExecuteFacts
    <2>3. ASSUME NEW n \in 0 .. Len(stack), stack' = SubSeq(stack, 1, n), UNCHANGED <<allowed, blocked>>
          PROVE  Holds
      <3>1. Len(stack) \in Nat /\ DOMAIN stack = 1 .. Len(stack)
        BY <2>0, LenProperties
      <3>2. DOMAIN stack' = 1 .. n
        <4>1. 0 \in Nat /\ n \in Nat /\ 0 <= n /\ n <= Len(stack) /\ 0 + 1 = 1 /\ n - 0 = n
          BY <3>1
        <4>2. stack' = SubSeq(stack, 0 + 1, n)
          BY <2>3, <4>1
        <4>3. stack' \in Seq(Executions) /\ Len(stack') = n - 0
          BY <2>0, <4>1, <4>2, PartFacts
        <4> QED
          BY <4>1, <4>3, LenProperties
      <3>3. DOMAIN stack' \ DOMAIN stack = {}
        BY <3>1, <3>2
      <3> QED
        BY <2>3, <3>3 DEF PoliciesGrow, StartsLawfully
    <2>4. Len(stack) \in Nat
      BY <2>0, LenProperties
    <2>5. CASE \E name \in Tool : RegisterTool(name)
      BY <2>1, <2>5 DEF RegisterTool, PoliciesGrow
    <2>6. ASSUME NEW name \in Tool, NEW p \in Policy, AllowTool(name, p) \/ BlockTool(name, p)
          PROVE  Holds
      <3>1. /\ allowed \in [Policy -> SUBSET Tool] /\ blocked \in [Policy -> SUBSET Tool]
            /\ stack' = stack
        BY <2>6 DEF AllowTool, BlockTool, ToolsInv, ToolsTypeOK
      <3>2. ASSUME AllowTool(name, p) PROVE PoliciesGrow
        BY <3>1, <3>2 DEF AllowTool, PoliciesGrow
      <3>3. ASSUME BlockTool(name, p) PROVE PoliciesGrow
        BY <3>1, <3>3 DEF BlockTool, PoliciesGrow
      <3> QED
        BY <2>1, <2>6, <3>1, <3>2, <3>3
    <2>7. CASE \E name \in Tool, p \in Policy : ExecuteNested(name, p)
      BY <2>2, <2>7 DEF ExecuteNested
    <2>8. CASE HandlerReturns
      <3>1. stack' = SubSeq(stack, 1, Len(stack) - 1) /\ UNCHANGED <<allowed, blocked>> /\ stack # <<>>
        BY <2>8 DEF HandlerReturns, Front
      <3>2. Len(stack) - 1 \in 0 .. Len(stack)
        BY <2>0, <3>1, PopFacts
      <3> QED
        BY <2>3, <3>1, <3>2
    <2>9. CASE HandlerThrows
      <3>1. PICK n \in 0 .. Len(stack) - 1 : stack' = SubSeq(stack, 1, n)
        BY <2>9 DEF HandlerThrows
      <3>2. n \in 0 .. Len(stack)
        BY <2>4
      <3> QED
        BY <2>3, <2>9, <3>1, <3>2 DEF HandlerThrows
    <2>10. CASE \E ok \in BOOLEAN, lines \in Texts : Answer(ok, lines)
      <3>1. PICK ok \in BOOLEAN, lines \in Texts : Answer(ok, lines)
        BY <2>10
      <3>2. /\ UNCHANGED <<allowed, blocked>>
            /\ stack' = stack \/ Execute(Parse(lines).name, MainPolicy)
        BY <3>1 DEF Answer, Refuse
      <3> QED
        BY <2>1, <2>2, <3>2 DEF PoliciesGrow
    <2> QED
      BY <2>5, <2>6, <2>7, <2>8, <2>9, <2>10 DEF ToolsNext
  <1> QED
    BY <1>1, ToolsInvInit, ToolsInvNext, PTL DEF ToolsSpec, PolicyHolds
=============================================================================
