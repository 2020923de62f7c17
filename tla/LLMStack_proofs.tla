--------------------------- MODULE LLMStack_proofs ---------------------------
(***************************************************************************)
(* Proofs about LLMStack, for any agents, layers in any order and number,  *)
(* any backends and any nesting of requests.                               *)
(***************************************************************************)
EXTENDS LLMStack, SequenceLemmas, TLAPS

(* s[j] is a call below s[i] in the runtime of one agent. *)
Under(s, i, j) == /\ j > i /\ s[j].agent = s[i].agent
                  /\ \A k \in i + 1 .. j : s[k].layer = s[i].layer + (k - i)

Covers(outer, inner) ==
    /\ Kind(outer) = "memory" => EstimateMemoryBytes(inner) <= outer.held
    /\ Kind(outer) = "scheduled" =>
           EstimatePromptTokens(inner.chars) + inner.max_tokens <= outer.held

Covered(s) == \A i, j \in DOMAIN s : Under(s, i, j) => Covers(s[i], s[j])

FromTheTop(s) == \A i \in DOMAIN s : s[i].layer >= 1

Stacked(s) == s \in Seq(Frame) /\ Covered(s) /\ FromTheTop(s)

Inv == TypeOK /\ Scheduler!NoWrap /\ Stacked(stack)

-----------------------------------------------------------------------------
LEMMA CoveredCalls == Covered(stack) <=> CallsCovered
  BY DEF Covered, CallsCovered, Under, Covers

LEMMA PopStacked ==
    ASSUME NEW s, Stacked(s), s # <<>>
    PROVE  Stacked(SubSeq(s, 1, Len(s) - 1))
  <1> DEFINE t == SubSeq(s, 1, Len(s) - 1)
  <1>1. s \in Seq(Frame)
    BY DEF Stacked
  <1>2. PICK n \in Nat : n = Len(s) /\ n > 0
    BY <1>1, PopFacts
  <1>3. /\ t \in Seq(Frame) /\ DOMAIN s = 1 .. n /\ DOMAIN t = 1 .. n - 1
        /\ \A i \in 1 .. n - 1 : t[i] = s[i]
    BY <1>1, <1>2, PopFacts
  <1> HIDE DEF t
  <1>4. Covered(t)
    <2> SUFFICES ASSUME NEW i \in 1 .. n - 1, NEW j \in 1 .. n - 1, Under(t, i, j)
                 PROVE  Covers(t[i], t[j])
      BY <1>3 DEF Covered
    <2>1. i \in 1 .. n /\ j \in 1 .. n /\ t[i] = s[i] /\ t[j] = s[j]
      BY <1>2, <1>3
    <2>2. Under(s, i, j)
      <3>1. ASSUME NEW k \in i + 1 .. j PROVE s[k] = t[k]
        <4>1. k \in 1 .. n - 1
          BY <1>2, <2>1
        <4> QED
          BY <4>1, <1>3
      <3> QED
        BY <2>1, <3>1 DEF Under
    <2>3. Covered(s)
      BY DEF Stacked
    <2>4. Covers(s[i], s[j])
      BY <2>1, <2>2, <2>3, <1>3 DEF Covered
    <2> QED
      BY <2>1, <2>4
  <1>5. FromTheTop(t)
    BY <1>2, <1>3 DEF Stacked, FromTheTop
  <1> QED
    BY <1>3, <1>4, <1>5 DEF Stacked, t

LEMMA PushStacked ==
    ASSUME NEW s, Stacked(s), NEW f \in Frame, f.layer = 1
    PROVE  Stacked(Append(s, f))
  <1> DEFINE t == Append(s, f)
  <1>1. s \in Seq(Frame)
    BY DEF Stacked
  <1>2. PICK n \in Nat : n = Len(s)
    BY <1>1, PushFacts
  <1>3. /\ t \in Seq(Frame) /\ DOMAIN s = 1 .. n /\ DOMAIN t = 1 .. n + 1
        /\ t[n + 1] = f /\ \A i \in 1 .. n : t[i] = s[i]
    BY <1>1, <1>2, PushFacts
  <1> HIDE DEF t
  <1>4. FromTheTop(t)
    BY <1>2, <1>3 DEF Stacked, FromTheTop
  <1>5. Covered(t)
    <2> SUFFICES ASSUME NEW i \in 1 .. n + 1, NEW j \in 1 .. n + 1, Under(t, i, j)
                 PROVE  Covers(t[i], t[j])
      BY <1>3 DEF Covered
    <2>1. i \in 1 .. n /\ t[i] \in Frame
      BY <1>2, <1>3, ElementOfSeq DEF Under
    <2>2. j \in 1 .. n
      <3> SUFFICES ASSUME j = n + 1 PROVE FALSE
        BY <1>2
      <3>1. t[j].layer = t[i].layer + (j - i)
        BY <2>1, <1>2 DEF Under
      <3>2. t[i].layer >= 1 /\ t[i].layer \in Nat
        BY <1>3, <1>4, <2>1 DEF FromTheTop, Frame
      <3> QED
        BY <1>2, <1>3, <2>1, <3>1, <3>2
    <2>3. Under(s, i, j)
      BY <2>1, <2>2, <1>2, <1>3 DEF Under
    <2>4. Covered(s)
      BY DEF Stacked
    <2>5. Covers(s[i], s[j])
      BY <2>1, <2>2, <2>3, <2>4, <1>3 DEF Covered
    <2> QED
      BY <2>1, <2>2, <2>5, <1>3
  <1> QED
    BY <1>3, <1>4, <1>5 DEF Stacked, t

(* The stack after CallInner. *)
LEMMA PairFacts ==
    ASSUME NEW S, NEW p \in Seq(S), NEW g \in S, NEW h \in S, NEW n \in Nat, n = Len(p)
    PROVE  /\ p \o <<g, h>> \in Seq(S)
           /\ DOMAIN (p \o <<g, h>>) = 1 .. n + 2
           /\ \A i \in 1 .. n : (p \o <<g, h>>)[i] = p[i]
           /\ (p \o <<g, h>>)[n + 1] = g
           /\ (p \o <<g, h>>)[n + 2] = h
  <1> DEFINE q == <<g, h>>
             t == p \o q
  <1>1. q \in Seq(S) /\ Len(q) = 2 /\ q[1] = g /\ q[2] = h
    OBVIOUS
  <1> HIDE DEF q
  <1>2. /\ t \in Seq(S) /\ Len(t) = Len(p) + Len(q)
        /\ \A i \in 1 .. Len(p) + Len(q) :
               t[i] = IF i <= Len(p) THEN p[i] ELSE q[i - Len(p)]
    BY <1>1, ConcatProperties
  <1> HIDE DEF t
  <1>3. Len(t) = n + 2 /\ DOMAIN t = 1 .. n + 2
    BY <1>1, <1>2, LenProperties
  <1>4. \A i \in 1 .. n + 2 : t[i] = IF i <= n THEN p[i] ELSE q[i - n]
    BY <1>1, <1>2
  <1>5. t[n + 1] = q[1] /\ t[n + 2] = q[2] /\ \A i \in 1 .. n : t[i] = p[i]
    BY <1>4
  <1> QED
    BY <1>1, <1>2, <1>3, <1>5 DEF q, t

LEMMA EstimateFacts ==
    ASSUME NEW chars \in Nat
    PROVE  EstimatePromptTokens(chars) \in Nat
  <1>1. Modulus \in Nat \ {0}
    BY SizesAssumption
  <1>2. PICK n \in Nat : n = chars % Modulus
    BY <1>1
  <1>3. n \div 4 \in Nat
    OBVIOUS
  <1> QED
    BY <1>2, <1>3 DEF EstimatePromptTokens, AtLeastOne

(* A call of the same prompt that asks for no more is covered, too. *)
LEMMA SmallerCovered ==
    ASSUME NEW outer \in Frame, NEW f \in Frame, NEW h \in Frame,
           h.chars = f.chars, h.max_tokens <= f.max_tokens, Covers(outer, f)
    PROVE  Covers(outer, h)
  <1>1. /\ outer.held \in Nat /\ f.chars \in Nat
        /\ f.max_tokens \in Nat /\ h.max_tokens \in Nat
    BY DEF Frame
  <1>2. EstimateMemoryBytes(f) \in Nat /\ EstimateMemoryBytes(h) \in Nat
        /\ EstimateMemoryBytes(h) <= EstimateMemoryBytes(f)
    BY <1>1 DEF EstimateMemoryBytes
  <1>3. PICK e \in Nat : e = EstimatePromptTokens(f.chars) /\ e = EstimatePromptTokens(h.chars)
    BY <1>1, EstimateFacts
  <1>4. e + f.max_tokens <= outer.held => e + h.max_tokens <= outer.held
    BY <1>1
  <1>5. EstimateMemoryBytes(f) <= outer.held => EstimateMemoryBytes(h) <= outer.held
    BY <1>1, <1>2
  <1> QED
    BY <1>3, <1>4, <1>5 DEF Covers

LEMMA InnerStacked ==
    ASSUME NEW s, Stacked(s), NEW n \in Nat, n > 0, DOMAIN s = 1 .. n, s[n] \in Frame,
           NEW t \in Seq(Frame), DOMAIN t = 1 .. n + 1,
           \A i \in 1 .. n - 1 : t[i] = s[i],
           t[n].agent = s[n].agent, t[n].layer = s[n].layer, t[n].chars = s[n].chars,
           t[n].max_tokens = s[n].max_tokens,
           NEW h \in Frame, t[n + 1] = h,
           h.agent = s[n].agent, h.layer = s[n].layer + 1, h.chars = s[n].chars,
           h.max_tokens <= s[n].max_tokens,
           Covers(t[n], h)
    PROVE  Stacked(t)
  <1>1. s \in Seq(Frame) /\ Covered(s) /\ FromTheTop(s)
    BY DEF Stacked
  <1>2. \A i \in 1 .. n : /\ t[i].agent = s[i].agent /\ t[i].layer = s[i].layer
                          /\ t[i].chars = s[i].chars /\ t[i].max_tokens = s[i].max_tokens
    OBVIOUS
  <1>3. FromTheTop(t)
    <2>1. ASSUME NEW i \in 1 .. n PROVE t[i].layer >= 1
      BY <1>1, <1>2 DEF FromTheTop
    <2>2. t[n + 1].layer >= 1
      <3>1. n \in DOMAIN s
        OBVIOUS
      <3>2. s[n].layer >= 1
        BY <1>1, <3>1 DEF FromTheTop
      <3>3. s[n].layer \in Nat
        BY DEF Frame
      <3> QED
        BY <3>2, <3>3
    <2>3. \A i \in 1 .. n + 1 : i \in 1 .. n \/ i = n + 1
      OBVIOUS
    <2> QED
      BY <2>1, <2>2, <2>3 DEF FromTheTop
  <1>4. ASSUME NEW i \in 1 .. n - 1, NEW j \in i + 1 .. n, Under(t, i, j)
        PROVE  Covers(s[i], s[j])
    <2>1. Under(s, i, j)
      <3>1. ASSUME NEW k \in i + 1 .. j PROVE s[k].layer = t[k].layer
        <4>1. k \in 1 .. n
          OBVIOUS
        <4> QED
          BY <4>1, <1>2
      <3>2. i \in 1 .. n /\ j \in 1 .. n
        OBVIOUS
      <3>3. /\ s[j].agent = t[j].agent /\ s[i].agent = t[i].agent
            /\ s[i].layer = t[i].layer
        BY <1>2, <3>2
      <3> QED
        BY <1>4, <3>1, <3>3 DEF Under
    <2> QED
      BY <1>1, <2>1 DEF Covered
  <1>5. ASSUME NEW i \in 1 .. n - 1, NEW j \in i + 1 .. n, Under(t, i, j)
        PROVE  Covers(t[i], t[j])
    <2>1. t[i] = s[i] /\ t[j].chars = s[j].chars /\ t[j].max_tokens = s[j].max_tokens
      BY <1>2
    <2> QED
      BY <1>4, <1>5, <2>1 DEF Covers, EstimateMemoryBytes, EstimatePromptTokens
  <1>6. ASSUME NEW i \in 1 .. n - 1, Under(t, i, n + 1)
        PROVE  Covers(t[i], h)
    <2>1. Under(t, i, n)
      <3>1. t[n].agent = t[i].agent
        BY <1>6 DEF Under
      <3>2. \A k \in i + 1 .. n : k \in i + 1 .. n + 1
        OBVIOUS
      <3> QED
        BY <1>6, <3>1, <3>2 DEF Under
    <2>2. Covers(t[i], t[n])
      BY <1>5, <2>1
    <2>3. i \in 1 .. n + 1 /\ n \in 1 .. n + 1
      OBVIOUS
    <2>4. t[i] \in Frame /\ t[n] \in Frame
      BY <2>3, ElementOfSeq
    <2>5. h.max_tokens <= t[n].max_tokens /\ h.chars = t[n].chars
      OBVIOUS
    <2> QED
      BY <2>2, <2>4, <2>5, SmallerCovered
  <1>7. Covered(t)
    <2> SUFFICES ASSUME NEW i \in 1 .. n + 1, NEW j \in 1 .. n + 1, Under(t, i, j)
                 PROVE  Covers(t[i], t[j])
      BY DEF Covered
    <2>0. j > i
      BY DEF Under
    <2>1. CASE j <= n
      <3>1. i \in 1 .. n - 1 /\ j \in i + 1 .. n
        BY <2>0, <2>1
      <3> QED
        BY <3>1, <1>5
    <2>2. CASE j = n + 1 /\ i = n
      BY <2>2
    <2>3. CASE j = n + 1 /\ i < n
      BY <2>3, <1>6
    <2> QED
      BY <2>0, <2>1, <2>2, <2>3
  <1> QED
    BY <1>3, <1>7 DEF Stacked
-----------------------------------------------------------------------------
(* The requests. *)

LEMMA TopFacts ==
    ASSUME Inv, stack # <<>>
    PROVE  Top \in Frame /\ Stacked(Pop)
  BY PopFacts, PopStacked DEF Inv, Stacked, Top, Pop

(* A layer that keeps something, and its call of the layer under it. *)
InnerCall(top, held, max, g, h) ==
    /\ g \in Frame /\ h \in Frame
    /\ g.agent = top.agent /\ g.layer = top.layer /\ g.chars = top.chars
    /\ g.max_tokens = top.max_tokens /\ g.held = held
    /\ h.agent = top.agent /\ h.layer = top.layer + 1 /\ h.chars = top.chars
    /\ h.max_tokens = max /\ h.held = 0

LEMMA InnerFrames ==
    ASSUME NEW top \in Frame, NEW held \in Nat, NEW max \in Nat
    PROVE  InnerCall(top, held, max, [top EXCEPT !.held = held],
                  [top EXCEPT !.layer = @ + 1, !.max_tokens = max, !.held = 0])
  <1> DEFINE g == [top EXCEPT !.held = held]
             l == [top EXCEPT !.layer = top.layer + 1]
             m == [l EXCEPT !.max_tokens = max]
             h == [m EXCEPT !.held = 0]
  <1>1. /\ g \in Frame /\ g.held = held /\ g.agent = top.agent /\ g.layer = top.layer
        /\ g.chars = top.chars /\ g.max_tokens = top.max_tokens
    BY DEF Frame
  <1>2. /\ l \in Frame /\ l.agent = top.agent /\ l.layer = top.layer + 1
        /\ l.chars = top.chars
    BY DEF Frame
  <1> HIDE DEF l
  <1>3. /\ m \in Frame /\ m.agent = l.agent /\ m.layer = l.layer
        /\ m.chars = l.chars /\ m.max_tokens = max
    BY <1>2 DEF Frame
  <1> HIDE DEF m
  <1>4. /\ h \in Frame /\ h.agent = m.agent /\ h.layer = m.layer
        /\ h.chars = m.chars /\ h.max_tokens = m.max_tokens /\ h.held = 0
    BY <1>3 DEF Frame
  <1>5. h = [top EXCEPT !.layer = @ + 1, !.max_tokens = max, !.held = 0]
    BY DEF l, m
  <1>6. InnerCall(top, held, max, g, h)
    <2> HIDE DEF g, h
    <2> QED
      BY <1>1, <1>2, <1>3, <1>4 DEF InnerCall
  <1> QED
    BY <1>5, <1>6

LEMMA CallInnerStacked ==
    ASSUME Inv, stack # <<>>, NEW held \in Nat, NEW max \in Nat, CallInner(held, max),
           max <= Top.max_tokens,
           Kind(Top) = "memory" => Top.chars + 8 * max + 1024 <= held,
           Kind(Top) = "scheduled" => EstimatePromptTokens(Top.chars) + max <= held
    PROVE  Stacked(stack')
  <1> DEFINE g == [Top EXCEPT !.held = held]
             h == [Top EXCEPT !.layer = @ + 1, !.max_tokens = max, !.held = 0]
             t == Pop \o <<g, h>>
  <1>1. Top \in Frame
    BY TopFacts
  <1>2. /\ g \in Frame /\ h \in Frame
        /\ g.agent = Top.agent /\ g.layer = Top.layer /\ g.chars = Top.chars
        /\ g.max_tokens = Top.max_tokens /\ g.held = held
        /\ h.agent = Top.agent /\ h.layer = Top.layer + 1 /\ h.chars = Top.chars
        /\ h.max_tokens = max
    <2>1. InnerCall(Top, held, max, g, h)
      BY <1>1, InnerFrames
    <2> HIDE DEF g, h
    <2> QED
      BY <2>1 DEF InnerCall
  <1>3. Covers(g, h)
    <2>1. Kind(g) = Kind(Top)
      BY <1>2 DEF Kind
    <2> QED
      BY <1>2, <2>1 DEF Covers, EstimateMemoryBytes
  <1>4. stack' = t
    BY DEF CallInner
  <1>5. stack \in Seq(Frame) /\ Stacked(stack)
    BY DEF Inv, Stacked
  <1>6. PICK n \in Nat : n = Len(stack) /\ n > 0
    BY <1>5, PopFacts
  <1>7. /\ Pop \in Seq(Frame) /\ DOMAIN stack = 1 .. n /\ Top = stack[n]
        /\ \A i \in 1 .. n - 1 : Pop[i] = stack[i]
    BY <1>5, <1>6, PopFacts DEF Pop, Top
  <1>8. Len(Pop) = n - 1 /\ n - 1 \in Nat
    BY <1>5, <1>6, PopFacts DEF Pop
  <1> HIDE DEF g, h
  <1>9. /\ t \in Seq(Frame) /\ DOMAIN t = 1 .. (n - 1) + 2
        /\ \A i \in 1 .. n - 1 : t[i] = Pop[i]
        /\ t[(n - 1) + 1] = g /\ t[(n - 1) + 2] = h
    BY <1>2, <1>7, <1>8, PairFacts
  <1> HIDE DEF t
  <1>10. /\ t \in Seq(Frame) /\ DOMAIN t = 1 .. n + 1
         /\ \A i \in 1 .. n - 1 : t[i] = stack[i]
         /\ t[n] = g /\ t[n + 1] = h
    BY <1>6, <1>7, <1>9
  <1>11. Stacked(t)
    <2>1. /\ stack[n] \in Frame /\ h \in Frame /\ h.max_tokens <= stack[n].max_tokens
          /\ t[n].agent = stack[n].agent /\ t[n].layer = stack[n].layer
          /\ t[n].chars = stack[n].chars /\ t[n].max_tokens = stack[n].max_tokens
          /\ h.agent = stack[n].agent /\ h.layer = stack[n].layer + 1
          /\ h.chars = stack[n].chars /\ Covers(t[n], h)
      BY <1>1, <1>2, <1>3, <1>7, <1>10
    <2> QED
      BY <2>1, <1>5, <1>6, <1>7, <1>10, InnerStacked
  <1> QED
    BY <1>4, <1>11

(* What the scheduler takes for a request, and what it lets through. *)
LEMMA ScheduleFacts ==
    ASSUME Scheduler!TypeOK, Scheduler!NoWrap, NEW f \in Frame
    PROVE  /\ Scheduler!Charge(Task(f)) \in 0 .. budget.remaining_tokens
           /\ Scheduler!DecisionType(Task(f)) \notin {"Reject", "UseFallback"} =>
                /\ InnerMaxTokens(f) \in Nat /\ InnerMaxTokens(f) <= f.max_tokens
                /\ EstimatePromptTokens(f.chars) + InnerMaxTokens(f)
                       <= Scheduler!Charge(Task(f))
  <1> DEFINE t == Task(f)
             e == EstimatePromptTokens(f.chars)
  <1>1. /\ t.estimated_prompt_tokens = e /\ t.requested_completion_tokens = f.max_tokens
        /\ t.allow_truncation = TRUE /\ t.allow_fallback = TRUE
    BY DEF Task
  <1>2. e \in Nat /\ f.max_tokens \in Nat
    BY EstimateFacts DEF Frame
  <1>3. /\ Modulus \in Nat
        /\ budget.max_prompt_tokens \in Nat /\ budget.max_completion_tokens \in Nat
        /\ budget.remaining_tokens \in Nat
        /\ budget.max_prompt_tokens + budget.max_completion_tokens < Modulus
    BY SizesAssumption DEF Scheduler!TypeOK, Scheduler!TokenBudget, Scheduler!Word, Scheduler!NoWrap
  <1> HIDE DEF t, e
  <1>4. /\ Scheduler!Completion(t) \in Nat /\ Scheduler!Completion(t) <= f.max_tokens
        /\ Scheduler!Completion(t) <= budget.max_completion_tokens
    BY <1>1, <1>2, <1>3 DEF Scheduler!Completion, Scheduler!Least
  <1>5. Scheduler!Admissible(t) => Scheduler!Total(t) = e + Scheduler!Completion(t)
    BY <1>1, <1>2, <1>3, <1>4 DEF Scheduler!Admissible, Scheduler!Total, Scheduler!Plus
  <1>6. Scheduler!Fits(t) => /\ Scheduler!Charge(t) = e + Scheduler!Completion(t)
                             /\ Scheduler!Charge(t) \in 0 .. budget.remaining_tokens
                             /\ Scheduler!AllowedCompletion(t) = Scheduler!Completion(t)
    BY <1>2, <1>3, <1>4, <1>5
       DEF Scheduler!Fits, Scheduler!Charge, Scheduler!AllowedCompletion, Scheduler!Remaining
  <1>7. ~Scheduler!Fits(t) /\ Scheduler!FitsInPart(t) =>
            /\ Scheduler!Charge(t) = budget.remaining_tokens
            /\ Scheduler!AllowedCompletion(t) = budget.remaining_tokens - e
            /\ budget.remaining_tokens - e \in Nat
            /\ budget.remaining_tokens - e <= f.max_tokens
    BY <1>1, <1>2, <1>3, <1>4, <1>5
       DEF Scheduler!FitsInPart, Scheduler!Charge, Scheduler!AllowedCompletion,
           Scheduler!Remaining
  <1>8. ~Scheduler!Fits(t) /\ ~Scheduler!FitsInPart(t) =>
            /\ Scheduler!Charge(t) = 0
            /\ Scheduler!DecisionType(t) = "UseFallback"
    BY <1>1 DEF Scheduler!Charge, Scheduler!DecisionType
  <1>9. Scheduler!Charge(t) \in 0 .. budget.remaining_tokens
    BY <1>3, <1>6, <1>7, <1>8
  <1>10. ASSUME Scheduler!DecisionType(t) \notin {"Reject", "UseFallback"}
         PROVE  /\ InnerMaxTokens(f) \in Nat /\ InnerMaxTokens(f) <= f.max_tokens
                /\ e + InnerMaxTokens(f) <= Scheduler!Charge(t)
    <2>1. CASE Scheduler!Fits(t)
      <3>1. InnerMaxTokens(f) = Scheduler!Completion(t)
        BY <1>1, <1>6, <2>1 DEF InnerMaxTokens, Scheduler!DecisionType, t
      <3> QED
        BY <3>1, <2>1, <1>2, <1>4, <1>6
    <2>2. CASE ~Scheduler!Fits(t) /\ Scheduler!FitsInPart(t)
      <3>1. InnerMaxTokens(f) = budget.remaining_tokens - e
        BY <1>7, <2>2 DEF InnerMaxTokens, Scheduler!DecisionType, t
      <3> QED
        BY <3>1, <2>2, <1>2, <1>3, <1>7
    <2> QED
      BY <2>1, <2>2, <1>8, <1>10
  <1> QED
    BY <1>9, <1>10 DEF t, e

LEMMA ChargeKeepsType ==
    ASSUME Scheduler!TypeOK, Scheduler!NoWrap, NEW f \in Frame, Scheduler!Schedule(Task(f))
    PROVE  Scheduler!TypeOK' /\ Scheduler!NoWrap'
  <1> DEFINE c == Scheduler!Charge(Task(f))
  <1>1. c \in 0 .. budget.remaining_tokens
    BY ScheduleFacts
  <1> HIDE DEF c
  <1>2. budget' = [budget EXCEPT !.remaining_tokens = budget.remaining_tokens - c]
    BY DEF Scheduler!Schedule, Scheduler!Remaining, c
  <1>3. budget.remaining_tokens - c \in Scheduler!Word
    BY <1>1, SizesAssumption DEF Scheduler!TypeOK, Scheduler!TokenBudget, Scheduler!Word
  <1> QED
    BY <1>2, <1>3 DEF Scheduler!TypeOK, Scheduler!TokenBudget, Scheduler!NoWrap

LEMMA ReleaseKeepsType ==
    ASSUME Scheduler!TypeOK, Scheduler!NoWrap, NEW used \in Nat, Scheduler!Release(used)
    PROVE  Scheduler!TypeOK' /\ Scheduler!NoWrap'
  <1> DEFINE r == Scheduler!Least(Scheduler!Plus(Scheduler!Remaining, used), Scheduler!Cap)
  <1>1. r \in Scheduler!Word
    BY SizesAssumption
       DEF Scheduler!Least, Scheduler!Plus, Scheduler!Cap, Scheduler!Remaining, Scheduler!Word,
           Scheduler!TypeOK, Scheduler!TokenBudget, Scheduler!NoWrap
  <1> HIDE DEF r
  <1>2. budget' = [budget EXCEPT !.remaining_tokens = r]
    BY DEF Scheduler!Release, r
  <1> QED
    BY <1>1, <1>2 DEF Scheduler!TypeOK, Scheduler!TokenBudget, Scheduler!NoWrap
(* The budgets of the agents. *)
LEMMA MemoryKeepsType ==
    ASSUME Memory!TypeOK, NEW a \in Agent, NEW n \in Nat,
           \/ Memory!SetAgentBudget(a, n)
           \/ Memory!CanReserve(a, n) /\ Memory!Reserve(a, n)
           \/ Memory!Release(a, n)
    PROVE  Memory!TypeOK'
  <1>1. DOMAIN agent_budgets \subseteq Agent /\ agent_budgets \in [DOMAIN agent_budgets -> Memory!Budget]
    BY DEF Memory!TypeOK
  <1>2. CASE Memory!SetAgentBudget(a, n)
    BY <1>1, <1>2 DEF Memory!SetAgentBudget, Memory!TypeOK, Memory!Budget
  <1>3. CASE Memory!CanReserve(a, n) /\ Memory!Reserve(a, n)
    <2>1. a \in DOMAIN agent_budgets
      BY <1>3 DEF Memory!CanReserve, Memory!HasBudget
    <2>2. PICK old \in Memory!Budget : old = agent_budgets[a]
      BY <1>1, <2>1
    <2>3. PICK new \in Memory!Budget : agent_budgets' = [agent_budgets EXCEPT ![a] = new]
      <3> DEFINE used == old.used_bytes + n
                 peak == IF old.peak_used_bytes < used THEN used ELSE old.peak_used_bytes
                 new == [[old EXCEPT !.used_bytes = used] EXCEPT !.peak_used_bytes = peak]
      <3>1. used \in Nat /\ peak \in Nat
        BY DEF Memory!Budget
      <3>2. agent_budgets' = [agent_budgets EXCEPT ![a].used_bytes = used,
                                                   ![a].peak_used_bytes = peak]
        BY <1>3, <2>2 DEF Memory!Reserve
      <3> HIDE DEF used, peak
      <3>3. agent_budgets' = [agent_budgets EXCEPT ![a] = new]
        BY <1>1, <2>1, <2>2, <3>2
      <3>4. new \in Memory!Budget
        BY <3>1 DEF Memory!Budget
      <3> QED
        BY <3>3, <3>4
    <2> QED
      BY <1>1, <2>1, <2>3 DEF Memory!TypeOK
  <1>4. CASE Memory!Release(a, n)
    <2>1. CASE a \notin DOMAIN agent_budgets
      BY <1>1, <1>4, <2>1 DEF Memory!Release, Memory!HasBudget, Memory!TypeOK
    <2>2. CASE a \in DOMAIN agent_budgets
      <3>1. PICK old \in Memory!Budget : old = agent_budgets[a]
        BY <1>1, <2>2
      <3> DEFINE used == IF n >= old.used_bytes THEN 0 ELSE old.used_bytes - n
      <3>2. used \in Nat
        BY DEF Memory!Budget
      <3>3. agent_budgets' = [agent_budgets EXCEPT ![a] = [old EXCEPT !.used_bytes = used]]
        BY <1>4, <2>2, <3>1 DEF Memory!Release, Memory!HasBudget
      <3> HIDE DEF used
      <3>4. [old EXCEPT !.used_bytes = used] \in Memory!Budget
        BY <3>2 DEF Memory!Budget
      <3> QED
        BY <1>1, <2>2, <3>3, <3>4 DEF Memory!TypeOK
    <2> QED
      BY <2>1, <2>2
  <1> QED
    BY <1>2, <1>3, <1>4

LEMMA InitInv == Init => Inv
  <1> SUFFICES ASSUME Init PROVE Inv
    OBVIOUS
  <1>1. Memory!TypeOK
    BY DEF Init, Memory!Init, Memory!TypeOK
  <1>2. budget \in Budgets /\ Scheduler!TypeOK /\ Scheduler!NoWrap
    BY SizesAssumption DEF Init, Scheduler!Init, Scheduler!TypeOK, Scheduler!NoWrap
  <1>3. initial \in Nat
    BY <1>2, SizesAssumption
       DEF Init, Scheduler!TypeOK, Scheduler!TokenBudget, Scheduler!Word
  <1>4. stack = <<>> /\ stack \in Seq(Frame) /\ DOMAIN stack = {}
    BY EmptySeq DEF Init
  <1>5. Stacked(stack)
    BY <1>4 DEF Stacked, Covered, FromTheTop
  <1>6. result \in LLMResult
    BY DEF Init, Mock!NoTokens, LLMResult
  <1>7. overreported \in BOOLEAN /\ scratch \in BOOLEAN
    BY Zenon DEF Init
  <1>10. lost \in Int
    BY DEF Init
  <1>8. now \in {"call", "return", "throw"} /\ resized \in SUBSET Agent
    BY DEF Init
  <1>9. TypeOK
    BY <1>1, <1>2, <1>3, <1>4, <1>6, <1>7, <1>8, <1>10 DEF TypeOK
  <1> QED
    BY <1>2, <1>5, <1>9 DEF Inv

LEMMA NoTokensType == Mock!NoTokens \in LLMResult
  BY DEF Mock!NoTokens, LLMResult

(* The user's calls, and what its backends do. *)
LEMMA UserInv ==
    ASSUME Inv,
           \/ \E a \in Agent, chars \in Chars, max \in MaxTokens : Generate(a, chars, max)
           \/ \E a \in Agent, limit \in Limits : SetAgentBudget(a, limit)
           \/ AllocateScratch
    PROVE  Inv'
  <1>1. CASE \E a \in Agent, chars \in Chars, max \in MaxTokens : Generate(a, chars, max)
    <2>1. PICK a \in Agent, chars \in Nat, max \in Nat : Generate(a, chars, max)
      BY <1>1, SizesAssumption
    <2> DEFINE f == [agent |-> a, layer |-> 1, chars |-> chars, max_tokens |-> max, held |-> 0]
    <2>2. f \in Frame /\ f.layer = 1
      BY DEF Frame
    <2>3. stack' = Append(stack, f)
      BY <2>1 DEF Generate
    <2> HIDE DEF f
    <2>4. Stacked(stack')
      BY <2>2, <2>3, PushStacked DEF Inv
    <2>5. /\ now' = "call" /\ result' \in LLMResult
          /\ UNCHANGED <<agent_budgets, scratch, budget, initial, lost, overreported, resized>>
      BY <2>1, NoTokensType DEF Generate
    <2> QED
      BY <2>4, <2>5
         DEF Inv, TypeOK, Stacked, Memory!TypeOK, Scheduler!TypeOK, Scheduler!NoWrap
  <1>2. CASE \E a \in Agent, limit \in Limits : SetAgentBudget(a, limit)
    <2>1. PICK a \in Agent, limit \in Nat : SetAgentBudget(a, limit)
      BY <1>2, SizesAssumption
    <2>2. Memory!TypeOK'
      BY <2>1, MemoryKeepsType DEF SetAgentBudget, Inv, TypeOK
    <2>3. resized' \in SUBSET Agent
      BY <2>1 DEF SetAgentBudget, Inv, TypeOK
    <2>4. UNCHANGED <<scratch, budget, stack, now, result, initial, lost, overreported>>
      BY <2>1 DEF SetAgentBudget
    <2> QED
      BY <2>2, <2>3, <2>4 DEF Inv, TypeOK, Scheduler!TypeOK, Scheduler!NoWrap
  <1>3. CASE AllocateScratch
    BY <1>3 DEF AllocateScratch, Inv, TypeOK, Memory!TypeOK, Scheduler!TypeOK, Scheduler!NoWrap
  <1> QED
    BY <1>1, <1>2, <1>3
LEMMA BackendInv ==
    ASSUME Inv, BackendReturns \/ BackendThrows
    PROVE  Inv'
  <1>1. stack # <<>> /\ stack' = Pop
    BY DEF BackendReturns, BackendThrows, OnTop
  <1>2. Stacked(stack')
    BY <1>1, TopFacts
  <1>3. result' \in LLMResult
    <2>1. CASE BackendReturns
      <3>1. result' \in Mock!Results(Top.chars, Top.max_tokens)
            \/ result' \in [prompt_tokens : 0 .. EstimatePromptTokens(Top.chars),
                             completion_tokens : 0 .. Top.max_tokens]
        BY <2>1 DEF BackendReturns, Reports
      <3>2. ASSUME NEW r \in Mock!Results(Top.chars, Top.max_tokens) PROVE r \in LLMResult
        BY <3>2, SizesAssumption, NoTokensType DEF Mock!Results, LLMResult
      <3>3. ASSUME NEW n, NEW m PROVE 0 .. n \subseteq Nat
        OBVIOUS
      <3> QED
        BY <3>1, <3>2, <3>3 DEF LLMResult
    <2>2. CASE BackendThrows
      BY <2>2, NoTokensType DEF BackendThrows
    <2> QED
      BY <2>1, <2>2
  <1>4. /\ now' \in {"return", "throw"} /\ overreported' \in BOOLEAN
        /\ UNCHANGED <<agent_budgets, scratch, budget, initial, lost, resized>>
    BY DEF BackendReturns, BackendThrows, Exceeds, Inv, TypeOK
  <1> QED
    BY <1>2, <1>3, <1>4
       DEF Inv, TypeOK, Stacked, Memory!TypeOK, Scheduler!TypeOK, Scheduler!NoWrap

LEMMA MemoryInv ==
    ASSUME Inv, ReserveMemory \/ ReleaseMemory \/ UnwindMemory
    PROVE  Inv'
  <1>1. /\ stack # <<>> /\ Kind(Top) = "memory"
        /\ UNCHANGED <<budget, initial, lost, overreported, resized>> /\ scratch' \in {scratch, FALSE}
    BY DEF ReserveMemory, ReleaseMemory, UnwindMemory, OnTop
  <1>2. Top \in Frame /\ Stacked(Pop)
    BY <1>1, TopFacts
  <1>3. Top.agent \in Agent /\ Top.chars \in Nat /\ Top.max_tokens \in Nat /\ Top.held \in Nat
    BY <1>2 DEF Frame
  <1>4. Memory!TypeOK /\ now \in {"call", "return", "throw"} /\ result \in LLMResult
    BY DEF Inv, TypeOK
  <1>5. /\ Memory!TypeOK' /\ Stacked(stack')
        /\ now' \in {"call", "return", "throw"} /\ result' \in LLMResult
    <2>1. CASE ReserveMemory
      <3> DEFINE bytes == EstimateMemoryBytes(Top)
      <3>1. bytes \in Nat /\ bytes = Top.chars + 8 * Top.max_tokens + 1024
        BY <1>3 DEF EstimateMemoryBytes
      <3>2. \/ /\ Memory!CanReserve(Top.agent, bytes) /\ Memory!Reserve(Top.agent, bytes)
               /\ CallInner(bytes, Top.max_tokens)
            \/ Answer /\ UNCHANGED agent_budgets
        BY <2>1 DEF ReserveMemory
      <3> HIDE DEF bytes
      <3>3. CASE Answer /\ UNCHANGED agent_budgets
        BY <3>3, <1>2, <1>4, NoTokensType DEF Answer, Memory!TypeOK
      <3>4. CASE /\ Memory!CanReserve(Top.agent, bytes) /\ Memory!Reserve(Top.agent, bytes)
                 /\ CallInner(bytes, Top.max_tokens)
        <4>1. Memory!TypeOK'
          BY <3>1, <3>4, <1>3, <1>4, MemoryKeepsType
        <4>2. Kind(Top) # "scheduled" /\ Top.max_tokens <= Top.max_tokens
              /\ Top.chars + 8 * Top.max_tokens + 1024 <= bytes
          BY <1>1, <1>3, <3>1
        <4>3. Stacked(stack')
          BY <3>1, <3>4, <4>2, <1>1, <1>3, CallInnerStacked
        <4> QED
          BY <3>4, <4>1, <4>3, <1>4 DEF CallInner
      <3> QED
        BY <3>2, <3>3, <3>4
    <2>2. CASE ReleaseMemory \/ UnwindMemory
      <3>1. /\ Memory!Release(Top.agent, Top.held)
            /\ stack' = Pop /\ UNCHANGED <<now, result>>
        BY <2>2 DEF ReleaseMemory, UnwindMemory
      <3>2. Memory!TypeOK'
        BY <3>1, <1>3, <1>4, MemoryKeepsType
      <3> QED
        BY <3>1, <3>2, <1>2, <1>4
    <2> QED
      BY <2>1, <2>2
  <1> QED
    BY <1>1, <1>5 DEF Inv, TypeOK, Stacked, Scheduler!TypeOK, Scheduler!NoWrap

LEMMA TokensInv ==
    ASSUME Inv, ScheduleTokens \/ ReleaseTokens \/ UnwindTokens
    PROVE  Inv'
  <1>1. /\ stack # <<>> /\ Kind(Top) = "scheduled"
        /\ UNCHANGED <<agent_budgets, scratch, initial, overreported, resized>>
    BY DEF ScheduleTokens, ReleaseTokens, UnwindTokens, OnTop
  <1>2. Top \in Frame /\ Stacked(Pop)
    BY <1>1, TopFacts
  <1>3. Top.max_tokens \in Nat /\ Top.held \in Nat
    BY <1>2 DEF Frame
  <1>4. /\ Scheduler!TypeOK /\ Scheduler!NoWrap /\ lost \in Int
        /\ now \in {"call", "return", "throw"} /\ result \in LLMResult
    BY DEF Inv, TypeOK
  <1>5. UsedTokens \in Nat
    BY <1>4, SizesAssumption DEF UsedTokens, Scheduler!Plus, LLMResult
  <1>6. /\ (Scheduler!TypeOK /\ Scheduler!NoWrap)' /\ Stacked(stack') /\ lost' \in Int
        /\ now' \in {"call", "return", "throw"} /\ result' \in LLMResult
    <2>1. CASE ScheduleTokens
      <3>1. /\ Scheduler!Schedule(Task(Top)) /\ UNCHANGED lost
            /\ \/ Answer
               \/ /\ Scheduler!DecisionType(Task(Top)) \notin {"Reject", "UseFallback"}
                  /\ CallInner(Scheduler!Charge(Task(Top)), InnerMaxTokens(Top))
        BY <2>1 DEF ScheduleTokens
      <3>2. (Scheduler!TypeOK /\ Scheduler!NoWrap)'
        BY <3>1, <1>2, <1>4, ChargeKeepsType
      <3>3. CASE Answer
        BY <3>1, <3>2, <3>3, <1>2, <1>4, NoTokensType DEF Answer
      <3>4. CASE /\ Scheduler!DecisionType(Task(Top)) \notin {"Reject", "UseFallback"}
                 /\ CallInner(Scheduler!Charge(Task(Top)), InnerMaxTokens(Top))
        <4>1. /\ Scheduler!Charge(Task(Top)) \in 0 .. budget.remaining_tokens
              /\ InnerMaxTokens(Top) \in Nat /\ InnerMaxTokens(Top) <= Top.max_tokens
              /\ EstimatePromptTokens(Top.chars) + InnerMaxTokens(Top)
                     <= Scheduler!Charge(Task(Top))
          BY <3>4, <1>2, <1>4, ScheduleFacts
        <4>2. Scheduler!Charge(Task(Top)) \in Nat /\ Kind(Top) # "memory"
          BY <4>1, <1>1
        <4>3. Stacked(stack')
          BY <3>4, <4>1, <4>2, <1>1, CallInnerStacked
        <4> QED
          BY <3>1, <3>2, <3>4, <4>3, <1>4 DEF CallInner
      <3> QED
        BY <3>1, <3>3, <3>4
    <2>2. CASE ReleaseTokens
      <3>1. /\ Scheduler!Release(UsedTokens) /\ stack' = Pop /\ UNCHANGED <<now, result>>
            /\ lost' = lost + (Top.held - UsedTokens)
        BY <2>2 DEF ReleaseTokens
      <3>2. lost' \in Int
        BY <3>1, <1>3, <1>4, <1>5
      <3>3. (Scheduler!TypeOK /\ Scheduler!NoWrap)'
        BY <3>1, <1>4, <1>5, ReleaseKeepsType
      <3> QED
        BY <3>1, <3>2, <3>3, <1>2, <1>4
    <2>3. CASE UnwindTokens
      BY <2>3, <1>2, <1>3, <1>4
         DEF UnwindTokens, Scheduler!TypeOK, Scheduler!NoWrap
    <2> QED
      BY <2>1, <2>2, <2>3
  <1> QED
    BY <1>1, <1>6 DEF Inv, TypeOK, Stacked, Memory!TypeOK

LEMMA NextInv == Inv /\ [Next]_vars => Inv'
  <1> SUFFICES ASSUME Inv, [Next]_vars PROVE Inv'
    OBVIOUS
  <1>1. CASE \/ \E a \in Agent, chars \in Chars, max \in MaxTokens : Generate(a, chars, max)
             \/ \E a \in Agent, limit \in Limits : SetAgentBudget(a, limit)
             \/ AllocateScratch
    BY <1>1, UserInv
  <1>2. CASE ReserveMemory \/ ReleaseMemory \/ UnwindMemory
    BY <1>2, MemoryInv
  <1>3. CASE ScheduleTokens \/ ReleaseTokens \/ UnwindTokens
    BY <1>3, TokensInv
  <1>4. CASE BackendReturns \/ BackendThrows
    BY <1>4, BackendInv
  <1>5. CASE UNCHANGED vars
    BY <1>5 DEF vars, Inv, TypeOK, Memory!TypeOK, Scheduler!TypeOK, Scheduler!NoWrap
  <1> QED
    BY <1>1, <1>2, <1>3, <1>4, <1>5 DEF Next

(* Every variable keeps its type: no reservation is released below zero    *)
(* and no charge takes more tokens than remain, however requests nest and  *)
(* unwind (MemoryAwareLLMRuntime.cpp:28-50, ScheduledLLMRuntime.cpp:27-63).*)
THEOREM TypeCorrect == Spec => []TypeOK
  <1>1. Inv => TypeOK
    BY DEF Inv
  <1> QED
    BY <1>1, InitInv, NextInv, PTL DEF Spec

(* What a layer took covers all that the layers under it are asked for,    *)
(* with any number of layers in any order and any nesting of requests      *)
(* (MemoryAwareLLMRuntime.cpp:22-46, ScheduledLLMRuntime.cpp:46-52).       *)
THEOREM AlwaysCovered == Spec => []CallsCovered
  <1>1. Inv => CallsCovered
    BY CoveredCalls DEF Inv, Stacked
  <1> QED
    BY <1>1, InitInv, NextInv, PTL DEF Spec

-----------------------------------------------------------------------------
(* The sums of what the calls hold. *)

HeldMore(s, f, t, kind, agents) ==
    /\ Held(s, kind, agents) \in Nat /\ Share(f, kind, agents) \in Nat
    /\ Held(t, kind, agents) = Held(s, kind, agents) + Share(f, kind, agents)

LEMMA HeldPush ==
    ASSUME NEW s \in Seq(Frame), NEW f \in Frame, NEW kind, NEW agents
    PROVE  /\ Held(<<>>, kind, agents) = 0
           /\ HeldMore(s, f, Append(s, f), kind, agents)
  <1> DEFINE t == Append(s, f)
             q == [i \in DOMAIN s |-> Share(s[i], kind, agents)]
             r == [i \in DOMAIN t |-> Share(t[i], kind, agents)]
             x == Share(f, kind, agents)
  <1>1. ASSUME NEW g \in Frame PROVE Share(g, kind, agents) \in Nat
    BY DEF Share, Frame
  <1>2. PICK n \in Nat : n = Len(s)
    BY LenProperties
  <1>3. /\ DOMAIN s = 1 .. n /\ DOMAIN t = 1 .. n + 1 /\ t[n + 1] = f
        /\ \A i \in 1 .. n : t[i] = s[i] /\ s[i] \in Frame
    BY <1>2, PushFacts, ElementOfSeq
  <1> HIDE DEF t
  <1>4. q \in Seq(Nat) /\ Len(q) = n /\ x \in Nat
    BY <1>1, <1>2, <1>3
  <1>5. r = Append(q, x)
    <2>1. /\ Append(q, x) \in Seq(Nat) /\ DOMAIN Append(q, x) = 1 .. n + 1
          /\ Append(q, x)[n + 1] = x /\ \A i \in 1 .. n : Append(q, x)[i] = q[i]
      BY <1>2, <1>4, PushFacts
    <2>2. \A i \in 1 .. n + 1 : i = n + 1 \/ i \in 1 .. n
      BY <1>2
    <2>3. ASSUME NEW i \in 1 .. n + 1 PROVE r[i] = Append(q, x)[i]
      BY <1>3, <2>1, <2>2
    <2> HIDE DEF q, x
    <2> DEFINE a == Append(q, x)
    <2> HIDE DEF a
    <2>4. a \in [1 .. n + 1 -> Nat]
      BY <2>1, LenProperties DEF a
    <2>5. r = [i \in 1 .. n + 1 |-> r[i]] /\ a = [i \in 1 .. n + 1 |-> a[i]]
      BY <1>3, <2>4
    <2> QED
      BY <2>3, <2>5 DEF a
  <1> HIDE DEF q, r, x
  <1>6. FoldLeft(+, 0, q) \in Nat /\ FoldLeft(+, 0, r) = FoldLeft(+, 0, q) + x
    BY <1>4, <1>5, SumAppend
  <1>7. Held(<<>>, kind, agents) = 0
    <2>1. [i \in DOMAIN <<>> |-> Share(<<>>[i], kind, agents)] = <<>>
      OBVIOUS
    <2>2. FoldLeft(+, 0, <<>>) = 0
      BY <1>4, SumAppend
    <2> QED
      BY <2>1, <2>2 DEF Held
  <1>8. /\ Held(s, kind, agents) = FoldLeft(+, 0, q)
        /\ Held(Append(s, f), kind, agents) = FoldLeft(+, 0, r)
    BY DEF Held, q, r, t
  <1> QED
    BY <1>4, <1>6, <1>7, <1>8 DEF HeldMore, x

LEMMA HeldTop ==
    ASSUME NEW s \in Seq(Frame), s # <<>>, NEW kind, NEW agents
    PROVE  LET front == SubSeq(s, 1, Len(s) - 1)
           IN  /\ Held(front, kind, agents) \in Nat
               /\ Share(s[Len(s)], kind, agents) \in Nat
               /\ Held(s, kind, agents)
                      = Held(front, kind, agents) + Share(s[Len(s)], kind, agents)
  <1> DEFINE p == SubSeq(s, 1, Len(s) - 1)
             f == s[Len(s)]
             a == Append(p, f)
  <1>1. PICK n \in Nat : n = Len(s) /\ n > 0
    BY PopFacts
  <1>2. /\ p \in Seq(Frame) /\ f \in Frame /\ f = s[n] /\ Len(p) = n - 1
        /\ DOMAIN s = 1 .. n /\ \A i \in 1 .. n - 1 : p[i] = s[i]
    BY <1>1, PopFacts
  <1> HIDE DEF p, f
  <1>3. /\ a \in Seq(Frame) /\ DOMAIN a = 1 .. (n - 1) + 1 /\ a[(n - 1) + 1] = f
        /\ \A i \in 1 .. n - 1 : a[i] = p[i]
    BY <1>1, <1>2, PushFacts
  <1> HIDE DEF a
  <1>4. s = a
    <2>1. DOMAIN a = 1 .. n /\ a[n] = f
      BY <1>1, <1>3
    <2>2. ASSUME NEW i \in 1 .. n PROVE a[i] = s[i]
      <3>1. i = n \/ i \in 1 .. n - 1
        BY <1>1
      <3> QED
        BY <3>1, <1>2, <1>3, <2>1
    <2>3. s = [i \in 1 .. n |-> s[i]] /\ a = [i \in 1 .. n |-> a[i]]
      BY <1>2, <1>3, <2>1
    <2> QED
      BY <2>2, <2>3
  <1>5. /\ Held(p, kind, agents) \in Nat /\ Share(f, kind, agents) \in Nat
        /\ Held(a, kind, agents) = Held(p, kind, agents) + Share(f, kind, agents)
    <2>1. HeldMore(p, f, a, kind, agents)
      BY <1>2, HeldPush DEF a
    <2> QED
      BY <2>1 DEF HeldMore
  <1> QED
    BY <1>4, <1>5 DEF p, f

LEMMA HeldByNone ==
    ASSUME NEW s \in Seq(Frame), NEW kind, NEW agents,
           \A i \in DOMAIN s : ~ (Kind(s[i]) = kind /\ s[i].agent \in agents)
    PROVE  Held(s, kind, agents) = 0
  <1> DEFINE q == [i \in DOMAIN s |-> Share(s[i], kind, agents)]
  <1>1. \A i \in DOMAIN s : q[i] = 0
    BY DEF Share
  <1>2. q \in Seq(Nat)
    BY <1>1
  <1> HIDE DEF q
  <1>3. DOMAIN q = DOMAIN s
    BY DEF q
  <1> QED
    BY <1>1, <1>2, <1>3, SumOfZeros DEF Held, q

LEMMA PopHeld ==
    ASSUME Inv, stack # <<>>, NEW kind, NEW agents
    PROVE  /\ Held(Pop, kind, agents) \in Nat /\ Share(Top, kind, agents) \in Nat
           /\ Held(stack, kind, agents) = Held(Pop, kind, agents) + Share(Top, kind, agents)
  BY HeldTop DEF Inv, TypeOK, Pop, Top

LEMMA StackHeld ==
    ASSUME Inv, NEW kind, NEW agents
    PROVE  Held(stack, kind, agents) \in Nat
  <1>1. CASE stack = <<>>
    <2>1. stack \in Seq(Frame) /\ DOMAIN stack = {}
      BY <1>1 DEF Inv, TypeOK
    <2>2. Held(stack, kind, agents) = 0
      BY <2>1, HeldByNone
    <2> QED
      BY <2>2
  <1>2. CASE stack # <<>>
    BY <1>2, PopHeld
  <1> QED
    BY <1>1, <1>2

(* The layer on top keeps `held` and calls the layer under it. *)
LEMMA CallHeld ==
    ASSUME Inv, stack # <<>>, Top.held = 0,
           NEW held \in Nat, NEW max \in Nat, CallInner(held, max), NEW kind, NEW agents
    PROVE  Held(stack', kind, agents) = Held(stack, kind, agents)
               + (IF Kind(Top) = kind /\ Top.agent \in agents THEN held ELSE 0)
  <1> DEFINE g == [Top EXCEPT !.held = held]
             h == [Top EXCEPT !.layer = @ + 1, !.max_tokens = max, !.held = 0]
             t == Pop \o <<g, h>>
  <1>1. Top \in Frame
    BY TopFacts
  <1>2. /\ g \in Frame /\ h \in Frame /\ g.agent = Top.agent /\ g.layer = Top.layer
        /\ g.held = held /\ h.held = 0
    <2>1. InnerCall(Top, held, max, g, h)
      BY <1>1, InnerFrames
    <2> HIDE DEF g, h
    <2> QED
      BY <2>1 DEF InnerCall
  <1>3. stack' = t
    BY DEF CallInner
  <1>4. Pop \in Seq(Frame)
    BY TopFacts DEF Stacked
  <1> HIDE DEF g, h
  <1>5. t = Append(Append(Pop, g), h) /\ Append(Pop, g) \in Seq(Frame)
    BY <1>2, <1>4
  <1>6. /\ Held(Append(Pop, g), kind, agents) = Held(Pop, kind, agents) + Share(g, kind, agents)
        /\ Held(Pop, kind, agents) \in Nat /\ Share(g, kind, agents) \in Nat
    <2>1. HeldMore(Pop, g, Append(Pop, g), kind, agents)
      BY <1>2, <1>4, HeldPush
    <2> QED
      BY <2>1 DEF HeldMore
  <1>7. Held(t, kind, agents)
            = Held(Append(Pop, g), kind, agents) + Share(h, kind, agents)
    <2>1. PICK q \in Seq(Frame) : q = Append(Pop, g) /\ t = Append(q, h)
      BY <1>5
    <2>2. HeldMore(q, h, Append(q, h), kind, agents)
      BY <1>2, HeldPush
    <2> QED
      BY <2>1, <2>2 DEF HeldMore
  <1>8. Share(h, kind, agents) = 0 /\ Share(Top, kind, agents) = 0
    BY <1>2 DEF Share
  <1>9. Share(g, kind, agents) = IF Kind(Top) = kind /\ Top.agent \in agents THEN held ELSE 0
    BY <1>2 DEF Share, Kind
  <1>10. Held(stack, kind, agents) = Held(Pop, kind, agents)
    BY <1>8, PopHeld
  <1> QED
    BY <1>3, <1>6, <1>7, <1>8, <1>9, <1>10

(* A call just made holds nothing. *)
Fresh == now = "call" => stack # <<>> /\ Top.held = 0

LEMMA CallFresh ==
    ASSUME Inv, stack # <<>>, NEW held \in Nat, NEW max \in Nat, CallInner(held, max)
    PROVE  Fresh'
  <1> DEFINE g == [Top EXCEPT !.held = held]
             h == [Top EXCEPT !.layer = @ + 1, !.max_tokens = max, !.held = 0]
  <1>1. Top \in Frame /\ Pop \in Seq(Frame)
    BY TopFacts DEF Stacked
  <1>2. g \in Frame /\ h \in Frame /\ h.held = 0
    <2>1. InnerCall(Top, held, max, g, h)
      BY <1>1, InnerFrames
    <2> HIDE DEF g, h
    <2> QED
      BY <2>1 DEF InnerCall
  <1>3. stack' = Pop \o <<g, h>>
    BY DEF CallInner
  <1> HIDE DEF g, h
  <1>4. stack' = Append(Append(Pop, g), h) /\ Append(Pop, g) \in Seq(Frame)
    BY <1>1, <1>2, <1>3
  <1>5. stack' # <<>> /\ stack'[Len(stack')] = h
    <2> DEFINE p == Append(Pop, g)
    <2> HIDE DEF p
    <2>1. Append(p, h) # <<>> /\ Append(p, h)[Len(Append(p, h))] = h
      BY <1>2, <1>4, PushFacts DEF p
    <2> QED
      BY <1>4, <2>1 DEF p
  <1> QED
    BY <1>2, <1>5 DEF Fresh, Top

LEMMA FreshNext == Inv /\ Fresh /\ [Next]_vars => Fresh'
  <1> SUFFICES ASSUME Inv, Fresh, [Next]_vars PROVE Fresh'
    OBVIOUS
  <1>1. CASE \E a \in Agent, chars \in Chars, max \in MaxTokens : Generate(a, chars, max)
    <2>1. PICK a \in Agent, chars \in Nat, max \in Nat : Generate(a, chars, max)
      BY <1>1, SizesAssumption
    <2> DEFINE f == [agent |-> a, layer |-> 1, chars |-> chars, max_tokens |-> max, held |-> 0]
    <2>2. f \in Frame /\ f.held = 0
      BY DEF Frame
    <2>3. stack' = Append(stack, f) /\ stack \in Seq(Frame)
      BY <2>1 DEF Generate, Inv, TypeOK
    <2> HIDE DEF f
    <2>4. stack' # <<>> /\ stack'[Len(stack')] = f
      BY <2>2, <2>3, PushFacts
    <2> QED
      BY <2>2, <2>4 DEF Fresh, Top
  <1>2. CASE ReserveMemory
    <2>1. stack # <<>> /\ Top \in Frame
      BY <1>2, TopFacts DEF ReserveMemory, OnTop
    <2>2. EstimateMemoryBytes(Top) \in Nat /\ Top.max_tokens \in Nat
      BY <2>1 DEF EstimateMemoryBytes, Frame
    <2>3. CallInner(EstimateMemoryBytes(Top), Top.max_tokens) \/ Answer
      BY <1>2 DEF ReserveMemory
    <2> QED
      BY <2>1, <2>2, <2>3, CallFresh DEF Answer, Fresh
  <1>3. CASE ScheduleTokens
    <2>1. stack # <<>> /\ Top \in Frame
      BY <1>3, TopFacts DEF ScheduleTokens, OnTop
    <2>2. \/ Answer
          \/ /\ Scheduler!DecisionType(Task(Top)) \notin {"Reject", "UseFallback"}
             /\ CallInner(Scheduler!Charge(Task(Top)), InnerMaxTokens(Top))
      BY <1>3 DEF ScheduleTokens
    <2>3. CASE Answer
      BY <2>3 DEF Answer, Fresh
    <2>4. CASE /\ Scheduler!DecisionType(Task(Top)) \notin {"Reject", "UseFallback"}
               /\ CallInner(Scheduler!Charge(Task(Top)), InnerMaxTokens(Top))
      <3>1. Scheduler!Charge(Task(Top)) \in Nat /\ InnerMaxTokens(Top) \in Nat
        BY <2>1, <2>4, ScheduleFacts DEF Inv, TypeOK
      <3> QED
        BY <2>1, <2>4, <3>1, CallFresh
    <2> QED
      BY <2>2, <2>3, <2>4
  <1>4. CASE \/ ReleaseMemory \/ ReleaseTokens \/ UnwindMemory \/ UnwindTokens
             \/ BackendReturns \/ BackendThrows
    BY <1>4 DEF ReleaseMemory, ReleaseTokens, UnwindMemory, UnwindTokens,
                BackendReturns, BackendThrows, Fresh
  <1>5. CASE \/ \E a \in Agent, limit \in Limits : SetAgentBudget(a, limit)
             \/ AllocateScratch
             \/ UNCHANGED vars
    BY <1>5 DEF SetAgentBudget, AllocateScratch, vars, Fresh, Top
  <1> QED
    BY <1>1, <1>2, <1>3, <1>4, <1>5 DEF Next

-----------------------------------------------------------------------------
(* The bytes of the budgets. *)

LEMMA ReserveFacts ==
    ASSUME Memory!TypeOK, NEW a \in Agent, NEW n \in Nat,
           Memory!CanReserve(a, n), Memory!Reserve(a, n)
    PROVE  /\ DOMAIN agent_budgets' = DOMAIN agent_budgets /\ a \in DOMAIN agent_budgets
           /\ agent_budgets'[a].used_bytes = agent_budgets[a].used_bytes + n
           /\ agent_budgets'[a].limit_bytes = agent_budgets[a].limit_bytes
           /\ agent_budgets[a].used_bytes + n <= agent_budgets[a].limit_bytes
           /\ \A b \in DOMAIN agent_budgets \ {a} : agent_budgets'[b] = agent_budgets[b]
  <1>1. agent_budgets \in [DOMAIN agent_budgets -> Memory!Budget] /\ a \in DOMAIN agent_budgets
    BY DEF Memory!TypeOK, Memory!CanReserve, Memory!HasBudget
  <1>2. PICK old \in Memory!Budget : old = agent_budgets[a]
    BY <1>1
  <1> DEFINE used == old.used_bytes + n
             peak == IF old.peak_used_bytes < used THEN used ELSE old.peak_used_bytes
             one  == [old EXCEPT !.used_bytes = used]
             new  == [one EXCEPT !.peak_used_bytes = peak]
  <1>3. agent_budgets' = [agent_budgets EXCEPT ![a].used_bytes = used,
                                               ![a].peak_used_bytes = peak]
    BY <1>2 DEF Memory!Reserve
  <1>4. used <= old.limit_bytes
    BY <1>2 DEF Memory!CanReserve
  <1> HIDE DEF peak
  <1>5. agent_budgets' = [agent_budgets EXCEPT ![a] = new]
    BY <1>1, <1>2, <1>3
  <1>6. new.used_bytes = used /\ new.limit_bytes = old.limit_bytes
    BY DEF Memory!Budget
  <1> QED
    BY <1>1, <1>2, <1>4, <1>5, <1>6

LEMMA ReleaseFacts ==
    ASSUME Memory!TypeOK, NEW a \in Agent, NEW n \in Nat, Memory!Release(a, n)
    PROVE  /\ DOMAIN agent_budgets' = DOMAIN agent_budgets
           /\ a \in DOMAIN agent_budgets =>
                /\ agent_budgets'[a].used_bytes =
                       IF n >= agent_budgets[a].used_bytes THEN 0
                       ELSE agent_budgets[a].used_bytes - n
                /\ agent_budgets'[a].limit_bytes = agent_budgets[a].limit_bytes
           /\ \A b \in DOMAIN agent_budgets \ {a} : agent_budgets'[b] = agent_budgets[b]
  <1>1. agent_budgets \in [DOMAIN agent_budgets -> Memory!Budget]
    BY DEF Memory!TypeOK
  <1>2. CASE a \notin DOMAIN agent_budgets
    BY <1>2 DEF Memory!Release, Memory!HasBudget
  <1>3. CASE a \in DOMAIN agent_budgets
    <2>1. PICK old \in Memory!Budget : old = agent_budgets[a]
      BY <1>1, <1>3
    <2> DEFINE used == IF n >= old.used_bytes THEN 0 ELSE old.used_bytes - n
               new  == [old EXCEPT !.used_bytes = used]
    <2>2. agent_budgets' = [agent_budgets EXCEPT ![a] = new]
      BY <1>3, <2>1 DEF Memory!Release, Memory!HasBudget
    <2>3. new.used_bytes = used /\ new.limit_bytes = old.limit_bytes
      BY DEF Memory!Budget
    <2> HIDE DEF new
    <2> QED
      BY <1>1, <1>3, <2>1, <2>2, <2>3
  <1> QED
    BY <1>2, <1>3

(* What the stack holds after the steps that charge and release nothing.   *)
LEMMA GenerateHeld ==
    ASSUME Inv, NEW a \in Agent, NEW chars \in Nat, NEW max \in Nat, Generate(a, chars, max),
           NEW kind, NEW agents
    PROVE  Held(stack', kind, agents) = Held(stack, kind, agents)
  <1> DEFINE f == [agent |-> a, layer |-> 1, chars |-> chars, max_tokens |-> max, held |-> 0]
  <1>1. f \in Frame /\ f.held = 0
    BY DEF Frame
  <1>2. stack' = Append(stack, f) /\ stack \in Seq(Frame)
    BY DEF Generate, Inv, TypeOK
  <1> HIDE DEF f
  <1>3. Share(f, kind, agents) = 0
    BY <1>1 DEF Share
  <1>4. /\ Held(Append(stack, f), kind, agents) = Held(stack, kind, agents) + Share(f, kind, agents)
        /\ Held(stack, kind, agents) \in Nat
    <2>1. HeldMore(stack, f, Append(stack, f), kind, agents)
      BY <1>1, <1>2, HeldPush
    <2> QED
      BY <2>1 DEF HeldMore
  <1> QED
    BY <1>2, <1>3, <1>4

LEMMA OtherHeld ==
    ASSUME Inv, stack # <<>>, stack' = Pop, NEW kind, NEW agents,
           Kind(Top) # kind \/ Top.held = 0
    PROVE  Held(stack', kind, agents) = Held(stack, kind, agents)
  <1>1. Share(Top, kind, agents) = 0
    BY DEF Share
  <1> QED
    BY <1>1, PopHeld

LEMMA BytesUser ==
    ASSUME Inv, BytesAccounted,
           \/ \E a \in Agent, chars \in Chars, max \in MaxTokens : Generate(a, chars, max)
           \/ \E a \in Agent, limit \in Limits : SetAgentBudget(a, limit)
           \/ AllocateScratch
    PROVE  BytesAccounted'
  <1>1. CASE \E a \in Agent, chars \in Chars, max \in MaxTokens : Generate(a, chars, max)
    <2>1. PICK a \in Agent, chars \in Nat, max \in Nat : Generate(a, chars, max)
      BY <1>1, SizesAssumption
    <2>2. UNCHANGED <<agent_budgets, resized>>
      BY <2>1 DEF Generate
    <2>3. \A b : Held(stack', "memory", {b}) = Held(stack, "memory", {b})
      BY <2>1, GenerateHeld
    <2> QED
      BY <2>2, <2>3 DEF BytesAccounted
  <1>2. CASE \E a \in Agent, limit \in Limits : SetAgentBudget(a, limit)
    <2>1. PICK a \in Agent, limit \in Nat : SetAgentBudget(a, limit)
      BY <1>2, SizesAssumption
    <2>2. /\ Memory!SetAgentBudget(a, limit) /\ stack' = stack
          /\ resized' = IF Live("memory", a) = {} THEN resized \ {a} ELSE resized \cup {a}
      BY <2>1 DEF SetAgentBudget
    <2> SUFFICES ASSUME NEW b \in DOMAIN agent_budgets'
                 PROVE  LET held == Held(stack, "memory", {b})
                        IN  /\ agent_budgets'[b].used_bytes <= agent_budgets'[b].limit_bytes
                            /\ agent_budgets'[b].used_bytes <= held
                            /\ b \notin resized' => agent_budgets'[b].used_bytes = held
      BY <2>2 DEF BytesAccounted
    <2>3. CASE b = a
      <3>1. agent_budgets'[b].used_bytes = 0 /\ agent_budgets'[b].limit_bytes = limit
        BY <2>2, <2>3 DEF Memory!SetAgentBudget
      <3>2. Held(stack, "memory", {b}) \in Nat
        BY StackHeld
      <3>3. CASE Live("memory", a) = {}
        <4>1. \A i \in DOMAIN stack : ~ (Kind(stack[i]) = "memory" /\ stack[i].agent \in {b})
          BY <2>3, <3>3 DEF Live
        <4>2. Held(stack, "memory", {b}) = 0
          BY <4>1, HeldByNone DEF Inv, TypeOK
        <4> QED
          BY <3>1, <4>2
      <3>4. CASE Live("memory", a) # {}
        BY <2>2, <2>3, <3>1, <3>2, <3>4
      <3> QED
        BY <3>3, <3>4
    <2>4. CASE b # a
      <3>1. b \in DOMAIN agent_budgets /\ agent_budgets'[b] = agent_budgets[b]
        BY <2>2, <2>4 DEF Memory!SetAgentBudget
      <3>2. b \notin resized' => b \notin resized
        BY <2>2, <2>4
      <3> QED
        BY <3>1, <3>2 DEF BytesAccounted
    <2> QED
      BY <2>3, <2>4
  <1>3. CASE AllocateScratch
    BY <1>3 DEF AllocateScratch, BytesAccounted
  <1> QED
    BY <1>1, <1>2, <1>3

LEMMA BytesReserve ==
    ASSUME Inv, Fresh, BytesAccounted, ReserveMemory
    PROVE  BytesAccounted'
  <1> DEFINE bytes == EstimateMemoryBytes(Top)
             m(b) == Held(stack, "memory", {b})
  <1>1. stack # <<>> /\ Kind(Top) = "memory" /\ Top.held = 0 /\ UNCHANGED resized
    BY DEF ReserveMemory, OnTop, Fresh
  <1>2. Top \in Frame /\ Top.agent \in Agent
    BY <1>1, TopFacts DEF Frame
  <1>3. bytes \in Nat /\ Top.max_tokens \in Nat
    BY <1>2 DEF EstimateMemoryBytes, Frame
  <1> HIDE DEF bytes
  <1>4. CASE Answer /\ UNCHANGED agent_budgets
    <2>1. \A b : Held(stack', "memory", {b}) = m(b)
      BY <1>1, <1>4, OtherHeld DEF Answer
    <2> QED
      BY <1>1, <1>4, <2>1 DEF BytesAccounted
  <1>5. CASE /\ Memory!CanReserve(Top.agent, bytes) /\ Memory!Reserve(Top.agent, bytes)
             /\ CallInner(bytes, Top.max_tokens)
    <2>1. ASSUME NEW b
          PROVE  Held(stack', "memory", {b}) = m(b) + (IF Top.agent = b THEN bytes ELSE 0)
      BY <1>1, <1>3, <1>5, CallHeld
    <2> DEFINE a == Top.agent
    <2>2. /\ DOMAIN agent_budgets' = DOMAIN agent_budgets /\ a \in DOMAIN agent_budgets
          /\ agent_budgets'[a].used_bytes = agent_budgets[a].used_bytes + bytes
          /\ agent_budgets'[a].limit_bytes = agent_budgets[a].limit_bytes
          /\ agent_budgets[a].used_bytes + bytes <= agent_budgets[a].limit_bytes
          /\ \A b \in DOMAIN agent_budgets \ {a} : agent_budgets'[b] = agent_budgets[b]
      BY <1>2, <1>3, <1>5, ReserveFacts DEF Inv, TypeOK
    <2> SUFFICES ASSUME NEW b \in DOMAIN agent_budgets
                 PROVE  LET held == Held(stack', "memory", {b})
                        IN  /\ agent_budgets'[b].used_bytes <= agent_budgets'[b].limit_bytes
                            /\ agent_budgets'[b].used_bytes <= held
                            /\ b \notin resized' => agent_budgets'[b].used_bytes = held
      BY <2>2 DEF BytesAccounted
    <2>3. /\ agent_budgets[b].used_bytes <= agent_budgets[b].limit_bytes
          /\ agent_budgets[b].used_bytes <= m(b)
          /\ b \notin resized => agent_budgets[b].used_bytes = m(b)
      BY DEF BytesAccounted
    <2>4. m(b) \in Nat /\ agent_budgets[b].used_bytes \in Nat
      BY StackHeld DEF Inv, TypeOK, Memory!TypeOK, Memory!Budget
    <2> HIDE DEF m
    <2>5. CASE b = a
      <3>1. Held(stack', "memory", {b}) = m(b) + bytes
        BY <2>1, <2>5
      <3> QED
        BY <1>1, <1>3, <2>2, <2>3, <2>4, <2>5, <3>1
    <2>6. CASE b # a
      <3>1. Held(stack', "memory", {b}) = m(b)
        BY <2>1, <2>4, <2>6
      <3> QED
        BY <1>1, <2>2, <2>3, <2>6, <3>1
    <2> QED
      BY <2>5, <2>6
  <1> QED
    BY <1>4, <1>5 DEF ReserveMemory, bytes

LEMMA BytesRelease ==
    ASSUME Inv, BytesAccounted, ReleaseMemory \/ UnwindMemory
    PROVE  BytesAccounted'
  <1> DEFINE a == Top.agent
             n == Top.held
             m(b) == Held(stack, "memory", {b})
             new(b) == Held(stack', "memory", {b})
  <1>1. /\ stack # <<>> /\ Kind(Top) = "memory" /\ UNCHANGED resized
        /\ Memory!Release(a, n) /\ stack' = Pop
    BY DEF ReleaseMemory, UnwindMemory, OnTop
  <1>2. a \in Agent /\ n \in Nat
    BY <1>1, TopFacts DEF Frame
  <1>3. /\ DOMAIN agent_budgets' = DOMAIN agent_budgets
        /\ a \in DOMAIN agent_budgets =>
             /\ agent_budgets'[a].used_bytes =
                    IF n >= agent_budgets[a].used_bytes THEN 0
                    ELSE agent_budgets[a].used_bytes - n
             /\ agent_budgets'[a].limit_bytes = agent_budgets[a].limit_bytes
        /\ \A b \in DOMAIN agent_budgets \ {a} : agent_budgets'[b] = agent_budgets[b]
    BY <1>1, <1>2, ReleaseFacts DEF Inv, TypeOK
  <1> SUFFICES ASSUME NEW b \in DOMAIN agent_budgets
               PROVE  /\ agent_budgets'[b].used_bytes <= agent_budgets'[b].limit_bytes
                      /\ agent_budgets'[b].used_bytes <= new(b)
                      /\ b \notin resized' => agent_budgets'[b].used_bytes = new(b)
    BY <1>3 DEF BytesAccounted
  <1>4. /\ agent_budgets[b].used_bytes <= agent_budgets[b].limit_bytes
        /\ agent_budgets[b].used_bytes <= m(b)
        /\ b \notin resized => agent_budgets[b].used_bytes = m(b)
    BY DEF BytesAccounted
  <1>5. agent_budgets[b].used_bytes \in Nat /\ agent_budgets[b].limit_bytes \in Nat
    BY DEF Inv, TypeOK, Memory!TypeOK, Memory!Budget
  <1>6. new(b) \in Nat /\ m(b) = new(b) + Share(Top, "memory", {b})
    BY <1>1, PopHeld
  <1>7. Share(Top, "memory", {b}) = IF a = b THEN n ELSE 0
    BY <1>1 DEF Share
  <1> HIDE DEF a, n, m, new
  <1>8. CASE b = a
    BY <1>1, <1>2, <1>3, <1>4, <1>5, <1>6, <1>7, <1>8
  <1>9. CASE b # a
    BY <1>1, <1>3, <1>4, <1>6, <1>7, <1>9
  <1> QED
    BY <1>8, <1>9

LEMMA BytesNext == Inv /\ Fresh /\ BytesAccounted /\ [Next]_vars => BytesAccounted'
  <1> SUFFICES ASSUME Inv, Fresh, BytesAccounted, [Next]_vars PROVE BytesAccounted'
    OBVIOUS
  <1>1. CASE \/ \E a \in Agent, chars \in Chars, max \in MaxTokens : Generate(a, chars, max)
             \/ \E a \in Agent, limit \in Limits : SetAgentBudget(a, limit)
             \/ AllocateScratch
    BY <1>1, BytesUser
  <1>2. CASE ReserveMemory
    BY <1>2, BytesReserve
  <1>3. CASE ReleaseMemory \/ UnwindMemory
    BY <1>3, BytesRelease
  <1>4. CASE ScheduleTokens
    <2>1. stack # <<>> /\ Kind(Top) = "scheduled" /\ Top.held = 0
      BY <1>4 DEF ScheduleTokens, OnTop, Fresh
    <2>2. Top \in Frame
      BY <2>1, TopFacts
    <2>3. \A b : Held(stack', "memory", {b}) = Held(stack, "memory", {b})
      <3>1. CASE Answer
        BY <2>1, <3>1, OtherHeld DEF Answer
      <3>2. CASE /\ Scheduler!DecisionType(Task(Top)) \notin {"Reject", "UseFallback"}
                 /\ CallInner(Scheduler!Charge(Task(Top)), InnerMaxTokens(Top))
        <4>1. Scheduler!Charge(Task(Top)) \in Nat /\ InnerMaxTokens(Top) \in Nat
          BY <2>2, <3>2, ScheduleFacts DEF Inv, TypeOK
        <4> TAKE b
        <4>2. Held(stack', "memory", {b}) = Held(stack, "memory", {b}) + 0
          BY <2>1, <3>2, <4>1, CallHeld
        <4>3. Held(stack, "memory", {b}) \in Nat
          BY StackHeld
        <4> QED
          BY <4>2, <4>3
      <3> QED
        BY <1>4, <3>1, <3>2 DEF ScheduleTokens
    <2>4. UNCHANGED <<agent_budgets, resized>>
      BY <1>4 DEF ScheduleTokens
    <2> QED
      BY <2>3, <2>4 DEF BytesAccounted
  <1>5. CASE ReleaseTokens \/ UnwindTokens \/ BackendReturns \/ BackendThrows
    <2>1. stack # <<>> /\ Kind(Top) # "memory" /\ stack' = Pop
      BY <1>5 DEF ReleaseTokens, UnwindTokens, BackendReturns, BackendThrows, OnTop
    <2>2. UNCHANGED <<agent_budgets, resized>>
      BY <1>5 DEF ReleaseTokens, UnwindTokens, BackendReturns, BackendThrows
    <2>3. \A b : Held(stack', "memory", {b}) = Held(stack, "memory", {b})
      BY <2>1, OtherHeld
    <2> QED
      BY <2>2, <2>3 DEF BytesAccounted
  <1>6. CASE UNCHANGED vars
    BY <1>6 DEF vars, BytesAccounted
  <1> QED
    BY <1>1, <1>2, <1>3, <1>4, <1>5, <1>6 DEF Next

(* An agent's used_bytes never exceeds its limit nor what its calls in     *)
(* progress reserved, and equals it unless the budget was replaced         *)
(* meanwhile: no reservation leaks, however calls nest, are refused or     *)
(* unwind (MemoryAwareLLMRuntime.cpp:28-50,                                *)
(* ScopedMemoryReservation.cpp:13-27).                                     *)
THEOREM BytesAlwaysAccounted == Spec => []BytesAccounted
  <1>1. Init => Fresh /\ BytesAccounted
    BY DEF Init, Fresh, BytesAccounted, Memory!Init
  <1> QED
    BY <1>1, InitInv, NextInv, FreshNext, BytesNext, PTL DEF Spec

-----------------------------------------------------------------------------
(* The tokens of the scheduler. *)

(* A call of a layer is followed by its call of the layer under it. *)
Linked(s) ==
    \A i \in DOMAIN s : (i + 1 \in DOMAIN s /\ Kind(s[i]) # "backend") =>
        /\ s[i + 1].agent = s[i].agent /\ s[i + 1].layer = s[i].layer + 1
        /\ s[i + 1].chars = s[i].chars /\ s[i + 1].max_tokens <= s[i].max_tokens

(* While no backend reported more than it was asked, a result that reaches *)
(* a layer reports no more than the layer was asked, so no more than a     *)
(* scheduled one charged.                                                  *)
Reported ==
    (~overreported /\ now = "return" /\ stack # <<>> /\ Kind(Top) # "backend") =>
        /\ result.prompt_tokens <= EstimatePromptTokens(Top.chars)
        /\ result.completion_tokens <= Top.max_tokens
        /\ Kind(Top) = "scheduled" =>
               result.prompt_tokens + result.completion_tokens <= Top.held

TokensInvariant == Inv /\ Fresh /\ Linked(stack) /\ Reported /\ TokensAccounted

LEMMA PopLinked ==
    ASSUME NEW s \in Seq(Frame), s # <<>>, Linked(s)
    PROVE  Linked(SubSeq(s, 1, Len(s) - 1))
  <1> DEFINE t == SubSeq(s, 1, Len(s) - 1)
  <1>1. PICK n \in Nat : n = Len(s) /\ n > 0
    BY PopFacts
  <1>2. DOMAIN s = 1 .. n /\ DOMAIN t = 1 .. n - 1 /\ \A i \in 1 .. n - 1 : t[i] = s[i]
    BY <1>1, PopFacts
  <1> HIDE DEF t
  <1>3. ASSUME NEW i \in 1 .. n - 1, i + 1 \in 1 .. n - 1
        PROVE  i \in 1 .. n /\ i + 1 \in 1 .. n /\ t[i] = s[i] /\ t[i + 1] = s[i + 1]
    BY <1>2, <1>3
  <1>4. Linked(t)
    BY <1>2, <1>3 DEF Linked
  <1> QED
    BY <1>4 DEF t

LEMMA PushLinked ==
    ASSUME NEW s \in Seq(Frame), Linked(s), NEW f \in Frame,
           s # <<>> => Kind(s[Len(s)]) = "backend"
    PROVE  Linked(Append(s, f))
  <1> DEFINE t == Append(s, f)
  <1>1. PICK n \in Nat : n = Len(s) /\ (s = <<>> <=> n = 0)
    BY LenProperties, EmptySeq
  <1>2. DOMAIN s = 1 .. n /\ DOMAIN t = 1 .. n + 1 /\ \A i \in 1 .. n : t[i] = s[i]
    BY <1>1, PushFacts
  <1> HIDE DEF t
  <1> SUFFICES ASSUME NEW i \in 1 .. n + 1, i + 1 \in 1 .. n + 1, Kind(t[i]) # "backend"
               PROVE  /\ t[i + 1].agent = t[i].agent /\ t[i + 1].layer = t[i].layer + 1
                      /\ t[i + 1].chars = t[i].chars
                      /\ t[i + 1].max_tokens <= t[i].max_tokens
    BY <1>2 DEF Linked, t
  <1>3. i \in 1 .. n /\ t[i] = s[i]
    BY <1>2
  <1>4. i # n
    BY <1>1, <1>3
  <1>5. i + 1 \in 1 .. n /\ t[i + 1] = s[i + 1]
    BY <1>2, <1>3, <1>4
  <1> QED
    BY <1>2, <1>3, <1>5 DEF Linked

LEMMA InnerLinked ==
    ASSUME NEW s, Linked(s), NEW n \in Nat, n > 0, DOMAIN s = 1 .. n,
           NEW t, DOMAIN t = 1 .. n + 1, \A i \in 1 .. n - 1 : t[i] = s[i],
           t[n].agent = s[n].agent, t[n].layer = s[n].layer, t[n].chars = s[n].chars,
           t[n].max_tokens = s[n].max_tokens,
           t[n + 1].agent = t[n].agent, t[n + 1].layer = t[n].layer + 1,
           t[n + 1].chars = t[n].chars, t[n + 1].max_tokens <= t[n].max_tokens
    PROVE  Linked(t)
  <1> SUFFICES ASSUME NEW i \in 1 .. n + 1, i + 1 \in 1 .. n + 1, Kind(t[i]) # "backend"
               PROVE  /\ t[i + 1].agent = t[i].agent /\ t[i + 1].layer = t[i].layer + 1
                      /\ t[i + 1].chars = t[i].chars
                      /\ t[i + 1].max_tokens <= t[i].max_tokens
    BY DEF Linked
  <1>1. CASE i = n
    BY <1>1
  <1>2. CASE i < n
    <2>1. i \in 1 .. n - 1 /\ i \in 1 .. n /\ i + 1 \in 1 .. n
      BY <1>2
    <2>2. t[i] = s[i] /\ Kind(s[i]) # "backend"
      BY <2>1
    <2>3. /\ s[i + 1].agent = s[i].agent /\ s[i + 1].layer = s[i].layer + 1
          /\ s[i + 1].chars = s[i].chars /\ s[i + 1].max_tokens <= s[i].max_tokens
      BY <2>1, <2>2 DEF Linked
    <2>4. i + 1 = n \/ i + 1 \in 1 .. n - 1
      BY <2>1
    <2>5. /\ t[i + 1].agent = s[i + 1].agent /\ t[i + 1].layer = s[i + 1].layer
          /\ t[i + 1].chars = s[i + 1].chars /\ t[i + 1].max_tokens = s[i + 1].max_tokens
      BY <2>4
    <2> QED
      BY <2>2, <2>3, <2>5
  <1> QED
    BY <1>1, <1>2

LEMMA CallLinked ==
    ASSUME Inv, Linked(stack), stack # <<>>, NEW held \in Nat, NEW max \in Nat,
           CallInner(held, max), max <= Top.max_tokens
    PROVE  Linked(stack')
  <1> DEFINE g == [Top EXCEPT !.held = held]
             h == [Top EXCEPT !.layer = @ + 1, !.max_tokens = max, !.held = 0]
             t == Pop \o <<g, h>>
  <1>1. Top \in Frame
    BY TopFacts
  <1>2. /\ g \in Frame /\ h \in Frame
        /\ g.agent = Top.agent /\ g.layer = Top.layer /\ g.chars = Top.chars
        /\ g.max_tokens = Top.max_tokens
        /\ h.agent = Top.agent /\ h.layer = Top.layer + 1 /\ h.chars = Top.chars
        /\ h.max_tokens = max
    <2>1. InnerCall(Top, held, max, g, h)
      BY <1>1, InnerFrames
    <2> HIDE DEF g, h
    <2> QED
      BY <2>1 DEF InnerCall
  <1>3. stack' = t /\ stack \in Seq(Frame)
    BY DEF CallInner, Inv, TypeOK
  <1>4. PICK n \in Nat : n = Len(stack) /\ n > 0
    BY <1>3, PopFacts
  <1>5. /\ Pop \in Seq(Frame) /\ DOMAIN stack = 1 .. n /\ Top = stack[n]
        /\ Len(Pop) = n - 1 /\ n - 1 \in Nat /\ \A i \in 1 .. n - 1 : Pop[i] = stack[i]
    BY <1>3, <1>4, PopFacts DEF Pop, Top
  <1> HIDE DEF g, h
  <1>6. /\ DOMAIN t = 1 .. (n - 1) + 2 /\ \A i \in 1 .. n - 1 : t[i] = Pop[i]
        /\ t[(n - 1) + 1] = g /\ t[(n - 1) + 2] = h
    BY <1>2, <1>5, PairFacts
  <1> HIDE DEF t
  <1>7. /\ DOMAIN t = 1 .. n + 1 /\ \A i \in 1 .. n - 1 : t[i] = stack[i]
        /\ t[n] = g /\ t[n + 1] = h
    BY <1>4, <1>5, <1>6
  <1>8. Linked(t)
    <2>1. /\ t[n].agent = stack[n].agent /\ t[n].layer = stack[n].layer
          /\ t[n].chars = stack[n].chars /\ t[n].max_tokens = stack[n].max_tokens
          /\ t[n + 1].agent = t[n].agent /\ t[n + 1].layer = t[n].layer + 1
          /\ t[n + 1].chars = t[n].chars /\ t[n + 1].max_tokens <= t[n].max_tokens
      BY <1>2, <1>5, <1>7
    <2> QED
      BY <2>1, <1>4, <1>5, <1>7, InnerLinked
  <1> QED
    BY <1>3, <1>8

(* A result that was right for a call is right for its caller. *)
LEMMA PopReported ==
    ASSUME Inv, Linked(stack), stack # <<>>, stack' = Pop, result' \in LLMResult,
           result'.prompt_tokens <= EstimatePromptTokens(Top.chars),
           result'.completion_tokens <= Top.max_tokens
    PROVE  Reported'
  <1> SUFFICES ASSUME stack' # <<>>, Kind(stack'[Len(stack')]) # "backend"
               PROVE  LET caller == stack'[Len(stack')]
                      IN  /\ result'.prompt_tokens <= EstimatePromptTokens(caller.chars)
                          /\ result'.completion_tokens <= caller.max_tokens
                          /\ Kind(caller) = "scheduled" =>
                                 result'.prompt_tokens + result'.completion_tokens <= caller.held
    BY DEF Reported, Top
  <1>1. stack \in Seq(Frame) /\ Covered(stack)
    BY DEF Inv, Stacked
  <1>2. PICK n \in Nat : n = Len(stack) /\ n > 0
    BY <1>1, PopFacts
  <1>3. /\ DOMAIN stack = 1 .. n /\ Top = stack[n] /\ Len(stack') = n - 1
        /\ stack' \in Seq(Frame) /\ \A i \in 1 .. n - 1 : stack'[i] = stack[i]
    BY <1>1, <1>2, PopFacts DEF Pop, Top
  <1>4. n - 1 \in 1 .. n - 1
    <2>1. n - 1 # 0
      BY <1>3, EmptySeq
    <2> QED
      BY <1>2, <2>1
  <1> DEFINE caller == stack[n - 1]
             r == result'
  <1>5. stack'[Len(stack')] = caller /\ n - 1 \in 1 .. n /\ (n - 1) + 1 = n /\ n \in 1 .. n
    BY <1>2, <1>3, <1>4
  <1>6. caller \in Frame /\ Top \in Frame
    BY <1>1, <1>3, <1>5, TopFacts
  <1>7. /\ Top.agent = caller.agent /\ Top.layer = caller.layer + 1
        /\ Top.chars = caller.chars /\ Top.max_tokens <= caller.max_tokens
    BY <1>3, <1>5 DEF Linked
  <1>8. Under(stack, n - 1, n)
    <2>1. \A k \in (n - 1) + 1 .. n : k = n
      BY <1>2
    <2>2. n > n - 1 /\ n - (n - 1) = 1
      BY <1>2
    <2>3. caller.layer + (n - (n - 1)) = caller.layer + 1
      BY <2>2
    <2> QED
      BY <1>3, <1>7, <2>1, <2>2, <2>3 DEF Under
  <1>9. Covers(caller, Top)
    BY <1>1, <1>3, <1>5, <1>8 DEF Covered
  <1>10. PICK e \in Nat : e = EstimatePromptTokens(Top.chars)
    BY <1>6, EstimateFacts DEF Frame
  <1>11. Kind(caller) = "scheduled" => e + Top.max_tokens <= caller.held
    BY <1>9, <1>10 DEF Covers
  <1>12. /\ r.prompt_tokens \in Nat /\ r.completion_tokens \in Nat
         /\ Top.max_tokens \in Nat /\ caller.max_tokens \in Nat /\ caller.held \in Nat
    BY <1>6 DEF Frame, LLMResult
  <1>13. r.prompt_tokens <= e /\ r.completion_tokens <= Top.max_tokens
    BY <1>10
  <1>14. e = EstimatePromptTokens(caller.chars)
    BY <1>7, <1>10
  <1> HIDE DEF caller, r
  <1>15. r.completion_tokens <= caller.max_tokens
    BY <1>7, <1>12, <1>13
  <1>16. Kind(caller) = "scheduled" => r.prompt_tokens + r.completion_tokens <= caller.held
    BY <1>11, <1>12, <1>13
  <1> QED
    BY <1>5, <1>13, <1>14, <1>15, <1>16 DEF r

LEMMA AnswerReported ==
    ASSUME Inv, Linked(stack), stack # <<>>, Answer
    PROVE  Reported' /\ Linked(stack')
  <1>1. Top \in Frame
    BY TopFacts
  <1>2. Top.max_tokens \in Nat /\ EstimatePromptTokens(Top.chars) \in Nat
    BY <1>1, EstimateFacts DEF Frame
  <1>3. result'.prompt_tokens = 0 /\ result'.completion_tokens = 0 /\ result' \in LLMResult
    BY NoTokensType DEF Answer, Mock!NoTokens
  <1>4. stack' = Pop /\ stack \in Seq(Frame)
    BY DEF Answer, Inv, TypeOK
  <1> QED
    BY <1>2, <1>3, <1>4, PopReported, PopLinked DEF Pop

LEMMA ReportedNext ==
    ASSUME Inv, Linked(stack), Reported, [Next]_vars
    PROVE  Reported' /\ Linked(stack')
  <1>1. CASE \E a \in Agent, chars \in Chars, max \in MaxTokens : Generate(a, chars, max)
    <2>1. PICK a \in Agent, chars \in Nat, max \in Nat : Generate(a, chars, max)
      BY <1>1, SizesAssumption
    <2> DEFINE f == [agent |-> a, layer |-> 1, chars |-> chars, max_tokens |-> max, held |-> 0]
    <2>2. f \in Frame
      BY DEF Frame
    <2>3. stack' = Append(stack, f) /\ stack \in Seq(Frame) /\ now' = "call"
      BY <2>1 DEF Generate, Inv, TypeOK
    <2>4. stack # <<>> => Kind(stack[Len(stack)]) = "backend"
      BY <2>1 DEF Generate, UserCode, Top
    <2> HIDE DEF f
    <2>5. Linked(stack')
      BY <2>2, <2>3, <2>4, PushLinked
    <2> QED
      BY <2>3, <2>5 DEF Reported
  <1>2. CASE ReserveMemory
    <2>1. stack # <<>> /\ Top \in Frame
      BY <1>2, TopFacts DEF ReserveMemory, OnTop
    <2>2. /\ EstimateMemoryBytes(Top) \in Nat /\ Top.max_tokens \in Nat
          /\ Top.max_tokens <= Top.max_tokens
      BY <2>1 DEF EstimateMemoryBytes, Frame
    <2>3. CallInner(EstimateMemoryBytes(Top), Top.max_tokens) \/ Answer
      BY <1>2 DEF ReserveMemory
    <2>4. CASE Answer
      BY <2>1, <2>4, AnswerReported
    <2>5. CASE CallInner(EstimateMemoryBytes(Top), Top.max_tokens)
      <3>1. now' = "call"
        BY <2>5 DEF CallInner
      <3>2. Linked(stack')
        BY <2>1, <2>2, <2>5, CallLinked
      <3> QED
        BY <3>1, <3>2 DEF Reported
    <2> QED
      BY <2>3, <2>4, <2>5
  <1>3. CASE ScheduleTokens
    <2>1. stack # <<>> /\ Top \in Frame
      BY <1>3, TopFacts DEF ScheduleTokens, OnTop
    <2>2. \/ Answer
          \/ /\ Scheduler!DecisionType(Task(Top)) \notin {"Reject", "UseFallback"}
             /\ CallInner(Scheduler!Charge(Task(Top)), InnerMaxTokens(Top))
      BY <1>3 DEF ScheduleTokens
    <2>3. CASE Answer
      BY <2>1, <2>3, AnswerReported
    <2>4. CASE /\ Scheduler!DecisionType(Task(Top)) \notin {"Reject", "UseFallback"}
               /\ CallInner(Scheduler!Charge(Task(Top)), InnerMaxTokens(Top))
      <3>1. /\ Scheduler!Charge(Task(Top)) \in Nat /\ InnerMaxTokens(Top) \in Nat
            /\ InnerMaxTokens(Top) <= Top.max_tokens
        BY <2>1, <2>4, ScheduleFacts DEF Inv, TypeOK
      <3>2. now' = "call"
        BY <2>4 DEF CallInner
      <3>3. Linked(stack')
        BY <2>1, <2>4, <3>1, CallLinked
      <3> QED
        BY <3>2, <3>3 DEF Reported
    <2> QED
      BY <2>2, <2>3, <2>4
  <1>4. CASE \/ ReleaseMemory \/ ReleaseTokens \/ UnwindMemory \/ UnwindTokens
             \/ BackendReturns \/ BackendThrows
    <2>1. stack # <<>> /\ stack' = Pop /\ stack \in Seq(Frame)
      BY <1>4 DEF ReleaseMemory, ReleaseTokens, UnwindMemory, UnwindTokens, BackendReturns,
                  BackendThrows, OnTop, Inv, TypeOK
    <2>2. Linked(stack')
      BY <2>1, PopLinked DEF Pop
    <2>3. CASE ReleaseMemory \/ ReleaseTokens
      <3>1. /\ Kind(Top) # "backend" /\ now = "return" /\ result' = result
            /\ overreported' = overreported
        BY <2>3 DEF ReleaseMemory, ReleaseTokens, OnTop
      <3>2. result \in LLMResult
        BY DEF Inv, TypeOK
      <3>3. CASE overreported
        BY <2>2, <3>1, <3>3 DEF Reported
      <3>4. CASE ~overreported
        BY <2>1, <2>2, <3>1, <3>2, <3>4, PopReported DEF Reported
      <3> QED
        BY <3>3, <3>4
    <2>4. CASE UnwindMemory \/ UnwindTokens \/ BackendThrows
      <3>1. now' = "throw"
        BY <2>4 DEF UnwindMemory, UnwindTokens, BackendThrows
      <3> QED
        BY <2>2, <3>1 DEF Reported
    <2>5. CASE BackendReturns
      <3>1. Top \in Frame
        BY <2>1, TopFacts
      <3>2. EstimatePromptTokens(Top.chars) \in Nat /\ Top.max_tokens \in Nat
        BY <3>1, EstimateFacts DEF Frame
      <3>3. result' \in LLMResult
        BY <2>5, BackendInv DEF Inv, TypeOK
      <3>4. CASE overreported'
        BY <2>2, <3>4 DEF Reported
      <3>5. CASE ~overreported'
        <4>1. ~Exceeds(result', Top)
          BY <2>5, <3>5 DEF BackendReturns
        <4>2. /\ result'.prompt_tokens <= EstimatePromptTokens(Top.chars)
              /\ result'.completion_tokens <= Top.max_tokens
          BY <3>2, <3>3, <4>1 DEF Exceeds, LLMResult
        <4> QED
          BY <2>1, <2>2, <3>3, <4>2, PopReported
      <3> QED
        BY <3>4, <3>5
    <2> QED
      BY <1>4, <2>3, <2>4, <2>5
  <1>5. CASE \/ \E a \in Agent, limit \in Limits : SetAgentBudget(a, limit)
             \/ AllocateScratch
             \/ UNCHANGED vars
    BY <1>5 DEF SetAgentBudget, AllocateScratch, vars, Reported, Top
  <1> QED
    BY <1>1, <1>2, <1>3, <1>4, <1>5 DEF Next

LEMMA RefusedFree ==
    ASSUME NEW t, Scheduler!DecisionType(t) \in {"Reject", "UseFallback"}
    PROVE  Scheduler!Charge(t) = 0
  BY DEF Scheduler!Charge, Scheduler!DecisionType

(* What TokensAccounted compares. *)
Sum == budget.remaining_tokens + Out + lost

LEMMA AccountTypes ==
    ASSUME Inv
    PROVE  /\ budget \in Scheduler!TokenBudget /\ budget.remaining_tokens \in Nat
           /\ Out \in Nat /\ lost \in Int /\ initial \in Nat /\ Sum \in Int
           /\ Scheduler!Cap = budget.max_prompt_tokens + budget.max_completion_tokens
           /\ Scheduler!Cap \in Nat /\ Scheduler!Cap < Modulus /\ Modulus \in Nat
  <1>1. /\ budget \in Scheduler!TokenBudget
        /\ budget.remaining_tokens \in Nat /\ budget.max_prompt_tokens \in Nat
        /\ budget.max_completion_tokens \in Nat /\ Modulus \in Nat
        /\ budget.max_prompt_tokens + budget.max_completion_tokens < Modulus
        /\ lost \in Int /\ initial \in Nat
    BY SizesAssumption
       DEF Inv, TypeOK, Scheduler!TypeOK, Scheduler!TokenBudget, Scheduler!Word, Scheduler!NoWrap
  <1>2. Out \in Nat
    BY StackHeld DEF Out
  <1>3. Scheduler!Cap = budget.max_prompt_tokens + budget.max_completion_tokens
    BY <1>1 DEF Scheduler!Cap, Scheduler!Plus
  <1> QED
    BY <1>1, <1>2, <1>3 DEF Sum

(* The step leaves the sum alone and loses no negative number of tokens. *)
LEMMA SumKept ==
    ASSUME Inv, TokensAccounted, UNCHANGED initial, overreported \in BOOLEAN,
           overreported => overreported', Scheduler!Cap' = Scheduler!Cap,
           Sum' = Sum, lost' >= lost, lost' \in Int
    PROVE  TokensAccounted'
  <1>1. PICK c \in Nat : c = Scheduler!Cap /\ c = Scheduler!Cap'
    BY AccountTypes
  <1>2. /\ Sum <= initial /\ ~overreported => lost >= 0
        /\ ~overreported /\ initial <= c => Sum = initial
    BY <1>1 DEF TokensAccounted, Sum
  <1>3. lost \in Int /\ (lost >= 0 => lost' >= 0)
    BY AccountTypes
  <1>4. /\ Sum' <= initial' /\ ~overreported' => lost' >= 0
        /\ ~overreported' /\ initial' <= c => Sum' = initial'
    BY <1>2, <1>3
  <1> QED
    BY <1>1, <1>4 DEF TokensAccounted, Sum

LEMMA TokensSchedule ==
    ASSUME TokensInvariant, ScheduleTokens
    PROVE  TokensAccounted'
  <1> DEFINE c == Scheduler!Charge(Task(Top))
             rem == budget.remaining_tokens
  <1>1. /\ stack # <<>> /\ Kind(Top) = "scheduled" /\ Top.held = 0 /\ Inv
        /\ Scheduler!Schedule(Task(Top)) /\ UNCHANGED <<initial, lost, overreported>>
    BY DEF ScheduleTokens, OnTop, TokensInvariant, Fresh
  <1>2. Top \in Frame /\ Top.agent \in Agent
    BY <1>1, TopFacts DEF Frame
  <1>3. c \in 0 .. rem /\ rem \in Nat /\ budget \in Scheduler!TokenBudget
    BY <1>1, <1>2, ScheduleFacts
       DEF Inv, TypeOK, Scheduler!TypeOK, Scheduler!TokenBudget, Scheduler!Word
  <1>4. Out \in Nat /\ lost \in Int
    BY <1>1, AccountTypes
  <1>5. budget' = [budget EXCEPT !.remaining_tokens = rem - c]
    BY <1>1 DEF Scheduler!Schedule, Scheduler!Remaining
  <1> HIDE DEF c, rem
  <1>6. /\ budget'.remaining_tokens = rem - c
        /\ Scheduler!Cap' = Scheduler!Cap
    BY <1>3, <1>5 DEF Scheduler!TokenBudget, Scheduler!Cap
  <1>7. Out' = Out + c
    <2>1. CASE Scheduler!DecisionType(Task(Top)) \in {"Reject", "UseFallback"}
      <3>1. c = 0 /\ stack' = Pop
        BY <2>1, RefusedFree DEF c, ScheduleTokens, Answer
      <3>2. Out' = Out
        BY <1>1, <3>1, OtherHeld DEF Out
      <3> QED
        BY <1>4, <3>1, <3>2
    <2>2. CASE Scheduler!DecisionType(Task(Top)) \notin {"Reject", "UseFallback"}
      <3>1. CallInner(c, InnerMaxTokens(Top))
        BY <2>2 DEF c, ScheduleTokens
      <3>2. c \in Nat /\ InnerMaxTokens(Top) \in Nat
        BY <1>1, <1>2, <1>3, <2>2, ScheduleFacts DEF Inv, TypeOK
      <3>3. Held(stack', "scheduled", Agent) = Held(stack, "scheduled", Agent)
                + (IF Kind(Top) = "scheduled" /\ Top.agent \in Agent THEN c ELSE 0)
        BY <1>1, <3>1, <3>2, CallHeld
      <3> QED
        BY <1>1, <1>2, <3>3 DEF Out
    <2> QED
      BY <2>1, <2>2
  <1>8. Sum = rem + Out + lost /\ Sum' = (rem - c) + (Out + c) + lost
    BY <1>1, <1>6, <1>7 DEF Sum, rem
  <1>9. Sum' = Sum /\ lost' >= lost /\ lost' \in Int
    BY <1>1, <1>3, <1>4, <1>8
  <1>10. overreported \in BOOLEAN
    BY <1>1 DEF Inv, TypeOK
  <1> QED
    BY <1>1, <1>6, <1>9, <1>10, SumKept DEF TokensInvariant

(* What is released, with the tokens that no backend reported in excess. *)
LEMMA UsedFacts ==
    ASSUME Inv
    PROVE  /\ UsedTokens \in Nat
           /\ UsedTokens <= result.prompt_tokens + result.completion_tokens
  <1>1. /\ result.prompt_tokens \in Nat /\ result.completion_tokens \in Nat
        /\ Modulus \in Nat \ {0}
    BY SizesAssumption DEF Inv, TypeOK, LLMResult
  <1>2. PICK n \in Nat : n = result.prompt_tokens + result.completion_tokens
    BY <1>1
  <1>3. PICK m \in Nat : m = Modulus
    BY <1>1
  <1>4. UsedTokens = IF n < m THEN n ELSE n - m
    <2>1. PICK p \in Nat : p = result.prompt_tokens
      BY <1>1
    <2>2. PICK c \in Nat : c = result.completion_tokens
      BY <1>1
    <2>3. Scheduler!Plus(p, c) = IF n < m THEN n ELSE n - m
      BY <1>2, <1>3, <2>1, <2>2 DEF Scheduler!Plus
    <2> QED
      BY <2>1, <2>2, <2>3 DEF UsedTokens
  <1> QED
    BY <1>2, <1>3, <1>4

LEMMA TokensRelease ==
    ASSUME TokensInvariant, ReleaseTokens
    PROVE  TokensAccounted'
  <1>1. /\ stack # <<>> /\ Kind(Top) = "scheduled" /\ now = "return" /\ Inv /\ Reported
        /\ Scheduler!Release(UsedTokens) /\ stack' = Pop /\ UNCHANGED <<initial, overreported>>
        /\ lost' = lost + (Top.held - UsedTokens) /\ TokensAccounted
    BY DEF ReleaseTokens, OnTop, TokensInvariant
  <1>2. PICK held \in Nat, u \in Nat, cap \in Nat :
            held = Top.held /\ u = UsedTokens /\ cap = Scheduler!Cap
    BY <1>1, TopFacts, UsedFacts, AccountTypes DEF Frame
  <1>3. PICK rest \in Nat, rem \in Nat :
            rest = Held(Pop, "scheduled", Agent) /\ rem = budget.remaining_tokens
            /\ Out = rest + held /\ Out' = rest
    <2>1. Top.agent \in Agent
      BY <1>1, TopFacts DEF Frame
    <2>2. Share(Top, "scheduled", Agent) = held
      BY <1>1, <1>2, <2>1 DEF Share
    <2>3. Held(Pop, "scheduled", Agent) \in Nat /\ Out = Held(Pop, "scheduled", Agent) + held
      BY <1>1, <2>2, PopHeld DEF Out
    <2>4. Out' = Held(Pop, "scheduled", Agent)
      BY <1>1 DEF Out
    <2>5. budget.remaining_tokens \in Nat
      BY <1>1, AccountTypes
    <2> QED
      BY <2>3, <2>4, <2>5
  <1>4. ~overreported => u <= held
    <2>1. result.prompt_tokens \in Nat /\ result.completion_tokens \in Nat
      BY <1>1 DEF Inv, TypeOK, LLMResult
    <2>2. u <= result.prompt_tokens + result.completion_tokens
      BY <1>1, <1>2, UsedFacts
    <2>3. ~overreported => result.prompt_tokens + result.completion_tokens <= held
      BY <1>1, <1>2 DEF Reported
    <2> QED
      BY <2>1, <2>2, <2>3
  <1>5. Modulus \in Nat /\ cap < Modulus /\ lost \in Int /\ initial \in Nat
    BY <1>1, <1>2, AccountTypes
  <1>6. PICK new \in Nat : /\ new = Scheduler!Least(Scheduler!Plus(rem, u), cap)
                           /\ new <= rem + u
                           /\ rem + u <= cap => new = rem + u
    <2>1. PICK n \in Nat : n = rem + u
      OBVIOUS
    <2>2. PICK m \in Nat : m = Modulus /\ cap < m
      BY <1>5
    <2>3. PICK k \in Nat : k = IF n < m THEN n ELSE n - m
      OBVIOUS
    <2>4. k <= n /\ (n <= cap => k = n)
      BY <2>2, <2>3
    <2>5. Scheduler!Plus(rem, u) = k
      BY <2>1, <2>2, <2>3 DEF Scheduler!Plus
    <2>6. Scheduler!Least(k, cap) = IF cap < k THEN cap ELSE k
      BY DEF Scheduler!Least
    <2> QED
      BY <2>1, <2>3, <2>4, <2>5, <2>6
  <1>7. budget'.remaining_tokens = new /\ Scheduler!Cap' = cap
    <2>1. budget' = [budget EXCEPT !.remaining_tokens = new]
      BY <1>1, <1>2, <1>3, <1>6 DEF Scheduler!Release, Scheduler!Remaining
    <2>2. budget \in Scheduler!TokenBudget
      BY <1>1, AccountTypes
    <2> QED
      BY <1>2, <2>1, <2>2 DEF Scheduler!TokenBudget, Scheduler!Cap
  <1>8. /\ rem + (rest + held) + lost <= initial
        /\ ~overreported => lost >= 0
        /\ ~overreported /\ initial <= cap => rem + (rest + held) + lost = initial
    BY <1>1, <1>2, <1>3 DEF TokensAccounted
  <1>9. PICK left \in Int : left = lost + (held - u) /\ lost' = left
    BY <1>1, <1>2, <1>5
  <1>10. new + rest + left <= initial
    BY <1>5, <1>6, <1>8, <1>9
  <1>11. ~overreported => left >= 0
    BY <1>4, <1>5, <1>8, <1>9
  <1>12. ~overreported /\ initial <= cap => new + rest + left = initial
    BY <1>4, <1>5, <1>6, <1>8, <1>9
  <1> QED
    BY <1>1, <1>3, <1>7, <1>9, <1>10, <1>11, <1>12 DEF TokensAccounted

LEMMA TokensNext ==
    ASSUME TokensInvariant, [Next]_vars
    PROVE  TokensInvariant'
  <1>1. Inv /\ Fresh /\ Linked(stack) /\ Reported /\ TokensAccounted
    BY DEF TokensInvariant
  <1>2. Inv' /\ Fresh' /\ Reported' /\ Linked(stack')
    BY <1>1, NextInv, FreshNext, ReportedNext
  <1>3. /\ Out \in Nat /\ lost \in Int /\ budget.remaining_tokens \in Nat
        /\ overreported \in BOOLEAN
    BY <1>1, AccountTypes DEF Inv, TypeOK
  <1>4. ASSUME UNCHANGED <<budget, initial, lost>>, Out' = Out, overreported => overreported'
        PROVE  TokensAccounted'
    <2>1. Sum' = Sum /\ lost' >= lost /\ lost' \in Int /\ Scheduler!Cap' = Scheduler!Cap
      BY <1>3, <1>4 DEF Sum, Scheduler!Cap
    <2> QED
      BY <1>1, <1>3, <1>4, <2>1, SumKept
  <1>5. CASE \E a \in Agent, chars \in Chars, max \in MaxTokens : Generate(a, chars, max)
    <2>1. PICK a \in Agent, chars \in Nat, max \in Nat : Generate(a, chars, max)
      BY <1>5, SizesAssumption
    <2>2. Out' = Out
      BY <1>1, <2>1, GenerateHeld DEF Out
    <2>3. UNCHANGED <<budget, initial, lost, overreported>>
      BY <2>1 DEF Generate
    <2> QED
      BY <1>2, <1>4, <2>2, <2>3 DEF TokensInvariant
  <1>6. CASE \/ \E a \in Agent, limit \in Limits : SetAgentBudget(a, limit)
             \/ AllocateScratch
             \/ UNCHANGED vars
    <2>1. UNCHANGED <<budget, stack, initial, lost, overreported>>
      BY <1>6 DEF SetAgentBudget, AllocateScratch, vars
    <2>2. Out' = Out
      BY <2>1 DEF Out
    <2> QED
      BY <1>2, <1>4, <2>1, <2>2 DEF TokensInvariant
  <1>7. CASE ReserveMemory
    <2>1. stack # <<>> /\ Kind(Top) = "memory" /\ Top.held = 0 /\ Top \in Frame
      BY <1>1, <1>7, TopFacts DEF ReserveMemory, OnTop, Fresh
    <2>2. EstimateMemoryBytes(Top) \in Nat /\ Top.max_tokens \in Nat
      BY <2>1 DEF EstimateMemoryBytes, Frame
    <2>3. CallInner(EstimateMemoryBytes(Top), Top.max_tokens) \/ Answer
      BY <1>7 DEF ReserveMemory
    <2>4. UNCHANGED <<budget, initial, lost, overreported>>
      BY <1>7 DEF ReserveMemory
    <2>5. Out' = Out
      <3>1. CASE Answer
        BY <1>1, <2>1, <3>1, OtherHeld DEF Answer, Out
      <3>2. CASE CallInner(EstimateMemoryBytes(Top), Top.max_tokens)
        <4>1. Out' = Out + 0
          BY <1>1, <2>1, <2>2, <3>2, CallHeld DEF Out
        <4> QED
          BY <1>3, <4>1
      <3> QED
        BY <2>3, <3>1, <3>2
    <2> QED
      BY <1>2, <1>4, <2>4, <2>5 DEF TokensInvariant
  <1>8. CASE ReleaseMemory \/ UnwindMemory \/ BackendReturns \/ BackendThrows
    <2>1. stack # <<>> /\ stack' = Pop /\ Kind(Top) # "scheduled"
      BY <1>8 DEF ReleaseMemory, UnwindMemory, BackendReturns, BackendThrows, OnTop
    <2>2. Out' = Out
      BY <1>1, <2>1, OtherHeld DEF Out
    <2>3. UNCHANGED <<budget, initial, lost>> /\ (overreported => overreported')
      BY <1>3, <1>8 DEF ReleaseMemory, UnwindMemory, BackendReturns, BackendThrows
    <2> QED
      BY <1>2, <1>4, <2>2, <2>3 DEF TokensInvariant
  <1>9. CASE ScheduleTokens
    BY <1>1, <1>2, <1>9, TokensSchedule DEF TokensInvariant
  <1>10. CASE ReleaseTokens
    BY <1>1, <1>2, <1>10, TokensRelease DEF TokensInvariant
  <1>11. CASE UnwindTokens
    <2>1. /\ stack # <<>> /\ stack' = Pop /\ Kind(Top) = "scheduled"
          /\ lost' = lost + Top.held /\ UNCHANGED <<budget, initial, overreported>>
      BY <1>11 DEF UnwindTokens, OnTop
    <2>2. Top.agent \in Agent /\ Top.held \in Nat
      BY <1>1, <2>1, TopFacts DEF Frame
    <2>3. Share(Top, "scheduled", Agent) = Top.held
      BY <2>1, <2>2 DEF Share
    <2>4. Out' \in Nat /\ Out = Out' + Top.held
      BY <1>1, <2>1, <2>3, PopHeld DEF Out
    <2>5. PICK held \in Nat, rest \in Nat : held = Top.held /\ rest = Out' /\ Out = rest + held
      BY <2>2, <2>4
    <2>6. PICK rem \in Int, old \in Int : rem = budget.remaining_tokens /\ old = lost
      BY <1>3
    <2>7. Sum' = Sum /\ lost' >= lost /\ lost' \in Int
      <3>1. budget'.remaining_tokens = rem /\ lost' = old + held
        BY <2>1, <2>5, <2>6
      <3>2. Sum = rem + (rest + held) + old /\ Sum' = rem + rest + (old + held)
        BY <2>5, <2>6, <3>1 DEF Sum
      <3> QED
        BY <2>6, <3>1, <3>2
    <2>8. Scheduler!Cap' = Scheduler!Cap
      BY <2>1 DEF Scheduler!Cap
    <2>9. TokensAccounted'
      BY <1>1, <1>3, <2>1, <2>7, <2>8, SumKept
    <2> QED
      BY <1>2, <2>9 DEF TokensInvariant
  <1> QED
    BY <1>5, <1>6, <1>7, <1>8, <1>9, <1>10, <1>11 DEF Next

(* For any backends, layers and nesting of requests, what remains, what    *)
(* the calls in progress hold and what was lost is never more than the     *)
(* scheduler started with; and just that, with nothing clipped by the cap  *)
(* of release, as long as no backend reported more than it was asked       *)
(* (ScheduledLLMRuntime.cpp:27-63, TokenScheduler.cpp:112-118).            *)
THEOREM TokensAlwaysAccounted == Spec => []TokensAccounted
  <1>1. Init => TokensInvariant
    <2> SUFFICES ASSUME Init PROVE TokensInvariant
      OBVIOUS
    <2>1. Inv
      BY InitInv
    <2>2. stack = <<>> /\ DOMAIN stack = {} /\ stack \in Seq(Frame) /\ lost = 0
          /\ now = "return" /\ initial = budget.remaining_tokens
      BY <2>1 DEF Init, Inv, TypeOK
    <2>3. Out = 0
      BY <2>2, HeldByNone DEF Out
    <2>4. initial \in Nat
      BY <2>1 DEF Inv, TypeOK
    <2>5. TokensAccounted
      BY <2>2, <2>3, <2>4 DEF TokensAccounted
    <2> QED
      BY <2>1, <2>2, <2>5 DEF TokensInvariant, Fresh, Linked, Reported
  <1>2. TokensInvariant /\ [Next]_vars => TokensInvariant'
    BY TokensNext
  <1>3. TokensInvariant => TokensAccounted
    BY DEF TokensInvariant
  <1> QED
    BY <1>1, <1>2, <1>3, PTL DEF Spec
=============================================================================
