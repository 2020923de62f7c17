---------------------------- MODULE SequenceLemmas ----------------------------
(***************************************************************************)
(* What the operations the models make on sequences do: push on a stack,   *)
(* pop from it, take the front of a queue, fold.                           *)
(***************************************************************************)
EXTENDS Integers, SequencesExt, SequenceTheorems, WellFoundedInduction, TLAPS

(* Append as a push: the new element is on top, the others stay. *)
LEMMA PushFacts ==
    ASSUME NEW S, NEW s \in Seq(S), NEW f \in S
    PROVE  /\ Append(s, f) \in Seq(S)
           /\ Append(s, f) # <<>>
           /\ Len(s) \in Nat
           /\ Len(Append(s, f)) = Len(s) + 1
           /\ Append(s, f)[Len(s) + 1] = f
           /\ \A i \in 1 .. Len(s) : Append(s, f)[i] = s[i]
           /\ DOMAIN s = 1 .. Len(s)
           /\ DOMAIN Append(s, f) = 1 .. Len(s) + 1
  BY AppendProperties, LenProperties

(* The sequence without its last element: the stack below the top. *)
LEMMA PopFacts ==
    ASSUME NEW S, NEW s \in Seq(S), s # <<>>
    PROVE  /\ Len(s) \in Nat \ {0}
           /\ s[Len(s)] \in S
           /\ SubSeq(s, 1, Len(s) - 1) \in Seq(S)
           /\ Len(SubSeq(s, 1, Len(s) - 1)) = Len(s) - 1
           /\ \A i \in 1 .. Len(s) - 1 : SubSeq(s, 1, Len(s) - 1)[i] = s[i]
           /\ DOMAIN s = 1 .. Len(s)
           /\ DOMAIN SubSeq(s, 1, Len(s) - 1) = 1 .. Len(s) - 1
  <1> DEFINE t == SubSeq(s, 1, Len(s) - 1)
  <1>1. PICK n \in Nat : n = Len(s) /\ n # 0
    BY EmptySeq
  <1>2. \A i \in 1 .. n : s[i] \in S
    BY <1>1, ElementOfSeq
  <1> HIDE DEF t
  <1>3. /\ t \in Seq(S)
        /\ Len(t) = IF 1 <= n - 1 THEN n - 1 - 1 + 1 ELSE 0
        /\ \A i \in 1 .. n - 1 - 1 + 1 : t[i] = s[1 + i - 1]
    BY <1>1, <1>2, SubSeqProperties DEF t
  <1>4. Len(t) = n - 1
    BY <1>1, <1>3
  <1>5. \A i \in 1 .. n - 1 : t[i] = s[i]
    BY <1>1, <1>3
  <1>6. DOMAIN s = 1 .. n /\ DOMAIN t = 1 .. n - 1
    BY <1>1, <1>3, <1>4, LenProperties
  <1>7. s[n] \in S
    BY <1>1, <1>2
  <1> QED
    BY <1>1, <1>3, <1>4, <1>5, <1>6, <1>7 DEF t

(* Head and Tail of a queue. *)
LEMMA QueueFacts ==
    ASSUME NEW S, NEW s \in Seq(S), s # <<>>
    PROVE  /\ Len(s) \in Nat \ {0}
           /\ Head(s) \in S
           /\ Head(s) = s[1]
           /\ Tail(s) \in Seq(S)
           /\ Len(Tail(s)) = Len(s) - 1
           /\ \A i \in 1 .. Len(s) - 1 : Tail(s)[i] = s[i + 1]
           /\ DOMAIN s = 1 .. Len(s)
           /\ DOMAIN Tail(s) = 1 .. Len(s) - 1
  <1>1. Len(s) \in Nat \ {0} /\ Head(s) = s[1]
    BY EmptySeq
  <1>2. /\ Head(s) \in S /\ Tail(s) \in Seq(S) /\ Len(Tail(s)) = Len(s) - 1
        /\ \A i \in 1 .. Len(Tail(s)) : Tail(s)[i] = s[i + 1]
    BY HeadTailProperties
  <1> QED
    BY <1>1, <1>2, LenProperties

-----------------------------------------------------------------------------
(* Induction over the numbers, for a property given as the set of those    *)
(* that have it.                                                           *)
LEMMA Induction ==
    ASSUME NEW S, 0 \in S, \A n \in Nat : n \in S => n + 1 \in S
    PROVE  Nat \subseteq S
  <1> SUFFICES ASSUME NEW k \in Nat, k \notin S PROVE FALSE
    OBVIOUS
  <1> DEFINE T == {n \in Nat : n \notin S}
             R == OpToRel(<, Nat)
  <1>1. T \subseteq Nat /\ T # {} /\ IsWellFoundedOn(R, Nat)
    BY NatLessThanWellFounded
  <1> HIDE DEF R, T
  <1>2. PICK m \in T : \A y \in T : ~ (<<y, m>> \in R)
    BY <1>1, WFMin
  <1>3. m \in Nat /\ m # 0 /\ m - 1 \in T
    BY <1>2 DEF T
  <1>4. <<m - 1, m>> \in R
    BY <1>3 DEF R, T, OpToRel
  <1> QED
    BY <1>2, <1>3, <1>4

LEMMA MaxIs ==
    ASSUME NEW S, S \subseteq Int, NEW m \in S, \A y \in S : m >= y
    PROVE  Max(S) = m
  <1>1. \A x \in S : (\A y \in S : x >= y) => x = m
    OBVIOUS
  <1> QED
    BY <1>1 DEF Max

LEMMA MaxExists ==
    ASSUME NEW n \in Nat, NEW S, S \subseteq 1 .. n, S # {}
    PROVE  Max(S) \in S /\ Max(S) \in 1 .. n
  <1> DEFINE T == {n - x : x \in S}
             R == OpToRel(<, Nat)
  <1>1. T \subseteq Nat /\ T # {} /\ IsWellFoundedOn(R, Nat)
    <2>1. \A x \in S : n - x \in Nat
      OBVIOUS
    <2>2. T \subseteq Nat /\ T # {}
      BY <2>1
    <2> QED
      BY <2>2, NatLessThanWellFounded
  <1>2. PICK m \in T : \A y \in T : ~ (<<y, m>> \in R)
    <2> HIDE DEF R, T
    <2> QED
      BY <1>1, WFMin
  <1>3. PICK x \in S : m = n - x
    BY <1>2
  <1>4. ASSUME NEW y \in S PROVE x >= y
    <2>1. n - y \in T /\ n - y \in Nat /\ m \in Nat
      BY <1>1
    <2>2. ~ (n - y < m)
      BY <1>2, <2>1 DEF OpToRel
    <2>3. x \in Int /\ y \in Int
      OBVIOUS
    <2> QED
      BY <2>2, <2>3, <1>3
  <1>5. Max(S) = x
    <2>1. S \subseteq Int
      OBVIOUS
    <2> QED
      BY <1>4, <2>1, MaxIs
  <1> QED
    BY <1>5

(* A function that folds G over the sets of numbers up to n, the largest   *)
(* last, as MapThenFoldSet chooses one.                                    *)
IsFold(it, base, G, n) ==
    \A s \in SUBSET (1 .. n) :
        it[s] = IF s = {} THEN base ELSE G[<<Max(s), it[s \ {Max(s)}]>>]

HasFold(V, base, G, n) == \E it \in [SUBSET (1 .. n) -> V] : IsFold(it, base, G, n)

LEMMA FoldExists ==
    ASSUME NEW V, NEW base \in V, NEW G \in [Nat \X V -> V], NEW n \in Nat
    PROVE  HasFold(V, base, G, n)
  <1> DEFINE S == {m \in Nat : HasFold(V, base, G, m)}
  <1>1. 0 \in S
    <2> DEFINE it == [s \in SUBSET (1 .. 0) |-> base]
    <2>1. SUBSET (1 .. 0) = {{}}
      OBVIOUS
    <2>2. it \in [SUBSET (1 .. 0) -> V] /\ IsFold(it, base, G, 0)
      BY <2>1 DEF IsFold
    <2> QED
      BY <2>2 DEF HasFold
  <1>2. ASSUME NEW m \in Nat, m \in S PROVE m + 1 \in S
    <2>1. PICK it \in [SUBSET (1 .. m) -> V] : IsFold(it, base, G, m)
      BY <1>2 DEF HasFold
    <2> DEFINE new == [s \in SUBSET (1 .. m + 1) |->
                          IF m + 1 \in s THEN G[<<m + 1, it[s \ {m + 1}]>>] ELSE it[s]]
    <2>2. ASSUME NEW s \in SUBSET (1 .. m + 1)
          PROVE  s \ {m + 1} \in SUBSET (1 .. m)
      OBVIOUS
    <2>3. new \in [SUBSET (1 .. m + 1) -> V]
      <3> SUFFICES ASSUME NEW s \in SUBSET (1 .. m + 1) PROVE new[s] \in V
        OBVIOUS
      <3>1. it[s \ {m + 1}] \in V
        BY <2>2
      <3>2. m + 1 \notin s => s = s \ {m + 1}
        OBVIOUS
      <3> QED
        BY <3>1, <3>2
    <2>4. ASSUME NEW s \in SUBSET (1 .. m + 1)
          PROVE  new[s] = IF s = {} THEN base ELSE G[<<Max(s), new[s \ {Max(s)}]>>]
      <3>1. CASE m + 1 \in s
        <4>1. Max(s) = m + 1
          <5>1. s \subseteq Int /\ \A y \in s : m + 1 >= y
            OBVIOUS
          <5> QED
            BY <5>1, <3>1, MaxIs
        <4>2. s \ {m + 1} \in SUBSET (1 .. m + 1) /\ m + 1 \notin s \ {m + 1}
          OBVIOUS
        <4>3. new[s \ {m + 1}] = it[s \ {m + 1}]
          BY <4>2
        <4>4. new[s] = G[<<m + 1, it[s \ {m + 1}]>>]
          BY <3>1
        <4> QED
          BY <4>1, <4>3, <4>4, <3>1
      <3>2. CASE m + 1 \notin s
        <4>1. s \in SUBSET (1 .. m)
          BY <3>2
        <4>2. new[s] = it[s]
          BY <3>2
        <4>3. new[s \ {Max(s)}] = it[s \ {Max(s)}]
          BY <3>2
        <4>4. it[s] = IF s = {} THEN base ELSE G[<<Max(s), it[s \ {Max(s)}]>>]
          BY <2>1, <4>1 DEF IsFold
        <4> QED
          BY <4>2, <4>3, <4>4
      <3> QED
        BY <3>1, <3>2
    <2> HIDE DEF new
    <2>5. IsFold(new, base, G, m + 1)
      BY <2>4 DEF IsFold
    <2>6. HasFold(V, base, G, m + 1)
      BY <2>3, <2>5 DEF HasFold
    <2> QED
      BY <2>6
  <1> HIDE DEF S
  <1>3. n \in S
    BY <1>1, <1>2, Induction
  <1> QED
    BY <1>3 DEF S

(* Folding step by step: from base to last, with G at each of n steps.     *)
Leads(V, base, G, n, last) ==
    \E acc \in [0 .. n -> V] :
        /\ acc[0] = base
        /\ \A k \in 1 .. n : acc[k] = G[<<k, acc[k - 1]>>]
        /\ acc[n] = last

LeadsFrom(V, base, G, n, last) ==
    \E x \in V : Leads(V, base, G, n, x) /\ last = G[<<n + 1, x>>]

LEMMA LeadsStep ==
    ASSUME NEW V, NEW base, NEW G, NEW n \in Nat, NEW last, Leads(V, base, G, n + 1, last)
    PROVE  LeadsFrom(V, base, G, n, last)
  <1>1. PICK acc \in [0 .. n + 1 -> V] :
            /\ acc[0] = base
            /\ \A k \in 1 .. n + 1 : acc[k] = G[<<k, acc[k - 1]>>]
            /\ acc[n + 1] = last
    BY DEF Leads
  <1> DEFINE part == [k \in 0 .. n |-> acc[k]]
  <1>2. part \in [0 .. n -> V] /\ part[0] = base /\ part[n] = acc[n] /\ acc[n] \in V
    BY <1>1
  <1>3. ASSUME NEW k \in 1 .. n PROVE part[k] = G[<<k, part[k - 1]>>]
    <2>1. k \in 0 .. n /\ k - 1 \in 0 .. n /\ k \in 1 .. n + 1
      OBVIOUS
    <2> QED
      BY <1>1, <2>1
  <1> HIDE DEF part
  <1>4. Leads(V, base, G, n, acc[n])
    BY <1>2, <1>3 DEF Leads
  <1>5. n + 1 \in 1 .. n + 1 /\ (n + 1) - 1 = n
    OBVIOUS
  <1> QED
    BY <1>1, <1>2, <1>4, <1>5 DEF LeadsFrom

LEMMA LeadsExtend ==
    ASSUME NEW V, NEW base \in V, NEW G \in [Nat \X V -> V], NEW n \in Nat,
           NEW x \in V, Leads(V, base, G, n, x)
    PROVE  Leads(V, base, G, n + 1, G[<<n + 1, x>>])
  <1>1. PICK acc \in [0 .. n -> V] :
            acc[0] = base /\ (\A k \in 1 .. n : acc[k] = G[<<k, acc[k - 1]>>]) /\ acc[n] = x
    BY DEF Leads
  <1> DEFINE new == [k \in 0 .. n + 1 |-> IF k <= n THEN acc[k] ELSE G[<<n + 1, x>>]]
  <1>2. G[<<n + 1, x>>] \in V
    OBVIOUS
  <1>3. new \in [0 .. n + 1 -> V] /\ new[0] = base /\ new[n + 1] = G[<<n + 1, x>>]
    BY <1>1, <1>2
  <1>4. ASSUME NEW k \in 1 .. n + 1 PROVE new[k] = G[<<k, new[k - 1]>>]
    <2>1. k \in 0 .. n + 1 /\ k - 1 \in 0 .. n + 1 /\ k - 1 <= n /\ (k <= n \/ k = n + 1)
      OBVIOUS
    <2>2. new[k - 1] = acc[k - 1]
      BY <2>1
    <2>3. CASE k <= n
      <3>1. k \in 1 .. n
        BY <2>3
      <3> QED
        BY <1>1, <2>1, <2>2, <2>3, <3>1
    <2>4. CASE k = n + 1
      <3>1. k - 1 = n
        BY <2>4
      <3> QED
        BY <1>1, <1>3, <2>2, <2>4, <3>1
    <2> QED
      BY <2>1, <2>3, <2>4
  <1> HIDE DEF new
  <1> QED
    BY <1>3, <1>4 DEF Leads

(* A function given by its value at 0 and by G from each number to the     *)
(* next exists.                                                            *)
Recurs(f, V, base, G) ==
    f \in [Nat -> V] /\ f[0] = base /\ \A k \in Nat : f[k + 1] = G[<<k + 1, f[k]>>]

LEMMA RecursionExists ==
    ASSUME NEW V, NEW base \in V, NEW G \in [Nat \X V -> V]
    PROVE  \E f : Recurs(f, V, base, G)
  <1> DEFINE A == {n \in Nat : \E x \in V : Leads(V, base, G, n, x)}
             U == {n \in Nat : \A x, y : Leads(V, base, G, n, x) /\ Leads(V, base, G, n, y)
                                             => x = y}
  <1>1. Leads(V, base, G, 0, base)
    <2> DEFINE acc == [k \in 0 .. 0 |-> base]
    <2>1. acc \in [0 .. 0 -> V] /\ acc[0] = base /\ \A k \in 1 .. 0 : FALSE
      OBVIOUS
    <2> HIDE DEF acc
    <2> QED
      BY <2>1 DEF Leads
  <1>2. Nat \subseteq A
    <2>1. 0 \in A
      BY <1>1
    <2>2. ASSUME NEW n \in Nat, n \in A PROVE n + 1 \in A
      <3>1. PICK x \in V : Leads(V, base, G, n, x)
        BY <2>2
      <3>2. Leads(V, base, G, n + 1, G[<<n + 1, x>>])
        BY <3>1, LeadsExtend
      <3>3. G[<<n + 1, x>>] \in V
        OBVIOUS
      <3> QED
        BY <3>2, <3>3
    <2> HIDE DEF A
    <2> QED
      BY <2>1, <2>2, Induction
  <1>3. Nat \subseteq U
    <2>1. 0 \in U
      BY DEF Leads
    <2>2. ASSUME NEW n \in Nat, n \in U PROVE n + 1 \in U
      <3> SUFFICES ASSUME NEW x, NEW y, Leads(V, base, G, n + 1, x), Leads(V, base, G, n + 1, y)
                   PROVE  x = y
        OBVIOUS
      <3>1. LeadsFrom(V, base, G, n, x) /\ LeadsFrom(V, base, G, n, y)
        BY LeadsStep
      <3>2. PICK v \in V : Leads(V, base, G, n, v) /\ x = G[<<n + 1, v>>]
        BY <3>1 DEF LeadsFrom
      <3>3. PICK w \in V : Leads(V, base, G, n, w) /\ y = G[<<n + 1, w>>]
        BY <3>1 DEF LeadsFrom
      <3> QED
        BY <2>2, <3>2, <3>3
    <2> HIDE DEF U
    <2> QED
      BY <2>1, <2>2, Induction
  <1> DEFINE f == [n \in Nat |-> CHOOSE x \in V : Leads(V, base, G, n, x)]
  <1>4. ASSUME NEW n \in Nat PROVE f[n] \in V /\ Leads(V, base, G, n, f[n])
    BY <1>2
  <1>5. ASSUME NEW n \in Nat, NEW x, Leads(V, base, G, n, x) PROVE f[n] = x
    BY <1>3, <1>4, <1>5
  <1>6. f \in [Nat -> V]
    BY <1>4
  <1> HIDE DEF A, U, f
  <1>7. f[0] = base
    BY <1>1, <1>5
  <1>8. ASSUME NEW n \in Nat PROVE f[n + 1] = G[<<n + 1, f[n]>>]
    <2>1. Leads(V, base, G, n + 1, G[<<n + 1, f[n]>>])
      BY <1>4, LeadsExtend
    <2> QED
      BY <1>5, <2>1
  <1> QED
    BY <1>6, <1>7, <1>8 DEF Recurs

(* A function of sets of numbers that adds one number at a time does so.   *)
LEMMA FoldValues ==
    ASSUME NEW V, NEW base \in V, NEW G \in [Nat \X V -> V], NEW n \in Nat, NEW it,
           it[{}] = base,
           \A k \in 1 .. n : it[1 .. k - 1] \in V => it[1 .. k] = G[<<k, it[1 .. k - 1]>>]
    PROVE  Leads(V, base, G, n, it[1 .. n])
  <1> DEFINE S == {k \in Nat : k <= n => it[1 .. k] \in V}
  <1>1. 1 .. 0 = {}
    OBVIOUS
  <1>2. 0 \in S
    BY <1>1
  <1>3. ASSUME NEW k \in Nat, k \in S PROVE k + 1 \in S
    <2> SUFFICES ASSUME k + 1 <= n PROVE it[1 .. k + 1] \in V
      OBVIOUS
    <2>1. k + 1 \in 1 .. n /\ (k + 1) - 1 = k /\ k + 1 \in Nat
      OBVIOUS
    <2>2. it[1 .. k] \in V
      BY <1>3
    <2>3. it[1 .. k + 1] = G[<<k + 1, it[1 .. k]>>]
      BY <2>1, <2>2
    <2> QED
      BY <2>1, <2>2, <2>3
  <1> HIDE DEF S
  <1>4. Nat \subseteq S
    BY <1>2, <1>3, Induction
  <1> DEFINE acc == [k \in 0 .. n |-> it[1 .. k]]
  <1>5. acc \in [0 .. n -> V]
    BY <1>4 DEF S
  <1>6. acc[0] = base /\ acc[n] = it[1 .. n]
    BY <1>1
  <1>7. ASSUME NEW k \in 1 .. n PROVE acc[k] = G[<<k, acc[k - 1]>>]
    <2>1. k \in 0 .. n /\ k - 1 \in 0 .. n
      OBVIOUS
    <2>2. acc[k - 1] = it[1 .. k - 1] /\ acc[k] = it[1 .. k] /\ it[1 .. k - 1] \in V
      BY <2>1, <1>5
    <2> QED
      BY <2>2
  <1> QED
    BY <1>5, <1>6, <1>7 DEF Leads

(* A sequence folded by G, one element after the other. *)
Folds(V, base, G, q, last) ==
    \E acc \in [0 .. Len(q) -> V] :
        /\ acc[0] = base
        /\ \A k \in 1 .. Len(q) : acc[k] = G[<<acc[k - 1], q[k]>>]
        /\ acc[Len(q)] = last

(* What the function inside FoldLeft does at each set of indexes. *)
Iterates(it, V, base, G, q) ==
    /\ it[{}] = base
    /\ \A s \in SUBSET DOMAIN q :
           s # {} /\ it[s \ {Max(s)}] \in V => it[s] = G[<<it[s \ {Max(s)}], q[Max(s)]>>]

LEMMA FoldIteration ==
    ASSUME NEW E, NEW V, NEW base \in V, NEW G \in [V \X E -> V], NEW q \in Seq(E)
    PROVE  \E it \in [SUBSET DOMAIN q -> V] : Iterates(it, V, base, G, q)
  <1>1. PICK n \in Nat : n = Len(q) /\ DOMAIN q = 1 .. n /\ q \in [1 .. n -> E]
    BY LenProperties
  <1> DEFINE H == [p \in Nat \X V |-> IF p[1] \in 1 .. n THEN G[<<p[2], q[p[1]]>>] ELSE base]
  <1>2. ASSUME NEW k \in 1 .. n, NEW v \in V PROVE G[<<v, q[k]>>] \in V
    BY <1>1
  <1>3. H \in [Nat \X V -> V]
    BY <1>2
  <1>4. PICK it \in [SUBSET (1 .. n) -> V] : IsFold(it, base, H, n)
    <2> HIDE DEF H
    <2>1. HasFold(V, base, H, n)
      BY <1>3, FoldExists
    <2> QED
      BY <2>1 DEF HasFold
  <1>5. it[{}] = base
    BY <1>4 DEF IsFold
  <1>6. ASSUME NEW s \in SUBSET (1 .. n), s # {}
        PROVE  it[s] = G[<<it[s \ {Max(s)}], q[Max(s)]>>]
    <2>1. Max(s) \in 1 .. n
      BY <1>6, MaxExists
    <2>2. it[s \ {Max(s)}] \in V
      OBVIOUS
    <2>3. it[s] = H[<<Max(s), it[s \ {Max(s)}]>>]
      BY <1>4, <1>6 DEF IsFold
    <2> QED
      BY <2>1, <2>2, <2>3
  <1> QED
    BY <1>1, <1>5, <1>6 DEF Iterates

LEMMA FoldResult ==
    ASSUME NEW E, NEW V, NEW base \in V, NEW G \in [V \X E -> V], NEW q \in Seq(E),
           NEW it, Iterates(it, V, base, G, q)
    PROVE  Folds(V, base, G, q, it[DOMAIN q])
  <1>1. PICK n \in Nat : n = Len(q) /\ DOMAIN q = 1 .. n /\ q \in [1 .. n -> E]
    BY LenProperties
  <1> DEFINE H == [p \in Nat \X V |-> IF p[1] \in 1 .. n THEN G[<<p[2], q[p[1]]>>] ELSE base]
  <1>2. ASSUME NEW k \in 1 .. n, NEW v \in V PROVE G[<<v, q[k]>>] \in V
    BY <1>1
  <1>3. H \in [Nat \X V -> V]
    BY <1>2
  <1>4. ASSUME NEW k \in 1 .. n, it[1 .. k - 1] \in V
        PROVE  it[1 .. k] = H[<<k, it[1 .. k - 1]>>]
    <2>1. Max(1 .. k) = k
      <3>1. k \in 1 .. k /\ 1 .. k \subseteq Int /\ \A y \in 1 .. k : k >= y
        OBVIOUS
      <3> QED
        BY <3>1, MaxIs
    <2>2. (1 .. k) \ {k} = 1 .. k - 1
      OBVIOUS
    <2>3. 1 .. k # {} /\ 1 .. k \in SUBSET (1 .. n)
      OBVIOUS
    <2>4. it[1 .. k] = G[<<it[1 .. k - 1], q[k]>>]
      BY <1>1, <1>4, <2>1, <2>2, <2>3 DEF Iterates
    <2> QED
      BY <1>4, <2>4
  <1>5. PICK acc \in [0 .. n -> V] :
            /\ acc[0] = base
            /\ \A k \in 1 .. n : acc[k] = H[<<k, acc[k - 1]>>]
            /\ acc[n] = it[1 .. n]
    <2> HIDE DEF H
    <2>1. it[{}] = base
      BY DEF Iterates
    <2>2. Leads(V, base, H, n, it[1 .. n])
      BY <2>1, <1>3, <1>4, FoldValues
    <2> QED
      BY <2>2 DEF Leads
  <1>6. ASSUME NEW k \in 1 .. n PROVE acc[k] = G[<<acc[k - 1], q[k]>>]
    <2>1. k - 1 \in 0 .. n /\ k \in Nat
      OBVIOUS
    <2>2. acc[k - 1] \in V
      BY <2>1
    <2>3. H[<<k, acc[k - 1]>>] = G[<<acc[k - 1], q[k]>>]
      BY <2>1, <2>2
    <2> QED
      BY <1>5, <2>3
  <1> QED
    BY <1>1, <1>5, <1>6 DEF Folds

LEMMA FoldsEmpty ==
    ASSUME NEW V, NEW base, NEW G, NEW last, Folds(V, base, G, <<>>, last)
    PROVE  last = base
  <1>1. Len(<<>>) = 0
    OBVIOUS
  <1> QED
    BY <1>1 DEF Folds

(* What a fold leads to when the sequence gets another element. *)
Steps(V, G, x, e, y) == x \in V /\ y = G[<<x, e>>]

LEMMA FoldsAppend ==
    ASSUME NEW E, NEW V, NEW base \in V, NEW G \in [V \X E -> V], NEW q \in Seq(E), NEW e \in E,
           NEW x, Folds(V, base, G, q, x), NEW y, Folds(V, base, G, Append(q, e), y)
    PROVE  Steps(V, G, x, e, y)
  <1> DEFINE r == Append(q, e)
  <1>1. PICK n \in Nat : n = Len(q)
    BY LenProperties
  <1>2. /\ r \in Seq(E) /\ Len(r) = n + 1 /\ n + 1 \in Nat
        /\ r[n + 1] = e /\ \A i \in 1 .. n : r[i] = q[i]
    BY <1>1, PushFacts
  <1>4. PICK a \in [0 .. n -> V] :
            a[0] = base /\ (\A k \in 1 .. n : a[k] = G[<<a[k - 1], q[k]>>]) /\ a[n] = x
    BY <1>1 DEF Folds
  <1> HIDE DEF r
  <1>5. PICK b \in [0 .. n + 1 -> V] :
            /\ b[0] = base
            /\ \A k \in 1 .. n + 1 : b[k] = G[<<b[k - 1], r[k]>>]
            /\ b[n + 1] = y
    <2>1. Folds(V, base, G, r, y)
      BY DEF r
    <2> QED
      BY <1>2, <2>1 DEF Folds
  <1> DEFINE S == {k \in Nat : k <= n => a[k] = b[k]}
  <1>6. 0 \in S
    BY <1>4, <1>5
  <1>7. ASSUME NEW k \in Nat, k \in S PROVE k + 1 \in S
    <2> SUFFICES ASSUME k + 1 <= n PROVE a[k + 1] = b[k + 1]
      OBVIOUS
    <2>1. k + 1 \in 1 .. n /\ k + 1 \in 1 .. n + 1 /\ (k + 1) - 1 = k /\ a[k] = b[k]
      BY <1>7
    <2>2. r[k + 1] = q[k + 1]
      BY <1>2, <2>1
    <2>3. a[k + 1] = G[<<a[k], q[k + 1]>>]
      BY <1>4, <2>1
    <2>4. b[k + 1] = G[<<b[k], r[k + 1]>>]
      BY <1>5, <2>1
    <2> QED
      BY <2>1, <2>2, <2>3, <2>4
  <1> HIDE DEF S
  <1>8. Nat \subseteq S
    BY <1>6, <1>7, Induction
  <1>9. a[n] = b[n]
    BY <1>1, <1>8 DEF S
  <1>10. b[n + 1] = G[<<b[n], r[n + 1]>>]
    <2>1. n + 1 \in 1 .. n + 1 /\ (n + 1) - 1 = n
      OBVIOUS
    <2> QED
      BY <1>5, <2>1
  <1>11. x \in V
    <2>1. n \in 0 .. n
      OBVIOUS
    <2> QED
      BY <1>4, <2>1
  <1> QED
    BY <1>2, <1>4, <1>5, <1>9, <1>10, <1>11 DEF Steps

(* The sum of a sequence, one element after the other. *)
SumOfTwo == [p \in Nat \X Nat |-> p[1] + p[2]]

LEMMA SumFolds ==
    ASSUME NEW q \in Seq(Nat)
    PROVE  Folds(Nat, 0, SumOfTwo, q, FoldLeft(+, 0, q))
  <1> DEFINE Fold(it) == [s \in SUBSET DOMAIN q |->
                             IF s = {} THEN 0 ELSE it[s \ {Max(s)}] + q[Max(s)]]
  <1>1. PICK n \in Nat : n = Len(q) /\ DOMAIN q = 1 .. n /\ q \in [1 .. n -> Nat]
    BY LenProperties
  <1>2. ASSUME NEW g, g = Fold(g)
        PROVE  \E it : it = Fold(it) /\ FoldLeft(+, 0, q) = it[DOMAIN q]
    BY <1>2 DEF FoldLeft, MapThenFoldSet
  <1>3. SumOfTwo \in [Nat \X Nat -> Nat] /\ 0 \in Nat
    BY DEF SumOfTwo
  <1>4. ASSUME NEW s \in SUBSET DOMAIN q, s # {}, NEW v \in Nat
        PROVE  SumOfTwo[<<v, q[Max(s)]>>] = v + q[Max(s)]
    <2>1. Max(s) \in 1 .. n
      BY <1>1, <1>4, MaxExists
    <2> QED
      BY <1>1, <2>1 DEF SumOfTwo
  <1>5. PICK g \in [SUBSET DOMAIN q -> Nat] : Iterates(g, Nat, 0, SumOfTwo, q)
    BY <1>3, FoldIteration
  <1>6. g = Fold(g)
    <2>1. ASSUME NEW s \in SUBSET DOMAIN q, s # {}
          PROVE  g[s] = g[s \ {Max(s)}] + q[Max(s)]
      <3>1. g[s \ {Max(s)}] \in Nat
        OBVIOUS
      <3> QED
        BY <1>4, <1>5, <2>1, <3>1 DEF Iterates
    <2> QED
      BY <1>5, <2>1 DEF Iterates
  <1>7. PICK it : it = Fold(it) /\ FoldLeft(+, 0, q) = it[DOMAIN q]
    BY <1>2, <1>6
  <1>8. Iterates(it, Nat, 0, SumOfTwo, q)
    <2>1. it[{}] = 0
      BY <1>7
    <2>2. ASSUME NEW s \in SUBSET DOMAIN q, s # {}, it[s \ {Max(s)}] \in Nat
          PROVE  it[s] = SumOfTwo[<<it[s \ {Max(s)}], q[Max(s)]>>]
      BY <1>4, <1>7, <2>2
    <2> QED
      BY <2>1, <2>2 DEF Iterates
  <1> HIDE DEF Fold
  <1>9. Folds(Nat, 0, SumOfTwo, q, it[DOMAIN q])
    BY <1>3, <1>8, FoldResult
  <1> QED
    BY <1>7, <1>9

LEMMA SumValues ==
    ASSUME NEW q \in Seq(Nat), NEW n \in Nat, n = Len(q)
    PROVE  \E acc \in [0 .. n -> Nat] :
               /\ acc[0] = 0
               /\ \A k \in 1 .. n : acc[k] = acc[k - 1] + q[k]
               /\ acc[n] = FoldLeft(+, 0, q)
  <1>1. PICK acc \in [0 .. n -> Nat] :
            /\ acc[0] = 0
            /\ \A k \in 1 .. n : acc[k] = SumOfTwo[<<acc[k - 1], q[k]>>]
            /\ acc[n] = FoldLeft(+, 0, q)
    BY SumFolds DEF Folds
  <1>2. ASSUME NEW k \in 1 .. n PROVE acc[k] = acc[k - 1] + q[k]
    <2>1. k - 1 \in 0 .. n /\ q[k] \in Nat
      BY LenProperties
    <2>2. acc[k - 1] \in Nat
      BY <2>1
    <2> QED
      BY <1>1, <2>1, <2>2 DEF SumOfTwo
  <1> QED
    BY <1>1, <1>2

(* The sum of a sequence that got another element. *)
LEMMA SumAppend ==
    ASSUME NEW q \in Seq(Nat), NEW x \in Nat
    PROVE  /\ FoldLeft(+, 0, <<>>) = 0
           /\ FoldLeft(+, 0, q) \in Nat
           /\ FoldLeft(+, 0, Append(q, x)) = FoldLeft(+, 0, q) + x
  <1> DEFINE none == FoldLeft(+, 0, <<>>)
             sum  == FoldLeft(+, 0, q)
             more == FoldLeft(+, 0, Append(q, x))
  <1>1. <<>> \in Seq(Nat) /\ Append(q, x) \in Seq(Nat)
    BY PushFacts
  <1>2. /\ Folds(Nat, 0, SumOfTwo, <<>>, none)
        /\ Folds(Nat, 0, SumOfTwo, q, sum)
        /\ Folds(Nat, 0, SumOfTwo, Append(q, x), more)
    BY <1>1, SumFolds
  <1>3. SumOfTwo \in [Nat \X Nat -> Nat] /\ 0 \in Nat
    BY DEF SumOfTwo
  <1> HIDE DEF none, sum, more
  <1>4. none = 0
    BY <1>2, FoldsEmpty
  <1>5. Steps(Nat, SumOfTwo, sum, x, more)
    BY <1>2, <1>3, FoldsAppend
  <1>6. sum \in Nat /\ more = sum + x
    BY <1>5 DEF SumOfTwo, Steps
  <1> QED
    BY <1>4, <1>6 DEF none, sum, more

(* One element of a sequence is another: the sum changes by the difference. *)
Balance(v, w, u, x) == v + w = u + x

LEMMA AddToBoth ==
    ASSUME NEW u \in Nat, NEW v \in Nat, NEW w \in Nat, NEW x \in Nat, NEW y \in Nat,
           Balance(v, w, u, x)
    PROVE  Balance(v + y, w, u + y, x)
  BY DEF Balance

LEMMA SumDiffers ==
    ASSUME NEW q \in Seq(Nat), NEW p \in Seq(Nat), NEW n \in Nat, n = Len(q), n = Len(p),
           NEW i \in 1 .. n, \A k \in 1 .. n : k # i => p[k] = q[k],
           NEW x \in Nat, x = p[i], NEW w \in Nat, w = q[i]
    PROVE  Balance(FoldLeft(+, 0, p), w, FoldLeft(+, 0, q), x)
  <1>1. PICK a \in [0 .. n -> Nat] :
            a[0] = 0 /\ (\A k \in 1 .. n : a[k] = a[k - 1] + q[k]) /\ a[n] = FoldLeft(+, 0, q)
    BY SumValues
  <1>2. PICK b \in [0 .. n -> Nat] :
            b[0] = 0 /\ (\A k \in 1 .. n : b[k] = b[k - 1] + p[k]) /\ b[n] = FoldLeft(+, 0, p)
    BY SumValues
  <1> DEFINE S == {k \in Nat : k <= n => /\ k < i => b[k] = a[k]
                                         /\ k >= i => b[k] + w = a[k] + x}
  <1>3. 0 \in S
    <2>1. 0 < i /\ ~ (0 >= i)
      OBVIOUS
    <2>2. b[0] = a[0]
      BY <1>1, <1>2
    <2> QED
      BY <2>1, <2>2
  <1>4. ASSUME NEW k \in Nat, k \in S PROVE k + 1 \in S
    <2> SUFFICES ASSUME k + 1 <= n
                 PROVE  /\ k + 1 < i => b[k + 1] = a[k + 1]
                        /\ k + 1 >= i => b[k + 1] + w = a[k + 1] + x
      OBVIOUS
    <2>1. (k < i => b[k] = a[k]) /\ (k >= i => b[k] + w = a[k] + x)
      BY <1>4
    <2> HIDE DEF S
    <2>2. k + 1 \in 1 .. n /\ (k + 1) - 1 = k /\ k \in 0 .. n
      OBVIOUS
    <2>3. PICK u \in Nat, v \in Nat : u = a[k] /\ v = b[k]
      BY <2>2
    <2>4. PICK y \in Nat, z \in Nat : y = q[k + 1] /\ z = p[k + 1]
      BY <2>2, ElementOfSeq
    <2>5. a[k + 1] = u + y /\ b[k + 1] = v + z
      BY <1>1, <1>2, <2>2, <2>3, <2>4
    <2>6. (k + 1 = i => y = w /\ z = x) /\ (k + 1 # i => z = y)
      BY <2>2, <2>4
    <2>7. CASE k + 1 < i
      <3>1. k < i /\ k + 1 # i
        BY <2>7
      <3>2. v = u /\ z = y
        BY <2>1, <2>3, <2>6, <3>1
      <3>3. b[k + 1] = a[k + 1]
        BY <2>5, <3>2
      <3> QED
        BY <2>7, <3>3
    <2>8. CASE k + 1 = i
      <3>1. k < i
        BY <2>8
      <3>2. v = u /\ y = w /\ z = x
        BY <2>1, <2>3, <2>6, <2>8, <3>1
      <3>3. b[k + 1] + w = a[k + 1] + x
        BY <2>5, <3>2
      <3> QED
        BY <2>8, <3>3
    <2>9. CASE k + 1 > i
      <3>1. k >= i /\ v + w = u + x /\ z = y
        BY <2>1, <2>3, <2>6, <2>9
      <3>2. Balance(v + y, w, u + y, x)
        <4>1. Balance(v, w, u, x)
          BY <3>1 DEF Balance
        <4> QED
          BY <4>1, AddToBoth
      <3>3. b[k + 1] + w = a[k + 1] + x
        BY <2>5, <3>1, <3>2 DEF Balance
      <3> QED
        BY <2>9, <3>3
    <2> QED
      BY <2>7, <2>8, <2>9
  <1> HIDE DEF S
  <1>5. Nat \subseteq S
    BY <1>3, <1>4, Induction
  <1>6. b[n] + w = a[n] + x
    <2>1. n \in S /\ n <= n /\ n >= i
      BY <1>5
    <2> QED
      BY <2>1 DEF S
  <1> QED
    BY <1>1, <1>2, <1>6 DEF Balance

(* A sum of zeros. *)
LEMMA SumOfZeros ==
    ASSUME NEW q \in Seq(Nat), \A i \in DOMAIN q : q[i] = 0
    PROVE  FoldLeft(+, 0, q) = 0
  <1>1. PICK n \in Nat : n = Len(q) /\ DOMAIN q = 1 .. n
    BY LenProperties
  <1>2. PICK a \in [0 .. n -> Nat] :
            a[0] = 0 /\ (\A k \in 1 .. n : a[k] = a[k - 1] + q[k]) /\ a[n] = FoldLeft(+, 0, q)
    BY <1>1, SumValues
  <1> DEFINE S == {k \in Nat : k <= n => a[k] = 0}
  <1>3. 0 \in S
    BY <1>2
  <1>4. ASSUME NEW k \in Nat, k \in S PROVE k + 1 \in S
    <2> SUFFICES ASSUME k + 1 <= n PROVE a[k + 1] = 0
      OBVIOUS
    <2>1. k + 1 \in 1 .. n /\ (k + 1) - 1 = k /\ a[k] = 0
      BY <1>4
    <2>2. q[k + 1] = 0
      BY <1>1, <2>1
    <2>3. a[k + 1] = a[k] + q[k + 1]
      BY <1>2, <2>1
    <2> QED
      BY <2>1, <2>2, <2>3
  <1> HIDE DEF S
  <1>5. Nat \subseteq S
    BY <1>3, <1>4, Induction
  <1>6. n \in S /\ n <= n
    BY <1>1, <1>5
  <1>7. a[n] = 0
    BY <1>6 DEF S
  <1> QED
    BY <1>2, <1>7

-----------------------------------------------------------------------------
(* A part of a sequence, given by its elements. *)
LEMMA PartIs ==
    ASSUME NEW S, NEW s \in Seq(S), NEW t \in Seq(S), NEW at \in Nat, NEW n \in Nat,
           n = Len(t), at + n <= Len(s), \A i \in 1 .. n : s[at + i] = t[i]
    PROVE  SubSeq(s, at + 1, at + n) = t
  <1> DEFINE u == SubSeq(s, at + 1, at + n)
  <1>1. PICK l \in Nat : l = Len(s) /\ at + n <= l
    BY LenProperties
  <1>2. PICK a \in Int, z \in Int : a = at + 1 /\ z = at + n
    OBVIOUS
  <1>3. (\A i \in a .. z : s[i] \in S) /\ u = SubSeq(s, a, z)
    BY <1>1, <1>2, ElementOfSeq
  <1> HIDE DEF u
  <1>4. /\ u \in Seq(S)
        /\ Len(u) = IF a <= z THEN z - a + 1 ELSE 0
        /\ \A i \in 1 .. z - a + 1 : u[i] = s[a + i - 1]
    BY <1>3, SubSeqProperties
  <1>5. Len(u) = n
    BY <1>2, <1>4
  <1>6. ASSUME NEW i \in 1 .. n PROVE u[i] = t[i]
    <2>1. i \in 1 .. z - a + 1 /\ a + i - 1 = at + i
      BY <1>2
    <2> QED
      BY <1>4, <2>1
  <1>7. u = t
    BY <1>4, <1>5, <1>6, SeqEqual
  <1> QED
    BY <1>7 DEF u

HasPart(s, at, n, a) == SubSeq(s, at + 1, at + n) = a

LEMMA PartFound ==
    ASSUME NEW S, NEW s \in Seq(S), NEW t \in Seq(S), NEW at \in Nat, NEW n \in Nat,
           n = Len(t), at + n <= Len(s), \A i \in 1 .. n : s[at + i] = t[i]
    PROVE  HasPart(s, at, n, t)
  BY PartIs DEF HasPart

(* Two ways to cut a sequence at the same place. *)
LEMMA SameFront ==
    ASSUME NEW S, NEW a \in Seq(S), NEW x \in Seq(S), NEW b \in Seq(S), NEW y \in Seq(S),
           a \o x = b \o y, Len(a) = Len(b)
    PROVE  a = b /\ x = y
  <1>1. PICK n \in Nat : n = Len(a) /\ n = Len(b)
    BY LenProperties
  <1>2. PICK m \in Nat, l \in Nat : m = Len(x) /\ l = Len(y)
    BY LenProperties
  <1> DEFINE u == a \o x
             v == b \o y
  <1>3. /\ Len(u) = n + m
        /\ \A i \in 1 .. n + m : u[i] = IF i <= n THEN a[i] ELSE x[i - n]
    BY <1>1, <1>2, ConcatProperties
  <1>4. /\ Len(v) = n + l
        /\ \A i \in 1 .. n + l : v[i] = IF i <= n THEN b[i] ELSE y[i - n]
    BY <1>1, <1>2, ConcatProperties
  <1>5. u = v
    OBVIOUS
  <1> HIDE DEF u, v
  <1>6. m = l
    BY <1>3, <1>4, <1>5
  <1>7. ASSUME NEW i \in 1 .. n PROVE a[i] = b[i]
    BY <1>3, <1>4, <1>5, <1>6
  <1>8. ASSUME NEW i \in 1 .. m PROVE x[i] = y[i]
    <2>1. n + i \in 1 .. n + m /\ ~ (n + i <= n) /\ (n + i) - n = i
      OBVIOUS
    <2> QED
      BY <1>3, <1>4, <1>5, <1>6, <2>1
  <1>9. a = b
    BY <1>1, <1>7, SeqEqual
  <1>10. x = y
    BY <1>2, <1>6, <1>8, SeqEqual
  <1> QED
    BY <1>9, <1>10

Associates(a, b, c) == (a \o b) \o c = a \o (b \o c)

LEMMA Association ==
    ASSUME NEW S, NEW a \in Seq(S), NEW b \in Seq(S), NEW c \in Seq(S)
    PROVE  Associates(a, b, c)
  BY ConcatAssociative DEF Associates

(* Two sequences joined, and four. *)
Joined(S, s, a, i, b, j) ==
    /\ s \in Seq(S) /\ Len(s) = i + j
    /\ \A n \in 1 .. i + j : s[n] = IF n <= i THEN a[n] ELSE b[n - i]

LEMMA TwoParts ==
    ASSUME NEW S, NEW a \in Seq(S), NEW b \in Seq(S), NEW i \in Nat, i = Len(a),
           NEW j \in Nat, j = Len(b), NEW s, s = a \o b
    PROVE  Joined(S, s, a, i, b, j)
  BY ConcatProperties DEF Joined

FourJoined(S, s, a, i, b, j, c, k, d, l) ==
    /\ s \in Seq(S) /\ Len(s) = i + j + k + l
    /\ SubSeq(s, 1, i) = a
    /\ SubSeq(s, i + 1, i + j) = b
    /\ SubSeq(s, i + j + 1, i + j + k) = c
    /\ SubSeq(s, i + j + k + 1, i + j + k + l) = d

LEMMA FourParts ==
    ASSUME NEW S, NEW a \in Seq(S), NEW b \in Seq(S), NEW c \in Seq(S), NEW d \in Seq(S),
           NEW i \in Nat, i = Len(a), NEW j \in Nat, j = Len(b),
           NEW k \in Nat, k = Len(c), NEW l \in Nat, l = Len(d),
           NEW s, s = a \o b \o c \o d
    PROVE  FourJoined(S, s, a, i, b, j, c, k, d, l)
  <1>1. PICK t : t = a \o b
    OBVIOUS
  <1>2. PICK u : u = t \o c
    OBVIOUS
  <1>3. s = u \o d
    BY <1>1, <1>2
  <1>4. /\ t \in Seq(S) /\ Len(t) = i + j
        /\ \A n \in 1 .. i + j : t[n] = IF n <= i THEN a[n] ELSE b[n - i]
    <2>1. Joined(S, t, a, i, b, j)
      BY <1>1, TwoParts
    <2> QED
      BY <2>1 DEF Joined
  <1>5. /\ u \in Seq(S) /\ Len(u) = i + j + k
        /\ \A n \in 1 .. i + j + k : u[n] = IF n <= i + j THEN t[n] ELSE c[n - (i + j)]
    <2>1. PICK m \in Nat : m = i + j
      OBVIOUS
    <2>2. t \in Seq(S) /\ m = Len(t)
      BY <1>4, <2>1
    <2>3. Joined(S, u, t, m, c, k)
      BY <1>2, <2>2, TwoParts
    <2> QED
      BY <2>1, <2>3 DEF Joined
  <1>6. /\ s \in Seq(S) /\ Len(s) = i + j + k + l
        /\ \A n \in 1 .. i + j + k + l :
               s[n] = IF n <= i + j + k THEN u[n] ELSE d[n - (i + j + k)]
    <2>1. PICK m \in Nat : m = i + j + k
      OBVIOUS
    <2>2. u \in Seq(S) /\ m = Len(u)
      BY <1>5, <2>1
    <2>3. Joined(S, s, u, m, d, l)
      BY <1>3, <2>2, TwoParts
    <2> QED
      BY <2>1, <2>3 DEF Joined
  <1>7. SubSeq(s, 1, i) = a
    <2>1. ASSUME NEW n \in 1 .. i PROVE s[0 + n] = a[n]
      BY <1>4, <1>5, <1>6
    <2>2. 0 \in Nat /\ 0 + i <= Len(s) /\ 0 + 1 = 1 /\ 0 + i = i
      BY <1>6
    <2>3. HasPart(s, 0, i, a)
      BY <1>6, <2>1, <2>2, PartFound
    <2> QED
      BY <2>2, <2>3 DEF HasPart
  <1>8. SubSeq(s, i + 1, i + j) = b
    <2>1. ASSUME NEW n \in 1 .. j PROVE s[i + n] = b[n]
      <3>1. i + n \in 1 .. i + j /\ ~ (i + n <= i) /\ (i + n) - i = n
        OBVIOUS
      <3> QED
        BY <1>4, <1>5, <1>6, <3>1
    <2>2. s \in Seq(S) /\ i + j <= Len(s)
      BY <1>6
    <2>3. HasPart(s, i, j, b)
      BY <2>1, <2>2, PartFound
    <2> QED
      BY <2>3 DEF HasPart
  <1>9. SubSeq(s, i + j + 1, i + j + k) = c
    <2>1. PICK m \in Nat : m = i + j
      OBVIOUS
    <2>2. ASSUME NEW n \in 1 .. k PROVE s[m + n] = c[n]
      <3>1. m + n \in 1 .. m + k /\ ~ (m + n <= m) /\ (m + n) - m = n
        OBVIOUS
      <3> QED
        BY <1>5, <1>6, <2>1, <3>1
    <2>3. s \in Seq(S) /\ m + k <= Len(s)
      BY <1>6, <2>1
    <2>4. HasPart(s, m, k, c)
      BY <2>2, <2>3, PartFound
    <2> QED
      BY <2>1, <2>4 DEF HasPart
  <1>10. SubSeq(s, i + j + k + 1, i + j + k + l) = d
    <2>1. PICK m \in Nat : m = i + j + k
      OBVIOUS
    <2>2. ASSUME NEW n \in 1 .. l PROVE s[m + n] = d[n]
      <3>1. m + n \in 1 .. m + l /\ ~ (m + n <= m) /\ (m + n) - m = n
        OBVIOUS
      <3> QED
        BY <1>6, <2>1, <3>1
    <2>3. s \in Seq(S) /\ m + l <= Len(s)
      BY <1>6, <2>1
    <2>4. HasPart(s, m, l, d)
      BY <2>2, <2>3, PartFound
    <2> QED
      BY <2>1, <2>4 DEF HasPart
  <1> QED
    BY <1>6, <1>7, <1>8, <1>9, <1>10 DEF FourJoined

(* The elements from one index to another. *)
LEMMA PartFacts ==
    ASSUME NEW S, NEW s \in Seq(S), NEW l \in Nat, l = Len(s),
           NEW k \in Nat, NEW m \in Nat, k <= m, m <= l, NEW t, t = SubSeq(s, k + 1, m)
    PROVE  t \in Seq(S) /\ Len(t) = m - k /\ \A i \in 1 .. m - k : t[i] = s[k + i]
  <1>1. PICK a \in Int : a = k + 1 /\ t = SubSeq(s, a, m)
    OBVIOUS
  <1>2. \A i \in a .. m : s[i] \in S
    BY <1>1, ElementOfSeq
  <1>3. /\ t \in Seq(S)
        /\ Len(t) = IF a <= m THEN m - a + 1 ELSE 0
        /\ \A i \in 1 .. m - a + 1 : t[i] = s[a + i - 1]
    BY <1>1, <1>2, SubSeqProperties
  <1>4. Len(t) = m - k
    BY <1>1, <1>3
  <1>5. ASSUME NEW i \in 1 .. m - k PROVE t[i] = s[k + i]
    <2>1. i \in 1 .. m - a + 1 /\ a + i - 1 = k + i
      BY <1>1
    <2> QED
      BY <1>3, <2>1
  <1> QED
    BY <1>3, <1>4, <1>5
=============================================================================
