---------------------------- MODULE Memory_proofs ----------------------------
(***************************************************************************)
(* The memory library.  The pool, for any block size, any number of blocks *)
(* (none included) and any clients: its free list is exact and it is the   *)
(* allocator that BlockAllocator promises.  The arena: under NoWrap its    *)
(* blocks are sound and its arithmetic is exact; the requests above it     *)
(* keep their blocks whatever the arithmetic does.                         *)
(***************************************************************************)
EXTENDS FixedBlockPool, ScratchMemory, SequenceLemmas, FiniteSetTheorems

-----------------------------------------------------------------------------
(* FixedBlockPool *)

(* The inductive invariant: the free list is exact, and what the pool      *)
(* marks as allocated is what the clients hold, each block once.           *)
HeldIsAllocated == \A i \in Index : allocated[i] <=> \E c \in Client : i \in held[c]
EmptyPool       == BlockSize = 0 => \A i \in Index : ~allocated[i]

PoolInv == PoolTypeOK /\ FreeListExact /\ HeldIsAllocated /\ NoSharing /\ EmptyPool

-----------------------------------------------------------------------------
(* Addresses. *)

LEMMA AddressFacts ==
    ASSUME NEW i \in Index, BlockSize # 0
    PROVE  /\ OwnsPointer(Address(i))
           /\ Address(i) % BlockSize = 0
           /\ Address(i) \div BlockSize = i
  <1>1. BlockSize \in Nat /\ BlockSize > 0 /\ BlockCount \in Nat /\ i \in Nat /\ i < BlockCount
    BY SizesAssumption DEF SizesAssumption, Index
  <1>2. i * BlockSize >= 0 /\ i * BlockSize < BlockSize * BlockCount /\ BlockSize * BlockCount # 0
    BY <1>1
  <1>3. (i * BlockSize) % BlockSize = 0
    BY <1>1
  <1>4. (i * BlockSize) \div BlockSize = i
    BY <1>1
  <1> QED
    BY <1>2, <1>3, <1>4 DEF OwnsPointer, Address, Size

LEMMA AcceptedAddress ==
    ASSUME NEW p \in Int, Accepts(p)
    PROVE  /\ BlockSize # 0
           /\ p \div BlockSize \in Index
           /\ p = Address(p \div BlockSize)
           /\ allocated[p \div BlockSize]
  <1>1. /\ BlockSize * BlockCount # 0 /\ p >= 0 /\ p < BlockSize * BlockCount
        /\ p % BlockSize = 0 /\ allocated[p \div BlockSize]
    BY DEF Accepts, OwnsPointer, Size
  <1>2. BlockSize \in Nat /\ BlockSize > 0 /\ BlockCount \in Nat /\ p \in Nat
    BY <1>1, SizesAssumption DEF SizesAssumption
  <1> DEFINE q == p \div BlockSize
  <1>3. q \in Nat
    BY <1>2
  <1>4. p = BlockSize * q
    BY <1>1, <1>2
  <1> HIDE DEF q
  <1>5. p = q * BlockSize
    BY <1>2, <1>3, <1>4
  <1>6. q < BlockCount
    BY <1>1, <1>2, <1>3, <1>5
  <1>7. q \in Index
    BY <1>2, <1>3, <1>6 DEF Index
  <1> QED
    BY <1>1, <1>2, <1>5, <1>7 DEF q, Address

-----------------------------------------------------------------------------
LEMMA PoolInvInit == PoolInit => PoolInv
  <1> SUFFICES ASSUME PoolInit PROVE PoolInv
    OBVIOUS
  <1> DEFINE n == BlockCount
             s == [k \in 1 .. n |-> n - k]
  <1>1. n \in Nat
    BY SizesAssumption DEF SizesAssumption
  <1>2. \A k \in 1 .. n : n - k \in 0 .. n - 1
    BY <1>1
  <1>3. s \in Seq(0 .. n - 1) /\ DOMAIN s = 1 .. n /\ Len(s) = n
    BY <1>1, <1>2
  <1>4. \A k \in 1 .. n : s[k] = n - k
    OBVIOUS
  <1>5. free_indices = s /\ Index = 0 .. n - 1
    BY DEF PoolInit, Index
  <1> HIDE DEF s
  <1>6. PoolTypeOK
    BY <1>1, <1>3, <1>5 DEF PoolInit, PoolTypeOK
  <1>7. \A i \in Index : \E k \in DOMAIN free_indices : free_indices[k] = i
    <2> TAKE i \in Index
    <2>1. n - i \in 1 .. n /\ n - (n - i) = i
      BY <1>1, <1>5
    <2> QED
      BY <1>3, <1>4, <1>5, <2>1
  <1>8. \A k, m \in 1 .. n : k # m => n - k # n - m
    BY <1>1
  <1>9. used_blocks + Len(free_indices) = n
    BY <1>1, <1>3, <1>5 DEF PoolInit
  <1>10. FreeListExact
    BY <1>3, <1>4, <1>5, <1>7, <1>8, <1>9 DEF PoolInit, FreeListExact
  <1>11. HeldIsAllocated /\ NoSharing /\ EmptyPool
    BY DEF PoolInit, HeldIsAllocated, NoSharing, EmptyPool
  <1> QED
    BY <1>6, <1>10, <1>11 DEF PoolInv

(* The index on top of the free list is free and leaves the list.          *)
LEMMA PopFree ==
    ASSUME PoolInv, free_indices # <<>>
    PROVE  /\ Back \in Index /\ ~allocated[Back]
           /\ WithoutBack \in Seq(Index)
           /\ Len(free_indices) \in Nat /\ Len(free_indices) > 0
           /\ Len(WithoutBack) = Len(free_indices) - 1
           /\ \A i \in Index : (~allocated[i] /\ i # Back) <=>
                  \E k \in DOMAIN WithoutBack : WithoutBack[k] = i
           /\ \A k, m \in DOMAIN WithoutBack : k # m => WithoutBack[k] # WithoutBack[m]
  <1> DEFINE s == free_indices
             t == WithoutBack
  <1>1. s \in Seq(Index)
    BY DEF PoolInv, PoolTypeOK
  <1>2. PICK n \in Nat : /\ n = Len(s) /\ n > 0 /\ DOMAIN s = 1 .. n
                         /\ DOMAIN t = 1 .. n - 1 /\ Len(t) = n - 1 /\ t \in Seq(Index)
                         /\ s[n] \in Index /\ Back = s[n]
                         /\ \A k \in 1 .. n - 1 : t[k] = s[k]
    BY <1>1, PopFacts DEF WithoutBack, Back
  <1>3. /\ \A i \in Index : ~allocated[i] <=> \E k \in 1 .. n : s[k] = i
        /\ \A k, m \in 1 .. n : k # m => s[k] # s[m]
    BY <1>2 DEF PoolInv, FreeListExact
  <1> HIDE DEF s, t
  <1>4. /\ n \in 1 .. n
        /\ \A k \in 1 .. n - 1 : k \in 1 .. n /\ k # n
        /\ \A k \in 1 .. n : k = n \/ k \in 1 .. n - 1
    BY <1>2
  <1>5. ~allocated[Back]
    BY <1>2, <1>3, <1>4
  <1>6. \A i \in Index : (~allocated[i] /\ i # Back) <=> \E k \in 1 .. n - 1 : t[k] = i
    <2>1. ASSUME NEW i \in Index, ~allocated[i], i # Back
          PROVE  \E k \in 1 .. n - 1 : t[k] = i
      <3>1. PICK k \in 1 .. n : s[k] = i
        BY <1>3, <2>1
      <3>2. k \in 1 .. n - 1
        BY <1>2, <1>4, <2>1, <3>1
      <3> QED
        BY <1>2, <3>1, <3>2
    <2>2. ASSUME NEW i \in Index, NEW k \in 1 .. n - 1, t[k] = i
          PROVE  ~allocated[i] /\ i # Back
      <3>1. k \in 1 .. n /\ k # n /\ s[k] = i
        BY <1>2, <1>4, <2>2
      <3> QED
        BY <1>2, <1>3, <1>4, <3>1
    <2> QED
      BY <2>1, <2>2
  <1>7. \A k, m \in 1 .. n - 1 : k # m => t[k] # t[m]
    BY <1>2, <1>3, <1>4
  <1> QED
    BY <1>2, <1>5, <1>6, <1>7 DEF s, t

LEMMA PoolInvAllocate ==
    ASSUME PoolInv, NEW c \in Client, AllocateBlock(c), ~CannotAllocate
    PROVE  PoolInv'
  <1>1. BlockSize # 0 /\ free_indices # <<>>
    BY DEF CannotAllocate
  <1>2. /\ free_indices' = WithoutBack
        /\ allocated' = [allocated EXCEPT ![Back] = TRUE]
        /\ used_blocks' = used_blocks + 1
        /\ peak_used_blocks' = Most(peak_used_blocks, used_blocks + 1)
        /\ held' = [held EXCEPT ![c] = @ \cup {Back}]
        /\ reply' = "block"
    BY DEF AllocateBlock
  <1>3. /\ Back \in Index /\ ~allocated[Back] /\ WithoutBack \in Seq(Index)
        /\ \A i \in Index : (~allocated[i] /\ i # Back) <=>
               \E k \in DOMAIN WithoutBack : WithoutBack[k] = i
        /\ \A k, m \in DOMAIN WithoutBack : k # m => WithoutBack[k] # WithoutBack[m]
    BY <1>1, PopFree
  <1>4. used_blocks' \in Nat /\ used_blocks' <= BlockCount /\ used_blocks' + Len(free_indices') = BlockCount
        /\ peak_used_blocks' \in Nat /\ used_blocks' <= peak_used_blocks'
    <2>1. PICK n \in Nat : n = Len(free_indices) /\ n > 0 /\ Len(WithoutBack) = n - 1
      BY <1>1, PopFree
    <2>2. used_blocks + n = BlockCount /\ used_blocks \in Nat /\ BlockCount \in Nat /\ peak_used_blocks \in Nat
      BY <2>1, SizesAssumption DEF SizesAssumption, PoolInv, FreeListExact, PoolTypeOK
    <2> QED
      BY <1>2, <2>1, <2>2 DEF Most
  <1>5. PoolTypeOK'
    BY <1>2, <1>3, <1>4 DEF PoolInv, PoolTypeOK
  <1>6. \A i \in Index : allocated'[i] <=> allocated[i] \/ i = Back
    BY <1>2, <1>3 DEF PoolInv, PoolTypeOK
  <1>7. FreeListExact'
    BY <1>2, <1>3, <1>4, <1>6 DEF FreeListExact
  <1>8. \A d \in Client : held'[d] = IF d = c THEN held[c] \cup {Back} ELSE held[d]
    BY <1>2 DEF PoolInv, PoolTypeOK
  <1>9. HeldIsAllocated'
    BY <1>6, <1>8 DEF PoolInv, HeldIsAllocated
  <1>10. \A d \in Client : Back \notin held[d]
    BY <1>3 DEF PoolInv, HeldIsAllocated
  <1>11. NoSharing'
    BY <1>8, <1>10 DEF PoolInv, NoSharing
  <1>12. EmptyPool'
    BY <1>1 DEF EmptyPool
  <1> QED
    BY <1>5, <1>7, <1>9, <1>11, <1>12 DEF PoolInv

(* A block that is given back goes on the free list, which did not hold it. *)
LEMMA PushFree ==
    ASSUME PoolInv, NEW j \in Index, allocated[j]
    PROVE  LET t == Append(free_indices, j)
           IN  /\ t \in Seq(Index)
               /\ Len(free_indices) \in Nat /\ Len(t) = Len(free_indices) + 1
               /\ \A i \in Index : (~allocated[i] \/ i = j) <=> \E k \in DOMAIN t : t[k] = i
               /\ \A k, m \in DOMAIN t : k # m => t[k] # t[m]
  <1> DEFINE s == free_indices
             t == Append(s, j)
  <1>1. s \in Seq(Index)
    BY DEF PoolInv, PoolTypeOK
  <1>2. PICK n \in Nat : /\ n = Len(s) /\ DOMAIN s = 1 .. n /\ t \in Seq(Index)
                         /\ DOMAIN t = 1 .. n + 1 /\ Len(t) = n + 1 /\ t[n + 1] = j
                         /\ \A k \in 1 .. n : t[k] = s[k]
    BY <1>1, PushFacts
  <1>3. /\ \A i \in Index : ~allocated[i] <=> \E k \in 1 .. n : s[k] = i
        /\ \A k, m \in 1 .. n : k # m => s[k] # s[m]
    BY <1>2 DEF PoolInv, FreeListExact
  <1> HIDE DEF s, t
  <1>4. /\ n + 1 \in 1 .. n + 1
        /\ \A k \in 1 .. n : k \in 1 .. n + 1 /\ k # n + 1
        /\ \A k \in 1 .. n + 1 : k = n + 1 \/ k \in 1 .. n
    BY <1>2
  <1>5. \A k \in 1 .. n : s[k] # j
    BY <1>3
  <1>6. \A i \in Index : (~allocated[i] \/ i = j) <=> \E k \in 1 .. n + 1 : t[k] = i
    BY <1>2, <1>3, <1>4
  <1>7. \A k, m \in 1 .. n + 1 : k # m => t[k] # t[m]
    BY <1>2, <1>3, <1>4, <1>5
  <1> QED
    BY <1>2, <1>6, <1>7 DEF s, t

(* What a client holds is accepted, and nothing else is.                   *)
LEMMA HeldIsAccepted ==
    ASSUME PoolInv, NEW c \in Client, NEW j \in held[c]
    PROVE  /\ j \in Index /\ allocated[j] /\ BlockSize # 0
           /\ Accepts(Address(j)) /\ Address(j) \div BlockSize = j
  <1>1. j \in Index
    BY DEF PoolInv, PoolTypeOK
  <1>2. allocated[j]
    BY <1>1 DEF PoolInv, HeldIsAllocated
  <1>3. BlockSize # 0
    BY <1>1, <1>2 DEF PoolInv, EmptyPool
  <1> QED
    BY <1>1, <1>2, <1>3, AddressFacts DEF Accepts

LEMMA StrayIsRefused ==
    ASSUME PoolInv, NEW p \in Int, \A c \in Client : \A i \in held[c] : p # Address(i)
    PROVE  ~Accepts(p)
  <1> SUFFICES ASSUME Accepts(p) PROVE FALSE
    OBVIOUS
  <1>1. PICK j \in Index : p = Address(j) /\ allocated[j]
    BY AcceptedAddress
  <1>2. PICK c \in Client : j \in held[c]
    BY <1>1 DEF PoolInv, HeldIsAllocated
  <1> QED
    BY <1>1, <1>2

LEMMA CardinalityOfInterval ==
    ASSUME NEW a \in Int, NEW b \in Int, a <= b + 1
    PROVE  IsFiniteSet(a .. b) /\ Cardinality(a .. b) = b - a + 1
  <1>1. IsFiniteSet(a .. b) /\ Cardinality(a .. b) = IF a > b THEN 0 ELSE b - a + 1
    BY FS_Interval
  <1>2. a > b => b - a + 1 = 0
    OBVIOUS
  <1> QED
    BY <1>1, <1>2

(* While a block is allocated the free list is not full: it holds no index *)
(* twice, so it would need more indices than there are.                    *)
LEMMA FreeListShort ==
    ASSUME PoolInv, NEW j \in Index, allocated[j]
    PROVE  Len(free_indices) < BlockCount
  <1> DEFINE s == free_indices
             T == Index \ {j}
  <1>1. s \in Seq(Index) /\ BlockCount \in Nat
    BY SizesAssumption DEF SizesAssumption, PoolInv, PoolTypeOK
  <1>2. PICK n \in Nat : n = Len(s) /\ DOMAIN s = 1 .. n /\ s \in [1 .. n -> Index]
    BY <1>1, LenProperties
  <1>3. /\ \A k \in 1 .. n : s[k] # j
        /\ \A k, m \in 1 .. n : k # m => s[k] # s[m]
    BY <1>2 DEF PoolInv, FreeListExact
  <1>4. s \in [1 .. n -> T]
    BY <1>2, <1>3
  <1>5. IsFiniteSet(T) /\ Cardinality(T) = BlockCount - 1
    <2>1. IsFiniteSet(Index) /\ Cardinality(Index) = BlockCount
      <3> DEFINE b == BlockCount - 1
      <3>1. b \in Int /\ 0 <= b + 1 /\ b - 0 + 1 = BlockCount
        BY <1>1
      <3> HIDE DEF b
      <3>2. IsFiniteSet(0 .. b) /\ Cardinality(0 .. b) = b - 0 + 1
        BY <3>1, CardinalityOfInterval
      <3> QED
        BY <3>1, <3>2 DEF Index, b
    <2> QED
      BY <2>1, FS_RemoveElement
  <1>6. IsFiniteSet(1 .. n) /\ Cardinality(1 .. n) = n
    <2>1. n \in Int /\ 1 \in Int /\ 1 <= n + 1 /\ n - 1 + 1 = n
      BY <1>2
    <2>2. IsFiniteSet(1 .. n) /\ Cardinality(1 .. n) = n - 1 + 1
      BY <2>1, CardinalityOfInterval
    <2> QED
      BY <2>1, <2>2
  <1>7. ~(Cardinality(T) < Cardinality(1 .. n))
    BY <1>3, <1>4, <1>5, <1>6, FS_PigeonHole
  <1> QED
    BY <1>1, <1>2, <1>5, <1>6, <1>7

\* The counters after a block was given back.
LEMMA OneFewer ==
    ASSUME NEW used \in Nat, NEW free \in Nat, NEW peak \in Nat, NEW count \in Nat,
           used # 0, used + free = count, used <= peak
    PROVE  /\ used - 1 \in Nat /\ used - 1 <= count
           /\ used - 1 + (free + 1) = count
           /\ used - 1 <= peak
  OBVIOUS

LEMMA PoolInvFree ==
    ASSUME PoolInv, NEW c \in Client, NEW j \in held[c], FreeBlock(Address(j)),
           held' = [held EXCEPT ![c] = @ \ {j}]
    PROVE  PoolInv'
  <1>1. /\ j \in Index /\ allocated[j] /\ BlockSize # 0
        /\ Accepts(Address(j)) /\ Address(j) \div BlockSize = j
    BY HeldIsAccepted
  <1>2. /\ allocated' = [allocated EXCEPT ![j] = FALSE]
        /\ free_indices' = Append(free_indices, j)
        /\ used_blocks' = used_blocks - 1
        /\ peak_used_blocks' = peak_used_blocks
        /\ reply' = "freed"
    BY <1>1 DEF FreeBlock
  <1>3. /\ free_indices' \in Seq(Index)
        /\ \A i \in Index : (~allocated[i] \/ i = j) <=>
               \E k \in DOMAIN free_indices' : free_indices'[k] = i
        /\ \A k, m \in DOMAIN free_indices' : k # m => free_indices'[k] # free_indices'[m]
    BY <1>1, <1>2, PushFree
  <1>4. /\ used_blocks' \in Nat /\ used_blocks' <= BlockCount
        /\ used_blocks' + Len(free_indices') = BlockCount
        /\ peak_used_blocks' \in Nat /\ used_blocks' <= peak_used_blocks'
    <2>1. PICK n \in Nat : n = Len(free_indices) /\ Len(free_indices') = n + 1
      BY <1>1, <1>2, PushFree
    <2>2. used_blocks + n = BlockCount /\ used_blocks \in Nat /\ BlockCount \in Nat
          /\ peak_used_blocks \in Nat /\ used_blocks <= peak_used_blocks
      BY <2>1, SizesAssumption DEF SizesAssumption, PoolInv, FreeListExact, PoolTypeOK
    <2>3. used_blocks # 0
      <3>1. PICK k \in DOMAIN free_indices' : free_indices'[k] = j
        BY <1>1, <1>3
      <3>2. n < BlockCount
        BY <1>1, <2>1, FreeListShort
      <3> QED
        BY <2>2, <3>2
    <2>4. /\ used_blocks - 1 \in Nat /\ used_blocks - 1 <= BlockCount
          /\ used_blocks - 1 + (n + 1) = BlockCount
          /\ used_blocks - 1 <= peak_used_blocks
      BY <2>2, <2>3, OneFewer
    <2>5. used_blocks' = used_blocks - 1 /\ peak_used_blocks' = peak_used_blocks
      BY <1>2
    <2> QED
      BY <2>1, <2>2, <2>4, <2>5, Zenon
  <1>5. PoolTypeOK'
    BY <1>2, <1>3, <1>4 DEF PoolInv, PoolTypeOK
  <1>6. \A i \in Index : allocated'[i] <=> allocated[i] /\ i # j
    BY <1>1, <1>2 DEF PoolInv, PoolTypeOK
  <1>7. FreeListExact'
    BY <1>3, <1>4, <1>6 DEF FreeListExact
  <1>8. \A d \in Client : held'[d] = IF d = c THEN held[c] \ {j} ELSE held[d]
    BY DEF PoolInv, PoolTypeOK
  <1>9. \A d \in Client : d # c => j \notin held[d]
    BY DEF PoolInv, NoSharing
  <1>10. HeldIsAllocated'
    BY <1>6, <1>8, <1>9 DEF PoolInv, HeldIsAllocated
  <1>11. NoSharing'
    BY <1>8 DEF PoolInv, NoSharing
  <1>12. EmptyPool'
    BY <1>1 DEF EmptyPool
  <1> QED
    BY <1>5, <1>7, <1>10, <1>11, <1>12 DEF PoolInv

LEMMA PoolInvNext == PoolInv /\ [PoolNext]_poolVars => PoolInv'
  <1> SUFFICES ASSUME PoolInv, [PoolNext]_poolVars PROVE PoolInv'
    OBVIOUS
  <1>1. CASE UNCHANGED <<free_indices, allocated, used_blocks, peak_used_blocks, held>>
             /\ reply' \in {"null", "refused", reply}
    BY <1>1 DEF PoolInv, PoolTypeOK, FreeListExact, HeldIsAllocated, NoSharing, EmptyPool
  <1>2. ASSUME NEW c \in Client, AllocateBlock(c) PROVE PoolInv'
    BY <1>1, <1>2, PoolInvAllocate DEF AllocateBlock
  <1>3. ASSUME NEW c \in Client, Free(c) PROVE PoolInv'
    BY <1>3, PoolInvFree DEF Free
  <1>4. ASSUME NEW p \in Pointer, FreeStray(p) PROVE PoolInv'
    <2>1. p \in Int
      BY SizesAssumption DEF SizesAssumption, Pointer, Size
    <2>2. ~Accepts(p)
      BY <1>4, <2>1, StrayIsRefused DEF FreeStray
    <2> QED
      BY <1>1, <1>4, <2>2 DEF FreeStray, FreeBlock
  <1>5. CASE UNCHANGED poolVars
    BY <1>1, <1>5 DEF poolVars
  <1> QED
    BY <1>2, <1>3, <1>4, <1>5 DEF PoolNext

(* The free list, the flags and the counter agree, and no two clients hold *)
(* the same block, however the clients interleave their calls.             *)
THEOREM FreeListCorrect == PoolSpec => [](PoolTypeOK /\ FreeListExact /\ NoSharing)
  <1>1. PoolInv => PoolTypeOK /\ FreeListExact /\ NoSharing
    BY DEF PoolInv
  <1> QED
    BY <1>1, PoolInvInit, PoolInvNext, PTL DEF PoolSpec

-----------------------------------------------------------------------------
(* The pool implements BlockAllocator. *)

Blocks == IF BlockSize = 0 THEN {} ELSE Index

LEMMA HeldBlocks ==
    ASSUME PoolInv
    PROVE  /\ Allocator!Held \subseteq Blocks
           /\ \A i \in Index : allocated[i] <=> i \in Allocator!Held
  <1>1. \A i \in Index : allocated[i] <=> i \in Allocator!Held
    BY DEF PoolInv, HeldIsAllocated, Allocator!Held
  <1>2. Allocator!Held \subseteq Index
    BY DEF PoolInv, PoolTypeOK, Allocator!Held
  <1>3. BlockSize = 0 => Allocator!Held = {}
    BY <1>1, <1>2 DEF PoolInv, EmptyPool
  <1> QED
    BY <1>1, <1>2, <1>3 DEF Blocks

LEMMA PoolStepAllocate ==
    ASSUME PoolInv, NEW c \in Client, AllocateBlock(c)
    PROVE  Allocator!Allocate(c)
  <1>1. CASE CannotAllocate
    <2>1. BlockSize = 0 \/ \A i \in Index : allocated[i]
      <3>1. CASE BlockCount = 0
        BY <3>1 DEF Index
      <3>2. CASE free_indices = <<>>
        BY <3>2 DEF PoolInv, FreeListExact
      <3> QED
        BY <1>1, <3>1, <3>2 DEF CannotAllocate
    <2>2. Allocator!Held = Blocks
      BY <2>1, HeldBlocks DEF Blocks
    <2>3. reply' = "null" /\ UNCHANGED held
      BY <1>1 DEF AllocateBlock
    <2> QED
      BY <2>2, <2>3 DEF Allocator!Allocate, Blocks
  <1>2. CASE ~CannotAllocate
    <2>1. BlockSize # 0 /\ Back \in Index /\ ~allocated[Back]
      BY <1>2, PopFree DEF CannotAllocate
    <2>2. Back \in Blocks \ Allocator!Held
      BY <2>1, HeldBlocks DEF Blocks
    <2>3. held' = [held EXCEPT ![c] = @ \cup {Back}] /\ reply' = "block"
      BY <1>2 DEF AllocateBlock
    <2> QED
      BY <2>2, <2>3 DEF Allocator!Allocate, Blocks
  <1> QED
    BY <1>1, <1>2

(* Every step of the pool is a step of BlockAllocator: the free list is a  *)
(* correct way to know which blocks are held.                              *)
THEOREM ImplementsAllocator == PoolSpec => IsAllocator
  <1>1. PoolInit => Allocator!Init
    BY DEF PoolInit, Allocator!Init
  <1>2. ASSUME PoolInv, [PoolNext]_poolVars PROVE [Allocator!Next]_(Allocator!vars)
    <2>1. ASSUME NEW c \in Client, AllocateBlock(c) PROVE Allocator!Next
      BY <1>2, <2>1, PoolStepAllocate DEF Allocator!Next
    <2>2. ASSUME NEW c \in Client, Free(c) PROVE Allocator!Next
      <3>1. PICK j \in held[c] : FreeBlock(Address(j)) /\ held' = [held EXCEPT ![c] = @ \ {j}]
        BY <2>2 DEF Free
      <3>2. reply' = "freed"
        BY <1>2, <3>1, HeldIsAccepted DEF FreeBlock
      <3> QED
        BY <3>1, <3>2 DEF Allocator!Next, Allocator!Free
    <2>3. ASSUME NEW p \in Pointer, FreeStray(p) PROVE Allocator!Next
      <3>1. p \in Int
        BY SizesAssumption DEF SizesAssumption, Pointer, Size
      <3>2. ~Accepts(p)
        BY <1>2, <2>3, <3>1, StrayIsRefused DEF FreeStray
      <3> QED
        BY <2>3, <3>2 DEF FreeStray, FreeBlock, Allocator!Next, Allocator!Refuse
    <2>4. CASE UNCHANGED poolVars
      BY <2>4 DEF poolVars, Allocator!vars
    <2> QED
      BY <1>2, <2>1, <2>2, <2>3, <2>4 DEF PoolNext
  <1> QED
    BY <1>1, <1>2, PoolInvInit, PoolInvNext, PTL DEF PoolSpec, IsAllocator, Allocator!Spec

(* Whatever pointers are given back, the free list holds indices of        *)
(* blocks, the counter is never below zero nor above the number of blocks, *)
(* and the peak never below the counter (FixedBlockPool.cpp:23-67).        *)
THEOREM PoolTypeCorrect == PoolSpec => []PoolTypeOK
  <1>1. PoolInv => PoolTypeOK
    BY DEF PoolInv
  <1> QED
    BY <1>1, PoolInvInit, PoolInvNext, PTL DEF PoolSpec

-----------------------------------------------------------------------------
(* MemoryArena and ScratchMemory *)

(* Rounding x + a - 1 down to a multiple of a gives the first multiple of  *)
(* a that is not below x.                                                  *)
LEMMA FirstMultiple ==
    ASSUME NEW a \in Nat, a > 0, NEW x \in Nat
    PROVE  LET y == a * ((x + a - 1) \div a)
           IN  /\ y \in Nat /\ x <= y /\ y <= x + a - 1
               /\ y % a = 0
               /\ \A p \in Nat : p % a = 0 /\ x <= p => y <= p
<1> DEFINE q == (x + a - 1) \div a
<1>1. q \in Nat /\ a * q <= x + a - 1 /\ x + a - 1 < a * q + a
  BY SMT
<1>2. a * q \in Nat /\ (a * q) % a = 0
  BY <1>1, SMT
<1>3. ASSUME NEW p \in Nat, p % a = 0, x <= p PROVE a * q <= p
  <2>1. p = a * (p \div a) /\ p \div a \in Nat
    BY <1>3, SMT
  <2>2. PICK m \in Nat : m = p \div a
    BY <2>1
  <2> HIDE DEF q
  <2>3. CASE m < q
    <3>1. a * m <= a * (q - 1)
      BY <1>1, <2>3, SMT
    <3>2. a * (q - 1) = a * q - a
      BY <1>1, SMT
    <3> QED
      BY <3>1, <3>2, <2>1, <2>2, <1>1, <1>3, SMT
  <2>4. CASE m >= q
    BY <2>4, <2>1, <2>2, <1>1, SMT
  <2> QED
    BY <2>3, <2>4, <1>1, SMT
<1> QED
  BY <1>1, <1>2, <1>3, SMT DEF q

(* Nothing wraps on the way to the block of a request.                     *)
LEMMA ExactArithmetic ==
    ASSUME TypeOK, NoWrap,
           NEW size \in Sizes, NEW alignment \in Alignments, alignment # 0
    PROVE  /\ Current = buffer + offset
           /\ Aligned(alignment) \in Nat
           /\ Current <= Aligned(alignment)
           /\ Aligned(alignment) % alignment = 0
           /\ \A p \in Nat : p % alignment = 0 /\ Current <= p => Aligned(alignment) <= p
           /\ NewOffset(size, alignment) = Aligned(alignment) + size - buffer
           /\ buffer \in Nat /\ offset \in Nat /\ Capacity \in Nat
           /\ size \in Nat /\ alignment \in Nat /\ alignment > 0
<1>1. /\ buffer \in Nat /\ offset \in Nat /\ Capacity \in Nat /\ offset <= Capacity
      /\ size \in Nat /\ alignment \in Nat /\ alignment > 0
      /\ Modulus \in Nat /\ Modulus > 0
      /\ buffer + Capacity + alignment <= Modulus
      /\ Capacity + alignment + size <= Modulus
  BY WordsAssumption DEF TypeOK, NoWrap
<1>2. \A w \in Nat : w < Modulus => w % Modulus = w
  BY <1>1, SMT
<1>3. Current = buffer + offset
  BY <1>1, <1>2 DEF Current, Word
<1> DEFINE x == buffer + offset
<1>4. x \in Nat /\ x + alignment - 1 < Modulus /\ x + alignment - 1 \in Nat
  BY <1>1
<1>5. Aligned(alignment) = alignment * ((x + alignment - 1) \div alignment)
  <2>1. (x + alignment - 1) % Modulus = x + alignment - 1
    BY <1>2, <1>4
  <2> QED
    BY <2>1, <1>3 DEF Aligned, Word, RoundDown
<1>6. /\ Aligned(alignment) \in Nat /\ x <= Aligned(alignment)
      /\ Aligned(alignment) <= x + alignment - 1
      /\ Aligned(alignment) % alignment = 0
      /\ \A p \in Nat : p % alignment = 0 /\ x <= p => Aligned(alignment) <= p
  <2> HIDE DEF x
  <2> QED
    BY <1>1, <1>4, <1>5, FirstMultiple
<1>7. NewOffset(size, alignment) = Aligned(alignment) + size - buffer
  <2> DEFINE y == Aligned(alignment)
  <2>1. y \in Nat /\ x <= y /\ y <= x + alignment - 1
    BY <1>6
  <2> HIDE DEF y
  <2>2. (y - x) % Modulus = y - x
    BY <2>1, <1>1, <1>2, <1>4, SMT
  <2>3. offset + (y - x) + size \in Nat /\ offset + (y - x) + size < Modulus
    BY <2>1, <1>1
  <2>4. (offset + (y - x) + size) % Modulus = offset + (y - x) + size
    BY <2>3, <1>2
  <2>5. NewOffset(size, alignment) = (offset + ((y - x) % Modulus) + size) % Modulus
    BY <1>3 DEF NewOffset, Word, y
  <2>6. NewOffset(size, alignment) = offset + (y - x) + size
    BY <2>5, <2>2, <2>4
  <2> QED
    BY <2>6, <2>1, <1>1 DEF y
<1> QED
  BY <1>1, <1>3, <1>6, <1>7

Inv == TypeOK /\ BlocksSound

LEMMA InvInit == Init => Inv
  BY WordsAssumption DEF Init, Inv, TypeOK, BlocksSound

(* A granted block begins past all the others and ends at the new offset.  *)
LEMMA InvAllocate ==
    ASSUME Inv, NoWrap, NEW size \in Sizes, NEW alignment \in Alignments,
           Allocate(size, alignment)
    PROVE  Inv'
<1>1. CASE ~Grants(size, alignment)
  BY <1>1 DEF Allocate, Inv, TypeOK, BlocksSound, End
<1>2. CASE Grants(size, alignment)
  <2> DEFINE at == Aligned(alignment)
             new == NewOffset(size, alignment)
             b0 == [at |-> at, size |-> size, alignment |-> alignment]
  <2>1. alignment # 0 /\ new <= Capacity
    BY <1>2 DEF Grants, Valid
  <2>2. /\ at \in Nat /\ buffer + offset <= at /\ at % alignment = 0
        /\ new = at + size - buffer
        /\ buffer \in Nat /\ offset \in Nat /\ Capacity \in Nat
        /\ size \in Nat /\ alignment \in Nat /\ alignment > 0
    BY <2>1, ExactArithmetic DEF Inv
  <2>3. /\ offset' = new /\ buffer' = buffer
        /\ peak_used' = IF peak_used < new THEN new ELSE peak_used
        /\ blocks' = blocks \cup {b0}
    BY <1>2 DEF Allocate
  <2> HIDE DEF at, new
  <2>4. new \in Nat /\ offset <= new /\ buffer + new = at + size
    BY <2>2
  <2>5. TypeOK'
    <3>1. b0 \in Block
      BY <2>2 DEF Block
    <3>2. peak_used' \in offset' .. Capacity
      BY <2>1, <2>2, <2>3, <2>4 DEF Inv, TypeOK
    <3> QED
      BY <3>1, <3>2, <2>1, <2>2, <2>3, <2>4 DEF Inv, TypeOK
  <2>6. BlocksSound'
    <3>1. ASSUME NEW b \in blocks
          PROVE  /\ b.at \in Nat /\ b.size \in Nat /\ buffer <= b.at
                 /\ b.at + b.size <= buffer + offset /\ b.at % b.alignment = 0
      BY <3>1 DEF Inv, TypeOK, BlocksSound, Block, End
    <3>2. \A b \in blocks' : /\ buffer <= b.at /\ b.at + b.size <= buffer + new
                             /\ b.at % b.alignment = 0
      <4>1. \A b \in blocks : /\ buffer <= b.at /\ b.at + b.size <= buffer + new
                              /\ b.at % b.alignment = 0
        BY <3>1, <2>2, <2>4
      <4>2. buffer <= b0.at /\ b0.at + b0.size <= buffer + new /\ b0.at % b0.alignment = 0
        BY <2>2, <2>4
      <4> QED
        BY <4>1, <4>2, <2>3
    <3>3. \A b \in blocks : b.at + b.size <= b0.at
      BY <3>1, <2>2
    <3>4. \A b, c \in blocks' : b = c \/ b.at + b.size <= c.at \/ c.at + c.size <= b.at
      BY <3>3, <2>3 DEF Inv, BlocksSound, End
    <3> QED
      BY <3>2, <3>4, <2>3 DEF BlocksSound, End
  <2> QED
    BY <2>5, <2>6 DEF Inv
<1> QED
  BY <1>1, <1>2

LEMMA InvNext == NoWrap /\ Inv /\ [Next]_vars => Inv'
<1> SUFFICES ASSUME NoWrap, Inv, [Next]_vars PROVE Inv'
  OBVIOUS
<1>1. CASE Reset
  BY <1>1, WordsAssumption DEF Reset, Inv, TypeOK, BlocksSound, Block
<1>2. CASE \E size \in Sizes, alignment \in Alignments : Allocate(size, alignment)
  BY <1>2, InvAllocate
<1>3. CASE UNCHANGED vars
  BY <1>3 DEF vars, Inv, TypeOK, BlocksSound, End
<1> QED
  BY <1>1, <1>2, <1>3 DEF Next

(* The blocks live since the last reset are inside the buffer, aligned and *)
(* disjoint, for any word width, buffer, capacity and requests that keep   *)
(* the contract (MemoryArena::allocate and reset).                         *)
THEOREM BlocksAreSound == ASSUME NoWrap PROVE Spec => [](TypeOK /\ BlocksSound)
<1>1. Inv /\ [Next]_vars => Inv'
  BY InvNext
<1>2. Spec => []Inv
  BY <1>1, InvInit, PTL DEF Spec
<1> QED
  BY <1>2, PTL DEF Inv

LEMMA FitsFirst == NoWrap /\ TypeOK => FirstFit
<1> SUFFICES ASSUME NoWrap, TypeOK,
                    NEW size \in Sizes, NEW alignment \in Alignments, Valid(size, alignment)
             PROVE  /\ Grants(size, alignment) <=> Places(size, alignment) # {}
                    /\ Grants(size, alignment) =>
                         /\ Aligned(alignment) \in Places(size, alignment)
                         /\ \A p \in Places(size, alignment) : Aligned(alignment) <= p
                         /\ NewOffset(size, alignment) = Aligned(alignment) + size - buffer
  BY DEF FirstFit
<1> DEFINE at == Aligned(alignment)
           new == NewOffset(size, alignment)
<1>1. /\ at \in Nat /\ buffer + offset <= at /\ at % alignment = 0
      /\ \A p \in Nat : p % alignment = 0 /\ buffer + offset <= p => at <= p
      /\ new = at + size - buffer
      /\ buffer \in Nat /\ offset \in Nat /\ Capacity \in Nat
      /\ size \in Nat /\ alignment \in Nat /\ alignment > 0
  BY ExactArithmetic DEF Valid
<1>2. Grants(size, alignment) <=> new <= Capacity
  BY DEF Grants
<1> HIDE DEF at, new
<1>3. \A p \in Places(size, alignment) :
          /\ p \in Nat /\ at <= p /\ p + size <= buffer + Capacity
  BY <1>1 DEF Places
<1>4. ASSUME new <= Capacity PROVE at \in Places(size, alignment)
  BY <1>4, <1>1 DEF Places
<1>5. ASSUME NEW p \in Places(size, alignment) PROVE new <= Capacity
  BY <1>1, <1>3
<1> QED
  BY <1>1, <1>2, <1>3, <1>4, <1>5 DEF at, new

(* The arena refuses a valid request only when no aligned place is left,   *)
(* and otherwise takes the first one (MemoryArena::allocate).              *)
THEOREM AlwaysFirstFit == ASSUME NoWrap PROVE Spec => []FirstFit
<1>1. Inv /\ [Next]_vars => Inv'
  BY InvNext
<1>2. Inv => FirstFit
  BY FitsFirst DEF Inv
<1> QED
  BY <1>1, <1>2, InvInit, PTL DEF Spec

-----------------------------------------------------------------------------
(* The requests above the arena. *)

(* Every step of the requests is one of the arena, or leaves it alone.     *)
LEMMA RequestStep == [RequestNext]_<<vars, requests>> => [Next]_vars
  BY DEF RequestNext, AllocateScratch, Generate, Return, Throw, Next

(* With the requests on top, too, the arena is what MemoryArena says, so   *)
(* its theorems are about it (MemoryManager::reset_scratch_memory).        *)
THEOREM RequestsUseArena == RequestSpec => Spec
  BY RequestStep, PTL DEF RequestSpec, RequestInit, Spec

LEMMA TypeNext == TypeOK /\ [Next]_vars => TypeOK'
  <1> SUFFICES ASSUME TypeOK, [Next]_vars PROVE TypeOK'
    OBVIOUS
  <1>1. ASSUME NEW size \in Sizes, NEW alignment \in Alignments, Allocate(size, alignment)
        PROVE  TypeOK'
    <2>1. CASE ~Grants(size, alignment)
      BY <1>1, <2>1 DEF Allocate, TypeOK
    <2>2. CASE Grants(size, alignment)
      <3> DEFINE at == Aligned(alignment)
                 new == NewOffset(size, alignment)
                 b0 == [at |-> at, size |-> size, alignment |-> alignment]
      <3>1. /\ Modulus \in Nat /\ Modulus > 0 /\ size \in Nat /\ alignment \in Nat
            /\ alignment > 0 /\ Capacity \in Nat /\ buffer \in Nat
        BY <2>2, WordsAssumption DEF TypeOK, Grants, Valid
      <3>2. \A x \in Int : Word(x) \in Nat
        BY <3>1 DEF Word
      <3>3. /\ offset \in Nat /\ Current \in Nat
            /\ Word(Current + alignment - 1) \in Nat
        BY <3>1, <3>2 DEF TypeOK, Current
      <3>4. at \in Nat
        BY <3>1, <3>3 DEF Aligned, RoundDown
      <3>5. new \in 0 .. Capacity
        <4> HIDE DEF at
        <4>1. Word(at - Current) \in Nat
          BY <3>2, <3>3, <3>4
        <4>2. offset + Word(at - Current) + size \in Int
          BY <3>1, <3>3, <4>1
        <4>3. new \in Nat
          BY <3>2, <4>2 DEF NewOffset, at
        <4> QED
          BY <2>2, <3>1, <4>3 DEF Grants
      <3>6. b0 \in Block
        BY <3>1, <3>4 DEF Block
      <3>7. /\ offset' = new /\ buffer' = buffer /\ blocks' = blocks \cup {b0}
            /\ peak_used' = IF peak_used < new THEN new ELSE peak_used
        BY <1>1, <2>2 DEF Allocate
      <3> HIDE DEF new, b0
      <3>8. peak_used' \in new .. Capacity
        BY <3>1, <3>5, <3>7 DEF TypeOK
      <3> QED
        BY <3>5, <3>6, <3>7, <3>8 DEF TypeOK
    <2> QED
      BY <2>1, <2>2
  <1>2. CASE Reset
    BY <1>2, WordsAssumption DEF Reset, TypeOK
  <1>3. CASE UNCHANGED vars
    BY <1>3 DEF vars, TypeOK
  <1> QED
    BY <1>1, <1>2, <1>3 DEF Next

(* Even where sums wrap, the offset and the peak never leave the buffer,   *)
(* and the peak is never below the offset (MemoryArena.cpp:12-58).         *)
THEOREM TypeCorrect == RequestSpec => []TypeOK
  <1>1. RequestInit => TypeOK
    BY WordsAssumption DEF RequestInit, Init, TypeOK
  <1>2. TypeOK /\ [RequestNext]_<<vars, requests>> => TypeOK'
    BY RequestStep, TypeNext
  <1> QED
    BY <1>1, <1>2, PTL DEF RequestSpec

(* Each block belongs to the request that took it, and to no other.        *)
Own(r, taken) ==
    /\ r \in Seq(SUBSET taken)
    /\ \A i, j \in DOMAIN r : i # j => r[i] \cap r[j] = {}

Apart == Own(requests, blocks)

Kept ==
    \A i \in DOMAIN requests \cap DOMAIN requests' :
        \/ /\ requests[i] \subseteq requests'[i] /\ requests'[i] \subseteq blocks'
           /\ \A j \in DOMAIN requests' : i # j => requests'[i] \cap requests'[j] = {}
        \/ Len(requests') < Len(requests) /\ requests'[i] = {}

LEMMA ScratchKept ==
    ASSUME Apart, NEW size \in Sizes, NEW alignment \in Alignments,
           AllocateScratch(size, alignment)
    PROVE  Apart' /\ Kept
  <1>1. PICK n \in Nat : n = Len(requests) /\ n > 0 /\ DOMAIN requests = 1 .. n
    BY PopFacts DEF Apart, Own, AllocateScratch
  <1>2. blocks \subseteq blocks'
    BY DEF AllocateScratch, Allocate
  <1> DEFINE fresh == blocks' \ blocks
  <1>3. /\ requests' = [requests EXCEPT ![n] = @ \cup fresh]
        /\ requests \in Seq(SUBSET blocks)
        /\ \A i, j \in DOMAIN requests : i # j => requests[i] \cap requests[j] = {}
    BY <1>1 DEF AllocateScratch, Apart, Own
  <1>4. \A i \in 1 .. n : requests[i] \subseteq blocks
    BY <1>1, <1>3, ElementOfSeq
  <1>5. fresh \cap blocks = {} /\ fresh \subseteq blocks'
    OBVIOUS
  <1> HIDE DEF fresh
  <1>6. /\ DOMAIN requests' = 1 .. n
        /\ \A i \in 1 .. n : requests'[i] = IF i = n THEN requests[n] \cup fresh ELSE requests[i]
    BY <1>1, <1>3
  <1>7. \A i \in 1 .. n : requests'[i] \in SUBSET blocks' /\ requests[i] \subseteq requests'[i]
    BY <1>2, <1>4, <1>5, <1>6
  <1>8. \A i, j \in 1 .. n : i # j => requests'[i] \cap requests'[j] = {}
    <2> SUFFICES ASSUME NEW i \in 1 .. n, NEW j \in 1 .. n, i # j
                 PROVE  requests'[i] \cap requests'[j] = {}
      OBVIOUS
    <2>1. requests[i] \cap requests[j] = {} /\ n \in 1 .. n
      BY <1>1, <1>3
    <2>2. /\ requests[i] \subseteq blocks /\ requests[j] \subseteq blocks
          /\ i = n => requests'[j] = requests[j]
          /\ j = n => requests'[i] = requests[i]
      BY <1>4, <1>6
    <2> QED
      BY <1>5, <1>6, <2>1, <2>2
  <1>9. requests' \in Seq(SUBSET blocks')
    <2>1. requests' = [i \in 1 .. n |-> requests'[i]]
      BY <1>1, <1>3
    <2> QED
      BY <1>7, <2>1
  <1>10. Apart'
    BY <1>6, <1>8, <1>9 DEF Apart, Own
  <1> QED
    BY <1>1, <1>6, <1>7, <1>8, <1>10 DEF Kept

LEMMA GenerateKept ==
    ASSUME Apart, Generate
    PROVE  Apart' /\ Kept
  <1> DEFINE none == {}
             t == Append(requests, none)
  <1>1. requests' = t /\ blocks' = blocks /\ requests \in Seq(SUBSET blocks)
    BY DEF Generate, vars, Apart, Own
  <1>2. none \in SUBSET blocks
    OBVIOUS
  <1>3. PICK n \in Nat : n = Len(requests)
    BY <1>1, LenProperties
  <1>4. /\ t \in Seq(SUBSET blocks) /\ t[n + 1] = none /\ DOMAIN requests = 1 .. n
        /\ DOMAIN t = 1 .. n + 1 /\ \A i \in 1 .. n : t[i] = requests[i]
    BY <1>1, <1>2, <1>3, PushFacts
  <1> HIDE DEF t
  <1>5. \A i, j \in 1 .. n : i # j => requests[i] \cap requests[j] = {}
    BY <1>4 DEF Apart, Own
  <1>6. \A i \in 1 .. n + 1 : i = n + 1 \/ i \in 1 .. n
    BY <1>3
  <1>7. \A i, j \in 1 .. n + 1 : i # j => t[i] \cap t[j] = {}
    BY <1>4, <1>5, <1>6
  <1>8. \A i \in 1 .. n : t[i] = requests[i] /\ i \in 1 .. n + 1 /\ requests[i] \subseteq blocks
    BY <1>1, <1>3, <1>4, ElementOfSeq
  <1> QED
    BY <1>1, <1>4, <1>7, <1>8 DEF Apart, Own, Kept

LEMMA ReturnKept ==
    ASSUME Apart, Return
    PROVE  Apart' /\ Kept
  <1>1. requests # <<>> /\ requests \in Seq(SUBSET blocks) /\ blocks' = {}
    BY DEF Return, Reset, Apart, Own
  <1>2. PICK n \in Nat : /\ n = Len(requests) /\ n > 0
                         /\ DOMAIN requests = 1 .. n /\ DOMAIN Front(requests) = 1 .. n - 1
    BY <1>1, PopFacts DEF Front
  <1>3. requests' = [i \in 1 .. n - 1 |-> {}] /\ n - 1 \in Nat
    BY <1>2 DEF Return
  <1>4. requests' \in Seq(SUBSET blocks') /\ Len(requests') = n - 1 /\ DOMAIN requests' = 1 .. n - 1
    BY <1>1, <1>3
  <1>5. \A i \in 1 .. n - 1 : requests'[i] = {}
    BY <1>3
  <1>6. n - 1 < n
    BY <1>2
  <1> QED
    BY <1>2, <1>4, <1>5, <1>6 DEF Apart, Own, Kept

LEMMA ThrowKept ==
    ASSUME Apart, Throw
    PROVE  Apart' /\ Kept
  <1> DEFINE t == Front(requests)
  <1>1. requests # <<>> /\ requests \in Seq(SUBSET blocks) /\ blocks' = blocks /\ requests' = t
    BY DEF Throw, vars, Apart, Own
  <1>2. PICK n \in Nat : /\ n = Len(requests) /\ n > 0 /\ t \in Seq(SUBSET blocks)
                         /\ DOMAIN requests = 1 .. n /\ DOMAIN t = 1 .. n - 1
                         /\ \A i \in 1 .. n - 1 : t[i] = requests[i]
    BY <1>1, PopFacts DEF Front
  <1> HIDE DEF t
  <1>3. \A i \in 1 .. n - 1 : i \in 1 .. n /\ requests[i] \subseteq blocks
    BY <1>1, <1>2, ElementOfSeq
  <1>4. \A i, j \in 1 .. n - 1 : i # j => t[i] \cap t[j] = {}
    BY <1>2, <1>3 DEF Apart, Own
  <1> QED
    BY <1>1, <1>2, <1>3, <1>4 DEF Apart, Own, Kept

(* A request keeps its blocks, and they are nobody else's, until a request *)
(* made within it returns, for any nesting, sizes and word width           *)
(* (MemoryAwareLLMRuntime.cpp:34-50, MemoryManager.cpp:24-33).             *)
THEOREM KeepsUntilReturn == RequestSpec => KeptUntilReturn
  <1>1. RequestInit => Apart
    BY DEF RequestInit, Init, Apart, Own
  <1>2. Apart /\ [RequestNext]_<<vars, requests>> => Apart' /\ (RequestNext => Kept)
    <2> SUFFICES ASSUME Apart, [RequestNext]_<<vars, requests>>
                 PROVE  Apart' /\ (RequestNext => Kept)
      OBVIOUS
    <2>1. CASE RequestNext
      BY <2>1, ScratchKept, GenerateKept, ReturnKept, ThrowKept DEF RequestNext
    <2>2. CASE UNCHANGED <<vars, requests>>
      <3>1. Apart'
        BY <2>2 DEF vars, Apart
      <3>2. RequestNext => Kept
        BY ScratchKept, GenerateKept, ReturnKept, ThrowKept DEF RequestNext
      <3> QED
        BY <3>1, <3>2
    <2> QED
      BY <2>1, <2>2
  <1>3. Apart /\ [RequestNext]_<<vars, requests>> => [Kept]_<<vars, requests>>
    BY <1>2
  <1>4. KeptUntilReturn <=> [][Kept]_<<vars, requests>>
    BY PTL DEF KeptUntilReturn, Kept
  <1> QED
    BY <1>1, <1>2, <1>3, <1>4, PTL DEF RequestSpec
=============================================================================
