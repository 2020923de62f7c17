---------------------------- MODULE FixedBlockPool ----------------------------
(***************************************************************************)
(* memory/src/FixedBlockPool.cpp: equal blocks carved out of one buffer,   *)
(* handed out from a stack of free indices.  MemoryManager's               *)
(* allocate_message and free_message forward to it.                        *)
(*                                                                         *)
(* A pointer is its distance in bytes from storage_.data().  A pointer     *)
(* from elsewhere, the null pointer too, is a distance outside the buffer. *)
(***************************************************************************)
EXTENDS Integers, Sequences, FiniteSets

CONSTANTS
    BlockSize,     \* block_size_
    BlockCount,    \* block_count_
    Client         \* whoever calls allocate_message and free_message

ASSUME SizesAssumption == BlockSize \in Nat /\ BlockCount \in Nat

Index   == 0 .. BlockCount - 1
Size    == BlockSize * BlockCount          \* storage_.size()
Pointer == -1 .. Size                      \* enough of Int to call it with
Address(i) == i * BlockSize

VARIABLES
    free_indices,        \* free_indices_, the top last
    allocated,           \* allocated_
    used_blocks,         \* used_blocks_
    peak_used_blocks,    \* peak_used_blocks_
    held,                \* history: the blocks each client has and must free
    reply                \* what the last call answered

poolVars == <<free_indices, allocated, used_blocks, peak_used_blocks, held, reply>>

PoolTypeOK ==
    /\ free_indices \in Seq(Index)
    /\ allocated \in [Index -> BOOLEAN]
    /\ used_blocks \in Nat /\ used_blocks <= BlockCount
    /\ peak_used_blocks \in Nat /\ used_blocks <= peak_used_blocks
    /\ held \in [Client -> SUBSET Index]
    /\ reply \in {"none", "block", "null", "freed", "refused"}

PoolInit ==
    /\ free_indices = [k \in 1 .. BlockCount |-> BlockCount - k]
    /\ allocated = [i \in Index |-> FALSE]
    /\ used_blocks = 0
    /\ peak_used_blocks = 0
    /\ held = [c \in Client |-> {}]
    /\ reply = "none"

Most(x, y) == IF x < y THEN y ELSE x
Back       == free_indices[Len(free_indices)]
WithoutBack == SubSeq(free_indices, 1, Len(free_indices) - 1)

-----------------------------------------------------------------------------
CannotAllocate == BlockSize = 0 \/ BlockCount = 0 \/ free_indices = <<>>

(* allocate: the client gets the address of the index on top. *)
AllocateBlock(c) ==
    \/ /\ CannotAllocate
       /\ reply' = "null"
       /\ UNCHANGED <<free_indices, allocated, used_blocks, peak_used_blocks, held>>
    \/ /\ ~CannotAllocate
       /\ free_indices' = WithoutBack
       /\ allocated' = [allocated EXCEPT ![Back] = TRUE]
       /\ used_blocks' = used_blocks + 1
       /\ peak_used_blocks' = Most(peak_used_blocks, used_blocks + 1)
       /\ held' = [held EXCEPT ![c] = @ \cup {Back}]
       /\ reply' = "block"

OwnsPointer(p) == Size # 0 /\ p >= 0 /\ p < Size

(* Mutants of Accepts: a block given back already, a pointer into the      *)
(* middle of a block.                                                      *)
AcceptsFreeBlock(p) == OwnsPointer(p) /\ p % BlockSize = 0
AcceptsInterior(p)  == OwnsPointer(p) /\ allocated[p \div BlockSize]

(* The three tests of free_block; the index it computes is in range then.  *)
Accepts(p) == OwnsPointer(p) /\ p % BlockSize = 0 /\ allocated[p \div BlockSize]

FreeBlock(p) ==
    IF Accepts(p)
    THEN /\ allocated' = [allocated EXCEPT ![p \div BlockSize] = FALSE]
         /\ free_indices' = Append(free_indices, p \div BlockSize)
         /\ used_blocks' = used_blocks - 1
         /\ reply' = "freed"
         /\ UNCHANGED peak_used_blocks
    ELSE /\ reply' = "refused"
         /\ UNCHANGED <<free_indices, allocated, used_blocks, peak_used_blocks>>

-----------------------------------------------------------------------------
(* A client gives back a block it holds.                                   *)
Free(c) == \E i \in held[c] : /\ FreeBlock(Address(i))
                              /\ held' = [held EXCEPT ![c] = @ \ {i}]

(* A client calls with a pointer that no client may free: null, foreign,   *)
(* into a block, or of a block already given back.  (A pointer kept after  *)
(* its block went to somebody else cannot be told from the new one.)       *)
FreeStray(p) == /\ \A c \in Client : \A i \in held[c] : p # Address(i)
                /\ FreeBlock(p)
                /\ UNCHANGED held

PoolNext ==
    \/ \E c \in Client : AllocateBlock(c) \/ Free(c)
    \/ \E p \in Pointer : FreeStray(p)

PoolSpec == PoolInit /\ [][PoolNext]_poolVars

-----------------------------------------------------------------------------
(* The free list holds each free index once and nothing else, and the      *)
(* counter agrees with it: the three records FixedBlockPool keeps of the   *)
(* same thing (FixedBlockPool.cpp:28-32, 62-64) never part.                *)
FreeListExact ==
    /\ \A i \in Index : ~allocated[i] <=> \E k \in DOMAIN free_indices : free_indices[k] = i
    /\ \A k, m \in DOMAIN free_indices : k # m => free_indices[k] # free_indices[m]
    /\ used_blocks + Len(free_indices) = BlockCount

(* No two clients hold the same block, so none writes into another's       *)
(* (FixedBlockPool.cpp:23-67).                                             *)
NoSharing == \A c, d \in Client : c # d => held[c] \cap held[d] = {}

Allocator == INSTANCE BlockAllocator WITH Block <- IF BlockSize = 0 THEN {} ELSE Index

(* The pool is an allocator: allocate fails only when all blocks are held, *)
(* free_block takes back exactly what is held and refuses the rest.        *)
IsAllocator == Allocator!Spec
=============================================================================
