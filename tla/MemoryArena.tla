----------------------------- MODULE MemoryArena -----------------------------
(***************************************************************************)
(* memory/src/MemoryArena.cpp: blocks cut off one after another from one   *)
(* buffer, all given up at once by reset.  ScratchBuffer and the arenas of *)
(* MemoryManager forward to it.  Addresses and sizes are words and wrap;   *)
(* allocate does not look whether they do.                                 *)
(***************************************************************************)
EXTENDS Integers, FiniteSets

CONSTANTS
    Modulus,       \* 2^(bits of size_t and uintptr_t)
    Capacity,      \* capacity_
    Buffers,       \* where the buffer may be; 0 is the null pointer
    Sizes,         \* the sizes requested
    Alignments     \* the alignments requested

ASSUME WordsAssumption ==
    /\ Modulus \in Nat /\ Modulus > 0
    /\ Capacity \in Nat /\ Capacity < Modulus
    /\ Buffers \subseteq 0 .. Modulus - 1
    /\ Sizes \subseteq 0 .. Modulus - 1
    /\ Alignments \subseteq 0 .. Modulus - 1

VARIABLES
    buffer,       \* buffer_
    offset,       \* offset_
    peak_used,    \* peak_used_
    blocks        \* history: the blocks given out since the last reset

vars == <<buffer, offset, peak_used, blocks>>

Block == [at : Nat, size : Nat, alignment : Nat]

TypeOK ==
    /\ buffer \in Buffers
    /\ offset \in 0 .. Capacity
    /\ peak_used \in offset .. Capacity
    /\ blocks \subseteq Block

Init ==
    /\ buffer \in Buffers
    /\ offset = 0
    /\ peak_used = 0
    /\ blocks = {}

-----------------------------------------------------------------------------
Word(x) == x % Modulus

IsPowerOfTwo(n) == \E k \in 0 .. n : n = 2 ^ k

(* x & ~(alignment - 1), for a power of two. *)
RoundDown(x, alignment) == alignment * (x \div alignment)

Current == Word(buffer + offset)

(* Mutant of Aligned: an aligned address is moved on to the next one. *)
AlignedPast(alignment) == RoundDown(Word(Current + alignment), alignment)

Aligned(alignment) == RoundDown(Word(Current + alignment - 1), alignment)

(* Mutant of NewOffset: the padding is not counted. *)
NewOffsetUnpadded(size, alignment) == Word(offset + size)

NewOffset(size, alignment) == Word(offset + Word(Aligned(alignment) - Current) + size)

Valid(size, alignment) == buffer # 0 /\ size # 0 /\ alignment # 0 /\ IsPowerOfTwo(alignment)

(* Mutant of Grants: the comparison is with what is free before padding. *)
GrantsByFree(size, alignment) == Valid(size, alignment) /\ size <= Capacity - offset

(* allocate returns a block, not an empty MemoryBlock. *)
Grants(size, alignment) == Valid(size, alignment) /\ NewOffset(size, alignment) <= Capacity

Allocate(size, alignment) ==
    /\ IF Grants(size, alignment)
       THEN LET new == NewOffset(size, alignment)
            IN  /\ offset' = new
                /\ peak_used' = IF peak_used < new THEN new ELSE peak_used
                /\ blocks' = blocks \cup
                       {[at |-> Aligned(alignment), size |-> size, alignment |-> alignment]}
       ELSE UNCHANGED <<offset, peak_used, blocks>>
    /\ UNCHANGED buffer

Reset == /\ offset' = 0
         /\ blocks' = {}
         /\ UNCHANGED <<buffer, peak_used>>

Next == Reset \/ \E size \in Sizes, alignment \in Alignments : Allocate(size, alignment)

Spec == Init /\ [][Next]_vars

-----------------------------------------------------------------------------
(* What the callers must keep to, since allocate does not check it: no sum *)
(* it computes for them wraps.                                             *)
NoWrap ==
    \A b \in Buffers, size \in Sizes, alignment \in Alignments :
        /\ b + Capacity + alignment <= Modulus
        /\ Capacity + alignment + size <= Modulus

End(b) == b.at + b.size

(* Under that contract the blocks given out since the last reset lie in    *)
(* the buffer, are aligned as requested and do not overlap, whatever       *)
(* address the buffer has (MemoryArena.cpp:12-50).                         *)
BlocksSound ==
    /\ \A b \in blocks : /\ buffer <= b.at /\ End(b) <= buffer + offset
                         /\ b.at % b.alignment = 0
    /\ \A b, c \in blocks : b = c \/ End(b) <= c.at \/ End(c) <= b.at

(* Where a block could go: aligned, past all blocks given out, inside.     *)
Places(size, alignment) ==
    {p \in buffer + offset .. buffer + Capacity :
        p % alignment = 0 /\ p + size <= buffer + Capacity}

(* Under that contract the arithmetic on words finds the first place there *)
(* is, and a valid request is refused only when there is none              *)
(* (MemoryArena.cpp:20-41).                                                *)
FirstFit ==
    \A size \in Sizes, alignment \in Alignments :
        Valid(size, alignment) =>
            /\ Grants(size, alignment) <=> Places(size, alignment) # {}
            /\ Grants(size, alignment) =>
                   /\ Aligned(alignment) \in Places(size, alignment)
                   /\ \A p \in Places(size, alignment) : Aligned(alignment) <= p
                   /\ NewOffset(size, alignment) = Aligned(alignment) + size - buffer
=============================================================================
