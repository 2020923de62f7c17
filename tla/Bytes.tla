-------------------------------- MODULE Bytes --------------------------------
(***************************************************************************)
(* Numbers as bytes, big-endian: write_u16, write_u32, write_u64 and       *)
(* read_u16, read_u32, read_u64 of core/src/frame.cpp and protocol.cpp.    *)
(***************************************************************************)
EXTENDS Integers, SequencesExt

CONSTANT Radix    \* the values of a byte: 256

ASSUME RadixAssumption == Radix \in Nat /\ Radix > 1

Byte == 0 .. Radix - 1

Power[k \in Nat] == IF k = 0 THEN 1 ELSE Radix * Power[k - 1]

(* Mutants of Digits: the last byte first, the high bytes kept in the low. *)
DigitsLittleEndian(n, width) == [i \in 1 .. width |-> (n \div Power[i - 1]) % Radix]
DigitsUncut(n, width) == [i \in 1 .. width |-> n \div Power[width - i]]

(* The low `width` bytes of n, the others are cut off. *)
Digits(n, width) == [i \in 1 .. width |-> (n \div Power[width - i]) % Radix]

HasNumber(bytes, at, width) == at + width <= Len(bytes)

NumberAt(bytes, at, width) ==
    FoldLeft(LAMBDA n, byte : n * Radix + byte, 0, SubSeq(bytes, at + 1, at + width))
=============================================================================
