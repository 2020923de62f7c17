-------------------------------- MODULE Frame --------------------------------
(***************************************************************************)
(* core/src/frame.cpp: magic, size, payload, checksum.  The checksum is    *)
(* the sum of the bytes of the payload alone.                              *)
(***************************************************************************)
EXTENDS Bytes

CONSTANTS
    WordBytes,     \* the bytes of a uint32_t: 4
    FrameMagic     \* MAGIC

ASSUME WordAssumption ==
    /\ WordBytes \in Nat /\ WordBytes > 0
    /\ FrameMagic \in Nat /\ FrameMagic < Power[WordBytes]

Checksum(payload) == FoldLeft(+, 0, payload) % Power[WordBytes]

Encode(payload) ==
    Digits(FrameMagic, WordBytes) \o Digits(Len(payload), WordBytes)
        \o payload \o Digits(Checksum(payload), WordBytes)

PayloadStart == 2 * WordBytes

ChecksumStart(frame) == PayloadStart + NumberAt(frame, WordBytes, WordBytes)

Payload(frame) == SubSeq(frame, PayloadStart + 1, ChecksumStart(frame))

(* Mutant of Decodes: the checksum is not compared. *)
DecodesUnchecked(frame) ==
    /\ HasNumber(frame, 0, WordBytes)
    /\ NumberAt(frame, 0, WordBytes) = FrameMagic
    /\ HasNumber(frame, WordBytes, WordBytes)
    /\ HasNumber(frame, ChecksumStart(frame), WordBytes)

(* decode succeeds. *)
Decodes(frame) ==
    /\ HasNumber(frame, 0, WordBytes)
    /\ NumberAt(frame, 0, WordBytes) = FrameMagic
    /\ HasNumber(frame, WordBytes, WordBytes)
    /\ HasNumber(frame, ChecksumStart(frame), WordBytes)
    /\ Checksum(Payload(frame)) = NumberAt(frame, ChecksumStart(frame), WordBytes)
=============================================================================
