------------------------------- MODULE Protocol -------------------------------
(***************************************************************************)
(* core/src/protocol.cpp: a Message as a packet of bytes.  Names and       *)
(* payloads are strings of bytes, each written after its length.           *)
(***************************************************************************)
EXTENDS Bytes

CONSTANTS
    WordBytes, ShortBytes, LongBytes,    \* of uint32_t, uint16_t, uint64_t
    PacketMagic, Version                 \* MAGIC, VERSION

String(text) == Digits(Len(text), WordBytes) \o text

Encode(message) ==
    Digits(PacketMagic, WordBytes) \o Digits(Version, ShortBytes)
        \o Digits(message.type, 1) \o Digits(message.id, LongBytes)
        \o String(message.source) \o String(message.target)
        \o String(message.name) \o String(message.payload)

-----------------------------------------------------------------------------
(* decode reads the fields in order; `at` is the offset of each. *)

HasString(packet, at) ==
    /\ HasNumber(packet, at, WordBytes)
    /\ HasNumber(packet, at + WordBytes, NumberAt(packet, at, WordBytes))

EndOfString(packet, at) == at + WordBytes + NumberAt(packet, at, WordBytes)

StringAt(packet, at) == SubSeq(packet, at + WordBytes + 1, EndOfString(packet, at))

VersionStart  == WordBytes
TypeStart     == VersionStart + ShortBytes
IdStart       == TypeStart + 1
SourceStart   == IdStart + LongBytes
TargetStart(packet)  == EndOfString(packet, SourceStart)
NameStart(packet)    == EndOfString(packet, TargetStart(packet))
PayloadStart(packet) == EndOfString(packet, NameStart(packet))

(* decode succeeds.  Any byte is taken for a type, and what follows the    *)
(* payload is not looked at.                                               *)
Decodes(packet) ==
    /\ HasNumber(packet, 0, WordBytes)
    /\ NumberAt(packet, 0, WordBytes) = PacketMagic
    /\ HasNumber(packet, VersionStart, ShortBytes)
    /\ NumberAt(packet, VersionStart, ShortBytes) = Version
    /\ HasNumber(packet, TypeStart, 1)
    /\ HasNumber(packet, IdStart, LongBytes)
    /\ HasString(packet, SourceStart)
    /\ HasString(packet, TargetStart(packet))
    /\ HasString(packet, NameStart(packet))
    /\ HasString(packet, PayloadStart(packet))

Decoded(packet) ==
    [type    |-> NumberAt(packet, TypeStart, 1),
     id      |-> NumberAt(packet, IdStart, LongBytes),
     source  |-> StringAt(packet, SourceStart),
     target  |-> StringAt(packet, TargetStart(packet)),
     name    |-> StringAt(packet, NameStart(packet)),
     payload |-> StringAt(packet, PayloadStart(packet))]
=============================================================================
