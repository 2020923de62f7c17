-------------------------- MODULE MessageByteAdapter --------------------------
(***************************************************************************)
(* core/src/message_byte_adapter.cpp: a message is sent as a packet in a   *)
(* frame.  What comes back as bytes is a message only if both decode.      *)
(***************************************************************************)
EXTENDS Frame

CONSTANTS ShortBytes, LongBytes, PacketMagic, Version    \* of Protocol

Packet == INSTANCE Protocol

FrameOf(message) == Encode(Packet!Encode(message))

Accepts(bytes) == Decodes(bytes) /\ Packet!Decodes(Payload(bytes))

MessageIn(bytes) == Packet!Decoded(Payload(bytes))
=============================================================================
