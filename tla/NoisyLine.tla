------------------------------ MODULE NoisyLine ------------------------------
(***************************************************************************)
(* A line that may damage what it carries: a message in its frame, or a    *)
(* request or response of LLMMessageCodec without one, as over a Transport *)
(* that has no checksum.  It shows what Frame, Protocol and the codec tell *)
(* apart.  The line is not part of Galculus; any ByteTransport may be one. *)
(***************************************************************************)
EXTENDS MessageByteAdapter

CONSTANTS
    Messages,                      \* the messages sent in frames
    Requests, Responses,           \* the requests and responses sent
    RequestMagic, ResponseMagic    \* of LLMMessageCodec

Codec == INSTANCE LLMMessageCodec

(* What encoding does not cut: texts and prompts whose lengths, and numbers *)
(* that, fit the words they are written in (see the README).                *)
Text == {text \in Seq(Byte) : Len(text) < Power[WordBytes]}

Word == 0 .. Power[WordBytes] - 1

Message == [type : Byte, id : 0 .. Power[LongBytes] - 1,
            source : Text, target : Text, name : Text, payload : Text]

Turn == [role : Range(Codec!Roles), content : Text]

Prompt == {prompt \in Seq(Turn) : Len(prompt) < Power[WordBytes]}

Request == [id : Text, max_tokens : Word, temperature : Word, top_p : Word, seed : Word,
            timeout_ms : Word, stream : BOOLEAN, prompt : Prompt]

Response == [id : Text, status : Range(Codec!Statuses), text : Text, prompt_tokens : Word,
             completion_tokens : Word, elapsed_ms : Word, error_message : Text]

ASSUME ProtocolFits ==
    /\ ShortBytes \in Nat /\ LongBytes \in Nat
    /\ PacketMagic \in Nat /\ PacketMagic < Power[WordBytes]
    /\ Version \in Nat /\ Version < Power[ShortBytes]

ASSUME CodecFits ==
    /\ Radix >= Len(Codec!Statuses)
    /\ RequestMagic \in Text /\ ResponseMagic \in Text /\ RequestMagic # ResponseMagic

ASSUME ContentsFit ==
    /\ Messages \subseteq Message /\ Requests \subseteq Request /\ Responses \subseteq Response
    /\ \A message \in Messages :
           Len(Packet!Encode(message)) + WordBytes < Power[WordBytes]

VARIABLES
    original,    \* what was sent
    bytes,       \* what arrives of its frame or payload
    damage       \* what happened to them

lineVars == <<original, bytes, damage>>

LineTypeOK ==
    /\ original \in Messages \cup Requests \cup Responses
    /\ bytes \in Seq(Byte)
    /\ damage \in {"none", "cut", "extended", "changed", "resized"}

Encoded(content) == CASE content \in Messages  -> FrameOf(content)
                      [] content \in Requests  -> Codec!EncodeRequest(content, "", "").payload
                      [] content \in Responses -> Codec!EncodeResponse(content, "", "").payload

LineInit ==
    /\ original \in Messages \cup Requests \cup Responses
    /\ bytes = Encoded(original)
    /\ damage = "none"

(* The end does not arrive. *)
Cut == \E n \in 0 .. Len(bytes) - 1 : bytes' = SubSeq(bytes, 1, n) /\ damage' = "cut"

(* More arrives than was sent. *)
Extend == \E byte \in Byte : bytes' = Append(bytes, byte) /\ damage' = "extended"

(* One byte is another one; of a frame, it may be one of the size. *)
Change == \E i \in DOMAIN bytes : \E byte \in Byte \ {bytes[i]} :
              /\ bytes' = [bytes EXCEPT ![i] = byte]
              /\ damage' = IF original \in Messages /\ i \in WordBytes + 1 .. 2 * WordBytes
                           THEN "resized" ELSE "changed"

LineNext == damage = "none" /\ (Cut \/ Extend \/ Change) /\ UNCHANGED original

LineSpec == LineInit /\ [][LineNext]_lineVars

-----------------------------------------------------------------------------
AsRequest  == Codec!Message("", "", "LLM_REQUEST", bytes)
AsResponse == Codec!Message("", "", "LLM_RESPONSE", bytes)

(* Whatever is sent comes out as it went in, every field, role, status and *)
(* word of it, also when more bytes follow (frame.cpp:44-126,              *)
(* protocol.cpp:144-255, LLMMessageCodec.cpp:183-319).  A request never    *)
(* comes out as a response or the other way round, whatever event it is    *)
(* sent as: the magics see to that (LLMMessageCodec.cpp:231-235, 301-305). *)
RoundTrip ==
    damage \in {"none", "extended"} =>
        /\ original \in Messages => Accepts(bytes) /\ MessageIn(bytes) = original
        /\ original \in Requests =>
               /\ Codec!RequestDecodes(AsRequest)
               /\ Codec!DecodedRequest(AsRequest) = original
               /\ ~Codec!ResponseDecodes(AsResponse)
        /\ original \in Responses =>
               /\ Codec!ResponseDecodes(AsResponse)
               /\ Codec!DecodedResponse(AsResponse) = original
               /\ ~Codec!RequestDecodes(AsRequest)

(* A frame that was cut off, or has one byte changed, is refused.  Its     *)
(* size is the exception: the checksum does not cover it, and another size *)
(* may find a matching checksum in the payload (frame.cpp:68-122).         *)
DamageDetected == original \in Messages /\ damage \in {"cut", "changed"} => ~Accepts(bytes)

(* Nor does a packet or a payload decode that misses its end, although     *)
(* neither a size nor a checksum of the whole guards it (protocol.cpp:     *)
(* 97-140, 202-251, LLMMessageCodec.cpp:64-108).                           *)
NoPrefixDecodes ==
    /\ original \in Messages =>
           LET packet == Packet!Encode(original)
           IN  \A n \in 0 .. Len(packet) - 1 : ~Packet!Decodes(SubSeq(packet, 1, n))
    /\ original \notin Messages /\ damage = "cut" =>
           ~Codec!RequestDecodes(AsRequest) /\ ~Codec!ResponseDecodes(AsResponse)

(* Without a checksum damage may pass, but never as less or more than the  *)
(* bytes say: what decodes, encoded again, is what was read, but for bytes *)
(* that are no Boolean (read as true) and no status (read as BackendError) *)
(* (LLMMessageCodec.cpp:59-112, 149-158, 247).                             *)
ReadsWhatIsThere ==
    LET HeadOf(content, magic) == Len(Codec!Str(magic)) + Len(Codec!Str(content.id))
        SameBut(again, i, coarse) ==
            /\ Len(again) <= Len(bytes)
            /\ \A j \in DOMAIN again : again[j] = bytes[j] \/ (j = i /\ coarse)
    IN  /\ Codec!RequestDecodes(AsRequest) =>
               LET request == Codec!DecodedRequest(AsRequest)
                   flag    == HeadOf(request, RequestMagic) + 5 * WordBytes + 1
               IN  SameBut(Codec!EncodeRequest(request, "", "").payload, flag,
                           request.stream /\ bytes[flag] > 1)
        /\ Codec!ResponseDecodes(AsResponse) =>
               LET response == Codec!DecodedResponse(AsResponse)
                   status   == HeadOf(response, ResponseMagic) + 1
               IN  SameBut(Codec!EncodeResponse(response, "", "").payload, status,
                           response.status = "BackendError")
=============================================================================
