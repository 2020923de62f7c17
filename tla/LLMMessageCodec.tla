--------------------------- MODULE LLMMessageCodec ---------------------------
(***************************************************************************)
(* llm_bridge/src/LLMMessageCodec.cpp: requests to a language model and    *)
(* its responses as payloads of messages.  Numbers are little-endian here, *)
(* a float is the word it is stored in, and there is no checksum.          *)
(***************************************************************************)
EXTENDS Bytes

CONSTANTS
    WordBytes,                      \* the bytes of a uint32_t: 4
    RequestMagic, ResponseMagic     \* "GLM_REQ_V1", "GLM_RES_V1"

Roles    == <<"System", "User", "Assistant", "Tool">>
Statuses == <<"Ok", "Timeout", "Cancelled", "InvalidPrompt", "BackendError">>

Code(names, name) == CHOOSE code \in 0 .. Len(names) - 1 : names[code + 1] = name

U32(value) == Reverse(Digits(value, WordBytes))

Str(text) == U32(Len(text)) \o text

PromptBytes(prompt) ==
    FlattenSeq([i \in DOMAIN prompt |-> <<Code(Roles, prompt[i].role)>> \o Str(prompt[i].content)])

Message(source, target, name, payload) ==
    [id |-> 0, source |-> source, target |-> target, name |-> name, payload |-> payload]

EncodeRequest(request, source, target) ==
    Message(source, target, "LLM_REQUEST",
            Str(RequestMagic) \o Str(request.id)
                \o U32(request.max_tokens) \o U32(request.temperature) \o U32(request.top_p)
                \o U32(request.seed) \o U32(request.timeout_ms)
                \o <<IF request.stream THEN 1 ELSE 0>>
                \o U32(Len(request.prompt)) \o PromptBytes(request.prompt))

EncodeResponse(response, source, target) ==
    Message(source, target, "LLM_RESPONSE",
            Str(ResponseMagic) \o Str(response.id)
                \o <<Code(Statuses, response.status)>> \o Str(response.text)
                \o U32(response.prompt_tokens) \o U32(response.completion_tokens)
                \o U32(response.elapsed_ms) \o Str(response.error_message))

-----------------------------------------------------------------------------
(* A reader goes through the payload once and collects the fields; the     *)
(* first that is not there, or is no role, makes it throw.                 *)

WordAt(bytes, at) == NumberAt(Reverse(SubSeq(bytes, at + 1, at + WordBytes)), 0, WordBytes)

Reader == [offset |-> 0, fields |-> <<>>, thrown |-> FALSE]

Take(reader, size, value) ==
    [reader EXCEPT !.offset = @ + size, !.fields = Append(@, value)]

HasStr(bytes, at) ==
    /\ HasNumber(bytes, at, WordBytes)
    /\ HasNumber(bytes, at + WordBytes, WordAt(bytes, at))

(* Mutant of RoleOf: what is no role is taken for one. *)
RoleOfAny(byte) == IF byte < Len(Roles) THEN Roles[byte + 1] ELSE "User"

RoleOf(byte) == IF byte < Len(Roles) THEN Roles[byte + 1] ELSE "throws"

StatusOf(byte) == IF byte < Len(Statuses) THEN Statuses[byte + 1] ELSE "BackendError"

Read(bytes, reader, kind) ==
    LET at == reader.offset
        content == at + WordBytes
        end     == content + WordAt(bytes, at)
    IN  IF reader.thrown THEN reader
        ELSE CASE kind = "u8" /\ HasNumber(bytes, at, 1) -> Take(reader, 1, bytes[at + 1])
               [] kind = "role" /\ HasNumber(bytes, at, 1) /\ RoleOf(bytes[at + 1]) # "throws" ->
                      Take(reader, 1, RoleOf(bytes[at + 1]))
               [] kind = "u32" /\ HasNumber(bytes, at, WordBytes) ->
                      Take(reader, WordBytes, WordAt(bytes, at))
               [] kind = "str" /\ HasStr(bytes, at) ->
                      Take(reader, end - at, SubSeq(bytes, content + 1, end))
               [] OTHER -> [reader EXCEPT !.thrown = TRUE]

ReadAll(bytes, reader, kinds) == FoldLeft(LAMBDA r, kind : Read(bytes, r, kind), reader, kinds)

(* The fields before the prompt; the last is the number of its messages,   *)
(* each a role and a content.                                              *)
RequestHead == <<"str", "str", "u32", "u32", "u32", "u32", "u32", "u8", "u32">>

PromptKinds(count) == [i \in 1 .. 2 * count |-> IF i % 2 = 1 THEN "role" ELSE "str"]

(* Mutant of ReadRequest: the prompt ends where the payload does. *)
ReadRequestLenient(bytes) ==
    LET head == ReadAll(bytes, Reader, RequestHead)
    IN  IF head.thrown THEN head
        ELSE [ReadAll(bytes, head, PromptKinds(Last(head.fields))) EXCEPT !.thrown = FALSE]

ReadRequest(bytes) ==
    LET head == ReadAll(bytes, Reader, RequestHead)
    IN  IF head.thrown THEN head ELSE ReadAll(bytes, head, PromptKinds(Last(head.fields)))

ReadResponse(bytes) ==
    ReadAll(bytes, Reader, <<"str", "str", "u8", "str", "u32", "u32", "u32", "str">>)

(* decode_request and decode_response return; otherwise they throw. *)
RequestDecodes(message) ==
    /\ message.name = "LLM_REQUEST"
    /\ ~ReadRequest(message.payload).thrown
    /\ ReadRequest(message.payload).fields[1] = RequestMagic

ResponseDecodes(message) ==
    /\ message.name = "LLM_RESPONSE"
    /\ ~ReadResponse(message.payload).thrown
    /\ ReadResponse(message.payload).fields[1] = ResponseMagic

DecodedRequest(message) ==
    LET fields == ReadRequest(message.payload).fields
    IN  [id |-> fields[2], max_tokens |-> fields[3], temperature |-> fields[4],
         top_p |-> fields[5], seed |-> fields[6], timeout_ms |-> fields[7],
         stream |-> fields[8] # 0,
         prompt |-> [i \in 1 .. fields[9] |->
                         [role |-> fields[8 + 2 * i], content |-> fields[9 + 2 * i]]]]

DecodedResponse(message) ==
    LET fields == ReadResponse(message.payload).fields
    IN  [id |-> fields[2],
         status |-> StatusOf(fields[3]),
         text |-> fields[4], prompt_tokens |-> fields[5], completion_tokens |-> fields[6],
         elapsed_ms |-> fields[7], error_message |-> fields[8]]
=============================================================================
