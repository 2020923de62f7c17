# Galculus in TLA+

Galculus (the repository this directory belongs to) is a C++ framework for agents
that exchange messages, call language models through layers that guard memory and
token budgets, and run tools. This project models its core in TLA+, checks the
models on small instances with TLC and proves the main results for every
instance with TLAPS. Every definition is translated from the source; the
`map` of `PROJECT.json` names the lines.

## 1. The system

| Part | State | Operations | Talks to |
|---|---|---|---|
| `AgentRuntime` (core) | registry of agents, `running_`, `next_message_id_` | register, unregister, send, publish, broadcast, start, stop, run_once, drain | calls the agents' virtual methods, which call back; sends and receives through a `Transport` |
| `Transport`, `InMemoryTransport` | a queue behind a mutex | send, receive, empty | shared by runtimes and threads |
| byte transports (in memory, TCP) | a queue of frames, or a socket | send_bytes, receive_bytes, empty | the peer |
| `Frame`, `Protocol`, `MessageByteAdapter`, `FramedMessageTransport` | none | encode, decode | a byte transport below, the runtime above |
| `TokenScheduler` | the token budget | schedule, release | shared by `ScheduledLLMRuntime`s |
| `ScheduledLLMRuntime`, `MemoryAwareLLMRuntime` | references only | generate | wrap another `LLMRuntime` |
| `MockLLM`, `Prompt` | a fixed answer | generate | |
| `RemoteLLM` and `llm_server` | a request counter; one connection per request | generate; the server's `main` | each other over TCP, through `LLMMessageCodec` |
| `LLMMessageCodec` | none | encode and decode of requests and responses | `RemoteLLM`, the server |
| `AgentMemoryBudget`, `ScopedMemoryReservation` | limit, used and peak bytes per agent | reserve, release | owned by `MemoryManager` |
| `FixedBlockPool`, `MemoryArena`, `ScratchBuffer`, `MemoryManager` | free list and flags; bump offsets | allocate, free, reset | clients hold raw pointers |
| tools (`ToolCallParser`, `ToolRegistry`, `SafetyPolicy`) | sets of names, handlers | parse, is_allowed, execute | the handlers, which may call back; the demo's `main` |

Nothing here starts a thread. The hard behaviours come from

* **re-entrancy**: `start`, `stop`, `unregister_agent`, `run_once` and `drain` call
  user code in the middle of loops over the registry, and that code may call the
  runtime again; a backend may call another agent's runtime;
* **exceptions and refusals** that leave a layer through different paths from a
  normal return;
* **sharing**: one scheduler and one memory manager under several runtimes, one
  transport under several threads, one pool under several clients, one scratch
  arena under nested requests;
* **failures elsewhere**: a server killed at any point of a request, a connection
  reset, a peer that is another program;
* **edges**: `uint32_t` sums, exhausted budgets, full and empty pools, frames cut
  off by a closing peer.

What makes each part correct: the runtime never uses an iterator or an agent it
invalidated, keeps each agent's life in order, delivers ids in order, and returns;
the scheduler takes the best decision its budget allows and charges just that;
layers give back what they took on every path; the pool hands no block to two
clients; a remote answer is to the request it is taken for, and a request refused
is never worked on; no tool starts against the policy it is executed under.
`PROJECT.json` lists the hazards at their lines, with the property that covers each
or what of it none does, and why.

## 2. The modules

| Module | What it is |
|---|---|
| `InMemoryTransport` | `in_memory_transport.cpp`: the queue, one atomic action per locked section |
| `AgentRuntime` | `runtime.cpp` as a state machine over `InMemoryTransport` |
| `AgentLifecycle` | abstract: the order in which an agent's methods are called |
| `TokenScheduler` | `TokenScheduler.cpp` |
| `MemoryBudgets` | `AgentMemoryBudget.cpp` and the map of budgets of `MemoryManager` |
| `MockLLM` | the token counts `MockLLM.cpp` may report |
| `LLMStack` | `ScheduledLLMRuntime.cpp` and `MemoryAwareLLMRuntime.cpp`, composed with `TokenScheduler`, `MemoryBudgets` and `MockLLM` |
| `FixedBlockPool` | `FixedBlockPool.cpp` |
| `MemoryArena` | `MemoryArena.cpp`, which `ScratchBuffer` forwards to |
| `ScratchMemory` | the scratch arena of `MemoryManager.cpp` under the requests of `MemoryAwareLLMRuntime.cpp`, over `MemoryArena` |
| `Bytes`, `Frame`, `Protocol`, `MessageByteAdapter` | `frame.cpp`, `protocol.cpp`, `message_byte_adapter.cpp` as operators on sequences of bytes |
| `LLMMessageCodec` | `LLMMessageCodec.cpp` in the same style |
| `NoisyLine` | a frame, a request or a response on a line that damages it, to check those operators |
| `FramedQueue` | `in_memory_byte_transport.cpp` and `framed_message_transport.cpp` under the `drain` of several runtimes |
| `RemoteLLM` | `RemoteLLM.cpp` and `llm_server.cpp`, with `connect_to` and `listen_once` |
| `RemoteCalls` | abstract: what is promised of a request |
| `ToolAgent` | `ToolCallParser.cpp`, `SafetyPolicy.cpp`, `ToolRegistry.cpp` and the `main` of `tool_agent_client.cpp` |
| `TcpConnection` | `tcp_byte_transport.cpp` and `framed_message_transport.cpp`, both ends, with `AgentRuntime::drain` on top |
| `MessageChannel` | abstract: what a connection promises |
| `BlockAllocator` | abstract: what a pool of blocks promises |
| `MC*` | values of constants for TLC |
| `*_proofs` | theorems about the module of that name; `SmallComponents_proofs` holds those about `TokenScheduler`, `FramedQueue` and `ToolAgent`, `Memory_proofs` those about `FixedBlockPool`, `MemoryArena` and `ScratchMemory`, `NoisyLine_proofs` those about `Frame`, `Protocol` and `LLMMessageCodec`, too |
| `SequenceLemmas` | lemmas that several of them need |

**AgentRuntime.** The calls in progress are an explicit `stack`. An operation that
calls out is split exactly there: `StopNext` is one turn of the loop in `stop`, it
pushes `on_stop` and continues when that frame has returned. User code is `main`
(empty stack) or a callback on top; `MayCall` says which operations each may call.
Actions carry the names of the functions. `result` is the last `Result`'s code.
What is undefined behaviour in C++ — the registry changing under an iterator that
will be used, an agent destroyed while one of its methods runs — sets `broken`,
after which nothing is said. `ForeignSend` and `ForeignReceive` are other users of
the same transport, between any two steps, and `DrainTest` and `DrainRunOnce` are
two steps because `empty()` and `receive()` lock separately. `phase` and `seen`
are history. A callback ends by `Return` or, if `MayThrow` has it, by `Throw`: nothing
in the runtime catches an exception, so the loops between the callback and the user
code that called the runtime end where they are, with `running_` and the registry as
they stand. That user code catches it, or throws in turn. `RemovesExecuting` says
whether a callback may unregister an agent one of whose methods is executing. A
broadcast's order over the `unordered_map` is any order, and a map
entry inserted during a loop always counts as breaking it, since it may rehash.

**LLMStack.** An agent's runtime is a list of layers over a backend, so the demo's
`MemoryAware(Scheduled(backend))` and the opposite nesting are two values of
`Layers`. `stack` holds the `generate` calls in progress, one frame per layer, with
the bytes or tokens that layer holds. `now` says whether the frame on top is being
called, was returned to, or is being unwound by an exception. A refusal returns
without calling the layer below; `UnwindMemory` is the destructor of the
reservation; `UnwindTokens` does nothing to the budget, because
`scheduler_.release` is skipped. Prompts are their sizes, results their token
counts; the estimate of a prompt is a word, as in the code. `lost`, `initial`,
`overreported` and `resized` are history: `lost` is what was charged less what was
released, so it grows with calls that throw or use less than they were charged, and
goes below zero when a backend reports more than it was asked.

**TokenScheduler.** `Schedule(t)` is the whole call, `DecisionType`,
`AllowedCompletion` and `Charge` what it answers and takes, in the state before.
The sums wrap at `Modulus`.

**FixedBlockPool.** A pointer is a byte offset from the storage, negative or past
the end when it comes from elsewhere. `FreeStray` is a call with a pointer nobody
may free: null, foreign, interior, or freed before. Freeing a pointer whose block
was handed to somebody else meanwhile is indistinguishable from a correct call,
so the code cannot promise anything about it and the model has clients not do it.

**MemoryArena.** Addresses and sizes are words that wrap, as in the code, which does
not look whether they do. `NoWrap` is what its callers must keep to. `blocks` is
history: what was given out since the last `reset`.

**ScratchMemory.** Every agent's requests share the one scratch arena. `requests`
are those in progress, each with the blocks it took; `Return` resets the arena as
`MemoryAwareLLMRuntime` does after the inner call, and so takes the blocks of the
requests it was made within; `Throw` skips that line. A refused request changes
nothing here.

**Bytes, Frame, Protocol.** The radix of a byte and the widths of `uint16_t`,
`uint32_t` and `uint64_t` are constants, and so are the magic numbers. `Decodes`
is the conjunction of the tests of `decode` in their order, `HasNumber` the bounds
check of every `read_*`. A string is a sequence of bytes. `size_t` does not wrap.
`LLMMessageCodec` reads a payload field by field: `ReadAll` folds `Read` over the
kinds of the fields, and the first that is not there, or is no role, stands for
the exception. A Boolean is any byte but 0 and an unknown status is
`BackendError`, as in the code. `Power` is a function where the radix to some power
is meant, since the provers know nothing of exponents.

**RemoteLLM.** Each call of `generate` makes a connection, sends its request,
receives one answer and closes; each server process listens, accepts one
connection, answers and exits. A request is named by its client and its number,
and stands for its connection too. `inbox` and `outbox` hold the message on its
way to the server and to the client: what `TcpConnection` shows of the transport,
a channel that a reset may empty. Accepting closes the socket that listened, so
the other connections in its `queue` are reset. `Crash` ends a process anywhere
and `Reset` a connection. The clients and servers in `Foreign` are other programs
that speak the protocol or send `Strange` messages: other events, payloads that do not
decode, and bytes that are no frame, of which `receive` returns nothing. A foreign
server may also send `Forged` answers, well-formed ones to another request: the code
compares no `request_id`, so the call is `misled`, and `OwnAnswer` excepts just the
calls whose connection such a server accepted and answered so. A connection may still
be reset after its server exited, with the answer on its way.

**FramedQueue.** A frame is what becomes of it when it is received: a message to an
agent that is known or is not, or bytes that do not decode. `Test` and `RunOnce`
are separate steps, so that another runtime may take the frame between them. A
runtime is started and stopped by the thread that drains it, also from its handlers;
`run_once` of a stopped one fails and takes nothing.

**ToolAgent.** `Answer` is one round of `main`: the model's text is parsed line by
line, later lines over earlier ones, and the tool it names is executed. Handlers
are user code on a `stack`, each with the policy that was passed to `execute`: `main`
passes its own, handlers any. They may change registry and policies, execute further
tools, return, or throw to a handler below or out of `main`. They may not register
an executing tool anew, which would destroy the function being called; the code
leaves that to them. Confidences are either numbers or make `std::stod` throw.

**TcpConnection.** A call in progress at an end is its `job`: the bytes `send_all`
has still to send, or those `receive_bytes` has. `SendSome` and `ReceiveSome` are
one turn of their loops, with pieces of any size; `Wanted` is how far
`receive_bytes` reads, which changes when the header is complete. `SendFails` and
`ReceiveFails` are the returns on an error and, for `recv`, on 0. An end in `drain`
tests `Empty` and receives by turns; between two receives its agents may send. TCP
is external: `wire` holds at most `Window` bytes each way, `Break` is a reset that
may lose them, and errors are permanent. Each end is used by one thread, as the
class has no lock. Sizes are cast to int where the code does it (`AsInt`): `send_all`
given a negative size returns at once, so a message whose frame has 2^31 bytes or more
is not written although `send` returns true. `Writable` are the others, `lost` counts
those, and `receive_bytes` stops after the header if the rest is no positive int. The
module extends `Frame`: what is on the wire are the bytes of
frames, and `receive_bytes` decodes. A message stands for its packet, since
`Protocol` gives a packet back as the message it was (`PacketDecodes`).

## 3. The runs

| Run | Question | Bounds |
|---|---|---|
| `runtime_registry` | may `on_message` change the registry and the running flag, dispatch, and throw? | 2 agents, 2 numbered messages and 1 other, stack up to 5, sends may fail |
| `runtime_nested` | what is left when any callback throws, and does every call return? | 2 agents, 2 numbered messages and 1 other, stack up to 5, so a dispatch within a drain |
| `scheduler_decisions` | does `schedule` take the best decision? | every budget and every task over 3-bit words: 512 budgets, 256 tasks each |
| `llm_tokens` | is everything taken given back or accounted for? | 2 agents with the layers in either order, one over `MockLLM`, which overreports, one over a backend that does not; prompts whose size fits a word and not; token budgets that are full and overfull; memory budgets that fit one call, two, or none; calls until 2 tokens too many were given back (`MaxExcess`), stack up to 4 at a call of the user, so calls nested up to six layers |
| `llm_mock_limit` | does a backend keep to `config.max_tokens`? (violated) | two limits, a text of 3 words |
| `pool` | is the pool an allocator? | 4 blocks of 3 bytes, 2 clients, every offset from -1 to one past the end |
| `arena` | are the blocks of an arena sound, is every request served that can be, and do nested requests keep their blocks? | 5-bit words, 9 bytes, the buffer at null, at two odd addresses and at one aligned to 8; requests up to 3 deep |
| `noisy_line` | does a message, request or response come out as it went in, or as what the bytes say? | bytes of 7 values, 2-byte words; fields at their edges, all roles and statuses; every cut, extension and single change |
| `tcp` | is a TCP connection a channel of messages, and do its calls return? | 2 ends, 2 messages each way; words of one byte of 12 values, so ints up to 5; frames of 4, 5 and 8 bytes, the last too long for an int; TCP holding 3, closed or reset anywhere |
| `remote` | is every answer the right one, every request worked on at most once, and does `generate` end? | a client of the repository with 2 requests and one of another program with 1, a server of the repository and one of another program, restarted and killed any number of times; 2 connections waiting for accept |
| `tools` | what does the agent start, and never start? | 2 tools, 2 policies, every text of up to 2 of 5 kinds of line, executions up to 3 deep |
| `framed_queue` | when does `drain` give up, and is any frame left for ever? | 2 runtimes that start and stop, 4 frames of any kind |

Two agents are enough for the runtime because its loops treat agents one by one
and a conflict needs the one in progress and another. Ids only grow, so two or
three show every relation between one received, one queued and one to come.
Blocks of 3 bytes have a first, a middle and a last byte. With bytes of seven
values some bytes are no role and some no status, and with words of two bytes
magic numbers, lengths and checksums use both bytes of a word, and the id uses
all three of its own. Frames longer than what
TCP holds make every send take at least two pieces, and with two messages in a
row a receive must stop exactly where the first frame ends. Two requests of one
client show a late answer meeting the next request; the second client and server
are there for what they can do to it: fill the queue, take the port, send
anything. Two lines are enough for one that is overridden by the next, or one that
throws before or after it. Two policies show a tool allowed by one and blocked by the
other. Requests three deep have one in the middle that
returns within another while others go on.

*Fairness.* Four runs have liveness properties. In `runtime_nested` one thread
executes the runtime, so its own steps are weakly fair; each kind of callback is
strongly fair to return or throw, which is the assumption that a user's handler is not
an endless loop even though it may make calls of its own first. Foreign threads have
no fairness. That a message source is finite in the run (`MaxId`, `MaxPosted`) is
an assumption too: `drain` does not return while somebody sends faster than it
receives. In `tcp` a thread inside `send`, `receive` or `drain` is weakly fair to
go on when it can: the loops have no other condition than what the socket answers.
Nobody has to call anything, close, or read what the peer sends. In `remote` the
clients and servers of the repository go on when they can; nobody has to call
`generate` or start a server, and other programs may hang. `GenerateEnds` excepts
exactly a call whose connection such a server holds: `config.timeout_ms` is never
used. In `framed_queue` a thread in `drain` goes on and handlers return;
`NoneBlocks` supposes in itself that some runtime is kept running and drained again
and again, because a message for an unknown agent ends the drain that meets it.

`TokensAccounted` makes no assumption on backends. `release` adds whatever was
reported, so a backend that reports more than the estimated prompt and the completion
it was allowed, as `MockLLM` does, gives back tokens that were not taken, up to the cap:
then what remains, what is charged and what is lost are together at most the initial
budget. Until a backend has done so (`overreported`) nothing was gained, and they are
exactly that budget unless it was above the cap from the start.

*Finding.* `llm_mock_limit`: `MockLLM::generate` ignores `config.max_tokens`;
`limit_words` is defined and never called. `tests/test_llm_runtime.cpp:64-78`
says otherwise.

*What the model shows that is not called a bug.* `ScheduledLLMRuntime` releases
the tokens a call used, and not the unused ones, nor any of a call that threw:
`TokensAccounted` counts them in `lost` and does not say that there are none, so with
backends that do not overreport a long-lived scheduler ends in answering every
request with the fallback. Nothing in the repository says what was meant.

An exception out of `on_start` or `on_stop` leaves the loop of `start`, `stop` or
`unregister_agent` with `running_` set: an agent that was stopped may be stopped again,
or get a message. `KeepsLifecycle` is claimed of programs whose `on_start` and `on_stop`
do not throw (`LoopsUndisturbed`); `StoppedMeansStopped` and `CallsReturn` of all.

A nested request that returns resets the scratch arena under its callers:
`KeptUntilReturn` excepts exactly that, and says that nothing else takes a block away.

After the peer has closed, `TcpByteTransport::empty()` is false for ever, because
`select` reports the end of the stream as readable, and `receive` returns nothing:
`drain` spins. `DrainEnds` therefore excepts an end whose connection is gone, and
one whose agent is blocked sending: two ends that both send more than TCP holds
block each other. Nothing in the repository says otherwise.

Each property of a passing run has a mutant in `PROJECT.json`, a changed
definition standing beside the one it changes, under which the run fails.

## 4. The proofs

`AgentRuntime_proofs`
: `TypeCorrect` and `IdsInOrder` hold of any program. `InOrder` is inductive
together with the types: the queue is ordered between `seen` and
`next_message_id`, appending a fresh id extends the order at the end, receiving
moves `seen` up to the front.
: `ContractSuffices`, `NoActiveAgentWhenStopped` and `ImplementsLifecycle` assume
`SafeDiscipline`, the contract of callbacks defined in `AgentRuntime`: `on_start`
and `on_stop` only send (or call `start`, which does nothing then), and `on_message`
removes no agent one of whose methods is executing, its own first of all; otherwise it
may change the registry and dispatch as it likes. `ImplementsLifecycle` assumes
`LoopsUndisturbed`, too: `on_start` and `on_stop` let no exception out. The
code states no such contract; the theorems say that it is enough. What it excludes the
code does not refuse: calls from `on_start` and `on_stop` that change the registry
under the loop they are called from, and the removal of an executing agent. The
invariant needed is `Inv`: `Shaped` says which frame can lie on which (above a loop
over the registry there is only an `on_start` or `on_stop` and a broadcast it made, so
at most one such loop is in progress), `Phases` and `LoopPhases` say where each agent
is in its life given the loop in progress and what it still has to visit. An
exception only pops frames. The last theorem shows that each step of the runtime maps
to a step of `AgentLifecycle` or a stutter, with `inside` read off the stack.

`SmallComponents_proofs`
: `TokenScheduler`. `TypeCorrect`: no charge exceeds what remains, over words of any
width. `AlwaysBest`: for every budget whose maxima's sum fits a word and every task,
`schedule` turns a request away only if nothing could be granted, grants the
most possible, and charges that. The invariant is the type; the work is in
`BestDecision`, by cases on which test of the code answers.
: `FramedQueue`, for any number of runtimes. `FramesInOrder`: received and queued
together are what was sent, in that order (`NothingLost`), so no frame is received
twice, skipped or overtaken; it is inductive with the types. `QueueTypeCorrect`
follows, and `DrainGivesUpRightly` from the types: only `Test` and `RunOnce` end a
drain, and the latter only with a message for an unknown agent or when the runtime is
stopped, and then without taking a frame.
: `ToolAgent`, for any tools, any set of texts and any depth. `StartsLastNamed` needs
what `parse` finds in a text of any length: `NamedBy` says it of the first k lines,
`NextLine` carries it over one line, `ParseNames` over all of them. `ToolsTypeCorrect`
and `PolicyAlwaysHolds` rest on `ExecuteFacts`: `execute` either leaves the stack
alone or puts on it one name that is registered, and allowed by the policy given to it
at that moment, and
returning or throwing only shortens the stack.

`Memory_proofs`
: `FixedBlockPool`. `FreeListCorrect` for all sizes: a free index is on the list
exactly once, and `used_blocks` counts the others. The invariant adds that the
allocated blocks are exactly those some client holds. `ImplementsAllocator`: the
addresses refused are exactly those not held. `PoolTypeCorrect`, about the list, the
flags and the counters, is a part of the same invariant. What clients write into their
blocks is not modelled.
: `MemoryArena`. `BlocksAreSound` and `AlwaysFirstFit`, for every word width, capacity
and buffer under `NoWrap`. Under it no sum of `allocate` wraps (`ExactArithmetic`), so
`Aligned` is the least multiple of the alignment that is not below the free part of the
buffer. `TypeCorrect`, about buffer, offset, peak and blocks, needs no `NoWrap`: sums
wrap, and the offset stays in the buffer.
: `ScratchMemory`: `KeepsUntilReturn` and `RequestsUseArena`. A step of the
requests is a step of the arena or leaves it alone (`RequestsUseArena`), so the
theorems about the arena hold under it. `Apart`, that requests in progress have
different blocks and all of them among those given out, is kept by every step, and
only a request that returns takes blocks away from those below it. That different
blocks have no byte in common is `BlocksAreSound`.

`LLMStack_proofs`
: `TypeCorrect` and `AlwaysCovered`, for any agents and backends, any number of
layers in any order, and any depth. `CallsCovered` is inductive once it is said of
every pair of a call and one below it in the same runtime, with calls starting at
the first layer (`FromTheTop`), so that a new request is below nobody: `CallInner`
puts one frame on top whose prompt is its caller's and whose completion is no
larger, so whatever covered the caller covers it (`SmallerCovered`), and the caller
covers it by what it just took (`ScheduleFacts`: the charge of a request let in,
in whole or in part, is what it goes on with). That uses `NoWrap` of the
scheduler, which `SizesAssumption` asks of its initial budget.
: `BytesAlwaysAccounted`: what an agent's budget has used is the sum of what its frames
on the stack hold, and never more if the budget was replaced meanwhile.
`TokensAlwaysAccounted`, for any backends and without a hypothesis beyond the `ASSUME`s:
until a backend overreports, a result that reaches a scheduled layer is no more than the
layer charged (`Reported`), so nothing is gained and nothing clipped; after that
`release`, which wraps and caps, never adds more than was reported. The sums are folds over the
stack; what a push or a pop does to them comes from `SumAppend` and `SumOfZeros`.

`RemoteLLM_proofs`
: `TypeCorrect`, `AnswersAreOwn` and `ImplementsCalls`, for any clients, servers and
messages of other programs, forged answers included. The invariant follows a request
from hand to hand. Until it is sent nobody has worked on it (`Unsent`), and while it is in an inbox
neither (`Unread`); a connection is in the queue or at one process, never at two
(`Apart`), so the process that took the request is the only one to work on it
(`Working`) and what comes back is its answer, or from another program that accepted
it (`Answers`). `Known` and
`Unmade` keep numbers that were not given out yet apart from all that. Refusing
is then safe because a send fails only before the request is in the inbox, and
each step of the system is a step of `RemoteCalls` or a stutter.

`NoisyLine_proofs`
: `FrameDecodes`, `CutRefused` and `ChangeRefused`, for any radix, widths, magic number
and payload that fits: `decode` gives back the payload that `encode` was given, and
refuses the frame when bytes at its end are missing or when one byte outside the
size field is another. The sum of bytes tells two payloads apart that differ in one
place because the difference is smaller than the radix, and so than a word.
: `PacketDecodes`, `CutPacketRefused` and `MessageComesBack`, for any widths and texts
that fit them: the same of packets, by the place of each part in what `encode` wrote
(`Written`), and of messages in packets in frames. `FrameDecodesFirst` and
`MessageComesFirst` say it of whatever begins with the frame.
: `LLMMessageCodec`. Both directions rest on one notion: `Laid(s, K, F, O, n)`, the bytes
`s` hold n fields `F` of the kinds `K` one after the other, with the offsets `O` between
them. What is written is laid (`Wrote`, `RequestLaid`), and what a reader has read
without throwing is laid, too (`Reached`, `ResponseFound`, `RequestFound`): `ReadFinds`
says of each kind that the reader throws or takes exactly a value whose encoding stands
there. Bytes hold one value of a kind only (`OneValue`), so two ways of laying the same
kinds in the same bytes agree (`LaidOnce`), the number of turns of a prompt included. Hence
`ResponseComesBack` and `RequestComesBack` with whatever follows, for prompts of any
length; `CutResponseRefused` and `CutRequestRefused`, since the fields of a cut payload
would be laid in the whole one and end before its end; `RequestIsNoResponse` and
`ResponseIsNoRequest`, because the magics differ; and `ResponseReadsWhatIsThere` and
`RequestReadsWhatIsThere`, about any bytes at all: what was read and what is written
again are laid alike but for the one byte that `u8_to_status` or the flag forgets.
: `NoisyLine`. `LineTypeCorrect`, `LineRoundTrip`, `LineDamageDetected`,
`LineNoPrefixDecodes` and `LineReadsWhatIsThere`, for any contents. The types alone are not
enough: `LineInvariant` adds what each kind of `damage` has done to the bytes that
were sent (`Damaged`), which the theorems above are about.

`TcpConnection_proofs`
: `TypeCorrect`, `AlwaysInStep` and `ImplementsChannel`, for any messages, any `Window`
and pieces of any size. The invariant `Flow` says of each direction what its bytes
make up: what the receiver holds, what is on the wire and some rest are together the
frames of the messages sent and not delivered. While the connection is up the rest is
what the sender has still to send; when a call failed or the connection broke it is
what nobody will ever see. So a receiver that has a header and as many bytes as it
says has exactly the next frame, which decodes (`FrameDecodes`) to the next message; and a message
is delivered only after, and in the order in which, it was sent.

`SequenceLemmas` has what these proofs share: push, pop, head and tail; what is in a
concatenation and in a part of it; and folds. The provers cannot instantiate an
induction theorem whose parameter is an operator. `Induction` takes the *set* of the
numbers that have the property instead, and from it `RecursionExists`, `FoldIteration`
and `FoldResult` derive that a recursive function on numbers exists and what
`FoldLeft` computes, given as the values it runs through (`Folds`). That is how the
sums, the checksums, the numbers in a frame and the lines of a text are reasoned about.

*Assumptions* of the theorems are the named `ASSUME`s of the modules and the
hypotheses stated with them. `RadixAssumption` and `WordAssumption`: a byte has at
least two values, a word at least one byte, and the magic number fits it.
`EndsAssumption`, `PacketsFit`, `WindowAssumption`: a connection has two ends, the
frame of each message is shorter than 4 GiB, so that a word counts it (an int need
not), and `Window` is a number.
`BudgetsAssumption`, `SizesAssumption`, `RemoteAssumption`: sizes are numbers, the
scheduler's maxima fit a word together, and what other programs send besides
well-formed requests and answers is not of that form. `ToolsAssumption`, `MaxSentAssumption`: texts are
sequences of lines, bounds are numbers. `ProtocolFits`, `CodecFits`, `ContentsFit`:
the magics and the version fit their fields, the magics of requests and responses
differ, a byte can tell the statuses apart, and the numbers and lengths of the messages,
requests and responses sent fit their fields, which `write_u32` and the like do not check.
`SafeDiscipline`, `LoopsUndisturbed` and `NoWrap` are hypotheses where stated.

`TypeCorrect` of `TcpConnection` only bounds the jobs and the wire; that a receive waits
for exactly its frame is `InStep`.

*Only model-checked:*

* The liveness properties `CallsReturn`, `ReceiveEnds`, `DrainEnds`, `GenerateEnds` and
  `NoneBlocks`. They rest on fairness, and the provers do not reason about when an
  action is enabled.

Every invariant and every other action property or refinement that a passing run checks
is a theorem.

## 5. Not modelled, and why

* The system calls of TCP and Winsock start-up, beyond what they do.
* Texts: error messages, logging, names as strings, prompt contents.
* `deadline_ms`, `priority`, `task_id`, `timeout_ms`, temperature and the like:
  stored or transmitted by the code and used by nothing.
* Copying a `MemoryManager`, and 32-bit `size_t` in the budgets, the pool and the
  decoders.
* `Prompt::to_string` and the words MockLLM counts: sizes stand for them.
* The example programs other than the tool agent's `main` and the model server: they
  are linear uses of the library. Their layers and budgets gave the runs theirs.
* Tests and build files, which have no behaviour of their own.

## 6. The plan

1. Done: all components that have behaviour of their own, and the theorems above: each
   invariant of the runs for every value of the constants.
2. `LLMStack` over `RemoteLLM` as its backend: a refusal, a failure and a throw of a
   remote call are already what `BackendReturns` and `BackendThrows` do, so this would
   show only that the answer given back is the layers' own.
