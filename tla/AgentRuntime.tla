----------------------------- MODULE AgentRuntime -----------------------------
(***************************************************************************)
(* core/src/runtime.cpp: a registry of agents, a running flag and a        *)
(* message counter over a Transport the runtime does not own.              *)
(*                                                                         *)
(* The runtime is single-threaded but it is re-entrant: start, stop,       *)
(* unregister_agent, run_once and drain call on_start, on_stop and         *)
(* on_message, which are virtual functions of the user's agents and may    *)
(* call back into the runtime while it is in the middle of a loop.  The    *)
(* calls in progress are therefore kept in an explicit stack.  A frame is  *)
(* either one of the runtime's operations stopped at the point where it    *)
(* calls out (or where the other threads that share the transport can be   *)
(* seen), or a callback of an agent.  User code runs when the stack is     *)
(* empty ("main") or when a callback is on top of it.                      *)
(***************************************************************************)
EXTENDS Integers, Sequences

CONSTANTS
    Agent,          \* the names agents are registered under
    MayCall,        \* the operations main and each kind of callback call
    MayThrow,       \* the callbacks that may let an exception out
    RemovesExecuting,    \* whether a callback may unregister an agent a
                         \* method of which is executing, its own first of all
    SendOutcomes,   \* what Transport::send may return
    MaxId,          \* bound: no operation that numbers a message starts above
    MaxPosted,      \* bound: messages sent that the runtime did not number
    MaxDepth        \* bound: user code makes no call from a deeper stack

Callback  == {"on_start", "on_message", "on_stop"}
Operation == {"register_agent", "unregister_agent", "send", "publish_event",
              "broadcast_event", "start", "stop", "run_once", "drain"}

ASSUME MayCallAssumption == MayCall \in [{"main"} \cup Callback -> SUBSET Operation]
ASSUME OutcomesAssumption == SendOutcomes \in (SUBSET BOOLEAN) \ {{}}
ASSUME ThrowAssumption == MayThrow \subseteq Callback
ASSUME BoundsAssumption == /\ RemovesExecuting \in BOOLEAN
                           /\ MaxId \in Nat /\ MaxPosted \in Nat
                           /\ MaxDepth \in Nat

VARIABLES
    agents,           \* agents_: the registered names
    running,          \* running_
    next_message_id,  \* next_message_id_
    queue,            \* the transport's queue
    stack,            \* the calls in progress, innermost last
    result,           \* the code of the last Result returned
    posted,           \* how many messages the runtime did not number
    seen,             \* history: the last id the runtime numbered and received
    phase,            \* history: how far in its life each agent is
    broken            \* history: the C++ program has undefined behaviour

vars == <<agents, running, next_message_id, queue, stack, result, posted,
          seen, phase, broken>>

(* The ids the runtime gives start at 1; 0 stands for an id given by anyone *)
(* else (AgentRuntime::send and Transport::send forward what they get).     *)
Message   == [id : Nat, target : Agent]
Transport == INSTANCE InMemoryTransport

(* `of`: the agents a loop has still to visit, or the agent called back. *)
InProgress == {"unregister_agent", "broadcast_event", "start", "stop",
               "drain", "drain_run_once"}
Frame == [op : Callback \cup InProgress, of : SUBSET Agent]
Phase == {"absent", "fresh", "active", "stopped"}
Code  == {"None", "InvalidArgument", "AgentAlreadyExists", "AgentNotFound",
          "TransportError", "RuntimeNotRunning"}

TypeOK ==
    /\ agents \in SUBSET Agent
    /\ running \in BOOLEAN
    /\ next_message_id \in Nat /\ next_message_id > 0
    /\ Transport!TypeOK
    /\ stack \in Seq(Frame)
    /\ result \in Code
    /\ posted \in 0 .. MaxPosted
    /\ seen \in Nat
    /\ phase \in [Agent -> Phase]
    /\ broken \in BOOLEAN

(* Mutant of Init: the message counter starts at 0. *)
InitCounterAtZero ==
    /\ agents = {} /\ running = FALSE /\ next_message_id = 0 /\ Transport!Init
    /\ stack = <<>> /\ result = "None" /\ posted = 0 /\ seen = 0
    /\ phase = [a \in Agent |-> "absent"] /\ broken = FALSE

Init ==
    /\ agents = {}
    /\ running = FALSE
    /\ next_message_id = 1
    /\ Transport!Init
    /\ stack = <<>>
    /\ result = "None"
    /\ posted = 0
    /\ seen = 0
    /\ phase = [a \in Agent |-> "absent"]
    /\ broken = FALSE

-----------------------------------------------------------------------------
(* The call stack. *)

Call(op, of)  == [op |-> op, of |-> of]
Top           == stack[Len(stack)]
Push(f)       == Append(stack, f)
Pop           == SubSeq(stack, 1, Len(stack) - 1)
Replace(f)    == Append(Pop, f)
OnTop(op)     == stack # <<>> /\ Top.op = op

Caller == IF stack = <<>> THEN "main" ELSE Top.op

(* User code is executing and calls op.  Nothing is said of what a program *)
(* does once its behaviour is undefined.                                   *)
Calls(op) == /\ ~broken
             /\ Caller \in {"main"} \cup Callback
             /\ op \in MayCall[Caller]
             /\ Len(stack) < MaxDepth

(* A method of agent a is executing. *)
Executing(a) == \E i \in DOMAIN stack : stack[i].op \in Callback /\ a \in stack[i].of

(* The runtime holds an iterator of agents_ that it will use again: the    *)
(* range-for loops of start and stop, `it` in unregister_agent.  dispatch  *)
(* does not use its own after on_message.                                  *)
HoldsIterator == \E i \in DOMAIN stack : stack[i].op \in {"start", "stop", "unregister_agent"}

Fails(code) == /\ result' = code
               /\ UNCHANGED <<agents, running, next_message_id, queue, stack,
                              posted, seen, phase, broken>>

-----------------------------------------------------------------------------
(* The registry. *)

RegisterInvalid == Calls("register_agent") /\ Fails("InvalidArgument")

(* Mutant of RegisterAgent: a name already taken is not refused, so the    *)
(* assignment to agents_[agent_name] destroys the agent that had it.       *)
RegisterReplaces(a) ==
    /\ Calls("register_agent")
    /\ agents' = agents \cup {a}
    /\ phase'  = [phase EXCEPT ![a] = "fresh"]
    /\ broken' = (HoldsIterator \/ Executing(a))
    /\ result' = "None"
    /\ UNCHANGED <<running, next_message_id, queue, stack, posted, seen>>

(* Inserting may rehash the unordered_map, which invalidates its iterators. *)
RegisterAgent(a) ==
    /\ Calls("register_agent")
    /\ \/ a \in agents /\ Fails("AgentAlreadyExists")
       \/ /\ a \notin agents
          /\ agents' = agents \cup {a}
          /\ phase'  = [phase EXCEPT ![a] = "fresh"]
          /\ broken' = HoldsIterator
          /\ result' = "None"
          /\ UNCHANGED <<running, next_message_id, queue, stack, posted, seen>>

(* agents_.erase(it) destroys the agent.  It is undefined when `it` was    *)
(* erased before, and so is what follows when a method of the agent is     *)
(* executing or a loop of the runtime stands on its entry.                 *)
Erase(a) == /\ agents' = agents \ {a}
            /\ phase'  = [phase EXCEPT ![a] = "absent"]
            /\ broken' = (a \notin agents \/ Executing(a))
            /\ result' = "None"

(* Mutant of UnregisterAgent: on_stop is not called. *)
UnregisterWithoutStop(a) ==
    /\ Calls("unregister_agent")
    /\ Executing(a) => RemovesExecuting
    /\ a \in agents
    /\ Erase(a)
    /\ UNCHANGED <<running, next_message_id, queue, stack, posted, seen>>

UnregisterAgent(a) ==
    /\ Calls("unregister_agent")
    /\ Executing(a) => RemovesExecuting
    /\ \/ a \notin agents /\ Fails("AgentNotFound")
       \/ /\ a \in agents /\ ~running
          /\ Erase(a)
          /\ UNCHANGED <<running, next_message_id, queue, stack, posted, seen>>
       \/ /\ a \in agents /\ running
          /\ phase' = [phase EXCEPT ![a] = "stopped"]
          /\ stack' = Append(Push(Call("unregister_agent", {a})), Call("on_stop", {a}))
          /\ UNCHANGED <<agents, running, next_message_id, queue, result,
                         posted, seen, broken>>

(* on_stop has returned to unregister_agent. *)
UnregisterErase ==
    /\ ~broken
    /\ OnTop("unregister_agent")
    /\ \E a \in Top.of : Erase(a)
    /\ stack' = Pop
    /\ UNCHANGED <<running, next_message_id, queue, posted, seen>>

-----------------------------------------------------------------------------
(* Sending. *)

(* AgentRuntime::send of a message to a: the transport takes it, or not. *)
Transmit(m, ok) == IF ok THEN Transport!Send(m) ELSE UNCHANGED queue
ResultOf(ok)    == IF ok THEN "None" ELSE "TransportError"

Send(a) ==
    /\ Calls("send")
    /\ posted < MaxPosted
    /\ \E ok \in SendOutcomes :
          /\ Transmit([id |-> 0, target |-> a], ok)
          /\ result' = ResultOf(ok)
    /\ posted' = posted + 1
    /\ UNCHANGED <<agents, running, next_message_id, stack, seen, phase, broken>>

(* The id is used up whether or not the transport takes the message. *)
PublishEvent(a) ==
    /\ Calls("publish_event")
    /\ next_message_id <= MaxId
    /\ \E ok \in SendOutcomes :
          /\ Transmit([id |-> next_message_id, target |-> a], ok)
          /\ result' = ResultOf(ok)
    /\ next_message_id' = next_message_id + 1
    /\ UNCHANGED <<agents, running, stack, posted, seen, phase, broken>>

BroadcastEvent ==
    /\ Calls("broadcast_event")
    /\ next_message_id <= MaxId
    /\ stack' = Push(Call("broadcast_event", agents))
    /\ UNCHANGED <<agents, running, next_message_id, queue, result, posted,
                   seen, phase, broken>>

(* Mutant of BroadcastNext: the id is taken once for the whole broadcast. *)
BroadcastOneId ==
    /\ ~broken
    /\ OnTop("broadcast_event")
    /\ \/ /\ Top.of = {}
          /\ stack' = Pop
          /\ next_message_id' = next_message_id + 1
          /\ UNCHANGED queue
       \/ \E a \in Top.of :
          /\ Transmit([id |-> next_message_id, target |-> a], TRUE)
          /\ stack' = Replace(Call("broadcast_event", Top.of \ {a}))
          /\ UNCHANGED next_message_id
    /\ result' = "None"
    /\ UNCHANGED <<agents, running, posted, seen, phase, broken>>

(* One iteration of broadcast_event's loop, or its end.  The first send    *)
(* that fails ends the broadcast.                                          *)
BroadcastNext ==
    /\ ~broken
    /\ OnTop("broadcast_event")
    /\ \/ /\ Top.of = {}
          /\ stack' = Pop
          /\ result' = "None"
          /\ UNCHANGED <<next_message_id, queue>>
       \/ \E a \in Top.of, ok \in SendOutcomes :
          /\ Transmit([id |-> next_message_id, target |-> a], ok)
          /\ next_message_id' = next_message_id + 1
          /\ result' = ResultOf(ok)
          /\ stack' = IF ok THEN Replace(Call("broadcast_event", Top.of \ {a})) ELSE Pop
    /\ UNCHANGED <<agents, running, posted, seen, phase, broken>>

-----------------------------------------------------------------------------
(* Starting and stopping. *)

(* running_ is set before the first on_start. *)
Start ==
    /\ Calls("start")
    /\ IF running THEN UNCHANGED <<running, stack>>
       ELSE running' = TRUE /\ stack' = Push(Call("start", agents))
    /\ UNCHANGED <<agents, next_message_id, queue, result, posted, seen,
                   phase, broken>>

StartNext ==
    /\ ~broken
    /\ OnTop("start")
    /\ \/ /\ Top.of \cap agents = {}
          /\ stack' = Pop
          /\ UNCHANGED phase
       \/ \E a \in Top.of \cap agents :
          /\ phase' = [phase EXCEPT ![a] = "active"]
          /\ stack' = Append(Replace(Call("start", Top.of \ {a})), Call("on_start", {a}))
    /\ UNCHANGED <<agents, running, next_message_id, queue, result, posted,
                   seen, broken>>

(* Mutant of Stop: running_ is cleared before the loop over the agents. *)
StopClearsFirst ==
    /\ Calls("stop")
    /\ running' = FALSE
    /\ stack' = IF running THEN Push(Call("stop", agents)) ELSE stack
    /\ UNCHANGED <<agents, next_message_id, queue, result, posted, seen,
                   phase, broken>>

Stop ==
    /\ Calls("stop")
    /\ stack' = IF running THEN Push(Call("stop", agents)) ELSE stack
    /\ UNCHANGED <<agents, running, next_message_id, queue, result, posted,
                   seen, phase, broken>>

(* running_ is cleared after the last on_stop. *)
StopNext ==
    /\ ~broken
    /\ OnTop("stop")
    /\ \/ /\ Top.of \cap agents = {}
          /\ running' = FALSE
          /\ stack' = Pop
          /\ UNCHANGED phase
       \/ \E a \in Top.of \cap agents :
          /\ phase' = [phase EXCEPT ![a] = "stopped"]
          /\ stack' = Append(Replace(Call("stop", Top.of \ {a})), Call("on_stop", {a}))
          /\ UNCHANGED running
    /\ UNCHANGED <<agents, next_message_id, queue, result, posted, seen, broken>>

-----------------------------------------------------------------------------
(* Receiving. *)

(* Delivery of the front message, or its loss when the target is unknown. *)
Dispatch(done, failed) ==
    \/ /\ Transport!Front.target \notin agents
       /\ result' = "AgentNotFound"
       /\ stack' = failed
    \/ /\ Transport!Front.target \in agents
       /\ result' = "None"
       /\ stack' = Append(done, Call("on_message", {Transport!Front.target}))

(* run_once and the dispatch it ends in.  The stack becomes `failed` when  *)
(* the result is a failure; otherwise it becomes `done`, below on_message  *)
(* when there was a message to deliver.                                    *)
ReceiveAndDispatch(done, failed) ==
    /\ \/ /\ ~running
          /\ result' = "RuntimeNotRunning"
          /\ stack' = failed
          /\ UNCHANGED <<queue, seen>>
       \/ /\ running
          /\ Transport!ReceiveNothing
          /\ result' = "None"
          /\ stack' = done
          /\ UNCHANGED seen
       \/ /\ running
          /\ Transport!Receive
          /\ seen' = IF Transport!Front.id = 0 THEN seen ELSE Transport!Front.id
          /\ Dispatch(done, failed)
    /\ UNCHANGED <<agents, running, next_message_id, posted, phase, broken>>

RunOnce == Calls("run_once") /\ ReceiveAndDispatch(stack, stack)

Drain ==
    /\ Calls("drain")
    /\ stack' = Push(Call("drain", {}))
    /\ UNCHANGED <<agents, running, next_message_id, queue, result, posted,
                   seen, phase, broken>>

(* The condition of drain's loop.  The queue may change before run_once    *)
(* looks at it: other threads share the transport.                         *)
DrainTest ==
    /\ ~broken
    /\ OnTop("drain")
    /\ stack' = IF Transport!Empty THEN Pop ELSE Replace(Call("drain_run_once", {}))
    /\ UNCHANGED <<agents, running, next_message_id, queue, result, posted,
                   seen, phase, broken>>

(* Mutant of DrainRunOnce: a failure does not leave the loop. *)
DrainIgnoresFailure ==
    /\ ~broken
    /\ OnTop("drain_run_once")
    /\ ReceiveAndDispatch(Replace(Call("drain", {})), Replace(Call("drain", {})))

(* The body of drain's loop; a failure leaves the loop. *)
DrainRunOnce ==
    /\ ~broken
    /\ OnTop("drain_run_once")
    /\ ReceiveAndDispatch(Replace(Call("drain", {})), Pop)

-----------------------------------------------------------------------------
(* The agents and the other users of the transport. *)

Return(callback) ==
    /\ ~broken
    /\ OnTop(callback)
    /\ stack' = Pop
    /\ UNCHANGED <<agents, running, next_message_id, queue, result, posted,
                   seen, phase, broken>>

(* The user code nearest below the callback on top: frame n, or main (0). *)
Catches(n) == /\ n # 0 => stack[n].op \in Callback
              /\ \A i \in n + 1 .. Len(stack) - 1 : stack[i].op \notin Callback

(* Mutant of Throw: stop catches the exception, clears running_ and throws *)
(* it again, although agents it has not come to are active.                *)
ThrowClearsRunning(callback) ==
    /\ ~broken
    /\ OnTop(callback)
    /\ callback \in MayThrow
    /\ \E n \in 0 .. Len(stack) - 1 :
          /\ Catches(n)
          /\ stack' = SubSeq(stack, 1, n)
          /\ running' = (running /\ \A i \in n + 1 .. Len(stack) : stack[i].op # "stop")
    /\ UNCHANGED <<agents, next_message_id, queue, result, posted, seen,
                   phase, broken>>

(* An exception leaves the callback, and with it the loops of start, stop, *)
(* drain and unregister_agent that made it: nothing in the runtime catches *)
(* it, running_ and the registry stay as they are and the message is gone. *)
(* The user code that called the runtime catches it; if that is a          *)
(* callback, it may throw in turn.                                         *)
Throw(callback) ==
    /\ ~broken
    /\ OnTop(callback)
    /\ callback \in MayThrow
    /\ \E n \in 0 .. Len(stack) - 1 : Catches(n) /\ stack' = SubSeq(stack, 1, n)
    /\ UNCHANGED <<agents, running, next_message_id, queue, result, posted,
                   seen, phase, broken>>

ForeignSend(a) ==
    /\ ~broken
    /\ posted < MaxPosted
    /\ Transport!Send([id |-> 0, target |-> a])
    /\ posted' = posted + 1
    /\ UNCHANGED <<agents, running, next_message_id, stack, result, seen,
                   phase, broken>>

ForeignReceive ==
    /\ ~broken
    /\ Transport!Receive
    /\ UNCHANGED <<agents, running, next_message_id, stack, result, posted,
                   seen, phase, broken>>

-----------------------------------------------------------------------------
UserCall ==
    \/ RegisterInvalid \/ BroadcastEvent \/ Start \/ Stop \/ RunOnce \/ Drain
    \/ \E a \in Agent : \/ RegisterAgent(a) \/ UnregisterAgent(a)
                        \/ Send(a) \/ PublishEvent(a)

RuntimeStep == \/ UnregisterErase \/ BroadcastNext \/ StartNext \/ StopNext
               \/ DrainTest \/ DrainRunOnce

Foreign == ForeignReceive \/ \E a \in Agent : ForeignSend(a)

Next == UserCall \/ RuntimeStep \/ Foreign \/ \E c \in Callback : Return(c) \/ Throw(c)

Spec == Init /\ [][Next]_vars

(* The thread that called the runtime keeps executing it, and each kind of *)
(* callback returns or throws in the end, whatever calls it makes before.  *)
Fairness == WF_vars(RuntimeStep) /\ \A c \in Callback : SF_vars(Return(c) \/ Throw(c))

FairSpec == Spec /\ Fairness

-----------------------------------------------------------------------------
(* What the callbacks may call for the runtime to be safe.  Nothing in the *)
(* code enforces it: it is the contract its users must keep.  While        *)
(* on_start and on_stop run, the runtime stands in a loop over the         *)
(* registry, so they only send (and may call start, which is a no-op       *)
(* there).  on_message may change the registry and dispatch messages       *)
(* itself, but remove no agent of which a method is executing.             *)
SafeDiscipline ==
    /\ MayCall["on_start"] \cup MayCall["on_stop"]
           \subseteq {"send", "publish_event", "broadcast_event", "start"}
    /\ "unregister_agent" \notin MayCall["on_message"] \/ ~RemovesExecuting

(* What more an agent's life depends on: on_start and on_stop let no       *)
(* exception out.  It would leave running_ set and the other agents        *)
(* neither started nor stopped, so that an agent stopped already gets      *)
(* messages or is stopped once more.  on_message may throw.                *)
LoopsUndisturbed == MayThrow \subseteq {"on_message"}

(* Under SafeDiscipline the iterators and agents the runtime holds across  *)
(* a callback (runtime.cpp:48-52, 111-113, 121-123, 183) are never         *)
(* invalidated by the calls the callback makes, through any nesting of     *)
(* handlers that dispatch, register and unregister, and any exceptions.    *)
NoUndefined == ~broken

(* The ids of the messages the runtime numbered grow along the queue, all  *)
(* of them lie between the last one received and the next to be given: no  *)
(* id is used twice, no message is received twice or out of order, however *)
(* callbacks, nested drains and other threads interleave                   *)
(* (runtime.cpp:72-79, 86-98, 136, 169-171).                               *)
InOrder ==
    /\ seen < next_message_id
    /\ \A i \in DOMAIN queue : queue[i].id # 0 => 
          /\ queue[i].id > seen
          /\ queue[i].id < next_message_id
          /\ \A j \in 1 .. i - 1 : queue[j].id < queue[i].id

(* When the runtime is not running no agent is left between its on_start   *)
(* and its on_stop, although running_ is set before the first on_start and *)
(* cleared after the last on_stop, agents come and go in between, and an   *)
(* exception may end either loop early (runtime.cpp:48-52, 104-126).       *)
StoppedMeansStopped == ~running => \A a \in Agent : phase[a] # "active"

(* What an agent may rely on, stated for each agent by itself. *)
Inside(s) == {m \in Callback \X Agent :
                 \E i \in DOMAIN s : s[i].op = m[1] /\ m[2] \in s[i].of}
Lifecycle == INSTANCE AgentLifecycle WITH inside <- Inside(stack)

(* Under SafeDiscipline and LoopsUndisturbed the runtime keeps every       *)
(* agent's life in order, also when on_message throws through any nesting  *)
(* of drains: no message reaches an agent that was stopped or is not       *)
(* registered, on_stop comes once and before destruction, and an agent is  *)
(* destroyed only when none of its methods is executing                    *)
(* (runtime.cpp:39-56, 104-126, 173-185).                                  *)
KeepsLifecycle == Lifecycle!Spec

(* Every call of the runtime ends: start, stop and broadcast_event      *)
(* visit finitely many agents, and drain ends once nobody adds messages    *)
(* for ever, or at the first failure (runtime.cpp:145-155).                *)
CallsReturn == stack # <<>> ~> stack = <<>>
=============================================================================
