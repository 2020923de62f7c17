------------------------------- MODULE LLMStack -------------------------------
(***************************************************************************)
(* Requests to a language model through the wrappers that guard it:        *)
(* MemoryAwareLLMRuntime reserves memory of the agent's budget for the     *)
(* time of the call, ScheduledLLMRuntime takes tokens from the scheduler.  *)
(* Each wraps an LLMRuntime by reference, so an agent's runtime is a list  *)
(* of layers over a backend, and the runtimes of several agents share one  *)
(* scheduler and one MemoryManager.                                        *)
(*                                                                         *)
(* The backend is user code (LLMRuntime is an interface): it may call the  *)
(* runtime of another agent, reports the tokens it used, and may throw.    *)
(* The calls in progress are a stack; an exception unwinds it.             *)
(***************************************************************************)
EXTENDS Integers, SequencesExt

CONSTANTS
    Agent,        \* agent ids
    Layers,       \* the layers of each agent's runtime, outermost first
    Chars,        \* the sizes of the prompts requested
    MaxTokens,    \* the values of config.max_tokens requested
    Limits,       \* the limits given to set_agent_budget
    Modulus,      \* 2^32
    Budgets,      \* the budgets the scheduler may be constructed with
    Backend,      \* the backend of each agent's runtime
    ResponseWords, PromptWords,    \* of MockLLM
    Throws,       \* whether a backend may throw
    MaxDepth,     \* bound: user code calls from no deeper a stack
    MaxExcess     \* bound: it calls until so many tokens too many were given back

ASSUME LayersAssumption == Layers \in [Agent -> Seq({"memory", "scheduled"})]
ASSUME BackendAssumption == Backend \in [Agent -> {"honest", "mock"}]

VARIABLES
    agent_budgets,    \* of the MemoryManager
    scratch,          \* whether the MemoryManager's scratch arena is in use
    budget,           \* of the TokenScheduler
    stack,            \* the generate calls in progress, innermost last
    now,              \* what happens at the top of the stack
    result,           \* the tokens the last LLMResult reports
    initial,          \* history: the tokens the scheduler started with
    lost,             \* history: the tokens charged less those given back
    overreported,     \* history: whether a backend reported more than it was asked
    resized           \* history: who got a new budget during a reservation

vars == <<agent_budgets, scratch, budget, stack, now, result,
          initial, lost, overreported, resized>>

Memory    == INSTANCE MemoryBudgets
Scheduler == INSTANCE TokenScheduler
Mock      == INSTANCE MockLLM

(* Sizes are numbers, and the sum of the scheduler's maxima fits a word,   *)
(* which the code does not check.                                          *)
ASSUME SizesAssumption ==
    /\ Chars \subseteq Nat /\ MaxTokens \subseteq Nat /\ Limits \subseteq Nat
    /\ ResponseWords \in Nat /\ PromptWords \subseteq Nat
    /\ Modulus \in Nat \ {0}
    /\ Budgets \subseteq Scheduler!TokenBudget
    /\ \A b \in Budgets : b.max_prompt_tokens + b.max_completion_tokens < Modulus

(* A call of generate that is in layer `layer` of the runtime of `agent`,  *)
(* with the bytes or the tokens this layer holds for it.                   *)
LLMResult == [prompt_tokens : Nat, completion_tokens : Nat]
Frame == [agent : Agent, layer : Nat, chars : Nat, max_tokens : Nat, held : Nat]

TypeOK ==
    /\ Memory!TypeOK
    /\ scratch \in BOOLEAN
    /\ Scheduler!TypeOK
    /\ stack \in Seq(Frame)
    /\ now \in {"call", "return", "throw"}
    /\ result \in LLMResult
    /\ initial \in Nat /\ lost \in Int /\ overreported \in BOOLEAN
    /\ resized \in SUBSET Agent

Init ==
    /\ Memory!Init
    /\ scratch = FALSE
    /\ Scheduler!Init
    /\ stack = <<>>
    /\ now = "return"
    /\ result = Mock!NoTokens
    /\ initial = budget.remaining_tokens
    /\ lost = 0
    /\ overreported = FALSE
    /\ resized = {}

-----------------------------------------------------------------------------
Kind(f) == IF f.layer <= Len(Layers[f.agent]) THEN Layers[f.agent][f.layer] ELSE "backend"
Top     == stack[Len(stack)]
Pop     == SubSeq(stack, 1, Len(stack) - 1)

OnTop(kind) == stack # <<>> /\ Kind(Top) = kind

(* The user's code executes: main, or a backend. *)
UserCode == IF stack = <<>> THEN TRUE ELSE Kind(Top) = "backend"

(* The top layer keeps `held` and calls the layer it wraps. *)
CallInner(held, max) ==
    /\ stack' = Pop \o <<[Top EXCEPT !.held = held],
                         [Top EXCEPT !.layer = @ + 1, !.max_tokens = max, !.held = 0]>>
    /\ now' = "call"
    /\ UNCHANGED result

(* The top layer answers its caller without calling the layer it wraps. *)
Answer == stack' = Pop /\ now' = "return" /\ result' = Mock!NoTokens

Live(kind, a) == {i \in DOMAIN stack : Kind(stack[i]) = kind /\ stack[i].agent = a}

(* What the layers of one kind hold for the calls of some agents. *)
Share(f, kind, agents) == IF Kind(f) = kind /\ f.agent \in agents THEN f.held ELSE 0
Held(frames, kind, agents) ==
    FoldLeft(+, 0, [i \in DOMAIN frames |-> Share(frames[i], kind, agents)])

-----------------------------------------------------------------------------
(* User code. *)

Generate(a, chars, max) ==
    /\ UserCode
    /\ Len(stack) < MaxDepth /\ lost > -MaxExcess
    /\ stack' = Append(stack, [agent |-> a, layer |-> 1, chars |-> chars,
                               max_tokens |-> max, held |-> 0])
    /\ now' = "call"
    /\ result' = Mock!NoTokens
    /\ UNCHANGED <<agent_budgets, scratch, budget, initial, lost, overreported, resized>>

SetAgentBudget(a, limit) ==
    /\ UserCode
    /\ Memory!SetAgentBudget(a, limit)
    /\ resized' = IF Live("memory", a) = {} THEN resized \ {a} ELSE resized \cup {a}
    /\ UNCHANGED <<scratch, budget, stack, now, result, initial, lost, overreported>>

AllocateScratch ==
    /\ UserCode
    /\ scratch' = TRUE
    /\ UNCHANGED <<agent_budgets, budget, stack, now, result, initial, lost, overreported, resized>>

-----------------------------------------------------------------------------
(* MemoryAwareLLMRuntime::generate. *)

EstimateMemoryBytes(f) == f.chars + 8 * f.max_tokens + 1024

(* The ScopedMemoryReservation is constructed. *)
ReserveMemory ==
    /\ now = "call" /\ OnTop("memory")
    /\ LET bytes == EstimateMemoryBytes(Top)
       IN  \/ /\ Memory!CanReserve(Top.agent, bytes)
              /\ Memory!Reserve(Top.agent, bytes)
              /\ CallInner(bytes, Top.max_tokens)
           \/ /\ ~Memory!CanReserve(Top.agent, bytes)
              /\ Answer
              /\ UNCHANGED agent_budgets
    /\ UNCHANGED <<scratch, budget, initial, lost, overreported, resized>>

(* Mutant of ReleaseMemory: nothing releases the reservation. *)
KeepMemory ==
    /\ now = "return" /\ OnTop("memory")
    /\ scratch' = FALSE
    /\ stack' = Pop
    /\ UNCHANGED <<agent_budgets, budget, now, result, initial, lost, overreported, resized>>

(* The inner call returned: the scratch arena is reset and the reservation *)
(* goes out of scope.                                                      *)
ReleaseMemory ==
    /\ now = "return" /\ OnTop("memory")
    /\ scratch' = FALSE
    /\ Memory!Release(Top.agent, Top.held)
    /\ stack' = Pop
    /\ UNCHANGED <<budget, now, result, initial, lost, overreported, resized>>

(* It threw: only the destructor of the reservation runs. *)
UnwindMemory ==
    /\ now = "throw" /\ OnTop("memory")
    /\ Memory!Release(Top.agent, Top.held)
    /\ stack' = Pop
    /\ UNCHANGED <<scratch, budget, now, result, initial, lost, overreported, resized>>

-----------------------------------------------------------------------------
(* ScheduledLLMRuntime::generate. *)

AtLeastOne(n) == IF n < 1 THEN 1 ELSE n
EstimatePromptTokens(chars) == AtLeastOne((chars % Modulus) \div 4)

Task(f) == [estimated_prompt_tokens |-> EstimatePromptTokens(f.chars),
            requested_completion_tokens |-> f.max_tokens,
            allow_truncation |-> TRUE, allow_fallback |-> TRUE]

(* Mutant of InnerMaxTokens: the inner runtime gets the caller's config.   *)
UnadjustedMaxTokens(f) == f.max_tokens

(* config.max_tokens as the inner runtime gets it. *)
InnerMaxTokens(f) ==
    IF Scheduler!DecisionType(Task(f)) = "ReduceTokens"
    THEN Scheduler!AllowedCompletion(Task(f)) ELSE f.max_tokens

(* A rejected request and the fallback answer report no tokens. *)
ScheduleTokens ==
    /\ now = "call" /\ OnTop("scheduled")
    /\ Scheduler!Schedule(Task(Top))
    /\ IF Scheduler!DecisionType(Task(Top)) \in {"Reject", "UseFallback"}
       THEN Answer
       ELSE CallInner(Scheduler!Charge(Task(Top)), InnerMaxTokens(Top))
    /\ UNCHANGED <<agent_budgets, scratch, initial, lost, overreported, resized>>

UsedTokens == Scheduler!Plus(result.prompt_tokens, result.completion_tokens)

(* Mutant of ReleaseTokens: what was charged is released as well.          *)
ReleaseBoth ==
    /\ now = "return" /\ OnTop("scheduled")
    /\ Scheduler!Release(Scheduler!Plus(Top.held, UsedTokens))
    /\ stack' = Pop
    /\ lost' = lost + (Top.held - UsedTokens)
    /\ UNCHANGED <<agent_budgets, scratch, now, result, initial, overreported, resized>>

(* What the inner result reports is released, not what was charged. *)
ReleaseTokens ==
    /\ now = "return" /\ OnTop("scheduled")
    /\ Scheduler!Release(UsedTokens)
    /\ stack' = Pop
    /\ lost' = lost + (Top.held - UsedTokens)
    /\ UNCHANGED <<agent_budgets, scratch, now, result, initial, overreported, resized>>

(* The call of release is skipped. *)
UnwindTokens ==
    /\ now = "throw" /\ OnTop("scheduled")
    /\ stack' = Pop
    /\ lost' = lost + Top.held
    /\ UNCHANGED <<agent_budgets, scratch, budget, now, result, initial, overreported, resized>>

-----------------------------------------------------------------------------
(* The backend. *)

(* What the backend of the top frame may report.  An honest one keeps to   *)
(* the estimate of the prompt and to the completion it was allowed.        *)
Reports ==
    IF Backend[Top.agent] = "mock" THEN Mock!Results(Top.chars, Top.max_tokens)
    ELSE [prompt_tokens : 0 .. EstimatePromptTokens(Top.chars),
          completion_tokens : 0 .. Top.max_tokens]

Exceeds(reported, f) == \/ reported.prompt_tokens > EstimatePromptTokens(f.chars)
                        \/ reported.completion_tokens > f.max_tokens

BackendReturns ==
    /\ OnTop("backend")
    /\ result' \in Reports
    /\ overreported' = (overreported \/ Exceeds(result', Top))
    /\ stack' = Pop
    /\ now' = "return"
    /\ UNCHANGED <<agent_budgets, scratch, budget, initial, lost, resized>>

BackendThrows ==
    /\ Throws
    /\ OnTop("backend")
    /\ stack' = Pop
    /\ now' = "throw"
    /\ result' = Mock!NoTokens
    /\ UNCHANGED <<agent_budgets, scratch, budget, initial, lost, overreported, resized>>

-----------------------------------------------------------------------------
Next ==
    \/ \E a \in Agent, chars \in Chars, max \in MaxTokens : Generate(a, chars, max)
    \/ \E a \in Agent, limit \in Limits : SetAgentBudget(a, limit)
    \/ AllocateScratch
    \/ ReserveMemory \/ ReleaseMemory \/ UnwindMemory
    \/ ScheduleTokens \/ ReleaseTokens \/ UnwindTokens
    \/ BackendReturns \/ BackendThrows

Spec == Init /\ [][Next]_vars

-----------------------------------------------------------------------------
(* An agent's used_bytes is what its calls in progress have reserved,      *)
(* through refusals, nested calls and exceptions; if its budget was        *)
(* replaced meanwhile it is never more, and never more than the limit, so  *)
(* nothing stays reserved when no call is in progress                      *)
(* (MemoryAwareLLMRuntime.cpp:28-50, ScopedMemoryReservation.cpp:13-27,    *)
(* AgentMemoryBudget.cpp:14-37, MemoryManager.cpp:43-75).                  *)
BytesAccounted ==
    \A a \in DOMAIN agent_budgets :
        LET held == Held(stack, "memory", {a})
        IN  /\ agent_budgets[a].used_bytes <= agent_budgets[a].limit_bytes
            /\ agent_budgets[a].used_bytes <= held
            /\ a \notin resized => agent_budgets[a].used_bytes = held

Out == Held(stack, "scheduled", Agent)

(* The tokens that remain, those charged for the calls in progress and     *)
(* those lost (charged and not given back, less what was given back beyond *)
(* a charge) are never more than the scheduler started with, whatever      *)
(* backends report and however the sum in release wraps.  While no backend *)
(* reported more than it was asked they are just as many, so what is lost  *)
(* was charged to calls that threw or reported less, and the cap of        *)
(* release clips none, unless the budget was overfull from the start       *)
(* (ScheduledLLMRuntime.cpp:27-63, TokenScheduler.cpp:112-118).            *)
TokensAccounted ==
    LET sum == budget.remaining_tokens + Out + lost
    IN  /\ sum <= initial
        /\ ~overreported => lost >= 0
        /\ ~overreported /\ initial <= Scheduler!Cap => sum = initial

(* What a layer took for a call covers all that the layers under it are    *)
(* asked for, in either order of the layers, even when the scheduler cut   *)
(* the completion: the bytes of the estimate, and the tokens of the prompt *)
(* and the completion (MemoryAwareLLMRuntime.cpp:22-46,                    *)
(* ScheduledLLMRuntime.cpp:46-52).                                         *)
CallsCovered ==
    \A i \in DOMAIN stack : \A j \in DOMAIN stack :
        LET outer == stack[i]
            inner == stack[j]
            under == /\ j > i /\ inner.agent = outer.agent
                     /\ \A k \in i + 1 .. j : stack[k].layer = outer.layer + (k - i)
        IN  under =>
              /\ Kind(outer) = "memory" => EstimateMemoryBytes(inner) <= outer.held
              /\ Kind(outer) = "scheduled" =>
                     EstimatePromptTokens(inner.chars) + inner.max_tokens <= outer.held

(* A backend completes no more than config.max_tokens (MockLLM.cpp:52-77). *)
RespectsMaxTokens ==
    [][OnTop("backend") /\ stack' = Pop => result'.completion_tokens <= Top.max_tokens]_vars
=============================================================================
