------------------------------ MODULE ToolAgent ------------------------------
(***************************************************************************)
(* The tools of an agent: ToolCallParser, SafetyPolicy and ToolRegistry of *)
(* tools/src, and main of examples/tool_agent_demo, which asks a language  *)
(* model, parses its text and executes the tool it names.  A handler is    *)
(* user code: it may change registry and policy, execute further tools, or *)
(* throw.                                                                  *)
(***************************************************************************)
EXTENDS Naturals, SequencesExt

CONSTANTS
    Tool,         \* names of tools
    Policy,       \* the SafetyPolicy objects of main and the handlers
    MainPolicy,   \* the one that main passes to execute
    NoName,       \* the empty name
    Lines,        \* the lines of key and value that a text may have
    Texts,        \* what the model may answer: sequences of lines
    Numbers,      \* the values std::stod converts; it throws for others
    MaxDepth      \* bound on executions nested in each other

ASSUME ToolsAssumption ==
    /\ \A line \in Lines : line = [key |-> line.key, value |-> line.value]
    /\ Texts \subseteq Seq(Lines) /\ <<>> \in Texts
    /\ MainPolicy \in Policy /\ MaxDepth \in Nat \ {0}

VARIABLES
    tools,      \* the keys of tools_
    allowed,    \* allowed_tools_ of each policy
    blocked,    \* blocked_tools_ of each policy
    stack,      \* the handlers executing, innermost last, and under which policy
    text,       \* the last answer that main went on with
    reply,      \* what main or a handler saw last
    first       \* history: the tool main started for `text`

toolsVars == <<tools, allowed, blocked, stack, text, reply, first>>

ToolsTypeOK ==
    /\ tools \in SUBSET Tool
    /\ allowed \in [Policy -> SUBSET Tool] /\ blocked \in [Policy -> SUBSET Tool]
    /\ stack \in Seq([tool : tools, policy : Policy]) /\ Len(stack) <= MaxDepth
    /\ text \in Texts
    /\ reply \in {"none", "llm failed", "not a call", "not registered", "blocked", "succeeded",
                  "failed", "threw", "terminated"}
    /\ first \in Tool \cup {NoName}

ToolsInit ==
    /\ tools = {} /\ allowed = [p \in Policy |-> {}] /\ blocked = [p \in Policy |-> {}]
    /\ stack = <<>> /\ text = <<>> /\ reply = "none" /\ first = NoName

-----------------------------------------------------------------------------
(* ToolCallParser *)

NoCall == [name |-> NoName, throws |-> FALSE]

(* Mutant of ParseLine: the first name counts. *)
ParseLineFirst(call, line) ==
    CASE call.throws -> call
      [] line.key = "tool" /\ call.name = NoName -> [call EXCEPT !.name = line.value]
      [] line.key = "confidence" /\ line.value \notin Numbers -> [call EXCEPT !.throws = TRUE]
      [] OTHER -> call

(* One turn of the loop of parse.  Reasons and numbers are not looked at. *)
ParseLine(call, line) ==
    CASE call.throws -> call
      [] line.key = "tool" -> [call EXCEPT !.name = line.value]
      [] line.key = "confidence" /\ line.value \notin Numbers -> [call EXCEPT !.throws = TRUE]
      [] OTHER -> call

Parse(lines) == FoldLeft(ParseLine, NoCall, lines)

-----------------------------------------------------------------------------
(* SafetyPolicy and ToolRegistry *)

(* Mutant of IsAllowed: what is allowed is not looked up among the blocked. *)
IsAllowedFirst(name, p) ==
    name \in allowed[p] \/ (allowed[p] = {} /\ name \notin blocked[p])

IsAllowed(name, p) == name \notin blocked[p] /\ (allowed[p] = {} \/ name \in allowed[p])

Executing(name, p) == [tool |-> name, policy |-> p]

(* Mutant of Execute: a tool is taken for registered because it is allowed. *)
ExecuteUnregistered(name, p) ==
    IF ~IsAllowed(name, p) THEN reply' = "blocked" /\ UNCHANGED stack
    ELSE stack' = Append(stack, Executing(name, p)) /\ UNCHANGED reply

(* Up to the call of the handler, which goes on until it returns. *)
Execute(name, p) ==
    CASE name \notin tools -> reply' = "not registered" /\ UNCHANGED stack
      [] name \in tools /\ ~IsAllowed(name, p) -> reply' = "blocked" /\ UNCHANGED stack
      [] OTHER -> stack' = Append(stack, Executing(name, p)) /\ UNCHANGED reply

(* Assigning to a handler that executes destroys it: nobody may do that. *)
RegisterTool(name) ==
    /\ reply # "terminated" /\ \A i \in DOMAIN stack : stack[i].tool # name
    /\ tools' = tools \cup {name}
    /\ UNCHANGED <<allowed, blocked, stack, text, reply, first>>

AllowTool(name, p) ==
    /\ reply # "terminated"
    /\ allowed' = [allowed EXCEPT ![p] = @ \cup {name}]
    /\ UNCHANGED <<tools, blocked, stack, text, reply, first>>

BlockTool(name, p) ==
    /\ reply # "terminated"
    /\ blocked' = [blocked EXCEPT ![p] = @ \cup {name}]
    /\ UNCHANGED <<tools, allowed, stack, text, reply, first>>

ExecuteNested(name, p) ==
    /\ stack # <<>> /\ Len(stack) < MaxDepth
    /\ Execute(name, p)
    /\ UNCHANGED <<tools, allowed, blocked, text, first>>

HandlerReturns ==
    /\ stack # <<>>
    /\ stack' = Front(stack)
    /\ reply' \in {"succeeded", "failed"}
    /\ UNCHANGED <<tools, allowed, blocked, text, first>>

(* The exception goes through execute to a handler that catches it, or to  *)
(* main, which does not.                                                   *)
HandlerThrows ==
    /\ stack # <<>>
    /\ \E n \in 0 .. Len(stack) - 1 :
           /\ stack' = SubSeq(stack, 1, n)
           /\ reply' = IF n = 0 THEN "terminated" ELSE "threw"
    /\ UNCHANGED <<tools, allowed, blocked, text, first>>

-----------------------------------------------------------------------------
(* main: `ok` is result.ok() and no error message. *)

Refuse(why) == reply' = why /\ UNCHANGED <<stack, text, first>>

Answer(ok, lines) ==
    /\ stack = <<>> /\ reply # "terminated"
    /\ LET call == Parse(lines)
       IN  CASE ~ok -> Refuse("llm failed")
             [] ok /\ call.throws -> Refuse("terminated")
             [] ok /\ ~call.throws /\ call.name = NoName -> Refuse("not a call")
             [] OTHER -> /\ Execute(call.name, MainPolicy)
                         /\ text' = lines
                         /\ first' = IF stack' = <<>> THEN NoName ELSE stack'[1].tool
    /\ UNCHANGED <<tools, allowed, blocked>>

ToolsNext ==
    \/ \E name \in Tool : RegisterTool(name)
    \/ \E name \in Tool, p \in Policy :
           AllowTool(name, p) \/ BlockTool(name, p) \/ ExecuteNested(name, p)
    \/ HandlerReturns \/ HandlerThrows
    \/ \E ok \in BOOLEAN, lines \in Texts : Answer(ok, lines)

ToolsSpec == ToolsInit /\ [][ToolsNext]_toolsVars

-----------------------------------------------------------------------------
(* What main starts is the tool named by the last line that names one,     *)
(* also if earlier lines named another, and nothing is started for a text  *)
(* whose last such line is empty or that has a confidence which is no      *)
(* number (ToolCallParser.cpp:18-39, tool_agent_client.cpp:108-180).       *)
LastNamedStarts ==
    first # NoName =>
        /\ \E i \in DOMAIN text :
               /\ text[i] = [key |-> "tool", value |-> first]
               /\ \A j \in i + 1 .. Len(text) : text[j].key # "tool"
        /\ \A i \in DOMAIN text : text[i].key = "confidence" => text[i].value \in Numbers

PoliciesGrow ==
    \A p \in Policy : blocked[p] \subseteq blocked'[p] /\ allowed[p] \subseteq allowed'[p]

Lawful(e) == /\ e.tool \in tools /\ e.tool \notin blocked[e.policy]
             /\ allowed[e.policy] # {} => e.tool \in allowed[e.policy]

StartsLawfully == \A i \in DOMAIN stack' \ DOMAIN stack : Lawful(stack'[i])

(* Nothing starts against the policy it is executed under, neither from    *)
(* main nor from within a handler under another policy, and no later       *)
(* change of a policy opens it again: a tool that a policy ever blocked is *)
(* not started under it (it may finish if it is executing), and once that  *)
(* allows a tool by name, it starts none that it does not allow too        *)
(* (SafetyPolicy.cpp:5-23, ToolRegistry.cpp:16-35).                        *)
PolicyHolds == [][PoliciesGrow /\ StartsLawfully]_toolsVars
=============================================================================
