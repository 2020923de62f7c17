------------------------------ MODULE MCLLMStack ------------------------------
(* Two agents whose runtimes have the two layers in either order. *)
EXTENDS LLMStack, TLC

CONSTANTS planner, guard

EitherOrder == (planner :> <<"memory", "scheduled">>) @@ (guard :> <<"scheduled", "memory">>)

(* MockLLM reports what it says, the other backend what it was asked at most. *)
MockAndHonest == (planner :> "mock") @@ (guard :> "honest")
AllMock   == [a \in Agent |-> "mock"]

(* Full as in the demo, and fuller than release fills it again. *)
FullBudgets == [max_prompt_tokens : {3}, max_completion_tokens : {3}, remaining_tokens : {6, 8}]
=============================================================================
