---------------------------- MODULE TokenScheduler ----------------------------
(***************************************************************************)
(* scheduler/src/TokenScheduler.cpp: decides whether an LLM request may    *)
(* run, with how many completion tokens, and charges a shared budget for   *)
(* it.  Tokens are uint32_t: sums wrap.                                    *)
(***************************************************************************)
EXTENDS Integers

CONSTANTS
    Modulus,    \* 2^32
    Budgets     \* the budgets a scheduler may be constructed with

Word == 0 .. Modulus - 1
TokenBudget == [max_prompt_tokens : Word, max_completion_tokens : Word,
                remaining_tokens : Word]
ScheduledLLMTask == [estimated_prompt_tokens : Word, requested_completion_tokens : Word,
                     allow_truncation : BOOLEAN, allow_fallback : BOOLEAN]

ASSUME BudgetsAssumption == Modulus \in Nat /\ Modulus > 0 /\ Budgets \subseteq TokenBudget

VARIABLE budget    \* budget_

TypeOK == budget \in TokenBudget

Init == budget \in Budgets

(* uint32_t addition of two words. *)
Plus(x, y) == IF x + y < Modulus THEN x + y ELSE x + y - Modulus

Least(x, y) == IF y < x THEN y ELSE x

Remaining == budget.remaining_tokens

-----------------------------------------------------------------------------
(* schedule.  The decisions are evaluated in the state before the charge.  *)

Completion(t) == Least(t.requested_completion_tokens, budget.max_completion_tokens)
Total(t)      == Plus(t.estimated_prompt_tokens, Completion(t))

Admissible(t) ==
    /\ t.estimated_prompt_tokens <= budget.max_prompt_tokens
    /\ \/ t.requested_completion_tokens <= budget.max_completion_tokens
       \/ t.allow_truncation

(* All the completion that the maximum allows fits the remaining budget. *)
Fits(t) == Admissible(t) /\ Total(t) <= Remaining

(* Mutant of FitsInPart: a prompt that uses up the whole budget is let in  *)
(* with no completion at all.                                              *)
FitsWithoutCompletion(t) == /\ Admissible(t)
                            /\ Total(t) > Remaining
                            /\ Remaining >= t.estimated_prompt_tokens
                            /\ t.allow_truncation

(* Some of the completion fits. *)
FitsInPart(t) == /\ Admissible(t)
                 /\ Total(t) > Remaining
                 /\ Remaining > t.estimated_prompt_tokens
                 /\ t.allow_truncation

DecisionType(t) ==
    IF Fits(t) /\ Completion(t) = t.requested_completion_tokens THEN "Allow"
    ELSE IF Fits(t) \/ FitsInPart(t) THEN "ReduceTokens"
    ELSE IF t.allow_fallback THEN "UseFallback" ELSE "Reject"

AllowedCompletion(t) ==
    IF Fits(t) THEN Completion(t)
    ELSE IF FitsInPart(t) THEN Remaining - t.estimated_prompt_tokens ELSE 0

(* Mutant of Charge: a request granted in part is charged in whole. *)
ChargeWhole(t) == IF Fits(t) \/ FitsInPart(t) THEN Total(t) ELSE 0

Charge(t) == IF Fits(t) THEN Total(t) ELSE IF FitsInPart(t) THEN Remaining ELSE 0

Schedule(t) == budget' = [budget EXCEPT !.remaining_tokens = Remaining - Charge(t)]

-----------------------------------------------------------------------------
(* release: never above the sum of the two maxima, whatever it was before. *)

Cap == Plus(budget.max_prompt_tokens, budget.max_completion_tokens)

Release(used) ==
    budget' = [budget EXCEPT !.remaining_tokens = Least(Plus(Remaining, used), Cap)]

-----------------------------------------------------------------------------
(* The scheduler by itself: any tasks, any releases that do not wrap. *)

Next == \/ \E t \in ScheduledLLMTask : Schedule(t)
        \/ \E used \in Word : Remaining + used < Modulus /\ Release(used)

Spec == Init /\ [][Next]_budget

(* The sum of the maxima fits a word.  The code does not check it. *)
NoWrap == budget.max_prompt_tokens + budget.max_completion_tokens < Modulus

(* What a decision should be, said without the order of the tests: the     *)
(* completions that the task accepts, that the maxima allow and that the   *)
(* remaining budget pays for; an empty one only if nothing was asked for   *)
(* or nothing is ever allowed.                                             *)
Affordable(t) ==
    {c \in 0 .. t.requested_completion_tokens :
        /\ t.estimated_prompt_tokens <= budget.max_prompt_tokens
        /\ c <= budget.max_completion_tokens
        /\ t.estimated_prompt_tokens + c <= Remaining
        /\ c = t.requested_completion_tokens \/ t.allow_truncation
        /\ c > 0 \/ t.requested_completion_tokens = 0 \/ budget.max_completion_tokens = 0}

IsBest(t) ==
    LET granted == DecisionType(t) \in {"Allow", "ReduceTokens"}
    IN  /\ granted <=> Affordable(t) # {}
        /\ granted => /\ AllowedCompletion(t) \in Affordable(t)
                      /\ \A c \in Affordable(t) : c <= AllowedCompletion(t)
                      /\ Charge(t) = t.estimated_prompt_tokens + AllowedCompletion(t)
                      /\ DecisionType(t) = "Allow" <=>
                             AllowedCompletion(t) = t.requested_completion_tokens
        /\ ~granted => /\ Charge(t) = 0
                       /\ DecisionType(t) = "UseFallback" <=> t.allow_fallback

(* Whatever the budget and the task, the four tests of schedule            *)
(* (TokenScheduler.cpp:10-110) add up to the best decision: a request is   *)
(* turned away only when nothing could be granted, gets the most that can  *)
(* be, and is charged exactly what it gets.                                *)
DecidesBest == NoWrap => \A t \in ScheduledLLMTask : IsBest(t)
=============================================================================
