------------------------------- MODULE MockLLM -------------------------------
(***************************************************************************)
(* llm/src/MockLLM.cpp: a backend that answers every prompt with a fixed   *)
(* text.  Texts are taken by their numbers of words.                       *)
(***************************************************************************)
EXTENDS Integers

CONSTANTS
    ResponseWords,    \* the words of fixed_response_
    PromptWords       \* the numbers of words a serialized prompt may have

NoTokens == [prompt_tokens |-> 0, completion_tokens |-> 0]

(* What generate may report for a prompt of that size: config.max_tokens   *)
(* is not looked at.  A prompt without messages is refused, InvalidPrompt. *)
Results(chars, max_tokens) ==
    {[prompt_tokens |-> n, completion_tokens |-> ResponseWords] : n \in PromptWords}
    \cup {r \in {NoTokens} : chars = 0}
=============================================================================
