--------------------------- MODULE MCTokenScheduler ---------------------------
(* Every budget of a narrow word. *)
EXTENDS TokenScheduler

EveryBudget == TokenBudget
=============================================================================
