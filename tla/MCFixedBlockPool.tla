--------------------------- MODULE MCFixedBlockPool ---------------------------
(* Symmetric clients for the model checker. *)
EXTENDS FixedBlockPool, TLC

Symmetry == Permutations(Client)
=============================================================================
