---------------------------- MODULE MCMemoryArena ----------------------------
(* A null buffer, an aligned one and two that are not. *)
EXTENDS ScratchMemory

ASSUME ContractKept == NoWrap
=============================================================================
