---------------------------- MODULE ScratchMemory ----------------------------
(***************************************************************************)
(* The scratch arena of memory/src/MemoryManager.cpp under the requests of *)
(* llm_memory/src/MemoryAwareLLMRuntime.cpp: one arena for all agents, and *)
(* reset when a request returns.  A runtime below, or a backend, takes     *)
(* blocks while it works and may make requests of its own.  A request that *)
(* is refused changes nothing of this.  The global arena is a MemoryArena  *)
(* that nobody resets.                                                     *)
(***************************************************************************)
EXTENDS MemoryArena, SequencesExt

CONSTANT MaxDepth    \* bound on requests nested in each other

VARIABLE requests    \* the requests in progress, with the blocks of each

RequestInit == Init /\ requests = <<>>

AllocateScratch(size, alignment) ==
    /\ requests # <<>>
    /\ Allocate(size, alignment)
    /\ requests' = [requests EXCEPT ![Len(requests)] = @ \cup (blocks' \ blocks)]

Generate == /\ Len(requests) < MaxDepth
            /\ requests' = Append(requests, {})
            /\ UNCHANGED vars

(* The requests this one was made within lose their blocks, too. *)
Return == /\ requests # <<>>
          /\ Reset
          /\ requests' = [i \in DOMAIN Front(requests) |-> {}]

(* Mutant of Throw: the arena is reset by a destructor, as the reservation *)
(* is released.                                                            *)
ThrowReset == /\ requests # <<>>
              /\ requests' = Front(requests)
              /\ Reset

Throw == /\ requests # <<>>
         /\ requests' = Front(requests)
         /\ UNCHANGED vars

RequestNext ==
    \/ \E size \in Sizes, alignment \in Alignments : AllocateScratch(size, alignment)
    \/ Generate \/ Return \/ Throw

RequestSpec == RequestInit /\ [][RequestNext]_<<vars, requests>>

-----------------------------------------------------------------------------
(* A request in progress has its blocks to itself until a request made     *)
(* within it returns: one that throws, takes blocks or is refused disturbs *)
(* none, and no block is given out while another request still has it      *)
(* (MemoryAwareLLMRuntime.cpp:34-50, MemoryManager.cpp:24-33).             *)
KeptUntilReturn ==
    [][\A i \in DOMAIN requests \cap DOMAIN requests' :
           \/ /\ requests[i] \subseteq requests'[i] /\ requests'[i] \subseteq blocks'
              /\ \A j \in DOMAIN requests' : i # j => requests'[i] \cap requests'[j] = {}
           \/ Len(requests') < Len(requests) /\ requests'[i] = {}]_<<vars, requests>>
=============================================================================
