---------------------------- MODULE BlockAllocator ----------------------------
(***************************************************************************)
(* What a pool of blocks promises its clients, with no free list and no    *)
(* addresses: a block has at most one holder, a request fails only when    *)
(* every block is held, what is not held cannot be given back.             *)
(***************************************************************************)
CONSTANTS Block, Client

VARIABLES
    held,     \* the blocks each client holds
    reply     \* what the last call answered

vars == <<held, reply>>

Held == UNION {held[c] : c \in Client}

Init == held = [c \in Client |-> {}] /\ reply = "none"

Allocate(c) ==
    \/ \E b \in Block \ Held : /\ held' = [held EXCEPT ![c] = @ \cup {b}]
                               /\ reply' = "block"
    \/ Held = Block /\ reply' = "null" /\ UNCHANGED held

Free(c) == \E b \in held[c] : /\ held' = [held EXCEPT ![c] = @ \ {b}]
                              /\ reply' = "freed"

Refuse == reply' = "refused" /\ UNCHANGED held

Next == Refuse \/ \E c \in Client : Allocate(c) \/ Free(c)

Spec == Init /\ [][Next]_vars
=============================================================================
