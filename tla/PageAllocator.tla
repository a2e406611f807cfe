--------------------------- MODULE PageAllocator ---------------------------
(***************************************************************************)
(* What a physical page allocator promises: a page is never handed out     *)
(* twice without having been given back, page 0 is never handed out, and   *)
(* an allocation fails only when no page is left.                          *)
(***************************************************************************)
CONSTANTS Page,      \* the page numbers
          Zero       \* the page whose address doubles as "no memory"

VARIABLES open,      \* TRUE once the allocator has been set up
          free,      \* the pages that can be handed out
          owned,     \* the pages handed out
          got        \* the answer to the last allocation; Zero is failure

vars == <<open, free, owned, got>>

Init == /\ open = FALSE
        /\ free = {}
        /\ owned = {}
        /\ got = Zero

\* The set-up decides which pages there are.
Open == /\ ~open
        /\ open' = TRUE
        /\ free' \in SUBSET (Page \ {Zero})
        /\ UNCHANGED <<owned, got>>

Allocate(p) == /\ open
               /\ p \in free
               /\ free' = free \ {p}
               /\ owned' = owned \cup {p}
               /\ got' = p
               /\ UNCHANGED open

Exhausted == /\ open
             /\ free = {}
             /\ got' = Zero
             /\ UNCHANGED <<open, free, owned>>

Release(p) == /\ open
              /\ p \in owned
              /\ owned' = owned \ {p}
              /\ free' = free \cup {p}
              /\ UNCHANGED <<open, got>>

Next == \/ Open
        \/ \E p \in Page : Allocate(p) \/ Release(p)
        \/ Exhausted

Spec == Init /\ [][Next]_vars
=============================================================================
