------------------------------ MODULE PagePool ------------------------------
(***************************************************************************)
(* What the allocator of physical pages promises: a page is given to the   *)
(* pool, taken by one owner at a time, and the kernel stops for want of    *)
(* memory only when the pool is empty.                                     *)
(***************************************************************************)
CONSTANT Page

VARIABLES free, used, halted

Init == free = {} /\ used = {} /\ halted = FALSE

Give(p) == /\ ~halted
           /\ p \notin free
           /\ free' = free \cup {p}
           /\ used' = used \ {p}
           /\ UNCHANGED halted

Take(p) == /\ ~halted
           /\ p \in free
           /\ free' = free \ {p}
           /\ used' = used \cup {p}
           /\ UNCHANGED halted

Stop == /\ ~halted
        /\ free = {}
        /\ halted' = TRUE
        /\ UNCHANGED <<free, used>>

Next == Stop \/ \E p \in Page : Give(p) \/ Take(p)
Spec == Init /\ [][Next]_<<free, used, halted>>

=============================================================================
