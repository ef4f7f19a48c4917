------------------------------ MODULE FreeRuns ------------------------------
(***************************************************************************)
(* What an allocator of runs of memory promises: memory that was given to  *)
(* it is free, a request takes a run of free memory that nobody else has,  *)
(* and a request is refused only when no run is long enough, however the   *)
(* memory was cut up and put back before.                                  *)
(***************************************************************************)
EXTENDS Naturals

CONSTANTS
  Address,   \* where memory may be
  PageSize,  \* memory is taken in pages
  Size,      \* how much of it may be asked for
  NULL       \* the answer to a request that is refused

VARIABLES free, owned, asked, answer

Run(a, n) == a .. a + n - 1

\* m is n in whole pages.
Whole(n, m) == m % PageSize = 0 /\ m \in n .. n + PageSize - 1

Init == free = {} /\ owned = {} /\ asked = 0 /\ answer = NULL

Give(a, n) == /\ Run(a, n) \cap free = {}
              /\ free' = free \cup Run(a, n)
              /\ owned' = owned \ Run(a, n)
              /\ asked' = 0
              /\ answer' = NULL

Take(a, m) == /\ a % PageSize = 0
              /\ Run(a, m) \subseteq free
              /\ free' = free \ Run(a, m)
              /\ owned' = owned \cup Run(a, m)
              /\ answer' = a

Refuse(m) == /\ \A a \in Address : ~(Run(a, m) \subseteq free)
             /\ answer' = NULL
             /\ UNCHANGED <<free, owned>>

Request(n) == /\ asked' = n
              /\ \E m \in n .. n + PageSize - 1 :
                   /\ Whole(n, m)
                   /\ Refuse(m) \/ \E a \in Address : Take(a, m)

Next == \E n \in Size : Request(n) \/ \E a \in Address : Give(a, n)

Spec == Init /\ [][Next]_<<free, owned, asked, answer>>

=============================================================================
