----------------------------- MODULE RoundRobin -----------------------------
(***************************************************************************)
(* What the scheduler promises: the flows of control share the processor   *)
(* in a fixed circular order, each giving it to the next one of the list,  *)
(* and a new flow joins at the end.                                        *)
(***************************************************************************)
EXTENDS Naturals, Sequences

CONSTANTS Task, main_task

VARIABLES order, current

Init == order = <<main_task>> /\ current = main_task

Join(t) == /\ \A i \in 1..Len(order) : order[i] # t
           /\ order' = Append(order, t)
           /\ UNCHANGED current

Turn == /\ \E i \in 1..Len(order) :
              /\ order[i] = current
              /\ current' = order[IF i = Len(order) THEN 1 ELSE i + 1]
        /\ UNCHANGED order

Next == Turn \/ \E t \in Task : Join(t)
Spec == Init /\ [][Next]_<<order, current>>

=============================================================================
