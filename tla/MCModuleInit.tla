---------------------------- MODULE MCModuleInit ----------------------------
(* Small sets of modules for TLC, with every way to declare prerequisites   *)
(* within a bound.                                                          *)
EXTENDS ModuleInit

CONSTANTS a, b, c, missing

Names == {a, b, c, missing}

Lists(n) ==
  {<<>>} \cup (IF n > 0 THEN {<<x>> : x \in Names} ELSE {})
         \cup (IF n > 1 THEN {<<x, y>> : x, y \in Names} ELSE {})

\* Three modules, the last one perhaps with the name of the first.  The first
\* requires up to two names, the others up to one, and one of the three, if
\* any, names a module to load after.
ThreeModules ==
  [name       : {<<a, b, c>>, <<a, b, a>>},
   required   : {<<x, y, z>> : x \in Lists(2), y, z \in Lists(1)},
   load_after : {[m \in 1..3 |-> IF m = l THEN x ELSE <<>>] :
                   l \in 1..3, x \in Lists(1)}]

=============================================================================
