---------------------------- MODULE MCFactEngine ----------------------------
(* Facts are sets of two flags (a freed parameter, a dereferenced one); a  *)
(* body adds a flag, passes on what its callees do, or passes it on with   *)
(* the two parameters swapped.  Each is monotone.                          *)
EXTENDS FactEngine

Flags == {1, 2}
FlagSets == SUBSET Flags
NoFlags == {}
Union(x, y) == x \cup y
AllFlags(x) == Flags

FlagBodies == {"frees", "forwards", "swaps"}
Flow(b, env) ==
  LET below == UNION {env[f] : f \in DOMAIN env}
  IN  CASE b = "frees" -> {1}
        [] b = "forwards" -> below
        [] b = "swaps" -> {3 - x : x \in below}

Height == Cardinality(Flags)

\* Every function gets a fact in the end, and one that is not degraded when the
\* budget covers the longest climb of its component.
FactsInTime == EveryFunctionHasFacts /\ []BudgetSuffices(Height)
=============================================================================
