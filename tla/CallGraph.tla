------------------------------ MODULE CallGraph ------------------------------
(***************************************************************************)
(* The reference vocabulary for call graphs: a graph is a function from    *)
(* each node to the set of its callees.  Reachability is stated without    *)
(* recursion, as membership in every set that is closed under calls.       *)
(***************************************************************************)

Closed(calls, S) == \A x \in S : calls[x] \subseteq S

\* The nodes f reaches by zero or more calls.
Reach(calls, f) ==
  {g \in DOMAIN calls : \A S \in SUBSET DOMAIN calls : f \in S /\ Closed(calls, S) => g \in S}

\* The strongly connected component of f.
Component(calls, f) == {g \in Reach(calls, f) : f \in Reach(calls, g)}

\* The callees of the nodes in C that lie outside C.
CalleesOutside(calls, C) == (UNION {calls[f] : f \in C}) \ C

\* A component iterates when it has a cycle.
Recursive(calls, C) == \E f, g \in C : g \in calls[f]
=============================================================================
