------------------------------ MODULE FactEngine ------------------------------
(***************************************************************************)
(* The engine as it runs: call_graph.py splits the call graph and orders   *)
(* its components, then fixed_point.py computes the facts of one component *)
(* after the other in that order.                                          *)
(***************************************************************************)
EXTENDS FixedPoint, Sequences

\* Functions are numbered in the lexical order of their names.
ASSUME FuncsAssumption == Funcs \subseteq Nat /\ IsFiniteSet(Funcs)

VARIABLES phase, seen, frames, finished, assigned, stack, component, components, outdegree, ready, ordered

Order == INSTANCE SccOrder WITH Nodes <- Funcs

ordering == <<phase, seen, frames, finished, assigned, stack, component, components, outdegree, ready, ordered>>
computing == <<body, facts, done, current, rounds, round, degraded>>

EngineInit == Order!Init /\ Init

OrderStep == Order!Next /\ UNCHANGED computing

\* The components are taken as they are listed, whatever is known of their
\* callees.
Taken == {i \in DOMAIN ordered : ordered[i] \subseteq done}

TakeComponent ==
  /\ phase = "done" /\ Taken # DOMAIN ordered
  /\ Begin(ordered[1 + Cardinality(Taken)])
  /\ UNCHANGED ordering

ComputeStep == phase = "done" /\ Compute /\ UNCHANGED ordering

Return == phase = "done" /\ current = {} /\ Taken = DOMAIN ordered /\ UNCHANGED <<vars, ordering>>

EngineNext == OrderStep \/ TakeComponent \/ ComputeStep \/ Return

EngineSpec == EngineInit /\ [][EngineNext]_<<vars, ordering>> /\ WF_<<vars, ordering>>(EngineNext)

-----------------------------------------------------------------------------
(* Properties.                                                             *)

\* The list is one of the orders FixedPoint allows, callees before callers, so
\* that what is proved of every such order holds of the one the engine uses.
ImplementsAnyOrder == Spec

\* The two passes over the graph and the rounds end on every program, with a
\* fact for every function.
EveryFunctionHasFacts == <>(done = Funcs)
=============================================================================
