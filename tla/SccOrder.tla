------------------------------ MODULE SccOrder ------------------------------
(***************************************************************************)
(* _strongly_connected_components and _bottom_up_scc_order: the iterative  *)
(* Kosaraju search that splits a call graph into its components, and the   *)
(* heap-driven topological sort that puts callees before callers.          *)
(*                                                                         *)
(* Nodes are numbers, so that the lexical order the code sorts by is <;    *)
(* FactEngine says which, and what is done with the result.                *)
(***************************************************************************)
EXTENDS Integers, Sequences, FiniteSets, CallGraph

CONSTANT Nodes

VARIABLES
  calls,       \* the call graph
  phase,       \* "search", "collect", "order" or "done"
  seen,        \* nodes the search has entered
  frames,      \* its stack: nodes with the callees not yet looked at
  finished,    \* nodes in the order the search left them
  assigned,    \* nodes that have a component
  stack,       \* nodes of the current component still to expand
  component,   \* the nodes expanded so far
  components,  \* the components found
  outdegree,   \* callees not yet ordered, per component
  ready,       \* components all of whose callees are ordered
  ordered      \* the result

search == <<seen, frames, finished>>
collect == <<assigned, stack, component, components>>
order == <<outdegree, ready, ordered>>
vars == <<calls, phase, search, collect, order>>

Least(S) == CHOOSE x \in S : \A y \in S : x <= y

Init ==
  /\ calls \in [Nodes -> SUBSET Nodes]
  /\ phase = "search" /\ seen = {} /\ frames = <<>> /\ finished = <<>>
  /\ assigned = {} /\ stack = {} /\ component = {} /\ components = {}
  /\ outdegree = <<>> /\ ready = {} /\ ordered = <<>>

-----------------------------------------------------------------------------
(* The depth-first search, which records nodes as it leaves them.          *)

Top == frames[Len(frames)]
Pop(s) == SubSeq(s, 1, Len(s) - 1)

Frame(f) == [node |-> f, rest |-> calls[f]]

Enter ==
  /\ phase = "search" /\ frames = <<>> /\ seen # Nodes
  /\ LET start == Least(Nodes \ seen)
     IN  seen' = seen \cup {start} /\ frames' = <<Frame(start)>>
  /\ UNCHANGED <<calls, phase, finished, collect, order>>

Descend ==
  /\ phase = "search" /\ frames # <<>> /\ Top.rest # {}
  /\ LET callee == Least(Top.rest)
         rest == [frames EXCEPT ![Len(frames)].rest = @ \ {callee}]
     IN  /\ seen' = seen \cup {callee}
         /\ frames' = IF callee \in seen THEN rest ELSE Append(rest, Frame(callee))
  /\ UNCHANGED <<calls, phase, finished, collect, order>>

Leave ==
  /\ phase = "search" /\ frames # <<>> /\ Top.rest = {}
  /\ finished' = Append(finished, Top.node)
  /\ frames' = Pop(frames)
  /\ UNCHANGED <<calls, phase, seen, collect, order>>

Searched ==
  /\ phase = "search" /\ frames = <<>> /\ seen = Nodes
  /\ phase' = "collect"
  /\ UNCHANGED <<calls, search, collect, order>>

-----------------------------------------------------------------------------
(* The components: callers reached from the nodes left last.               *)

Callers(f) == {g \in Nodes : f \in calls[g]}

NextRoot ==
  finished[CHOOSE i \in 1..Len(finished) :
             /\ finished[i] \notin assigned
             /\ \A j \in i + 1..Len(finished) : finished[j] \in assigned]

Root ==
  /\ phase = "collect" /\ stack = {} /\ component = {} /\ assigned # Nodes
  /\ assigned' = assigned \cup {NextRoot} /\ stack' = {NextRoot}
  /\ UNCHANGED <<calls, phase, search, component, components, order>>

NewCallers(f) == Callers(f) \ assigned

\* The order in which a component is expanded does not show in its sorted
\* tuple: the stack is a set.
Expand ==
  /\ phase = "collect" /\ stack # {}
  /\ LET f == Least(stack)
         new == NewCallers(f)
     IN  /\ component' = component \cup {f}
         /\ assigned' = assigned \cup new
         /\ stack' = (stack \ {f}) \cup new
  /\ UNCHANGED <<calls, phase, search, components, order>>

Close ==
  /\ phase = "collect" /\ stack = {} /\ component # {}
  /\ components' = components \cup {component} /\ component' = {}
  /\ UNCHANGED <<calls, phase, search, assigned, stack, order>>

-----------------------------------------------------------------------------
(* The topological order of the components.                                *)

HomeOf(f) == CHOOSE c \in components : f \in c
Outgoing(c) == {HomeOf(g) : g \in CalleesOutside(calls, c)}
Predecessors(c) == {d \in components \ {c} : c \in Outgoing(d)}

\* Faulty: no component waits for another.
NeverWait(c) == 0

\* Faulty: counts the calls, not the components called.
CountCalls(c) == Cardinality({fg \in c \X Nodes : fg[2] \in calls[fg[1]] \ c})

OutdegreeOf(c) == Cardinality(Outgoing(c))

StartOrder ==
  /\ phase = "collect" /\ stack = {} /\ component = {} /\ assigned = Nodes
  /\ phase' = "order"
  /\ outdegree' = [c \in components |-> OutdegreeOf(c)]
  /\ ready' = {c \in components : OutdegreeOf(c) = 0}
  /\ UNCHANGED <<calls, search, collect, ordered>>

\* The heap pops the component whose sorted tuple is least: components are
\* disjoint, so their least members decide.
HeapTop == CHOOSE c \in ready : \A d \in ready : Least(c) <= Least(d)

PopReady ==
  /\ phase = "order" /\ ready # {}
  /\ LET c == HeapTop
         less == [d \in components |-> IF d \in Predecessors(c) THEN outdegree[d] - 1
                                                              ELSE outdegree[d]]
     IN  /\ ordered' = Append(ordered, c)
         /\ outdegree' = less
         /\ ready' = (ready \ {c}) \cup {d \in Predecessors(c) : less[d] = 0}
  /\ UNCHANGED <<calls, phase, search, collect>>

Finish ==
  /\ phase = "order" /\ ready = {}
  /\ phase' = "done"
  /\ UNCHANGED <<calls, search, collect, order>>

Next == \/ Enter \/ Descend \/ Leave \/ Searched
        \/ Root \/ Expand \/ Close
        \/ StartOrder \/ PopReady \/ Finish

=============================================================================
