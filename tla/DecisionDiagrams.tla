-------------------------- MODULE DecisionDiagrams --------------------------
(***************************************************************************)
(* BDD of preprocessor/robdd.py: a manager with a unique table and three   *)
(* caches answers queries about conditions within a budget of work.        *)
(*                                                                         *)
(* The recursion of build, negate and apply is a machine: `todo` holds the *)
(* calls still to be made, `vals` the node ids they returned, newest first.*)
(* A call carries its arguments in `of`; when that is empty they are on    *)
(* vals.  Nodes 0 and 1 are the terminals; node n is nodes[n - 1].         *)
(***************************************************************************)
EXTENDS Conditions, Sequences, TLC, SequencesExt

CONSTANTS Order,        \* the atoms, in the order of _sort_key
          MaxNodes      \* ResourceLimits.max_bdd_nodes

VARIABLES bdd, todo, vals, budget       \* budget: ResourceLimits.max_work

Rank(a) == CHOOSE i \in DOMAIN Order : Order[i] = a

NewManager == [nodes |-> <<>>, work |-> 0, applied |-> <<>>, negated |-> (0 :> 1 @@ 1 :> 0),
               built |-> <<>>, failed |-> FALSE]

BuildCall(e) == [i |-> "build", of |-> <<e>>]
NegateCall(of) == [i |-> "negate", of |-> of]
ApplyCall(op, of) == [i |-> "apply", of |-> of, op |-> op]
NodeCall(var) == [i |-> "node", of |-> <<>>, var |-> var]
KeepCall(table, key) == [i |-> "keep", of |-> <<>>, table |-> table, key |-> key]

\* The call on top, its n arguments, and what is on vals without them.
On(instruction) == todo # <<>> /\ Head(todo).i = instruction
Call == Head(todo)
Args(n) == IF Call.of = <<>> THEN [j \in 1..n |-> vals[j]] ELSE Call.of
Below(n) == IF Call.of = <<>> THEN SubSeq(vals, n + 1, Len(vals)) ELSE vals

Return(x, n) == /\ todo' = Tail(todo)
                /\ vals' = <<x>> \o Below(n)
                /\ UNCHANGED budget
Calls(calls, pushed, n) == /\ todo' = calls \o Tail(todo)
                           /\ vals' = pushed \o Below(n)
                           /\ UNCHANGED budget

MayWork == bdd.work < budget
Worked == [bdd EXCEPT !.work = @ + 1]

-----------------------------------------------------------------------------
Build ==
  /\ On("build")
  /\ LET e == Simplify(Call.of[1]) IN
     \/ /\ e \in DOMAIN bdd.built
        /\ Return(bdd.built[e], 0)
        /\ UNCHANGED bdd
     \/ /\ e \notin DOMAIN bdd.built /\ MayWork
        /\ bdd' = Worked
        /\ LET keep == <<KeepCall("built", e)>>
               fold(op) == FlattenSeq([j \in 1..Cardinality(e.s) |->
                             <<BuildCall(SetToSeq(e.s)[j]), ApplyCall(op, <<>>)>>])
           IN CASE e.k = "const" -> Calls(keep, <<IF e.b THEN 1 ELSE 0>>, 0)
                [] e.k = "atom" -> Calls(<<NodeCall(Rank(e.a))>> \o keep, <<1, 0>>, 0)
                [] e.k = "not" -> Calls(<<BuildCall(e.e), NegateCall(<<>>)>> \o keep, <<>>, 0)
                [] e.k = "and" -> Calls(fold("and") \o keep, <<1>>, 0)
                [] e.k = "or" -> Calls(fold("or") \o keep, <<0>>, 0)

Negate ==
  /\ On("negate")
  /\ LET n == Args(1)[1] IN
     \/ /\ n \in DOMAIN bdd.negated
        /\ Return(bdd.negated[n], 1)
        /\ UNCHANGED bdd
     \/ /\ n \notin DOMAIN bdd.negated /\ MayWork
        /\ bdd' = Worked
        /\ LET node == bdd.nodes[n - 1] IN
           Calls(<<NegateCall(<<node.low>>), NegateCall(<<node.high>>), NodeCall(node.var),
                   KeepCall("negated", n)>>, <<>>, 1)

ApplyKey(op, l, r) == IF l > r THEN <<op, r, l>> ELSE <<op, l, r>>

\* The results that need no recursion; l is not above r.
Trivial(op, l, r) ==
  CASE op = "and" /\ 0 \in {l, r} -> {0}
    [] op = "and" /\ 0 \notin {l, r} /\ l = 1 -> {r}
    [] op = "or" /\ 1 \in {l, r} -> {1}
    [] op = "or" /\ 1 \notin {l, r} /\ l = 0 -> {r}
    [] OTHER -> IF l = r THEN {l} ELSE {}

Apply ==
  /\ On("apply")
  /\ LET key == ApplyKey(Call.op, Args(2)[1], Args(2)[2])
         l == key[2]
         r == key[3]
     IN \/ /\ key \in DOMAIN bdd.applied
           /\ Return(bdd.applied[key], 2)
           /\ UNCHANGED bdd
        \/ /\ key \notin DOMAIN bdd.applied /\ MayWork
           /\ \E x \in Trivial(Call.op, l, r) : Return(x, 2)
           /\ bdd' = Worked
        \/ /\ key \notin DOMAIN bdd.applied /\ MayWork
           /\ Trivial(Call.op, l, r) = {}
           /\ LET ln == bdd.nodes[l - 1]
                  rn == bdd.nodes[r - 1]
                  var == IF ln.var < rn.var THEN ln.var ELSE rn.var
                  low(n, node) == IF node.var = var THEN node.low ELSE n
                  high(n, node) == IF node.var = var THEN node.high ELSE n
              IN Calls(<<ApplyCall(Call.op, <<low(l, ln), low(r, rn)>>),
                         ApplyCall(Call.op, <<high(l, ln), high(r, rn)>>),
                         NodeCall(var), KeepCall("applied", key)>>, <<>>, 2)
           /\ bdd' = Worked

Redundant(low, high) == low = high

\* _node: its high branch is on top of its low one.
MakeNode ==
  /\ On("node")
  /\ LET low == vals[2]
         node == [var |-> Call.var, low |-> low, high |-> vals[1]]
         known == {n \in DOMAIN bdd.nodes : bdd.nodes[n] = node}
     IN \/ /\ Redundant(low, node.high)
           /\ Return(low, 2)
           /\ UNCHANGED bdd
        \/ /\ ~Redundant(low, node.high)
           /\ \E n \in known : Return(n + 1, 2)
           /\ UNCHANGED bdd
        \/ /\ ~Redundant(low, node.high) /\ known = {}
           /\ MayWork /\ Len(bdd.nodes) + 1 <= MaxNodes
           /\ bdd' = [Worked EXCEPT !.nodes = Append(@, node)]
           /\ Return(Len(bdd.nodes) + 2, 2)

Keep ==
  /\ On("keep")
  /\ bdd' = [bdd EXCEPT ![Call.table] = (Call.key :> Head(vals)) @@ @]
  /\ todo' = Tail(todo)
  /\ UNCHANGED <<vals, budget>>

\* AnalysisLimitExceeded: the query ends without an answer.
GiveUp ==
  /\ \/ On("build") /\ Simplify(Call.of[1]) \notin DOMAIN bdd.built /\ ~MayWork
     \/ On("negate") /\ Args(1)[1] \notin DOMAIN bdd.negated /\ ~MayWork
     \/ On("apply") /\ ApplyKey(Call.op, Args(2)[1], Args(2)[2]) \notin DOMAIN bdd.applied /\ ~MayWork
     \/ /\ On("node") /\ ~Redundant(vals[2], vals[1])
        /\ ~\E n \in DOMAIN bdd.nodes : bdd.nodes[n] = [var |-> Call.var, low |-> vals[2], high |-> vals[1]]
        /\ ~MayWork \/ Len(bdd.nodes) + 1 > MaxNodes
  /\ bdd' = [bdd EXCEPT !.failed = TRUE]
  /\ todo' = <<>> /\ vals' = <<>>
  /\ UNCHANGED budget

Compute == Build \/ Negate \/ Apply \/ MakeNode \/ Keep \/ GiveUp

Ask(calls) == bdd' = NewManager /\ todo' = calls /\ vals' = <<>>

-----------------------------------------------------------------------------
\* What a diagram means, and its false-first path to the true terminal.
RECURSIVE Means(_, _, _)
Means(nodes, n, on) ==
  IF n < 2 THEN n = 1
  ELSE LET node == nodes[n - 1]
       IN Means(nodes, IF Order[node.var] \in on THEN node.high ELSE node.low, on)

RECURSIVE Path(_, _)
Path(nodes, n) ==
  IF n < 2 THEN <<>>
  ELSE LET node == nodes[n - 1] IN
       IF node.low # 0 THEN <<[var |-> node.var, value |-> FALSE]>> \o Path(nodes, node.low)
                       ELSE <<[var |-> node.var, value |-> TRUE]>> \o Path(nodes, node.high)

\* witness: the atoms that are on; the others are off.
Witness(nodes, root) == LET path == Path(nodes, root)
                        IN {Order[path[j].var] : j \in {x \in DOMAIN path : path[x].value}}
=============================================================================
