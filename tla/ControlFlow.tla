----------------------------- MODULE ControlFlow -----------------------------
(***************************************************************************)
(* build_cfg and StructuredGraph: from the statements of one C function to *)
(* the graph of its events, the facts its edges establish, and its basic   *)
(* blocks.                                                                 *)
(*                                                                         *)
(* A statement is a record with its kind in k and its place in `at`;       *)
(* expressions are reduced to what they do to the tracked pointers (op and *)
(* v of a "do" statement) and conditions to the tests of pointers in them. *)
(* A statement whose expression holds a ternary is the If it is split into.*)
(* Nodes are numbered in the order of their creation; 0 stands for None.   *)
(***************************************************************************)
EXTENDS Integers, Sequences, FiniteSets, TLC, SequencesExt

NoStmt == [k |-> "none", at |-> <<>>]

-----------------------------------------------------------------------------
(* Null tests in conditions: _null_edge_facts.                             *)

NoFacts == [trueNn |-> {}, trueNull |-> {}, falseNn |-> {}, falseNull |-> {}]

\* Faulty: the negation of a conjunction denies every part of it.
RECURSIVE NullFactsNaive(_)
NullFactsNaive(c) ==
  CASE c.k = "var" -> [NoFacts EXCEPT !.trueNn = {c.v}, !.falseNull = {c.v}]
    [] c.k = "not" -> LET f == NullFactsNaive(c.e) IN
         [trueNn |-> f.falseNn, trueNull |-> f.falseNull,
          falseNn |-> f.trueNn, falseNull |-> f.trueNull]
    [] c.k = "check" -> [NoFacts EXCEPT !.trueNn = {c.v}, !.falseNull = {c.v}]
    [] c.k \in {"and", "or"} ->
         LET l == NullFactsNaive(c.l)  r == NullFactsNaive(c.r) IN
         [x \in DOMAIN l |-> l[x] \cup r[x]]
    [] OTHER -> NoFacts

\* "var" is `p` or `p != NULL`, "not" of it `!p` or `p == NULL`; "check" calls
\* a predicate whose summary says that it returns true only of non-null.
RECURSIVE NullFacts(_)
NullFacts(c) ==
  CASE c.k = "var" -> [NoFacts EXCEPT !.trueNn = {c.v}, !.falseNull = {c.v}]
    [] c.k = "not" -> LET f == NullFacts(c.e) IN
         [trueNn |-> f.falseNn, trueNull |-> f.falseNull,
          falseNn |-> f.trueNn, falseNull |-> f.trueNull]
    [] c.k = "check" -> [NoFacts EXCEPT !.trueNn = {c.v}]
    [] c.k = "and" -> LET l == NullFacts(c.l)  r == NullFacts(c.r) IN
         [trueNn |-> l.trueNn \cup r.trueNn, trueNull |-> l.trueNull \cup r.trueNull,
          falseNn |-> l.falseNn \cap r.falseNn, falseNull |-> l.falseNull \cap r.falseNull]
    [] c.k = "or" -> LET l == NullFacts(c.l)  r == NullFacts(c.r) IN
         [trueNn |-> l.trueNn \cap r.trueNn, trueNull |-> l.trueNull \cap r.trueNull,
          falseNn |-> l.falseNn \cup r.falseNn, falseNull |-> l.falseNull \cup r.falseNull]
    [] OTHER -> NoFacts

-----------------------------------------------------------------------------
(* The graph.                                                              *)

EmptyGraph == [nodes |-> <<>>, succ |-> <<>>, truth |-> <<>>, facts |-> <<>>,
               labels |-> <<>>, gotos |-> <<>>, entry |-> 0]

Event(s, part) == [at |-> s.at, part |-> part, op |-> "none", v |-> "", w |-> "", ast |-> s]

NewNode(g, event) ==
  [g EXCEPT !.nodes = Append(@, event), !.succ = Append(@, <<>>)]

\* The node NewNode has just made.
Newest(g) == Len(g.nodes)

IsCond(g, n) == g.nodes[n].part \in {"cond", "yes", "no"}

\* A true and a false edge to the same node establish neither.
MergedTruth(g, edge, truth) ==
  IF edge \in DOMAIN g.truth /\ g.truth[edge] # truth THEN "none" ELSE truth

\* connect: one successor per target; the facts of the last call stay.
Connect(g, src, dst, truth, nn, null) ==
  IF dst = 0 THEN g ELSE
  [g EXCEPT !.succ[src] = IF \E i \in DOMAIN @ : @[i] = dst THEN @ ELSE Append(@, dst),
            !.truth = (<<src, dst>> :> MergedTruth(g, <<src, dst>>, truth)) @@ @,
            !.facts = (<<src, dst>> :> [nn |-> nn, null |-> null]) @@ @]

Edge(g, src, dst) == Connect(g, src, dst, "none", {}, {})

\* The two edges out of a condition.
Branch(g, src, cond, yes, no) ==
  LET f == NullFacts(cond)
      g1 == Connect(g, src, yes, "true", f.trueNn, f.trueNull)
  IN Connect(g1, src, no, "false", f.falseNn, f.falseNull)

-----------------------------------------------------------------------------
(* build_stmt.  Every builder takes the node that follows the statement,   *)
(* the targets of break and continue, and the graph so far; it returns the *)
(* graph and the statement's entry.                                        *)

Straight == {"do", "return", "exit", "break", "continue", "goto"}

\* An If on a ternary is two Ifs behind an If; both get the same branches.
Split(s) ==
  [s EXCEPT !.cond = s.cond.c,
            !.yes = [s EXCEPT !.cond = s.cond.a, !.part = "yes"],
            !.no = [s EXCEPT !.cond = s.cond.b, !.part = "no"]]

\* Statements without statements in them.
BuildStraight(s, next, brk, cont, g) ==
  LET g1 == NewNode(g, IF s.k = "do" THEN [Event(s, s.k) EXCEPT !.op = s.op, !.v = s.v, !.w = s.w]
                                     ELSE Event(s, s.k))
      n == Newest(g1)
  IN [entry |-> n,
      g |-> CASE s.k = "do" -> Edge(g1, n, next)
              [] s.k = "break" -> Edge(g1, n, brk)
              [] s.k = "continue" -> Edge(g1, n, cont)
              [] s.k = "goto" -> [g1 EXCEPT !.gotos = Append(@, [node |-> n, name |-> s.name, resume |-> next])]
              [] OTHER -> g1]

\* Where the body of a for loop goes on: its step if it has one.
ContinueOfFor(step, cond) == IF step # 0 THEN step ELSE cond

\* Faulty: each case ends the switch.
FallsIntoNothing(entry, next) == next

\* The case before one falls through into it.
FallsInto(entry, next) == entry

RECURSIVE Build(_, _, _, _, _), BuildItems(_, _, _, _, _, _), BuildCases(_, _, _, _, _, _, _)

\* A block is built from its last statement backwards.
BuildItems(items, i, next, brk, cont, g) ==
  IF i = 0 THEN [g |-> g, entry |-> next]
  ELSE LET last == Build(items[i], next, brk, cont, g)
       IN BuildItems(items, i - 1, last.entry, brk, cont, last.g)

\* The cases of a switch, last first; returns the entry of each.
BuildCases(cases, i, falls, next, cont, g, entries) ==
  IF i = 0 THEN [g |-> g, entries |-> entries]
  ELSE LET b == BuildItems(cases[i].items, Len(cases[i].items), falls, next, cont, g)
       IN BuildCases(cases, i - 1, FallsInto(b.entry, next), next, cont, b.g,
                     <<b.entry>> \o entries)

BuildIf(s, next, brk, cont, g) ==
  LET g1 == NewNode(g, Event(s, s.part))
      n == Newest(g1)
      yes == Build(s.yes, next, brk, cont, g1)
      no == Build(s.no, next, brk, cont, yes.g)
  IN [g |-> Branch(no.g, n, s.cond, yes.entry, no.entry), entry |-> n]

\* While and DoWhile differ in where they are entered.
BuildLoop(s, next, g) ==
  LET g1 == NewNode(g, Event(s, "cond"))
      n == Newest(g1)
      body == Build(s.body, n, next, n, g1)
  IN [g |-> Branch(body.g, n, s.cond, body.entry, next),
      entry |-> IF s.k = "while" THEN n ELSE body.entry]

BuildFor(s, next, g) ==
  LET g1 == NewNode(g, Event(s, "cond"))
      n == Newest(g1)
      step == IF s.step = NoStmt THEN [g |-> g1, entry |-> 0]
                                 ELSE Build(s.step, n, 0, 0, g1)
      again == ContinueOfFor(step.entry, n)
      body == Build(s.body, again, next, again, step.g)
      g2 == Branch(body.g, n, s.cond, body.entry, next)
  IN IF s.init = NoStmt THEN [g |-> g2, entry |-> n]
                        ELSE Build(s.init, n, 0, 0, g2)

\* An edge to each case.
RECURSIVE CaseEdges(_, _, _)
CaseEdges(g, n, entries) ==
  IF entries = <<>> THEN g ELSE CaseEdges(Edge(g, n, Head(entries)), n, Tail(entries))

BuildSwitch(s, next, cont, g) ==
  LET g1 == NewNode(g, Event(s, "cond"))
      n == Newest(g1)
      cases == BuildCases(s.cases, Len(s.cases), next, next, cont, g1, <<>>)
      g2 == CaseEdges(cases.g, n, cases.entries)
      hasDefault == \E i \in DOMAIN s.cases : s.cases[i].default
  IN [g |-> IF hasDefault THEN g2 ELSE Edge(g2, n, next), entry |-> n]

BuildLabel(s, next, brk, cont, g) ==
  LET g1 == NewNode(g, Event(s, "label"))
      n == Newest(g1)
      g2 == [g1 EXCEPT !.labels = (s.name :> n) @@ @]
      inner == Build(s.body, next, brk, cont, g2)
  IN [g |-> Edge(inner.g, n, inner.entry), entry |-> n]

Build(s, next, brk, cont, g) ==
  CASE s.k = "none" -> [g |-> g, entry |-> next]
    [] s.k = "block" -> BuildItems(s.items, Len(s.items), next, brk, cont, g)
    [] s.k = "if" /\ s.cond.k = "tern" -> Build(Split(s), next, brk, cont, g)
    [] s.k = "if" /\ s.cond.k # "tern" -> BuildIf(s, next, brk, cont, g)
    [] s.k \in {"while", "dowhile"} -> BuildLoop(s, next, g)
    [] s.k = "for" -> BuildFor(s, next, g)
    [] s.k = "switch" -> BuildSwitch(s, next, cont, g)
    [] s.k = "label" -> BuildLabel(s, next, brk, cont, g)
    [] s.k \in Straight -> BuildStraight(s, next, brk, cont, g)

\* Gotos are resolved at the end; one without a label goes through a node of
\* unknown control flow to the statement after it.
Resolve(g, goto) ==
  IF goto.name \in DOMAIN g.labels THEN Edge(g, goto.node, g.labels[goto.name])
  ELSE LET g1 == NewNode(g, Event(g.nodes[goto.node].ast, "unknown"))
           n == Newest(g1)
       IN Edge(Edge(g1, goto.node, n), n, goto.resume)

RECURSIVE ResolveAll(_, _)
ResolveAll(g, gotos) == IF gotos = <<>> THEN g ELSE ResolveAll(Resolve(g, Head(gotos)), Tail(gotos))

BuildCfg(body) ==
  LET b == Build(body, 0, 0, 0, EmptyGraph)
  IN ResolveAll([b.g EXCEPT !.entry = b.entry], b.g.gotos)

\* With summaries, the facts of a condition's edges are computed again, and an
\* edge that is both true and false gets none.
RefreshedFacts(g) ==
  [g EXCEPT !.facts = [e \in DOMAIN @ |->
     IF IsCond(g, e[1]) /\ g.truth[e] = "none" THEN [nn |-> {}, null |-> {}] ELSE @[e]]]

-----------------------------------------------------------------------------
(* build_basic_blocks.  A block is named by its first node.                *)

Nodes(g) == DOMAIN g.nodes
Successors(g, n) == {g.succ[n][i] : i \in DOMAIN g.succ[n]}
Predecessors(g, n) == {m \in Nodes(g) : n \in Successors(g, m)}

Leaders(g) ==
  {g.entry} \cup {n \in Nodes(g) : Cardinality(Predecessors(g, n)) # 1}
            \cup UNION {Successors(g, m) : m \in {x \in Nodes(g) : Len(g.succ[x]) > 1 \/ IsCond(g, x)}}

RECURSIVE Chain(_, _, _)
Chain(g, leaders, n) ==
  IF Len(g.succ[n]) = 1 /\ g.succ[n][1] \notin leaders
  THEN <<n>> \o Chain(g, leaders, g.succ[n][1]) ELSE <<n>>

Blocks(g) == LET leaders == Leaders(g)
             IN [n \in leaders |-> Chain(g, leaders, n)]
=============================================================================
