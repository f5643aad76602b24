------------------------------ MODULE CControl ------------------------------
(***************************************************************************)
(* How a C function runs, statement by statement, beside the graph that    *)
(* ControlFlow builds of it.  The order in which statements run is the     *)
(* language's, not code of the repository.                                 *)
(*                                                                         *)
(* What remains to be run is a stack of frames: a statement, the condition *)
(* of a loop that is evaluated again, the step of a for loop, the end of a *)
(* switch, or the unknown target of a goto whose label was not parsed.     *)
(***************************************************************************)
EXTENDS ControlFlow

Frame(t, s) == [t |-> t, s |-> s]
Frames(items) == [i \in DOMAIN items |-> Frame("stmt", items[i])]

\* What runs when a switch jumps to its case i.
RECURSIVE CaseFrames(_, _)
CaseFrames(s, i) ==
  IF i > Len(s.cases) THEN <<Frame("end", s)>>
  ELSE Frames(s.cases[i].items) \o CaseFrames(s, i + 1)

\* The frame behind the body of a loop.
AfterBody(s) == IF s.k = "for" THEN Frame("step", s) ELSE Frame("cond", s)

\* Unfolds the stack until its top is something that is executed.
RECURSIVE Settle(_)
Settle(k) ==
  IF k = <<>> THEN k
  ELSE LET s == Head(k).s  rest == Tail(k)  stmt == Head(k).t = "stmt" IN
    CASE Head(k).t = "end" -> Settle(rest)
      [] stmt /\ s.k = "none" -> Settle(rest)
      [] stmt /\ s.k = "block" -> Settle(Frames(s.items) \o rest)
      [] stmt /\ s.k = "while" -> <<Frame("cond", s)>> \o rest
      [] stmt /\ s.k = "dowhile" ->
           Settle(<<Frame("stmt", s.body), Frame("cond", s)>> \o rest)
      [] stmt /\ s.k = "for" ->
           Settle(<<Frame("stmt", s.init), Frame("cond", s)>> \o rest)
      [] Head(k).t = "step" ->
           Settle(<<Frame("stmt", s.step), Frame("cond", s)>> \o rest)
      [] OTHER -> k

Start(body) == Settle(<<Frame("stmt", body)>>)

\* What is executed next: its place in the function and which part of it.
Stmt(k) == Head(k).s
Part(k) ==
  CASE Head(k).t \in {"cond", "unknown"} -> Head(k).t
    [] Head(k).t = "stmt" /\ Stmt(k).k = "if" -> Stmt(k).part
    [] Head(k).t = "stmt" /\ Stmt(k).k = "switch" -> "cond"
    [] OTHER -> Stmt(k).k
IsTest(k) == Head(k).t = "cond" \/ Stmt(k).k = "if"

RECURSIVE Break(_), Continue(_)
Break(k) == IF Head(k).t = "stmt" THEN Break(Tail(k)) ELSE Tail(k)
Continue(k) == IF Head(k).t \in {"stmt", "end"} THEN Continue(Tail(k)) ELSE k

\* The stack at a label; empty when the function has no such label.
RECURSIVE Locate(_, _)
Locate(k, name) ==
  IF k = <<>> THEN {}
  ELSE LET s == Stmt(k)  rest == Tail(k) IN
    CASE Head(k).t # "stmt" -> Locate(rest, name)
      [] s.k = "block" -> Locate(Frames(s.items) \o rest, name)
      [] s.k = "label" -> IF s.name = name THEN {k}
                          ELSE Locate(<<Frame("stmt", s.body)>> \o rest, name)
      [] s.k = "if" -> Locate(<<Frame("stmt", s.yes)>> \o rest, name)
                         \cup Locate(<<Frame("stmt", s.no)>> \o rest, name)
      [] s.k \in {"while", "dowhile", "for"} ->
           Locate(<<Frame("stmt", s.body), AfterBody(s)>> \o rest, name)
      [] s.k = "switch" -> Locate(CaseFrames(s, 1) \o rest, name)
      [] OTHER -> Locate(rest, name)

\* Where the run goes when the test on top is true and when it is false.  A
\* condition that is a ternary is tested in two steps.
WhenTested(k, true) ==
  LET s == Stmt(k)  rest == Tail(k) IN
  IF s.k = "if"
  THEN IF s.cond.k = "tern"
       THEN <<Frame("stmt", [s EXCEPT !.cond = IF true THEN s.cond.a ELSE s.cond.b,
                                      !.part = IF true THEN "yes" ELSE "no"])>> \o rest
       ELSE Settle(<<Frame("stmt", IF true THEN s.yes ELSE s.no)>> \o rest)
  ELSE IF true THEN Settle(<<Frame("stmt", s.body), AfterBody(s)>> \o rest)
               ELSE Settle(rest)

\* Where it may go from anything else, in the function `body`.
Onwards(k, body) ==
  LET s == Stmt(k)  rest == Tail(k) IN
  CASE Head(k).t = "unknown" -> {Settle(rest)}
    [] s.k \in {"return", "exit"} -> {<<>>}
    [] s.k = "break" -> {Settle(Break(rest))}
    [] s.k = "continue" -> {Settle(Continue(rest))}
    [] s.k = "label" -> {Settle(<<Frame("stmt", s.body)>> \o rest)}
    [] s.k = "switch" ->
         {Settle(CaseFrames(s, i) \o rest) : i \in DOMAIN s.cases}
           \cup IF \E i \in DOMAIN s.cases : s.cases[i].default THEN {} ELSE {Settle(rest)}
    [] s.k = "goto" -> LET targets == Locate(<<Frame("stmt", body)>>, s.name) IN
         IF targets # {} THEN targets ELSE {<<Frame("unknown", s)>> \o rest}
    [] OTHER -> {Settle(rest)}

-----------------------------------------------------------------------------
(* The run beside the graph.                                               *)

\* The nodes that stand for the step a run makes next.
StandsFor(g, n, next) == next # <<>> /\ g.nodes[n].at = Stmt(next).at /\ g.nodes[n].part = Part(next)

\* Those that an edge reaches from the nodes of the step before, on the side
\* the test came out on.
Follow(g, from, next, truth) ==
  {m \in Nodes(g) : StandsFor(g, m, next) /\
     \E n \in from : m \in Successors(g, n) /\ g.truth[<<n, m>>] \in {"none", truth}}
=============================================================================
