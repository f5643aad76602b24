---------------------------- MODULE IntegerRanges ----------------------------
(***************************************************************************)
(* analyze_integer_ranges: intervals of integer variables over the graph   *)
(* of each function (cfg/integer_ranges.py), in rounds that pass ranges of *)
(* arguments and results between the functions of a translation unit       *)
(* (cfg/integer_range_summaries.py); then runs of the analysed program.    *)
(***************************************************************************)
EXTENDS CControl, Ranges

CONSTANT Programs     \* translation units, in a sequence: functions by name, "main" and perhaps
                      \* others.  A function has a body that ends with a return, params (a
                      \* sequence), the types of its variables and of its result, and says
                      \* whether it is static, whether its designator escapes, which variables
                      \* are volatile and which have their address taken

Nothing == [x \in {} |-> Unknown]

-----------------------------------------------------------------------------
(* Expressions: _expr_range.  `fn` is the function they are in.            *)

RECURSIVE TypeOf(_, _)
TypeOf(fn, e) ==
  CASE e.k = "const" -> "int"
    [] e.k = "var" -> fn.types[e.v]
    [] e.k = "cast" -> e.t
    [] e.k = "neg" -> Promoted(TypeOf(fn, e.e))
    [] e.k \in {"add", "sub"} -> UsualType(TypeOf(fn, e.l), TypeOf(fn, e.r))
    [] OTHER -> "int"

Predicate(fn, e, a, b) == ComparedIn(UsualType(TypeOf(fn, e.l), TypeOf(fn, e.r)), e.op, a, b)

RangeOfVar(fn, v, st) == IF v \in DOMAIN st THEN Intersect(st[v], TypeRange(fn.types[v]))
                                            ELSE TypeRange(fn.types[v])

\* Two ranges under an operator.
Combined(fn, e, r, s) ==
  IF Singleton(r) /\ Singleton(s)
  THEN LET x == CASE e.k = "cmp" -> Predicate(fn, e, r[1], s[1])
                  [] e.k = "and" -> <<Bit(r[1] # 0 /\ s[1] # 0)>>
                  [] e.k = "or" -> <<Bit(r[1] # 0 \/ s[1] # 0)>>
                  [] e.k = "add" -> <<r[1] + s[1]>>
                  [] e.k = "sub" -> <<r[1] - s[1]>>
       IN IF x = Unknown THEN Unknown ELSE <<x[1], x[1]>>
  ELSE CASE e.k = "add" /\ Bounded(r) /\ Bounded(s) -> Sum(r, s)
         [] e.k = "sub" /\ Bounded(r) /\ Bounded(s) -> Difference(r, s)
         [] OTHER -> Unknown

RECURSIVE ExprRange(_, _, _)
ExprRange(fn, e, st) ==
  CASE e.k = "const" -> <<e.n, e.n>>
    [] e.k = "var" -> RangeOfVar(fn, e.v, st)
    [] e.k = "neg" -> LET r == ExprRange(fn, e.e, st) IN IF r = Unknown THEN r ELSE Negated(r)
    [] e.k = "not" -> LET r == ExprRange(fn, e.e, st) IN
                      IF Singleton(r) THEN <<Bit(r[1] = 0), Bit(r[1] = 0)>> ELSE Unknown
    [] e.k = "cast" -> LET r == ExprRange(fn, e.e, st) IN
                       IF r # Unknown /\ FitsWithin(r, TypeRange(e.t)) THEN r ELSE TypeRange(e.t)
    [] e.k \in {"add", "sub", "cmp", "and", "or"} ->
         LET r == ExprRange(fn, e.l, st)  s == ExprRange(fn, e.r, st)
         IN IF r = Unknown \/ s = Unknown THEN Unknown ELSE Combined(fn, e, r, s)
    [] OTHER -> Unknown

-----------------------------------------------------------------------------
(* Conditions.                                                             *)

RECURSIVE Reads(_)
Reads(e) == CASE e.k = "var" -> {e.v}
              [] e.k \in {"neg", "not", "cast"} -> Reads(e.e)
              [] e.k \in {"add", "sub", "cmp", "and", "or"} -> Reads(e.l) \cup Reads(e.r)
              [] OTHER -> {}

RECURSIVE Supported(_)
Supported(e) == CASE e.k \in {"const", "var"} -> TRUE
                  [] e.k \in {"neg", "not"} -> Supported(e.e)
                  [] e.k \in {"cmp", "and", "or"} -> Supported(e.l) /\ Supported(e.r)
                  [] OTHER -> FALSE

Provable(fn, c) == Supported(c) /\ Reads(c) \cap fn.volatile = {}

\* _condition_truth.
Truth(fn, c, st) ==
  LET r == ExprRange(fn, c, st) IN
  IF Provable(fn, c) /\ Singleton(r) THEN Bit(r[1] # 0) ELSE -1

\* Where the sides of a comparison convert a negative value to unsigned,
\* bounds say nothing.
Converts(fn, var, bound) ==
  /\ TypeRange(fn.types[var.v])[1] < 0 /\ TypeOf(fn, bound) = "unsigned"
  /\ TypeRange("unsigned")[2] > TypeRange(fn.types[var.v])[2]

\* _comparison: a bound for the variable on one side of it.
Comparison(fn, c, truth) ==
  LET left == ExprRange(fn, c.l, Nothing)
      right == ExprRange(fn, c.r, Nothing)
      onLeft == c.l.k = "var" /\ Singleton(right)
      var == IF onLeft THEN c.l ELSE c.r
      other == IF onLeft THEN c.r ELSE c.l
      n == IF onLeft THEN right[1] ELSE left[1]
      stated == IF onLeft THEN c.op ELSE Mirrored(c.op)
      op == IF truth THEN stated ELSE Opposite(stated)
  IN IF ~onLeft /\ ~(c.r.k = "var" /\ Singleton(left)) THEN Nothing
     ELSE IF Converts(fn, var, other) \/ op = "!=" THEN Nothing
     ELSE [x \in {var.v} |-> Bound(op, n)]

\* Faulty: each part of a disjunction that holds, holds.
BothSidesAlways(c, truth) == c.k \in {"and", "or"}

\* Both parts are known of a conjunction that holds and a disjunction that does not.
BothSides(c, truth) == c.k = IF truth THEN "and" ELSE "or"

\* _constraints.
RECURSIVE Constraints(_, _, _)
Constraints(fn, c, truth) ==
  CASE c.k = "not" -> Constraints(fn, c.e, ~truth)
    [] c.k \in {"and", "or"} ->
         IF ~BothSides(c, truth) THEN Nothing
         ELSE LET l == Constraints(fn, c.l, truth)  r == Constraints(fn, c.r, truth)
              IN [x \in DOMAIN l \cup DOMAIN r |->
                    CASE x \notin DOMAIN l -> r[x]
                      [] x \notin DOMAIN r \/ (x \in DOMAIN l \cap DOMAIN r /\ Intersect(l[x], r[x]) = Unknown) -> l[x]
                      [] OTHER -> Intersect(l[x], r[x])]
    [] c.k = "cmp" -> Comparison(fn, c, truth)
    [] OTHER -> Nothing

-----------------------------------------------------------------------------
(* The transfer of one node, with _restore_direct_call_assignment.         *)

Without(st, S) == [x \in DOMAIN st \ S |-> st[x]]
With(st, v, r) == IF r = Unknown THEN Without(st, {v}) ELSE [x \in DOMAIN st \cup {v} |-> IF x = v THEN r ELSE st[x]]

IsCall(e) == e.k = "call"
Calls(n) == n.op \in {"set", "eval"} /\ IsCall(n.w)

\* What is written: a value or a step up or down.
Written(fn, n, st) ==
  CASE n.op = "set" -> With(st, n.v, ExprRange(fn, n.w, st))
    [] n.op = "incr" -> LET r == RangeOfVar(fn, n.v, st) IN
                        With(st, n.v, IF r = Unknown THEN r ELSE IF ~Bounded(r) THEN Unknown ELSE <<r[1] + n.w, r[2] + n.w>>)
    [] OTHER -> st

\* Faulty: calls leave variables alone whose address was taken.
ForgottenNever(fn, n) == IF n.op \in {"set", "incr"} THEN fn.volatile \cap {n.v} ELSE {}

\* Volatile targets, and after a call or a write through a pointer everything
\* whose address was taken.
Forgotten(fn, n) ==
  (IF n.op \in {"set", "incr"} THEN fn.volatile \cap {n.v} ELSE {})
    \cup (IF Calls(n) \/ n.op = "poke" THEN fn.addressed ELSE {})

Transfer(fn, n, st, results) ==
  IF n.part = "unknown" THEN Nothing
  ELSE LET after == Without(Written(fn, n, st), Forgotten(fn, n)) IN
       IF n.op = "set" /\ IsCall(n.w) /\ n.v \notin fn.addressed \cup fn.volatile
       THEN IF n.w.f \in DOMAIN results THEN With(after, n.v, Clamp(results[n.w.f], fn.types[n.v])) ELSE after
       ELSE after

-----------------------------------------------------------------------------
(* The edges out of a node, and the join with what was there before.       *)

IsEmpty(s) == s.k = "none" \/ (s.k = "block" /\ s.items = <<>>)

\* _condition: no bound is drawn from an If with two empty branches.
HasCondition(n) ==
  /\ n.part = "cond" /\ n.ast.k \in {"if", "while", "dowhile", "for"}
  /\ n.ast.k = "if" => ~(IsEmpty(n.ast.yes) /\ IsEmpty(n.ast.no))

\* _apply; Infeasible instead of None.
Infeasible == <<>>
Applied(fn, st, c) ==
  LET current(x) == IF x \in DOMAIN st THEN st[x] ELSE TypeRange(fn.types[x])
      both == [x \in DOMAIN c |-> Intersect(current(x), c[x])]
  IN IF \E x \in DOMAIN c : both[x] = Unknown THEN Infeasible ELSE <<both @@ st>>

\* What goes along an edge out of n: `truth` is whether it is the first, the
\* one of a condition that holds, and c what the condition says on that side.
AlongEdge(fn, n, st, truth, c) ==
  IF Truth(fn, n.ast.cond, st) = Bit(~truth) THEN Infeasible ELSE Applied(fn, st, c)

Merge(a, b) == [x \in DOMAIN a \cap DOMAIN b |-> Hull(a[x], b[x])]
Widened(a, b) == [x \in DOMAIN a \cap DOMAIN b |-> Widen(a[x], b[x])]

\* Faulty: a node is looked at again whether something changed or not.
ChangedAlways(old, new) == TRUE
Changed(old, new) == old # new

-----------------------------------------------------------------------------
(* The calls of a translation unit.                                        *)

CallSites(graphs, callee) ==
  UNION {{<<f, n>> : n \in {m \in Nodes(graphs[f]) :
            Calls(graphs[f].nodes[m]) /\ graphs[f].nodes[m].w.f = callee}} : f \in DOMAIN graphs}

Callees(graphs, f) == {g \in DOMAIN graphs : \E s \in CallSites(graphs, g) : s[1] = f}
RECURSIVE Reached(_, _)
Reached(graphs, fs) == LET more == UNION {Callees(graphs, f) : f \in fs} \ fs
                       IN IF more = {} THEN fs ELSE Reached(graphs, fs \cup more)
Recurses(graphs, f) == f \in Reached(graphs, Callees(graphs, f))

Seeded(fn, recurses) == fn.static /\ ~recurses /\ ~fn.escapes

\* What a condition says on either side; nothing of volatile variables.
EdgeConstraints(fn, n) ==
  [truth \in BOOLEAN |-> LET c == Constraints(fn, n.ast.cond, truth) IN [x \in DOMAIN c \ fn.volatile |-> c[x]]]

\* A translation unit and what does not change while it is analysed.
Graphed(fns) ==
  LET graphs == [f \in DOMAIN fns |-> BuildCfg(fns[f].body)]
  IN [functions |-> fns,
      graphs |-> graphs,
      sites |-> [f \in DOMAIN fns |-> CallSites(graphs, f)],
      bounds |-> [f \in DOMAIN fns |->
                    [n \in {m \in Nodes(graphs[f]) : HasCondition(graphs[f].nodes[m])} |->
                       EdgeConstraints(fns[f], graphs[f].nodes[n])]],
      recursive |-> {f \in DOMAIN fns : Recurses(graphs, f)},
      seeded |-> {f \in DOMAIN fns : Seeded(fns[f], Recurses(graphs, f))}]

-----------------------------------------------------------------------------
VARIABLES unit,     \* the translation unit, with its graphs
          phase,    \* "analyse", "run", "over"
          round,    \* of the summaries; above MaxRounds when they were given up
          params,   \* parameter_ranges, by function
          returns,  \* return_ranges
          todo,     \* the functions still to be analysed in this round, in order:
          incoming, \* of the first of them, the facts at its nodes
          work,     \* its worklist,
          takenNode, \* the node taken from it, 0 for none,
          outgoing, \* the facts after that node
          nextEdge, \* and the edge out of it that is next
          before,   \* facts_before of the functions in this round
          callers,  \* the run: the frames of the callers,
          running,  \* the function that runs,
          stack,    \* what of it remains to be executed,
          env,      \* its variables that have a value,
          here       \* and the nodes of its graph that stand for its next step

summaries == <<round, params, returns>>
taken == <<takenNode, outgoing, nextEdge>>
worklist == <<todo, incoming, work, taken, before>>
run == <<callers, running, stack, env, here>>
vars == <<unit, phase, summaries, worklist, run>>

Functions == unit.functions
Order == SetToSeq(DOMAIN Functions)
Graph(g) == unit.graphs[g]

\* max_iterations.
MaxRounds == Greater(4, 2 * Cardinality(DOMAIN Functions) + 2)
Node(g, n) == Graph(g).nodes[n]

SeedOf(g, ps) == IF g \in DOMAIN ps
                 THEN [x \in DOMAIN ps[g] |-> Clamp(ps[g][x], Functions[g].types[x])] ELSE Nothing

\* The first function of a round.
Begin(order, ps) ==
  /\ todo' = order
  /\ incoming' = (Graph(order[1]).entry :> SeedOf(order[1], ps))
  /\ work' = <<Graph(order[1]).entry>>
  /\ takenNode' = 0 /\ UNCHANGED <<outgoing, nextEdge>>

Init ==
  /\ \E i \in DOMAIN Programs : unit = Graphed(Programs[i])
  /\ phase = "analyse" /\ round = 1
  /\ params = [g \in {} |-> Nothing] /\ returns = Nothing
  /\ todo = Order
  /\ incoming = (Graph(Order[1]).entry :> Nothing) /\ work = <<Graph(Order[1]).entry>>
  /\ takenNode = 0 /\ outgoing = Nothing /\ nextEdge = 1
  /\ before = [g \in DOMAIN Functions |-> Nothing]
  /\ callers = <<>> /\ running = "main" /\ stack = Start(Functions["main"].body)
  /\ env = [x \in {} |-> 0]
  /\ here = {Graph("main").entry}

\* The function that is analysed.
Current == Head(todo)
Edges == Graph(Current).succ[takenNode]
EdgesDone == IF takenNode = 0 THEN TRUE ELSE nextEdge > Len(Edges)

TakeNode ==
  /\ phase = "analyse" /\ todo # <<>> /\ work # <<>>
  /\ EdgesDone
  /\ takenNode' = Head(work) /\ work' = Tail(work) /\ nextEdge' = 1
  /\ before' = [before EXCEPT ![Current] = (takenNode' :> incoming[takenNode']) @@ @]
  /\ outgoing' = Transfer(Functions[Current], Node(Current, takenNode'), incoming[takenNode'], returns)
  /\ UNCHANGED <<unit, phase, summaries, todo, incoming, run>>

\* What arrives at m is joined with what arrived before, with moving bounds
\* given up once m has been looked at.
Joined(m, st) ==
  IF m \notin DOMAIN incoming THEN st
  ELSE IF m \in DOMAIN before[Current] THEN Widened(incoming[m], Merge(incoming[m], st))
  ELSE Merge(incoming[m], st)

FlowEdge ==
  /\ phase = "analyse" /\ takenNode # 0
  /\ ~EdgesDone
  /\ LET fn == Functions[Current]  n == Node(Current, takenNode)  m == Edges[nextEdge]
         old == IF m \in DOMAIN incoming THEN <<incoming[m]>> ELSE <<>>
     IN \E st \in {IF HasCondition(n) /\ nextEdge < 3
                   THEN AlongEdge(fn, n, outgoing, nextEdge = 1, unit.bounds[Current][takenNode][nextEdge = 1])
                   ELSE <<outgoing>>} :
          IF st = Infeasible THEN UNCHANGED <<incoming, work>>
          ELSE \E new \in {Joined(m, st[1])} :
                 IF ~Changed(old, <<new>>) THEN UNCHANGED <<incoming, work>>
                 ELSE /\ incoming' = (m :> new) @@ incoming
                      /\ work' = IF Contains(work, m) THEN work ELSE Append(work, m)
  /\ nextEdge' = nextEdge + 1
  /\ UNCHANGED <<unit, phase, summaries, todo, takenNode, outgoing, before, run>>

EndFunction ==
  /\ phase = "analyse" /\ todo # <<>> /\ work = <<>>
  /\ EdgesDone
  /\ IF Len(todo) > 1 THEN Begin(Tail(todo), params)
     ELSE todo' = <<>> /\ takenNode' = 0 /\ UNCHANGED <<incoming, work, outgoing, nextEdge>>
  /\ UNCHANGED <<unit, phase, summaries, before, run>>

FactsAt(g, n) == IF n \in DOMAIN before[g] THEN before[g][n] ELSE Nothing

\* The hull of ranges that must all be known.
HullOf(ranges) == IF Unknown \in ranges \/ ranges = {} THEN Unknown
                  ELSE FoldSet(Hull, CHOOSE r \in ranges : TRUE, ranges)

\* _summarize_return.
ReturnRange(g) ==
  HullOf({LET r == ExprRange(Functions[g], Node(g, n).ast.e, FactsAt(g, n))
          IN IF r = Unknown THEN r ELSE Clamp(r, Functions[g].result) :
            n \in {m \in Nodes(Graph(g)) : Node(g, m).part = "return"}})

\* _summarize_parameters, for the i-th parameter.
ParameterRange(g, i) ==
  HullOf({LET r == ExprRange(Functions[s[1]], Node(s[1], s[2]).w.args[i], FactsAt(s[1], s[2]))
          IN IF r = Unknown THEN r ELSE Clamp(r, Functions[g].types[Functions[g].params[i]]) :
            s \in unit.sites[g]})

NextReturns ==
  LET known == {g \in DOMAIN Functions \ unit.recursive : ReturnRange(g) # Unknown}
  IN [g \in known |-> ReturnRange(g)]

NextParameters ==
  LET place(g, x) == CHOOSE i \in DOMAIN Functions[g].params : Functions[g].params[i] = x
      known(g) == {x \in Range(Functions[g].params) : ParameterRange(g, place(g, x)) # Unknown}
  IN [g \in {h \in unit.seeded : known(h) # {}} |-> [x \in known(g) |-> ParameterRange(g, place(g, x))]]

RoundEnds == phase = "analyse" /\ todo = <<>>
Converged == NextParameters = params /\ NextReturns = returns

\* The next round knows what this one found.
NextRound ==
  /\ RoundEnds /\ ~Converged /\ round < MaxRounds
  /\ round' = round + 1 /\ params' = NextParameters /\ returns' = NextReturns
  /\ before' = [g \in DOMAIN Functions |-> Nothing]
  /\ Begin(Order, params')
  /\ UNCHANGED <<unit, phase, run>>

\* Without convergence no summary is used: each function by itself.
GiveUp ==
  /\ RoundEnds /\ ~Converged /\ round = MaxRounds
  /\ round' = round + 1 /\ params' = [g \in {} |-> Nothing] /\ returns' = Nothing
  /\ before' = [g \in DOMAIN Functions |-> Nothing]
  /\ Begin(Order, params')
  /\ UNCHANGED <<unit, phase, run>>

\* Any values of the types of `fn` for the variables in xs.
AnyValues(fn, xs) == {h \in [xs -> -Half..(2 * Half - 1)] : \A x \in xs : In(h[x], TypeRange(fn.types[x]))}

\* Main is called from outside, and so are the functions that others know of.
Analysed ==
  /\ RoundEnds /\ (Converged \/ round > MaxRounds)
  /\ phase' = "run"
  /\ \E g \in {h \in DOMAIN Functions : h = "main" \/ ~Functions[h].static \/ Functions[h].escapes} :
       /\ running' = g /\ stack' = Start(Functions[g].body) /\ here' = {Graph(g).entry}
       /\ env' \in AnyValues(Functions[g], Range(Functions[g].params))
  /\ UNCHANGED <<unit, summaries, worklist, callers>>

-----------------------------------------------------------------------------
(* Runs.  A run stops where C gives no meaning, and where a value that     *)
(* does not fit is stored in a variable or wraps in unsigned arithmetic;   *)
(* comparisons, casts, arguments and results convert.                      *)

Fn == Functions[running]
Values(t) == TypeRange(t)[1]..TypeRange(t)[2]

\* The value of type t that is equal modulo its number of values.
Converted(x, t) ==
  LET r == TypeRange(t) IN ((x - r[1]) % (r[2] - r[1] + 1)) + r[1]

Fitting(x, t) == IF In(x, TypeRange(t)) THEN {x} ELSE {}

\* The values an expression may have: several when it reads volatile
\* variables, none when the run stops.
RECURSIVE Eval(_, _)
Eval(e, vs) ==
  LET t == TypeOf(Fn, e)
      common == UsualType(TypeOf(Fn, e.l), TypeOf(Fn, e.r))
      pairs == {<<Converted(a, common), Converted(b, common)>> : a \in Eval(e.l, vs), b \in Eval(e.r, vs)}
  IN CASE e.k = "const" -> {e.n}
       [] e.k = "var" /\ e.v \in Fn.volatile -> Values(t)
       [] e.k = "var" /\ e.v \notin Fn.volatile -> IF e.v \in DOMAIN vs THEN {vs[e.v]} ELSE {}
       [] e.k = "neg" -> UNION {Fitting(-a, t) : a \in Eval(e.e, vs)}
       [] e.k = "not" -> {Bit(a = 0) : a \in Eval(e.e, vs)}
       [] e.k = "cast" -> {Converted(a, t) : a \in Eval(e.e, vs)}
       [] e.k = "add" -> UNION {Fitting(p[1] + p[2], t) : p \in pairs}
       [] e.k = "sub" -> UNION {Fitting(p[1] - p[2], t) : p \in pairs}
       [] e.k = "cmp" -> {Bit(Compare(e.op, p[1], p[2])) : p \in pairs}
       [] e.k = "and" -> UNION {IF a = 0 THEN {0} ELSE {Bit(b # 0) : b \in Eval(e.r, vs)} : a \in Eval(e.l, vs)}
       [] e.k = "or" -> UNION {IF a # 0 THEN {1} ELSE {Bit(b # 0) : b \in Eval(e.r, vs)} : a \in Eval(e.l, vs)}

Stored(vs, v, x) == {(v :> y) @@ vs : y \in Fitting(x, Fn.types[v])}

\* Code that was not seen writes to variables whose address was taken.
Disturbed(vs) == {d @@ vs : d \in AnyValues(Fn, DOMAIN vs \cap Fn.addressed)}

Effect(s) ==
  CASE s.op = "set" /\ ~IsCall(s.w) -> UNION {Stored(env, s.v, x) : x \in Eval(s.w, env)}
    [] s.op = "incr" -> IF s.v \in DOMAIN env THEN Stored(env, s.v, env[s.v] + s.w) ELSE {}
    [] s.op = "poke" -> Disturbed(env)
    [] s.op = "set" /\ IsCall(s.w) -> UNION {Stored(vs, s.v, x) : vs \in Disturbed(env), x \in Values("int")}
    [] s.op = "eval" -> Disturbed(env)

\* After a goto without a target anything may be in a variable.
AnyEnv == AnyValues(Fn, DOMAIN env)

CallsFunction == Part(stack) = "do" /\ Calls(Stmt(stack)) /\ Stmt(stack).w.f \in DOMAIN Functions

\* The arguments a call may pass, and the values a return to a caller may give.
Arguments ==
  LET w == Stmt(stack).w  fn == Functions[w.f]
      may(i) == {Converted(x, fn.types[fn.params[i]]) : x \in Eval(w.args[i], env)}
  IN IF stack = <<>> THEN {} ELSE IF ~CallsFunction THEN {}
     ELSE {a \in [DOMAIN fn.params -> UNION {may(i) : i \in DOMAIN fn.params}] :
             \A i \in DOMAIN fn.params : a[i] \in may(i)}

Results ==
  IF stack = <<>> \/ callers = <<>> THEN {}
  ELSE IF Part(stack) # "return" THEN {}
  ELSE {Converted(x, Fn.result) : x \in Eval(Stmt(stack).e, env)}

Outcomes ==
  IF stack = <<>> THEN {}
  ELSE IF IsTest(stack)
  THEN {[k |-> WhenTested(stack, x # 0), env |-> env, truth |-> IF x # 0 THEN "true" ELSE "false"] :
          x \in Eval(Stmt(stack).cond, env)}
  ELSE IF CallsFunction \/ Part(stack) = "return" THEN {}
  ELSE {[k |-> next, env |-> vs, truth |-> "none"] :
          next \in Onwards(stack, Fn.body),
          vs \in CASE Part(stack) = "do" -> Effect(Stmt(stack))
                   [] Part(stack) = "unknown" -> AnyEnv
                   [] OTHER -> {env}}

Step ==
  /\ phase = "run"
  /\ \E r \in Outcomes :
       /\ stack' = r.k /\ env' = r.env
       /\ here' = Follow(Graph(running), here, r.k, r.truth)
  /\ UNCHANGED <<unit, phase, summaries, worklist, callers, running>>

Call ==
  /\ phase = "run"
  /\ \E args \in Arguments, vs \in Disturbed(env) :
       LET g == Stmt(stack).w.f  fn == Functions[g] IN
       /\ callers' = <<[fn |-> running, stack |-> stack, env |-> vs, here |-> here]>> \o callers
       /\ running' = g /\ stack' = Start(fn.body)
       /\ env' = [x \in Range(fn.params) |-> args[CHOOSE i \in DOMAIN args : fn.params[i] = x]]
       /\ here' = {Graph(g).entry}
  /\ UNCHANGED <<unit, phase, summaries, worklist>>

Return ==
  /\ phase = "run"
  /\ \E y \in Results :
       LET c == Head(callers)  s == Stmt(c.stack)  caller == Functions[c.fn]
           next == CHOOSE k \in Onwards(c.stack, caller.body) : TRUE
       IN /\ running' = c.fn /\ stack' = next /\ callers' = Tail(callers)
          /\ env' = IF s.op = "set" THEN (s.v :> Converted(y, caller.types[s.v])) @@ c.env ELSE c.env
          /\ here' = Follow(Graph(c.fn), c.here, next, "none")
  /\ UNCHANGED <<unit, phase, summaries, worklist>>

\* The first function returns, or the run stops.
Stop ==
  /\ phase = "run" /\ Outcomes = {} /\ Arguments = {} /\ Results = {}
  /\ phase' = "over"
  /\ UNCHANGED <<unit, summaries, worklist, run>>

Over == phase = "over" /\ UNCHANGED vars

Next ==
  \/ TakeNode \/ FlowEdge \/ EndFunction \/ NextRound \/ GiveUp \/ Analysed
  \/ Step \/ Call \/ Return \/ Stop \/ Over

Spec == Init /\ [][Next]_vars
FairSpec == /\ Spec
            /\ WF_vars(TakeNode) /\ WF_vars(FlowEdge) /\ WF_vars(EndFunction) /\ WF_vars(NextRound)
            /\ WF_vars(GiveUp) /\ WF_vars(Analysed)

-----------------------------------------------------------------------------
\* The expression the next step evaluates.
Evaluated ==
  CASE IsTest(stack) -> {Stmt(stack).cond}
    [] Part(stack) = "return" -> {Stmt(stack).e}
    [] Part(stack) = "do" /\ Stmt(stack).op = "set" /\ ~IsCall(Stmt(stack).w) -> {Stmt(stack).w}
    [] Part(stack) = "do" /\ Calls(Stmt(stack)) -> Range(Stmt(stack).w.args)
    [] OTHER -> {}

\* Wherever a run is, on whatever path and in whatever caller, each variable
\* is in the range that the analysis gives it there, and what is evaluated
\* next in the range that range_for_expression returns.
RangesHold ==
  phase = "run" /\ stack # <<>> => \A n \in here :
    /\ \A x \in DOMAIN FactsAt(running, n) \cap DOMAIN env : In(env[x], FactsAt(running, n)[x])
    /\ \A e \in Evaluated : \A x \in Eval(e, env) : In(x, ExprRange(Fn, e, FactsAt(running, n)))

\* A branch that the analysis has left out, because the condition is proven
\* the other way or contradicts what is known, is never taken (the comments on
\* _condition_truth and _branch_proof_expression_supported, and
\* docs/benchmarks/cgull-049-branch-feasibility-391.md).
BranchProofsHold == phase = "run" => here \subseteq DOMAIN before[running]

\* The analysis ends: worklists with loops run dry because moving bounds are
\* given up, and rounds of summaries that do not settle are given up.
AnalysisEnds == <>(phase # "analyse")
=============================================================================
