------------------------------ MODULE ValueFacts ------------------------------
(***************************************************************************)
(* Where values come from and which of them are string literals, in all of *)
(* a translation unit: what each function returns (cfg/value_facts.py),    *)
(* then what its callers pass to it (cfg/value_interprocedural.py); then   *)
(* runs of the analysed program.                                           *)
(*                                                                         *)
(* A variable is a buffer or a number: an assignment copies its value.     *)
(* The evidence collected with a fact is left out, but it counts as a      *)
(* change: rounds may be spent on it.                                      *)
(***************************************************************************)
EXTENDS CControl, CallGraph

CONSTANTS Units,          \* translation units, in a sequence.  A unit has names, the functions in
                          \* sorted order, and for each of them a body that ends with a return,
                          \* and params, a sequence.  "main" is called from outside
          MaxIterations,  \* max_iterations_per_scc
          MaxCalls        \* bound on the nesting of calls in a run

-----------------------------------------------------------------------------
(* Facts.  "NONE" stands for a missing fact and the bottom of summaries.   *)

Fact(prov, lit) == [prov |-> prov, lit |-> lit]
None == Fact("NONE", "NONE")
Unknown == Fact("UNKNOWN", "UNKNOWN")
FromSource == Fact("UNTRUSTED", "NON_LITERAL")

JoinProvenance(a, b) ==
  CASE a = "NONE" -> b
    [] b = "NONE" -> a
    [] "UNKNOWN" \in {a, b} -> "UNKNOWN"
    [] OTHER -> IF a = b THEN a ELSE "MIXED"

JoinLiteralness(a, b) ==
  CASE a = "NONE" -> b
    [] b = "NONE" -> a
    [] OTHER -> IF a = b THEN a ELSE "UNKNOWN"

JoinFacts(a, b) == Fact(JoinProvenance(a.prov, b.prov), JoinLiteralness(a.lit, b.lit))

JoinAll(facts) == FoldSet(JoinFacts, None, facts)

\* _merge_state.
MergeState(a, b) ==
  [v \in DOMAIN a \cup DOMAIN b |->
     IF v \in DOMAIN a /\ v \in DOMAIN b THEN JoinFacts(a[v], b[v]) ELSE Unknown]

-----------------------------------------------------------------------------
(* What a function returns: a summary has the parameters the result may    *)
(* come from, and a fact of what else it may be.                           *)

Summary(params, fact) == [params |-> params, fact |-> fact]
JoinSummaries(a, b) == Summary(a.params \cup b.params, JoinFacts(a.fact, b.fact))
JoinOfAll(summaries) == FoldSet(JoinSummaries, Summary({}, None), summaries)

\* relation, of a returned expression.
RECURSIVE Relation(_, _, _)
Relation(e, params, sums) ==
  CASE e.k = "var" -> IF e.v \in Range(params)
                      THEN Summary({CHOOSE i \in DOMAIN params : params[i] = e.v}, None)
                      ELSE Summary({}, Unknown)
    [] e.k = "str" -> Summary({}, Fact("TRUSTED", "LITERAL"))
    [] e.k = "num" -> Summary({}, Fact("TRUSTED", "NONE"))
    [] e.k = "plus" -> JoinOfAll({Relation(e.l, params, sums), Relation(e.r, params, sums),
                                  Summary({}, Fact("NONE", "NON_LITERAL"))})
    [] e.k = "pick" -> JoinSummaries(Relation(e.l, params, sums), Relation(e.r, params, sums))
    [] e.k = "source" -> Summary({}, FromSource)
    [] e.k = "unknown" -> Summary({}, Unknown)
    [] e.k = "call" -> JoinOfAll({Summary({}, sums[e.f].fact)}
                                   \cup {Relation(e.args[i], params, sums) : i \in sums[e.f].params})

\* _summarize_function; `returned` are the expressions its returns give.
Summarized(params, returned, sums) == JoinOfAll({Relation(e, params, sums) : e \in returned})

\* SCCFixedPointEngine on one component: rounds on a snapshot, with everything
\* unknown when they do not suffice.
RECURSIVE Settled(_, _, _, _)
Settled(unit, component, sums, rounds) ==
  LET next == [f \in DOMAIN sums |->
                 IF f \notin component THEN sums[f]
                 ELSE JoinSummaries(sums[f], Summarized(unit.functions[f].params, unit.returned[f], sums))]
  IN CASE ~Recursive(unit.calls, component) \/ (next = sums) -> next
       [] rounds > 1 /\ next # sums -> Settled(unit, component, next, rounds - 1)
       [] OTHER -> [f \in DOMAIN sums |->
                      IF f \in component THEN Summary(DOMAIN unit.functions[f].params, Unknown) ELSE next[f]]

\* analyze_value_summaries_detailed, from the callees to their callers.
RECURSIVE Summaries(_, _, _, _)
Summaries(unit, components, sums, rounds) ==
  IF components = <<>> THEN sums
  ELSE Summaries(unit, Front(components), Settled(unit, Last(components), sums, rounds), rounds)

-----------------------------------------------------------------------------
(* The facts of one function.                                              *)

\* What a call gives besides what it passes on; nothing known counts as unknown
\* as soon as something is known.
Intrinsic(s) ==
  IF s.fact = None THEN None
  ELSE Fact(IF s.fact.prov = "NONE" THEN "UNKNOWN" ELSE s.fact.prov,
            IF s.fact.lit = "NONE" THEN "UNKNOWN" ELSE s.fact.lit)

\* _expression_fact.
RECURSIVE ExpressionFact(_, _, _)
ExpressionFact(e, st, sums) ==
  CASE e.k = "str" -> Fact("TRUSTED", "LITERAL")
    [] e.k = "num" -> Fact("TRUSTED", "UNKNOWN")
    [] e.k = "var" -> IF e.v \in DOMAIN st THEN st[e.v] ELSE Unknown
    [] e.k \in {"plus", "pick"} -> JoinFacts(ExpressionFact(e.l, st, sums), ExpressionFact(e.r, st, sums))
    [] e.k = "source" -> FromSource
    [] e.k = "unknown" -> Unknown
    [] e.k = "call" ->
         LET fact == JoinAll({Intrinsic(sums[e.f])}
                               \cup {ExpressionFact(e.args[i], st, sums) : i \in sums[e.f].params})
         IN IF fact = None THEN Unknown ELSE fact

\* _apply_output_effects: "fill" lets a source write to its argument, "move"
\* copies from another argument, "spoil" writes something else.
OutputEffects(n, st) ==
  CASE n.op = "fill" -> (n.v :> FromSource) @@ st
    [] n.op = "move" -> (n.v :> ExpressionFact(n.w, st, <<>>)) @@ st
    [] n.op = "spoil" -> (n.v :> Unknown) @@ st
    [] OTHER -> st

TransferEvent(n, st, sums) == IF n.op = "set" THEN (n.v :> ExpressionFact(n.w, st, sums)) @@ st ELSE st

Transfer(n, st, sums) == OutputEffects(n, TransferEvent(n, st, sums))

\* The facts before the i-th node of a block; those behind its last node.
RECURSIVE Within(_, _, _, _, _)
Within(g, chain, st, i, sums) ==
  IF i = 1 THEN st ELSE Within(g, Tail(chain), Transfer(g.nodes[Head(chain)], st, sums), i - 1, sums)

\* _analyze_one: the facts at the head of each block.
RECURSIVE Ins(_, _, _, _, _)
Ins(g, blocks, in, queue, sums) ==
  IF queue = <<>> THEN in
  ELSE LET chain == blocks[Head(queue)]
           succs == g.succ[Last(chain)]
       IN CHOOSE result \in
            {Ins(g, blocks, new @@ in,
                 Tail(queue) \o SelectSeq(succs, LAMBDA x :
                   (IF x \in DOMAIN in THEN new[x] # in[x] ELSE TRUE) /\ ~Contains(Tail(queue), x)), sums) :
               new \in {[x \in Range(succs) |-> IF x \in DOMAIN in THEN MergeState(in[x], out) ELSE out] :
                          out \in {Within(g, chain, in[Head(queue)], Len(chain) + 1, sums)}}} : TRUE

\* The facts before every node that control reaches.
Before(g, blocks, entry, sums) ==
  LET in == Ins(g, blocks, (g.entry :> entry), <<g.entry>>, sums)
      block(n) == CHOOSE b \in DOMAIN in : Contains(blocks[b], n)
      place(n) == CHOOSE i \in DOMAIN blocks[block(n)] : blocks[block(n)][i] = n
  IN [n \in {m \in Nodes(g) : \E b \in DOMAIN in : Contains(blocks[b], m)} |->
        Within(g, blocks[block(n)], in[block(n)], place(n), sums)]

-----------------------------------------------------------------------------
(* A translation unit and what does not change while it is analysed.       *)

\* The call of a node: calls are whole statements, assigned or returned.
CallOf(n) ==
  LET e == IF n.part = "return" THEN n.ast.e ELSE n.w
  IN IF n.part = "return" \/ n.op \in {"set", "eval"} THEN (IF e.k = "call" THEN {e} ELSE {}) ELSE {}

CalledIn(g) == UNION {{e.f : e \in CallOf(g.nodes[n])} : n \in Nodes(g)}

\* The components, callers before callees, as in the reverse of bottom_up_sccs.
RECURSIVE CallersFirst(_, _)
CallersFirst(calls, components) ==
  IF components = {} THEN <<>>
  ELSE LET c == CHOOSE x \in components : \A y \in components \ {x} : CalleesOutside(calls, y) \cap x = {}
       IN <<c>> \o CallersFirst(calls, components \ {c})

Graphed(u) ==
  LET fs == Range(u.names)
      graphs == [f \in fs |-> BuildCfg(u.functions[f].body)]
      calls == [f \in fs |-> CalledIn(graphs[f])]
  IN [names |-> u.names, functions |-> u.functions, graphs |-> graphs, calls |-> calls,
      blocks |-> [f \in fs |-> Blocks(graphs[f])],
      returned |-> [f \in fs |-> {graphs[f].nodes[n].ast.e :
                                    n \in {m \in Nodes(graphs[f]) : graphs[f].nodes[m].part = "return"}}],
      components |-> CallersFirst(calls, {Component(calls, f) : f \in fs})]

-----------------------------------------------------------------------------
VARIABLES unit,      \* the translation unit
          phase,     \* "summarize", "propagate", "run", "over"
          sums,      \* the summaries of its functions
          incoming,  \* the facts of their parameters so far
          remaining, \* the components still to be treated; of the first of them
          todo,      \* the functions to be analysed in this round,
          round,     \* the number of the round,
          changed,   \* and whether it has changed a parameter of the component
          facts,     \* function_results: the facts before every node
          degraded,  \* the components whose rounds did not suffice
          callers,   \* the run: the frames of the callers,
          running,   \* the function that runs,
          stack,     \* what of it remains to be executed,
          env,       \* its variables that have a value,
          here       \* and the nodes of its graph that stand for its next step

analysis == <<sums, incoming, remaining, todo, round, changed, facts, degraded>>
run == <<callers, running, stack, env, here>>
vars == <<unit, phase, analysis, run>>

Params(f) == unit.functions[f].params
Graph(f) == unit.graphs[f]
Callers(f) == {g \in Range(unit.names) : f \in unit.calls[g]}
Component1 == Head(remaining)
InOrder(component) == SelectSeq(unit.names, LAMBDA f : f \in component)

\* The facts a function starts with.
EntryOf(f, known) ==
  [v \in {Params(f)[i] : i \in {j \in DOMAIN Params(f) : known[f][j] # None}} |->
     known[f][CHOOSE i \in DOMAIN Params(f) : Params(f)[i] = v]]

FactsOf(f, known) == Before(Graph(f), unit.blocks[f], EntryOf(f, known), sums)

\* The arguments that f passes, joined with what others pass.
Passed(f, before) ==
  LET sites == {<<n, e>> \in UNION {{<<m, e>> : e \in CallOf(Graph(f).nodes[m])} : m \in DOMAIN before} : TRUE}
  IN [g \in DOMAIN incoming |->
        [i \in DOMAIN incoming[g] |->
           JoinAll({incoming[g][i]} \cup {ExpressionFact(s[2].args[i], before[s[1]], sums) :
                                            s \in {x \in sites : x[2].f = g}})]]

Init ==
  /\ \E u \in Range(Units) : unit = Graphed(u)
  /\ phase = "summarize"
  /\ sums = [f \in Range(unit.names) |-> Summary({}, None)]
  /\ incoming = [f \in Range(unit.names) |->
                   [i \in DOMAIN Params(f) |-> IF Callers(f) = {} THEN Unknown ELSE None]]
  /\ remaining = unit.components /\ todo = <<>> /\ round = 0 /\ changed = FALSE
  /\ facts = <<>> /\ degraded = {}
  /\ callers = <<>> /\ running = "main" /\ stack = Start(unit.functions["main"].body)
  /\ env = <<>> /\ here = {Graph("main").entry}

\* Some of the rounds may bring new evidence only.
Summarize ==
  /\ phase = "summarize" /\ phase' = "propagate"
  /\ \E rounds \in 1..MaxIterations : sums' = Summaries(unit, unit.components, sums, rounds)
  /\ todo' = InOrder(Component1) /\ round' = 1
  /\ UNCHANGED <<unit, incoming, remaining, changed, facts, degraded, run>>

\* One function of a round; the next one sees what it passes.
AnalyzeOne ==
  /\ phase = "propagate" /\ todo # <<>>
  /\ \E before \in {FactsOf(Head(todo), incoming)} : incoming' = Passed(Head(todo), before)
  /\ changed' \in {changed \/ \E g \in Component1 : incoming'[g] # incoming[g]}
                     \cup {TRUE : g \in Component1 \cap unit.calls[Head(todo)]}
  /\ todo' = Tail(todo)
  /\ UNCHANGED <<unit, phase, sums, remaining, round, facts, degraded, run>>

RoundEnds == phase = "propagate" /\ todo = <<>> /\ remaining # <<>>
Converged == ~Recursive(unit.calls, Component1) \/ ~changed

NextRound ==
  /\ RoundEnds /\ ~Converged /\ round < MaxIterations
  /\ round' = round + 1 /\ changed' = FALSE /\ todo' = InOrder(Component1)
  /\ UNCHANGED <<unit, phase, sums, incoming, remaining, facts, degraded, run>>

\* Faulty: a component out of rounds keeps what it has.
KeptParams == incoming

\* A component out of rounds knows nothing of its parameters.
DegradedParams ==
  [f \in DOMAIN incoming |-> IF f \in Component1 THEN [i \in DOMAIN incoming[f] |-> Unknown] ELSE incoming[f]]

\* The results of the component, and on to the next one.
CloseComponent ==
  /\ RoundEnds /\ (Converged \/ round = MaxIterations)
  /\ \E known \in {IF Converged THEN incoming ELSE DegradedParams} :
       /\ incoming' = known
       /\ facts' = [f \in Component1 |-> FactsOf(f, known)] @@ facts
  /\ degraded' = IF Converged THEN degraded ELSE degraded \cup {Component1}
  /\ remaining' = Tail(remaining)
  /\ todo' = IF remaining' = <<>> THEN <<>> ELSE InOrder(Head(remaining'))
  /\ round' = 1 /\ changed' = FALSE
  /\ UNCHANGED <<unit, phase, sums, run>>

-----------------------------------------------------------------------------
(* Runs.  Conditions may come out either way.                              *)

Value(from, kind) == [from |-> from, kind |-> kind]
AnyValue == {Value(from, kind) : from \in {"program", "external"}, kind \in {"literal", "computed"}}
External == Value("external", "computed")

\* No sum of two strings.
Sum(a, b) == IF a.kind = "literal" /\ b.kind = "literal" THEN {}
             ELSE {Value(IF "external" \in {a.from, b.from} THEN "external" ELSE "program", "computed")}

\* The values an expression without calls may have.
RECURSIVE Eval(_)
Eval(e) ==
  CASE e.k = "value" -> {e.x}
    [] e.k = "str" -> {Value("program", "literal")}
    [] e.k = "num" -> {Value("program", "number")}
    [] e.k = "var" -> IF e.v \in DOMAIN env THEN {env[e.v]} ELSE {}
    [] e.k = "plus" -> UNION {Sum(a, b) : a \in Eval(e.l), b \in Eval(e.r)}
    [] e.k = "pick" -> Eval(e.l) \cup Eval(e.r)
    [] e.k = "source" -> {External}
    [] e.k = "unknown" -> AnyValue

\* The function is called from outside.
Begin ==
  /\ phase = "propagate" /\ remaining = <<>>
  /\ phase' = "run"
  /\ env' \in [Range(Params("main")) -> AnyValue]
  /\ UNCHANGED <<unit, analysis, callers, running, stack, here>>

Executes(ops) == stack # <<>> /\ Part(stack) = "do" /\ Stmt(stack).op \in ops
CallsNext ==
  IF stack = <<>> \/ Part(stack) \notin {"do", "return"} THEN {}
  ELSE LET s == Stmt(stack)  e == IF s.k = "return" THEN s.e ELSE s.w
       IN IF s.k = "return" \/ s.op \in {"set", "eval"} THEN (IF e.k = "call" THEN {e} ELSE {}) ELSE {}

Assigned ==
  LET s == Stmt(stack) IN
  CASE s.op \in {"set", "move"} -> {(s.v :> x) @@ env : x \in Eval(s.w)}
    [] s.op = "fill" -> {(s.v :> External) @@ env}
    [] s.op = "spoil" -> {(s.v :> x) @@ env : x \in AnyValue}
    [] OTHER -> {env}

Step ==
  /\ phase = "run" /\ stack # <<>> /\ CallsNext = {} /\ Part(stack) # "return"
  /\ \/ /\ IsTest(stack) /\ env' = env
        /\ \E truth \in BOOLEAN :
             /\ stack' = WhenTested(stack, truth)
             /\ here' = Follow(Graph(running), here, stack', IF truth THEN "true" ELSE "false")
     \/ /\ ~IsTest(stack)
        /\ stack' \in Onwards(stack, unit.functions[running].body)
        /\ env' \in IF Part(stack) = "do" THEN Assigned ELSE {env}
        /\ here' = Follow(Graph(running), here, stack', "none")
  /\ UNCHANGED <<unit, phase, analysis, callers, running>>

Call ==
  /\ phase = "run" /\ Len(callers) < MaxCalls
  /\ \E e \in CallsNext :
       LET ps == Params(e.f) IN
       /\ env' \in {h \in [Range(ps) -> UNION {Eval(e.args[i]) : i \in DOMAIN ps}] :
                      \A i \in DOMAIN ps : h[ps[i]] \in Eval(e.args[i])}
       /\ callers' = <<[fn |-> running, stack |-> stack, env |-> env, here |-> here]>> \o callers
       /\ running' = e.f /\ stack' = Start(unit.functions[e.f].body) /\ here' = {Graph(e.f).entry}
  /\ UNCHANGED <<unit, phase, analysis>>

\* A result that is returned again is the expression of that return.
Return ==
  /\ phase = "run" /\ stack # <<>> /\ callers # <<>> /\ CallsNext = {} /\ Part(stack) = "return"
  /\ \E x \in Eval(Stmt(stack).e) :
       LET c == Head(callers)  s == Stmt(c.stack) IN
       /\ running' = c.fn /\ callers' = Tail(callers)
       /\ env' = IF s.k # "return" /\ s.op = "set" THEN (s.v :> x) @@ c.env ELSE c.env
       /\ IF s.k = "return"
          THEN /\ stack' = <<Frame("stmt", [s EXCEPT !.e = [k |-> "value", x |-> x]])>>
               /\ here' = c.here
          ELSE /\ stack' \in Onwards(c.stack, unit.functions[c.fn].body)
               /\ here' = Follow(Graph(c.fn), c.here, stack', "none")
  /\ UNCHANGED <<unit, phase, analysis>>

\* Main returns, calls nest too deep, or C gives the next step no meaning.
Stuck ==
  IF stack = <<>> THEN TRUE
  ELSE IF CallsNext # {}
  THEN Len(callers) = MaxCalls \/ \E e \in CallsNext : \E i \in DOMAIN e.args : Eval(e.args[i]) = {}
  ELSE IF Part(stack) = "return" THEN callers = <<>> \/ Eval(Stmt(stack).e) = {}
  ELSE Part(stack) = "do" /\ Assigned = {}

Stop ==
  /\ phase = "run" /\ Stuck
  /\ phase' = "over"
  /\ UNCHANGED <<unit, analysis, run>>

Over == phase = "over" /\ UNCHANGED vars

Next == \/ Summarize \/ AnalyzeOne \/ NextRound \/ CloseComponent
        \/ Begin \/ Step \/ Call \/ Return \/ Stop \/ Over

Spec == Init /\ [][Next]_vars

-----------------------------------------------------------------------------
(* Properties.                                                             *)

\* What a fact says of a value.
Tells(fact, x) ==
  /\ fact.prov = "TRUSTED" => x.from = "program"
  /\ fact.prov = "UNTRUSTED" => x.from = "external"
  /\ fact.lit = "LITERAL" => x.kind \in {"literal", "number"}
  /\ fact.lit = "NON_LITERAL" => x.kind # "literal"

\* Facts of parameters from rounds that did not suffice are not withdrawn outside
\* the component.
Doubtful == UNION {UNION {Reach(unit.calls, g) : g \in CalleesOutside(unit.calls, c)} : c \in degraded}

\* No function assigns to a parameter it returns.
ReturnedParamsAreKept ==
  \A f \in Range(unit.names) : \A i \in sums[f].params : \A n \in Nodes(Graph(f)) :
    Graph(f).nodes[n].op \in {"set", "fill", "move", "spoil"} => Graph(f).nodes[n].v # Params(f)[i]

\* Wherever a run is, through whatever calls, what the analysis says of where the
\* value of a variable comes from, and of whether it is a string literal, is so.
FactsHold ==
  phase = "run" /\ stack # <<>> /\ running \notin Doubtful /\ ReturnedParamsAreKept =>
    \A n \in here : n \in DOMAIN facts[running] /\
      \A v \in DOMAIN env : v \in DOMAIN facts[running][n] => Tells(facts[running][n][v], env[v])
=============================================================================
