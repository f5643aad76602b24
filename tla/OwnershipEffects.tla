-------------------------- MODULE OwnershipEffects --------------------------
(***************************************************************************)
(* What a function does with the pointers it is given: the must and may    *)
(* effects that ownership.py and summaries.py report of one function, from *)
(* the locations LegacyDataflow finds, beside the function's runs.         *)
(*                                                                         *)
(* An effect is a pair of a category and a parameter.  What a callee does  *)
(* with its argument is the operation of the calling statement: "free",    *)
(* "give" (it takes ownership) and "keep" (the pointer escapes) happen on  *)
(* every exit of the callee, "perhaps" (free) on some of them, and of an   *)
(* unknown callee ("lend", "sink") the argument may escape.  "store" writes the    *)
(* whole pointed-to object and "part" a member or an element of it.        *)
(***************************************************************************)
EXTENDS FunctionSummaries

VARIABLES summary,   \* what is reported of the function once it is analysed
          incoming,  \* the run: the parameter whose value each variable holds, if any,
          done       \* and the effects it has had

ownership == <<summary, incoming, done>>

-----------------------------------------------------------------------------
(* The effects of one node (ownership_effects_for_cfg and                  *)
(* _node_output_effects).                                                  *)

Surely == [free |-> "freed", give |-> "transferred", keep |-> "escaped"]
Maybe == [perhaps |-> "freed", resize |-> "freed", lend |-> "escaped", sink |-> "escaped"]
Consuming == Surely @@ Maybe

\* The variable an operation hands to its callee.
Subject(n) == IF IsRealloc(n) THEN n.w ELSE n.v

\* Consumed is what was freed, transferred or escaped.
Consumes(category, params) == {category, "consumed"} \X params

\* Parameters whose incoming location a variable may hold before a node.
ParamsOf(id, v) ==
  LET reached == \E b \in DOMAIN ins : Contains(B[b], id)
      locs == IF reached THEN StateAt(id).map[v] ELSE {Loc("var", 0, v)}
  IN {p \in Params : Loc("var", 0, p) \in locs}

\* A store is attributed to the parameter it names.
Written(n, ops) == IF n.op \in ops THEN {"written"} \X ({n.v} \cap Params) ELSE {}

NodeMust(id) ==
  LET n == G.nodes[id] IN
  Written(n, {"store"})
    \cup IF n.op \in DOMAIN Surely THEN Consumes(Surely[n.op], ParamsOf(id, Subject(n))) ELSE {}

NodeMay(id) ==
  LET n == G.nodes[id] IN
  Written(n, {"store", "part"})
    \cup IF n.op \in DOMAIN Maybe THEN Consumes(Maybe[n.op], ParamsOf(id, Subject(n))) ELSE {}

-----------------------------------------------------------------------------
(* Along the paths of the function (_path_sets and                         *)
(* _summarize_output_initialization).                                      *)

Reachable == Onward(G, {G.entry})
NothingSoFar == [n \in Reachable |-> [must |-> {}, may |-> {}]]

\* What holds before a node, from what holds after the nodes before it.
Before(n, after) ==
  LET preds == Predecessors(G, n) \cap Reachable IN
  IF n = G.entry \/ preds = {} THEN [must |-> {}, may |-> {}]
  ELSE LET may == UNION {after[p].may : p \in preds}
       IN [must |-> {e \in may : \A p \in preds : e \in after[p].must}, may |-> may]

\* From empty sets to the least fixed point.
RECURSIVE PathSets(_, _, _)
PathSets(must, may, after) ==
  LET next == [n \in Reachable |->
                 LET in == Before(n, after)
                 IN [must |-> in.must \cup must[n], may |-> in.may \cup must[n] \cup may[n]]]
  IN IF next = after THEN after ELSE PathSets(must, may, next)

\* Faulty: only a node without successors is an exit.
ExitsLast(after) == {after[n] : n \in {x \in Reachable : G.succ[x] = <<>>}}

\* A condition with one successor is an exit too: the missing edge leads out of
\* the function.
Exits(after) ==
  {after[n] : n \in {x \in Reachable : G.succ[x] = <<>>}}
    \cup {[Before(n, after) EXCEPT !.may = @ \cup NodeMay(n)] :
            n \in {x \in Reachable : IsCond(G, x) /\ Len(G.succ[x]) = 1}}

Returned ==
  {"returned"} \X UNION {ParamsOf(n, G.nodes[n].ast.v) :
                           n \in {x \in Nodes(G) : G.nodes[x].part = "return" /\ "v" \in DOMAIN G.nodes[x].ast}}

Summary ==
  LET must == [n \in Reachable |-> NodeMust(n)]
      may == [n \in Reachable |-> NodeMay(n)]
      after == PathSets(must, may, NothingSoFar)
      exits == Exits(after)
      reported == IF exits = {} THEN {after[n] : n \in Reachable} ELSE exits
      possible == UNION {x.may : x \in reported}
      definite == IF exits = {} THEN {} ELSE {e \in possible : \A x \in exits : e \in x.must}
  IN [definite |-> definite, possible |-> possible \cup Returned \cup CallerReckons]

-----------------------------------------------------------------------------
(* What a run has done with the values the function was called with.       *)

Nobody == "nobody"
Executed == Stmt(stack)
Executes(ops) == stack # <<>> /\ ~IsTest(stack) /\ Part(stack) = "do" /\ Executed.op \in ops

Passed ==
  CASE Executes(Assigning \ {"copy"}) -> [incoming EXCEPT ![Executed.v] = Nobody]
    [] Executes({"copy"}) -> [incoming EXCEPT ![Executed.v] = incoming[Executed.w]]
    [] OTHER -> incoming

On(category, v) == IF incoming[v] = Nobody THEN {} ELSE {<<category, incoming[v]>>}
Consumption(op, v) == On(Consuming[op], v) \cup On("consumed", v)

\* The value may still be null.
Dereferenced(v) == IF Holds(mem, v, {"opaque"}) THEN On("dereferenced", v) ELSE {}

Given == Called(Params)

\* A true result says nothing of another parameter whose argument may be null.
ReturnOf(v) ==
  On("returned", v) \cup (IF mem.val[v] = Null THEN {<<"null", "result">>} ELSE {})
    \cup ({"unproven"} \X {p \in Params : mem.val[v] \in Objects \ {Given.val[p]} /\ mem.obj[Given.val[p]] = "opaque"})

\* The effects the executed statement may have had, given the memory it left:
\* a realloc frees when it succeeds.
Happens ==
  CASE Executes({"free", "give", "keep"}) -> {Consumption(Executed.op, Executed.v)}
    [] Executes({"lend", "sink"}) -> {{}, Consumption("lend", Executed.v)}
    [] Executes({"perhaps"}) ->
         {IF mem' = mem THEN {} ELSE Consumption("perhaps", Executed.v)}
    [] Executes({"resize"}) ->
         {IF mem'.val[Executed.v] = Null THEN {} ELSE Consumption("resize", Executed.w)}
    [] Executes({"use"}) -> {Dereferenced(Executed.v)}
    [] Executes({"store"}) -> {On("written", Executed.v) \cup Dereferenced(Executed.v)}
    [] Executes({"part"}) -> {effects \cup Dereferenced(Executed.v) : effects \in {{}, On("written", Executed.v)}}
    [] Part(stack) = "return" /\ "v" \in DOMAIN Executed -> {ReturnOf(Executed.v)}
    [] OTHER -> {{}}

-----------------------------------------------------------------------------

OwnershipInit ==
  /\ Init
  /\ summary = [definite |-> {}, possible |-> {}]
  /\ incoming = [v \in Vars |-> IF v \in Params THEN v ELSE Nobody]
  /\ done = {}

Analyse == (TakeBlock \/ ProcessNode \/ FlowOut) /\ UNCHANGED ownership

\* The dataflow has settled; its facts are turned into the function's summary.
Summarize == Analysed /\ summary' = Summary /\ UNCHANGED <<incoming, done>>

Run ==
  /\ Step
  /\ incoming' = Passed
  /\ \E effects \in Happens : done' = done \cup effects
  /\ UNCHANGED summary

End == (Stop \/ Over) /\ UNCHANGED ownership

OwnershipNext == Analyse \/ Summarize \/ Run \/ End

OwnershipSpec == OwnershipInit /\ [][OwnershipNext]_<<vars, ownership>>

-----------------------------------------------------------------------------
\* Every variable whose pointer is consumed has one possible location there.
OneLocation ==
  \A n \in Reachable : G.nodes[n].op \in DOMAIN Surely =>
    Cardinality(StateAt(n).map[Subject(G.nodes[n])]) = 1

\* No run falls out of the function from a switch that has no default.
NoOpenSwitch ==
  \A n \in Reachable : G.nodes[n].ast.k = "switch" =>
    \E i \in DOMAIN G.nodes[n].ast.cases : G.nodes[n].ast.cases[i].default

\* Parameters keep the value they were called with, and nothing else has it.
ParamsAreFixed == \A n \in Reachable : Writes(G.nodes[n]) \cap Params = {} /\ ~IsAlias(G.nodes[n])

\* The function does not begin with the condition of a loop.
NoLoopAtEntry == Predecessors(G, G.entry) = {}

\* What a summary calls definite has happened whenever the function ends, and
\* what has happened it calls possible, on every path through branches, loops,
\* early returns and the last condition of the function, through aliases and
\* reassigned parameters, and when a realloc frees its input or does not.
\* Stores are attributed by name, so they are compared where nothing else has
\* the name's value.
SummaryIsRight ==
  phase = "run" /\ stack = <<>> /\ NoLoopAtEntry =>
    LET byName == IF ParamsAreFixed THEN {} ELSE {"written", "unproven"} \X Params
        doubted == IF NoDoubtIsLost THEN {} ELSE {"dereferenced", "unproven"} \X Params
    IN /\ OneLocation /\ NoOpenSwitch => summary.definite \subseteq done \cup byName
       /\ done \subseteq summary.possible \cup byName \cup doubted
=============================================================================
