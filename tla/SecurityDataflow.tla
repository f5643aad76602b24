-------------------------- MODULE SecurityDataflow --------------------------
(***************************************************************************)
(* Which sensitive calls security_dataflow.py and security_queries.py      *)
(* report of a function: where its values come from and which of them a    *)
(* validator has accepted, beside the function's runs.                     *)
(*                                                                         *)
(* "source" assigns what a modelled source returns, "through" the result   *)
(* of a callee that depends on its argument, "either" a call through a     *)
(* pointer to that callee or to one that returns external data; "sink" is  *)
(* the sensitive call.  The predicate of a "check" in a condition is the   *)
(* validator the sink requires: it succeeds by returning true.             *)
(***************************************************************************)
EXTENDS OwnershipEffects

VARIABLES reported,   \* the sinks reported, once the function is analysed
          origin,     \* the run: where the value of each variable comes from,
          accepted    \* and the variables whose value the validator has accepted

security == <<reported, origin, accepted>>

-----------------------------------------------------------------------------
(* Facts at a node: the provenance of each variable and those validated.   *)

JoinProvenance(a, b) ==
  CASE a = "UNKNOWN" -> b
    [] b = "UNKNOWN" -> a
    [] OTHER -> IF a = b THEN a ELSE "MIXED"

NoSecurityFacts == [prov |-> [v \in Vars |-> "UNKNOWN"], valid |-> {}]

\* Faulty: what one path has validated is validated.
MergeAny(a, b) ==
  [prov |-> [v \in Vars |-> JoinProvenance(a.prov[v], b.prov[v])], valid |-> a.valid \cup b.valid]

Merge(a, b) ==
  [prov |-> [v \in Vars |-> JoinProvenance(a.prov[v], b.prov[v])], valid |-> a.valid \cap b.valid]

\* An assignment; only the value of another variable keeps its validation.
Assign(st, v, prov, valid) ==
  [prov |-> [st.prov EXCEPT ![v] = prov],
   valid |-> IF valid THEN st.valid \cup {v} ELSE st.valid \ {v}]

\* The result of a call whose summary says whether it depends on the argument
\* and whether it is external.
ApplySummaryCall(st, n, s) ==
  Assign(st, n.v, JoinProvenance(IF s.external THEN "UNTRUSTED" ELSE "UNKNOWN",
                                 IF s.param THEN st.prov[n.w] ELSE "UNKNOWN"), FALSE)

Depends == [param |-> TRUE, external |-> FALSE]
External == [param |-> FALSE, external |-> TRUE]

TransferEvent(st, n) ==
  CASE n.op = "source" -> Assign(st, n.v, "UNTRUSTED", FALSE)
    [] n.op = "null" -> Assign(st, n.v, "TRUSTED", FALSE)
    [] n.op = "copy" -> Assign(st, n.v, st.prov[n.w], n.w \in st.valid)
    [] n.op \in {"alloc", "any", "resize"} -> Assign(st, n.v, "UNKNOWN", FALSE)
    [] n.op = "through" -> ApplySummaryCall(st, n, Depends)
    [] n.op = "either" -> Merge(ApplySummaryCall(st, n, Depends), ApplySummaryCall(st, n, External))
    [] OTHER -> st

-----------------------------------------------------------------------------
(* Validators in conditions (_condition_guarantees_success).               *)

\* On which side of a condition the validator it calls has succeeded.
RECURSIVE GuaranteesSuccess(_)
GuaranteesSuccess(c) ==
  CASE c.k = "check" -> [yes |-> TRUE, no |-> FALSE]
    [] c.k = "not" -> LET e == GuaranteesSuccess(c.e) IN [yes |-> e.no, no |-> e.yes]
    [] c.k \in {"and", "or"} ->
         LET l == GuaranteesSuccess(c.l)  r == GuaranteesSuccess(c.r) IN
         IF c.k = "and" THEN [yes |-> l.yes \/ r.yes, no |-> l.no /\ r.no]
                        ELSE [yes |-> l.yes /\ r.yes, no |-> l.no \/ r.no]
    [] OTHER -> [yes |-> FALSE, no |-> FALSE]

\* The arguments of the validator's calls in a condition.
RECURSIVE CheckedIn(_)
CheckedIn(c) ==
  CASE c.k = "check" -> {c.v}
    [] c.k = "not" -> CheckedIn(c.e)
    [] c.k \in {"and", "or"} -> CheckedIn(c.l) \cup CheckedIn(c.r)
    [] OTHER -> {}

IsIfOrLoop(n) == IsCond(G, n) /\ G.nodes[n].ast.k # "switch"

\* The first edge out of a condition counts as its true edge.
ValidatorEdge(n, i, st) ==
  IF ~IsIfOrLoop(n) THEN st
  ELSE LET cond == G.nodes[n].ast.cond  success == GuaranteesSuccess(cond) IN
       IF (IF i = 1 THEN success.yes ELSE success.no)
       THEN [st EXCEPT !.valid = @ \cup CheckedIn(cond)] ELSE st

-----------------------------------------------------------------------------
(* analyze_security_dataflow and query_unvalidated_sink_flows.             *)

\* The facts before the i-th node of a block.
RECURSIVE Within(_, _, _)
Within(chain, st, i) ==
  IF i = 1 THEN st ELSE Within(Tail(chain), TransferEvent(st, G.nodes[Head(chain)]), i - 1)

RECURSIVE SecurityIns(_, _)
SecurityIns(in, queue) ==
  IF queue = <<>> THEN in
  ELSE LET chain == B[Head(queue)]
           out == Within(chain, in[Head(queue)], Len(chain) + 1)
           succs == G.succ[Last(chain)]
           edge == [x \in Range(succs) |->
                      ValidatorEdge(Last(chain), CHOOSE i \in DOMAIN succs : succs[i] = x, out)]
           new == [x \in Range(succs) |-> IF x \in DOMAIN in THEN Merge(in[x], edge[x]) ELSE edge[x]]
           changed == {x \in Range(succs) : IF x \in DOMAIN in THEN new[x] # in[x] ELSE TRUE}
       IN SecurityIns(new @@ in,
            Tail(queue) \o SelectSeq(succs, LAMBDA x : x \in changed /\ ~Contains(Tail(queue), x)))

\* A sink is reported unless its argument is validated or trusted.
Reported ==
  LET in == SecurityIns(G.entry :> NoSecurityFacts, <<G.entry>>)
      factsAt(n) ==
        IF \E b \in DOMAIN in : Contains(B[b], n)
        THEN LET b == CHOOSE x \in DOMAIN in : Contains(B[x], n)
             IN Within(B[b], in[b], CHOOSE i \in DOMAIN B[b] : B[b][i] = n)
        ELSE NoSecurityFacts
  IN {n \in {x \in Nodes(G) : G.nodes[x].op = "sink"} :
        LET f == factsAt(n)  v == G.nodes[n].v IN v \notin f.valid /\ f.prov[v] # "TRUSTED"}

-----------------------------------------------------------------------------
(* What the values of a run are.                                           *)

\* Where the assigned value comes from.
Origins ==
  CASE Executes({"source"}) -> {"external"}
    [] Executes({"copy", "through"}) -> {origin[Executed.w]}
    [] Executes({"either"}) -> {origin[Executed.w], "external"}
    [] OTHER -> {"program"}

\* How a condition may come out, and which values the validator then accepted.
RECURSIVE Accepting(_)
Accepting(c) ==
  CASE c.k = "check" -> {<<TRUE, {c.v}>>, <<FALSE, {}>>}
    [] c.k = "not" -> {<<~r[1], r[2]>> : r \in Accepting(c.e)}
    [] c.k \in {"and", "or"} ->
         UNION {IF r[1] = (c.k = "or") THEN {r} ELSE {<<q[1], r[2] \cup q[2]>> : q \in Accepting(c.r)} :
                  r \in Accepting(c.l)}
    [] OTHER -> {<<TRUE, {}>>, <<FALSE, {}>>}

TestedCondition ==
  LET c == Executed.cond IN IF Executed.k = "if" /\ c.k = "tern" THEN c.c ELSE c

RunAssigns ==
  /\ Executes(Assigning)
  /\ \E from \in Origins : origin' = [origin EXCEPT ![Executed.v] = from]
  /\ accepted' = IF Executed.op = "copy" /\ Executed.w \in accepted
                 THEN accepted \cup {Executed.v} ELSE accepted \ {Executed.v}

RunTests ==
  /\ IsTest(stack)
  /\ \E r \in Accepting(TestedCondition) :
       stack' = WhenTested(stack, r[1]) /\ accepted' = accepted \cup r[2]
  /\ UNCHANGED origin

\* Code that was not parsed may leave data from outside everywhere.
RunUnknown ==
  /\ Part(stack) = "unknown"
  /\ origin' = [v \in Vars |-> "external"] /\ accepted' = {}

RunElse ==
  /\ ~IsTest(stack) /\ ~Executes(Assigning) /\ Part(stack) # "unknown"
  /\ UNCHANGED <<origin, accepted>>

-----------------------------------------------------------------------------

SecurityInit ==
  /\ OwnershipInit
  /\ reported = {}
  /\ origin = [v \in Vars |-> "program"] /\ accepted = {}

SecurityNext ==
  \/ (Analyse \/ End) /\ UNCHANGED security
  \/ Summarize /\ reported' = Reported /\ UNCHANGED <<origin, accepted>>
  \/ Run /\ (RunAssigns \/ RunTests \/ RunUnknown \/ RunElse) /\ UNCHANGED reported

SecuritySpec == SecurityInit /\ [][SecurityNext]_<<vars, ownership, security>>

-----------------------------------------------------------------------------
\* No condition calls the validator for two variables, and the first edge out of
\* each is taken only when it is true.
ConditionsAreSimple ==
  \A n \in {x \in Nodes(G) : IsIfOrLoop(x)} :
    /\ Cardinality(CheckedIn(G.nodes[n].ast.cond)) <= 1
    /\ G.succ[n] # <<>> => G.truth[<<n, G.succ[n][1]>>] = "true"

\* Whenever a run hands external data that the validator has not accepted to the
\* sink, that call is reported: through aliases, overwritten values, callees
\* and function pointers, on every path to it, whatever validators were called.
\* Nothing is claimed behind a goto whose label was not parsed.
SinksAreReported ==
  phase = "run" /\ Executes({"sink"}) /\ ConditionsAreSimple =>
    (origin[Executed.v] = "external" /\ Executed.v \notin accepted =>
       here \ Uncertain(G) \subseteq reported)
=============================================================================
