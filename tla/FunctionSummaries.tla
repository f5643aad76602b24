-------------------------- MODULE FunctionSummaries --------------------------
(***************************************************************************)
(* What summaries.py reports of a function to the analyses of its callers  *)
(* (_analyze_one_function): the parameters it dereferences before it knows *)
(* that they are not null, whether its result may be null, and which       *)
(* parameters are not null when its result is true.                        *)
(***************************************************************************)
EXTENDS LegacyDataflow

\* Nodes the dataflow has not reached say nothing of the variables.
FactAt(id, v) ==
  IF \E b \in DOMAIN ins : Contains(B[b], id) THEN Facts(id)[v]
  ELSE [null |-> "UNKNOWN", init |-> "UNINITIALIZED", alloc |-> "NOT_ALLOCATED"]

LocationsAt(id, v) == IF \E b \in DOMAIN ins : Contains(B[b], id) THEN StateAt(id).map[v] ELSE {}

Derefs(n) == IF n.op \in {"use", "store", "part"} THEN {n.v} ELSE {}

\* A dereference counts for each parameter whose incoming location the variable
\* may hold.
UnsafeDerefs ==
  {p \in Params : \E id \in Nodes(G) : \E v \in Derefs(G.nodes[id]) :
     Loc("var", 0, p) \in LocationsAt(id, v) /\ FactAt(id, v).null # "NON_NULL"}

Returns == {id \in Nodes(G) : G.nodes[id].part = "return"}
Returning == {id \in Returns : "v" \in DOMAIN G.nodes[id].ast}

\* The nullness of the value a return statement names; a local that holds an
\* allocation may be null.
ReturnedNullness(id) ==
  IF id \notin Returning THEN "UNKNOWN"
  ELSE LET v == G.nodes[id].ast.v  f == FactAt(id, v) IN
       IF v \notin Params /\ f.null = "UNKNOWN" /\ f.alloc \in {"ALLOCATED", "MAYBE_ALLOCATED"}
       THEN "MAYBE_NULL" ELSE f.null

ResultNullness ==
  FoldSet(MeetNullness, "UNKNOWN", {ReturnedNullness(id) : id \in Returns})

\* A return without a value is a false one.
TruthyProves ==
  {p \in Params : Returning # {} /\ \A id \in Returning : FactAt(id, p).null = "NON_NULL"}

\* The same, as what a caller has to reckon with.
CallerReckons ==
  ({"dereferenced"} \X UnsafeDerefs) \cup ({"unproven"} \X (Params \ TruthyProves))
    \cup (IF ResultNullness \in {"NULL", "MAYBE_NULL"} THEN {<<"null", "result">>} ELSE {})

-----------------------------------------------------------------------------
\* Nowhere does what is known of a variable's nullness on one path meet nothing
\* known on another: the join takes the first for both.
NoDoubtIsLost ==
  \A b \in DOMAIN ins : \A v \in Vars :
    LET known(a) == OnEdge(G, recs, a, Last(B[a]), b, Along(G, B[a], ins[a], Len(B[a]) + 1)).null[v] # "UNKNOWN"
        from == {a \in DOMAIN ins : Contains(G.succ[Last(B[a])], b)}
    IN \A a, c \in from : known(a) = known(c)
=============================================================================
