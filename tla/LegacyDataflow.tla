--------------------------- MODULE LegacyDataflow ---------------------------
(***************************************************************************)
(* LegacyDataflowMixin.analyze_dataflow: nullness, initialization and      *)
(* allocation of pointers over the blocks of a ControlFlow graph, to a     *)
(* fixed point with a worklist; then runs of the analysed function, each   *)
(* step beside the nodes of the graph that stand for it.                   *)
(***************************************************************************)
EXTENDS CExecution

CONSTANT Functions        \* the functions to choose from, in a sequence: a body, whether summaries
                          \* of its callees are known, and which of the variables are parameters

-----------------------------------------------------------------------------
(* The lattices of domains.py.                                             *)

MeetNullness(a, b) ==
  CASE a = "UNKNOWN" -> b
    [] b = "UNKNOWN" -> a
    [] a = b -> a
    [] OTHER -> "MAYBE_NULL"

MeetInitialization(a, b) == IF a = b THEN a ELSE "MAYBE_INITIALIZED"

MeetAllocation(a, b) ==
  CASE a = b -> a
    [] a # b /\ {a, b} \cap {"MAYBE_FREED", "FREED"} # {} -> "MAYBE_FREED"
    [] OTHER -> "MAYBE_ALLOCATED"

-----------------------------------------------------------------------------
(* What each operation does (_event_payload).                              *)

Assigning == {"null", "alloc", "any", "copy", "resize", "source", "through", "either"}
Writes(n) == IF n.op \in Assigning THEN {n.v} ELSE {}
NullWrites(n) == IF n.op = "null" THEN {n.v} ELSE {}
Allocated(n) == IF n.op \in {"alloc", "resize"} THEN {n.v} ELSE {}
\* "perhaps" calls a function that frees its argument on some paths, which the
\* summary counts as freed.
Freed(n) == IF n.op \in {"free", "perhaps"} THEN {n.v} ELSE {}
Proven(n) == IF n.op \in {"use", "assert", "store", "part"} THEN {n.v} ELSE {}
IsAlias(n) == n.op = "copy"
IsRealloc(n) == n.op = "resize"

-----------------------------------------------------------------------------
(* The transfer of one node.  A state has the nullness and initialization  *)
(* of each variable, the locations it may point to, and the allocation     *)
(* state of each location; a location without a state is NOT_ALLOCATED.    *)

Loc(t, n, v) == [t |-> t, n |-> n, v |-> v]
StateOf(st, loc) == IF loc \in DOMAIN st.loc THEN st.loc[loc] ELSE "NOT_ALLOCATED"

Entry(params) ==
  [null |-> [v \in Vars |-> "UNKNOWN"],
   init |-> [v \in Vars |-> IF v \in params THEN "INITIALIZED" ELSE "UNINITIALIZED"],
   map |-> [v \in Vars |-> {Loc("var", 0, v)}],
   loc |-> [l \in {Loc("var", 0, v) : v \in Vars} |-> "NOT_ALLOCATED"]]

\* Faulty: an allocation site has one location whatever became of the last.
AllocLocOne(st, n, v) == Loc("alloc", n, v)

\* The location of an allocation: a second one when the first was freed, or
\* when another variable may point to it.
AllocLoc(st, n, v) ==
  LET base == Loc("alloc", n, v) IN
  IF \/ StateOf(st, base) \in {"FREED", "MAYBE_FREED"}
     \/ \E w \in Vars \ {v} : base \in st.map[w]
  THEN Loc("fresh", n, v) ELSE base

Overwrite(f, locs, state) == [l \in locs |-> state] @@ f

\* The input of a realloc may be freed by it.
AfterReallocInput(st, n) ==
  IF ~IsRealloc(n) THEN st
  ELSE [st EXCEPT !.loc = [l \in st.map[n.w] |-> MeetAllocation(StateOf(st, l), "MAYBE_FREED")] @@ @]

AfterAllocation(st, id, n) ==
  IF Allocated(n) = {} THEN st
  ELSE LET l == AllocLoc(st, id, n.v) IN
       [st EXCEPT !.loc = Overwrite(@, {l}, "ALLOCATED"), !.map[n.v] = {l},
                  !.null[n.v] = "MAYBE_NULL", !.init[n.v] = "INITIALIZED"]

AfterFree(st, n) ==
  IF Freed(n) = {} THEN st ELSE [st EXCEPT !.loc = Overwrite(@, st.map[n.v], "FREED")]

AfterWrite(st, id, n) ==
  IF Writes(n) = {} \/ Allocated(n) # {} THEN st
  ELSE IF IsAlias(n)
  THEN [st EXCEPT !.init[n.v] = "INITIALIZED", !.map[n.v] = st.map[n.w], !.null[n.v] = st.null[n.w]]
  ELSE LET l == Loc("write", id, n.v) IN
       [st EXCEPT !.init[n.v] = "INITIALIZED", !.map[n.v] = {l},
                  !.loc = Overwrite(@, {l}, "NOT_ALLOCATED"),
                  !.null[n.v] = IF n.v \in NullWrites(n) THEN "NULL" ELSE "UNKNOWN"]

AfterProof(st, n) ==
  [st EXCEPT !.null = [v \in Vars |-> IF v \in Proven(n) THEN "NON_NULL" ELSE @[v]]]

Transfer(st, id, n) ==
  AfterProof(AfterWrite(AfterFree(AfterAllocation(AfterReallocInput(st, n), id, n), n), id, n), n)

\* The state before the i-th node of a block, from the state at its start.
RECURSIVE Along(_, _, _, _)
Along(g, chain, st, i) ==
  IF i = 1 THEN st
  ELSE LET before == Along(g, chain, st, i - 1)
       IN Transfer(before, chain[i - 1], g.nodes[chain[i - 1]])

AllocationOf(st, v) ==
  LET states == {StateOf(st, l) : l \in st.map[v]}
  IN FoldSet(MeetAllocation, CHOOSE s \in states : TRUE, states)

-----------------------------------------------------------------------------
(* What a reallocation leaves behind for the edges after it.               *)

\* The blocks that are only reached through block b.
RECURSIVE OnlyThrough(_, _, _)
OnlyThrough(g, blocks, reached) ==
  LET next == {n \in DOMAIN blocks \ reached :
                 \E m \in reached : /\ n \in Successors(g, Last(blocks[m]))
                                    /\ Cardinality(Predecessors(g, n)) = 1}
  IN IF next = {} THEN reached ELSE OnlyThrough(g, blocks, reached \cup next)

Record(g, blocks, b, st, id, n) ==
  [id |-> AllocLoc(st, id, n.v), target |-> n.v, valid |-> OnlyThrough(g, blocks, {b}),
   pre |-> [l \in st.map[n.w] |-> StateOf(st, l)]]

\* A record takes the place of the earlier one of its location.
Keep(recs, r) ==
  IF \E i \in DOMAIN recs : recs[i].id = r.id
  THEN [i \in DOMAIN recs |-> IF recs[i].id = r.id THEN r ELSE recs[i]]
  ELSE Append(recs, r)

\* On an edge that tells success from failure the input is freed, or is what
\* it was before.
Settled(loc, r, b, st, null) ==
  IF \/ b \notin r.valid \/ r.id \notin st.map[r.target]
     \/ st.null[r.target] \notin {"MAYBE_NULL", "UNKNOWN"}
  THEN loc
  ELSE CASE null[r.target] = "NON_NULL" ->
              (r.id :> "ALLOCATED")
                @@ [l \in {x \in DOMAIN r.pre : r.pre[x] \in {"ALLOCATED", "MAYBE_ALLOCATED", "MAYBE_FREED"}}
                      |-> "FREED"] @@ loc
         [] null[r.target] = "NULL" -> (r.id :> "NOT_ALLOCATED") @@ r.pre @@ loc
         [] OTHER -> loc

-----------------------------------------------------------------------------
(* Along the edges, to the next blocks.                                    *)

OnEdge(g, recs, b, last, succ, st) ==
  LET f == g.facts[<<last, succ>>]
      null == [v \in Vars |-> CASE v \in f.null -> "NULL"
                                [] v \in f.nn \ f.null -> "NON_NULL"
                                [] OTHER -> st.null[v]]
  IN [st EXCEPT !.null = null,
                !.loc = FoldLeft(LAMBDA loc, r : Settled(loc, r, b, st, null), st.loc, recs)]

Join(old, st) ==
  [null |-> [v \in Vars |-> MeetNullness(old.null[v], st.null[v])],
   init |-> [v \in Vars |-> MeetInitialization(old.init[v], st.init[v])],
   map |-> [v \in Vars |-> old.map[v] \cup st.map[v]],
   loc |-> [l \in DOMAIN old.loc \cup DOMAIN st.loc |->
              IF l \in DOMAIN old.loc THEN MeetAllocation(old.loc[l], StateOf(st, l))
                                      ELSE st.loc[l]]]

\* What the analysis takes of a function.
Graphed(f) ==
  LET g == IF f.summaries THEN RefreshedFacts(BuildCfg(f.body)) ELSE BuildCfg(f.body)
  IN [body |-> f.body, params |-> f.params, g |-> g, blocks |-> Blocks(g)]

VARIABLES fn,      \* the function, with its graph and blocks
          phase,   \* "analyse", "run", "over"
          ins,     \* the state at the start of each block reached so far
          recs,    \* realloc_records
          work,    \* the worklist
          block,   \* the block taken from it, 0 for none
          cur,     \* the state in that block,
          pos,     \* before its pos-th node
          stack,   \* the run: what remains to be executed,
          mem,     \* its memory,
          here     \* and the nodes of the graph that stand for its next step

progress == <<block, cur, pos>>
run == <<stack, mem, here>>
vars == <<fn, phase, ins, recs, work, progress, run>>
G == fn.g
B == fn.blocks
Body == fn.body
Params == fn.params

Init ==
  /\ \E i \in DOMAIN Functions : fn = Graphed(Functions[i])
  /\ phase = "analyse"
  /\ ins = (G.entry :> Entry(Params)) /\ recs = <<>> /\ work = <<G.entry>>
  /\ block = 0 /\ cur = Entry(Params) /\ pos = 1
  /\ stack = Start(Body) /\ mem = Called(Params) /\ here = {G.entry}

TakeBlock ==
  /\ phase = "analyse" /\ block = 0 /\ work # <<>>
  /\ block' = Head(work) /\ work' = Tail(work)
  /\ cur' = ins[Head(work)] /\ pos' = 1
  /\ UNCHANGED <<fn, phase, ins, recs, run>>

ProcessNode ==
  /\ block # 0 /\ pos <= Len(B[block])
  /\ LET id == B[block][pos]  n == G.nodes[id] IN
       /\ recs' = IF IsRealloc(n) THEN Keep(recs, Record(G, B, block, cur, id, n)) ELSE recs
       /\ cur' = Transfer(cur, id, n)
  /\ pos' = pos + 1
  /\ UNCHANGED <<fn, phase, ins, work, block, run>>

\* The successors of a finished block are joined with what comes out of it,
\* and queued when that changed them.
FlowOut ==
  /\ block # 0 /\ pos > Len(B[block])
  /\ LET last == Last(B[block])
         succs == G.succ[last]
         flow == [x \in Range(succs) |-> OnEdge(G, recs, block, last, x, cur)]
         in == [x \in Range(succs) |-> IF x \in DOMAIN ins THEN Join(ins[x], flow[x]) ELSE flow[x]]
         changed(x) == IF x \in DOMAIN ins THEN in[x] # ins[x] ELSE TRUE
     IN /\ ins' = in @@ ins
        /\ work' = work \o SelectSeq(succs, LAMBDA x : changed(x) /\ ~Contains(work, x))
  /\ block' = 0
  /\ UNCHANGED <<fn, phase, recs, cur, pos, run>>

Analysed ==
  /\ phase = "analyse" /\ block = 0 /\ work = <<>>
  /\ phase' = "run"
  /\ UNCHANGED <<fn, ins, recs, work, progress, run>>

-----------------------------------------------------------------------------
(* Runs of the function.                                                   *)

\* Where the next step of the run may lead: what remains, memory, and the
\* truth of the test it made.
Outcomes ==
  IF stack = <<>> THEN {}
  ELSE IF IsTest(stack)
  THEN {[k |-> WhenTested(stack, r[1]), mem |-> r[2], truth |-> IF r[1] THEN "true" ELSE "false"] :
          r \in Test(mem, IF Stmt(stack).k = "if" /\ Stmt(stack).cond.k = "tern"
                          THEN Stmt(stack).cond.c ELSE Stmt(stack).cond)}
  ELSE {[k |-> next, mem |-> m, truth |-> "none"] :
          next \in Onwards(stack, Body),
          m \in CASE Part(stack) = "do" -> Effect(mem, Stmt(stack).op, Stmt(stack).v, Stmt(stack).w)
                  [] Part(stack) = "unknown" -> AnyMem
                  [] OTHER -> {mem}}

Step ==
  /\ phase = "run"
  /\ \E r \in Outcomes :
       /\ stack' = r.k /\ mem' = r.mem
       /\ here' = Follow(G, here, r.k, r.truth)
  /\ UNCHANGED <<fn, phase, ins, recs, work, progress>>

\* The function returns, or does what C gives no meaning to.
Stop ==
  /\ phase = "run" /\ Outcomes = {}
  /\ phase' = "over"
  /\ UNCHANGED <<fn, ins, recs, work, progress, run>>

Over == phase = "over" /\ UNCHANGED vars

Next == TakeBlock \/ ProcessNode \/ FlowOut \/ Analysed \/ Step \/ Stop \/ Over

Spec == Init /\ [][Next]_vars
-----------------------------------------------------------------------------
(* What the analysis says of a node (_compute_node_level_facts and         *)
(* _degrade_unknown_control_flow_facts).                                   *)

RECURSIVE Onward(_, _)
Onward(g, reached) ==
  LET next == UNION {Successors(g, n) : n \in reached} \ reached
  IN IF next = {} THEN reached ELSE Onward(g, reached \cup next)

\* Nodes behind an unresolved goto, of which nothing is claimed.
Uncertain(g) == Onward(g, {n \in Nodes(g) : g.nodes[n].part = "unknown"})

StateAt(n) ==
  LET b == CHOOSE x \in DOMAIN B : Contains(B[x], n)
      i == CHOOSE j \in DOMAIN B[b] : B[b][j] = n
  IN Along(G, B[b], ins[b], i)

Facts(n) ==
  IF n \in Uncertain(G)
  THEN [v \in Vars |-> [null |-> "MAYBE_NULL", init |-> "MAYBE_INITIALIZED", alloc |-> "MAYBE_FREED"]]
  ELSE LET st == StateAt(n)
       IN [v \in Vars |-> [null |-> st.null[v], init |-> st.init[v], alloc |-> AllocationOf(st, v)]]

Claims(P(_, _)) ==
  phase = "run" => \A n \in here : LET f == Facts(n) IN \A v \in Vars : P(f[v], v)

-----------------------------------------------------------------------------
\* Every step of every run is an edge of the graph to a node that stands for
\* the next statement, through breaks, fall-through, gotos and split
\* conditions, and on the side of a condition the edge is labelled with.
RunsFollowTheGraph == phase = "run" /\ stack # <<>> => here # {}

\* A variable the analysis calls initialized is, on every run, and one it
\* calls uninitialized is not.
InitializationHolds ==
  Claims(LAMBDA f, v : /\ f.init = "INITIALIZED" => mem.val[v] # Undefined
                       /\ f.init = "UNINITIALIZED" => mem.val[v] = Undefined)

\* A pointer that is null because an allocation failed or null was assigned
\* is known to be null, or to be maybe null.
NullsAreSeen ==
  Claims(LAMBDA f, v : mem.val[v] = Null => f.null \in {"NULL", "MAYBE_NULL"})

\* Both: what the analysis says of the value of a pointer.
ValuesAreKnown == InitializationHolds /\ NullsAreSeen

\* A pointer to an object that has been freed, through whatever name and on
\* whatever path, is known to be freed, or to be maybe freed.
DanglingIsSeen ==
  Claims(LAMBDA f, v : Holds(mem, v, {"dead"}) => f.alloc \in {"FREED", "MAYBE_FREED"})
=============================================================================
