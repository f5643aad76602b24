------------------------- MODULE ConditionalBranches -------------------------
(***************************************************************************)
(* What the preprocessor package concludes about #if branches: directives  *)
(* become a tree (directives.py), a consumer walks it and asks the diagrams*)
(* about every branch (branch_analysis.py for the rules and the command    *)
(* line, configuration_space.py for witnesses), and generated profiles are *)
(* reduced to those that differ (profile_reduction.py).                    *)
(*                                                                         *)
(* A branch is named by the number of its directive.                       *)
(***************************************************************************)
EXTENDS DecisionDiagrams

CONSTANTS Scenarios,    \* what to run: [source, budget, consumer], with consumer "rules" or "witnesses"
          Sources,      \* sequences of directives [k, c]: "if", "elif", "else", "endif"
          Profiles      \* the generated profiles, in the order of _profile_key: macro -> flag value

NoCondition == [k |-> "malformed"]

VARIABLES scenario,
          pos,          \* the next directive to read
          blocks,       \* the blocks, in order: [parent, branches, closed by #else]
          open,         \* the stack of open blocks
          faults,       \* the directives with a diagnostic
          walk,         \* frames of _analyze_block or _walk_block, innermost first
          asked,        \* the query under way: "none", "satisfiable", "implied"
          rows,         \* what is known of each branch
          retained      \* the profiles that are kept; {} until they are reduced

tree == <<pos, blocks, open, faults>>
machine == <<bdd, todo, vals, budget>>
vars == <<scenario, tree, walk, asked, rows, retained, machine>>

Source == Sources[scenario.source]
Consumer == scenario.consumer

Init ==
  /\ scenario \in Scenarios
  /\ pos = 1 /\ blocks = <<>> /\ open = <<>> /\ faults = {}
  /\ walk = <<>> /\ asked = "none" /\ rows = <<>> /\ retained = {}
  /\ bdd = NewManager /\ todo = <<>> /\ vals = <<>> /\ budget = scenario.budget

-----------------------------------------------------------------------------
(* parse_conditional_directives.                                           *)

Malformed(d) == d.k \in {"if", "elif"} /\ d.c = NoCondition

\* The branch a new block is in: the last one of the innermost open block.
Enclosing == IF open = <<>> THEN 0 ELSE Last(blocks[Head(open)].branches)

ReadDirective ==
  /\ pos <= Len(Source)
  /\ LET d == Source[pos] IN
     /\ CASE d.k = "if" ->
               /\ blocks' = Append(blocks, [parent |-> Enclosing, branches |-> <<pos>>, else |-> FALSE])
               /\ open' = <<Len(blocks) + 1>> \o open
               /\ faults' = faults \cup (IF Malformed(d) THEN {pos} ELSE {})
          [] d.k # "if" /\ open = <<>> ->
               faults' = faults \cup {pos} /\ UNCHANGED <<blocks, open>>
          [] d.k = "endif" /\ open # <<>> ->
               open' = Tail(open) /\ UNCHANGED <<blocks, faults>>
          [] d.k \in {"else", "elif"} /\ open # <<>> ->
               /\ blocks' = [blocks EXCEPT ![Head(open)].branches = Append(@, pos),
                                           ![Head(open)].else = @ \/ d.k = "else"]
               /\ faults' = faults \cup (IF blocks[Head(open)].else \/ Malformed(d) THEN {pos} ELSE {})
               /\ UNCHANGED open
     /\ pos' = pos + 1
  /\ UNCHANGED <<scenario, walk, asked, rows, retained, machine>>

\* Blocks inside a branch, or at the top for branch 0, in order.
Children(b) == SelectSeq([i \in DOMAIN blocks |-> i], LAMBDA i : blocks[i].parent = b)
Diagnosed == faults # {} \/ open # <<>>

FrameOf(block, context) == [block |-> block, i |-> 1, context |-> context, covered |-> Const(FALSE)]
FramesOf(b, context) == LET bs == Children(b) IN [i \in DOMAIN bs |-> FrameOf(bs[i], context)]

StartWalk ==
  /\ pos = Len(Source) + 1
  /\ walk' = FramesOf(0, Const(TRUE))
  /\ pos' = pos + 1
  /\ UNCHANGED <<scenario, blocks, open, faults, asked, rows, retained, machine>>

-----------------------------------------------------------------------------
(* One branch after the other.                                             *)

F == Head(walk)
AtBranch == walk # <<>> /\ asked = "none" /\ F.i <= Len(blocks[F.block].branches)
Branch == blocks[F.block].branches[F.i]
Directive == Source[Branch]

\* Faulty: the earlier branches of the chain do not matter.
RemainingAlone(frame) == frame.context

\* What holds where the branch is tested: its context and no earlier branch.
Remaining(frame) == Conjoined({frame.context, Negated(frame.covered)})

Effective == IF Directive.k = "else" THEN Remaining(F) ELSE Conjoined({Remaining(F), Directive.c})
Covered == IF Directive.k = "else" THEN Const(TRUE) ELSE Disjoined({F.covered, Directive.c})

EndBlock ==
  /\ walk # <<>> /\ asked = "none" /\ F.i > Len(blocks[F.block].branches)
  /\ walk' = Tail(walk)
  /\ UNCHANGED <<scenario, tree, asked, rows, retained, machine>>

RECURSIVE Inside(_)
Inside(b) == LET inner == UNION {Range(blocks[x].branches) : x \in Range(Children(b))}
             IN inner \cup UNION {Inside(x) : x \in inner}

\* After a condition that was not understood nothing is claimed of the rest of
\* the block; witnesses say so for each of its branches.
MalformedBranch ==
  /\ AtBranch /\ Malformed(Directive)
  /\ LET rest == {blocks[F.block].branches[j] : j \in F.i..Len(blocks[F.block].branches)}
         all == IF Consumer = "rules" THEN {Branch}
                ELSE rest \cup UNION {Inside(b) : b \in rest}
     IN rows' = [b \in all |-> [status |-> "unknown"]] @@ rows
  /\ walk' = Tail(walk)
  /\ UNCHANGED <<scenario, tree, asked, retained, machine>>

AskSatisfiable ==
  /\ AtBranch /\ ~Malformed(Directive)
  /\ Ask(<<BuildCall(Effective)>>)
  /\ asked' = "satisfiable"
  /\ UNCHANGED <<scenario, tree, walk, rows, retained, budget>>

ComputeStep == asked # "none" /\ Compute /\ UNCHANGED <<scenario, tree, walk, asked, rows, retained>>

\* The branch is done; the blocks inside it come next if it is entered.
Leave(row, entered) ==
  /\ rows' = (Branch :> row) @@ rows
  /\ walk' = (IF entered THEN FramesOf(Branch, Effective) ELSE <<>>)
               \o <<[F EXCEPT !.i = @ + 1, !.covered = Covered]>> \o Tail(walk)
  /\ asked' = "none"

Answered == todo = <<>>

\* Faulty: a query that was given up counts as not satisfiable.
NotFalseStrictly == ~bdd.failed /\ Head(vals) # 0

\* satisfiable: no answer means that it may be.
NotFalse == bdd.failed \/ Head(vals) # 0

\* _analyze_block asks again when a condition is reachable.
RulesAnswer ==
  /\ Consumer = "rules" /\ asked = "satisfiable" /\ Answered
  /\ IF Directive.k = "else" \/ ~NotFalse
     THEN /\ Leave([status |-> IF NotFalse THEN "reachable" ELSE "unreachable"], NotFalse)
          /\ UNCHANGED machine
     ELSE /\ Ask(<<BuildCall(Remaining(F)), BuildCall(Directive.c), NegateCall(<<>>), ApplyCall("and", <<>>)>>)
          /\ asked' = "implied"
          /\ UNCHANGED <<walk, rows, budget>>
  /\ UNCHANGED <<scenario, tree, retained>>

\* Faulty: nothing was found against it.
ImpliedUnlessShown == bdd.failed \/ Head(vals) = 0

\* implies: no answer means that it is not proved.
Implied == ~bdd.failed /\ Head(vals) = 0

ImpliedAnswer ==
  /\ asked = "implied" /\ Answered
  /\ Leave([status |-> IF Implied THEN "redundant" ELSE "reachable"], TRUE)
  /\ UNCHANGED <<scenario, tree, retained, machine>>

\* _solve: a witness costs one unit of work for each node on its path.
WitnessAnswer ==
  /\ Consumer = "witnesses" /\ asked = "satisfiable" /\ Answered
  /\ LET cost == Len(Path(bdd.nodes, Head(vals)))
         row == CASE bdd.failed \/ (Head(vals) # 0 /\ bdd.work + cost > budget) -> [status |-> "limit"]
                  [] ~bdd.failed /\ Head(vals) = 0 -> [status |-> "unreachable"]
                  [] OTHER -> [status |-> "reachable", on |-> Witness(bdd.nodes, Head(vals)),
                               nodes |-> bdd.nodes, root |-> Head(vals)]
     IN Leave(row, TRUE)
  /\ UNCHANGED <<scenario, tree, retained, machine>>

-----------------------------------------------------------------------------
(* reduce_generated_profiles.                                              *)

\* Macros of a condition: [t |-> "defined" | "variable" | "predicate", m].
AtomValue(atom, flags) ==
  CASE atom.t = "predicate" -> {TRUE, FALSE}
    [] atom.t = "defined" -> {flags[atom.m] \notin {"absent", "false"}}
    [] atom.t = "variable" -> CASE flags[atom.m] \in {"absent", "false", "zero"} -> {FALSE}
                                [] flags[atom.m] \in {"none", "true", "one"} -> {TRUE}
                                [] OTHER -> {TRUE, FALSE}

\* Faulty: what is not known counts as off.
PossibleClosed(nodes, n, flags) ==
  Means(nodes, n, {a \in Range(Order) : AtomValue(a, flags) = {TRUE}})

\* _branch_possible: unknown atoms follow either edge.
RECURSIVE Possible(_, _, _)
Possible(nodes, n, flags) ==
  IF n < 2 THEN n = 1
  ELSE LET node == nodes[n - 1] IN
       \E b \in AtomValue(Order[node.var], flags) :
         Possible(nodes, IF b THEN node.high ELSE node.low, flags)

Walked == pos > Len(Source) + 1 /\ walk = <<>>
Modeled == {b \in DOMAIN rows : rows[b].status = "reachable"}
Signature(p) == {b \in Modeled : Possible(rows[b].nodes, rows[b].root, Profiles[p])}

\* The first of every class stays.
FirstOf(class(_)) == {p \in DOMAIN Profiles : ~\E q \in 1..(p - 1) : class(q) = class(p)}
Flags(p) == Profiles[p]

Unsafe == Diagnosed \/ Modeled = {} \/ \E b \in DOMAIN rows : rows[b].status \in {"unknown", "limit"}

Reduce ==
  /\ Consumer = "witnesses" /\ Walked /\ retained = {}
  /\ retained' = IF Unsafe THEN FirstOf(Flags) ELSE FirstOf(Signature)
  /\ UNCHANGED <<scenario, tree, walk, asked, rows, machine>>

Finished == Walked /\ (Consumer = "rules" \/ retained # {})
Rest == Finished /\ UNCHANGED vars

Next == ReadDirective \/ StartWalk \/ EndBlock \/ MalformedBranch \/ AskSatisfiable \/ ComputeStep
          \/ RulesAnswer \/ ImpliedAnswer \/ WitnessAnswer \/ Reduce \/ Rest

Spec == Init /\ [][Next]_vars

-----------------------------------------------------------------------------
(* The reference: the branches a C preprocessor enters, reading a source   *)
(* without faults from top to bottom with the atoms `on` true.             *)

RECURSIVE Entered(_, _, _, _)
Entered(source, i, on, stack) ==
  IF i > Len(source) THEN {}
  ELSE LET d == source[i]
           top == Head(stack)
           test == d.c = NoCondition \/ Holds(d.c, on)
           outer == stack = <<>> \/ top.active
           taken == IF d.k = "if" THEN outer /\ test
                    ELSE top.outer /\ ~top.done /\ (d.k = "else" \/ test)
           frame == IF d.k = "if" THEN [outer |-> outer, active |-> taken, done |-> taken]
                    ELSE [top EXCEPT !.active = taken, !.done = @ \/ taken]
       IN IF d.k = "endif" THEN Entered(source, i + 1, on, Tail(stack))
          ELSE (IF taken THEN {i} ELSE {})
                 \cup Entered(source, i + 1, on, <<frame>> \o (IF d.k = "if" THEN stack ELSE Tail(stack)))

Active == [s \in DOMAIN Sources |-> [on \in SUBSET Range(Order) |-> Entered(Sources[s], 1, on, <<>>)]]

Sound == Finished /\ ~Diagnosed
ActiveWith(on) == Active[scenario.source][on]

\* What atoms may be true together under a profile.
Consistent(p, on) == \A a \in Range(Order) : (a \in on) \in AtomValue(a, Profiles[p])

-----------------------------------------------------------------------------
\* A branch that is called unreachable is entered under no configuration, and
\* one whose condition is called redundant is entered whenever it is tested.
VerdictsHold ==
  Sound => \A b \in DOMAIN rows : \A on \in SUBSET Range(Order) :
    /\ rows[b].status = "unreachable" => b \notin ActiveWith(on)
    /\ rows[b].status = "redundant" => Holds(Source[b].c, on) \/ b \notin
         Entered([Source EXCEPT ![b].c = Const(TRUE)], 1, on, <<>>)

\* Every branch that some configuration enters is reported, unless a condition
\* is malformed.
LiveBranchesAreReported ==
  Sound => \A on \in SUBSET Range(Order) : ActiveWith(on) \subseteq DOMAIN rows

\* The configuration given as a witness enters its branch.
WitnessesWork ==
  Sound /\ Consumer = "witnesses" =>
    \A b \in DOMAIN rows : rows[b].status = "reachable" => b \in ActiveWith(rows[b].on)

\* Every branch that a generated profile may enter may be entered under one of
\* the profiles that are kept.  Where the source is at fault C says nothing of its
\* branches, and every profile is kept but for repetitions.
NoVariantIsLost ==
  Finished /\ Consumer = "witnesses" =>
    \A p \in DOMAIN Profiles : \E q \in retained :
      IF Diagnosed THEN Flags(p) = Flags(q)
      ELSE UNION {ActiveWith(on) : on \in {x \in SUBSET Range(Order) : Consistent(p, x)}}
             = UNION {ActiveWith(on) : on \in {x \in SUBSET Range(Order) : Consistent(q, x)}}
=============================================================================
