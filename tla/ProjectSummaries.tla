-------------------------- MODULE ProjectSummaries --------------------------
(***************************************************************************)
(* ProjectSummaryIndex.build: the summaries translation units import from  *)
(* each other, computed bottom-up over the components of the units' import *)
(* graph with a bound on the rounds, and prepare_project's cleanup when an *)
(* analysis raises.                                                        *)
(*                                                                         *)
(* A unit's summary is a function of the unit (its body) and of what it    *)
(* imports; one domain stands for the four, one exported function for each *)
(* unit.  The session of a unit caches its summary until its imports       *)
(* change.                                                                 *)
(***************************************************************************)
EXTENDS Integers, FiniteSets, CallGraph

CONSTANTS Paths,            \* the translation units of one group
          Bodies,
          Summaries,
          Exportable(_),    \* may this summary be used outside its unit
          Analyse(_, _),    \* the summary of a body under its imports
          Fails,            \* what Analyse gives when the analysis raises
          MaxRounds         \* max_rounds

None == "none"
Imported(S) == [S -> Summaries \cup {None}]

ASSUME MaxRoundsAssumption == MaxRounds \in Nat \ {0}
ASSUME AnalyseAssumption ==
  /\ None \notin Summaries /\ Fails \notin Summaries
  /\ \A b \in Bodies : \A S \in SUBSET Paths : \A imp \in Imported(S) :
       Analyse(b, imp) \in Summaries \cup {Fails}

VARIABLES
  calls, body,  \* the bindings between units, and the units
  status,       \* "building", "built" or "failed"
  done,         \* units of finished components
  current,      \* the component being evaluated, or {}
  rounds,       \* the rounds made for it
  snapshot,     \* the outputs this round imports from
  updates,      \* what it has computed
  outputs,      \* the published summary of each unit, or None
  imports,      \* ctx.project_summaries of each unit
  cached        \* the summary each unit's session holds, or None

program == <<calls, body>>
units == <<outputs, imports, cached>>
vars == <<program, status, done, current, rounds, snapshot, updates, units>>

Nothing == [p \in {} |-> None]
NoImports(p) == [q \in calls[p] |-> None]

\* The bindings of a unit never name the unit itself.  No import is the same
\* as imports that provide nothing: every lookup in either gives None.
Init ==
  /\ calls \in {c \in [Paths -> SUBSET Paths] : \A p \in Paths : p \notin c[p]}
  /\ body \in [Paths -> Bodies]
  /\ status = "building" /\ done = {} /\ current = {} /\ rounds = 0
  /\ outputs = [p \in Paths |-> None] /\ snapshot = outputs /\ updates = Nothing
  /\ imports = [p \in Paths |-> NoImports(p)]
  /\ cached = [p \in Paths |-> None]

-----------------------------------------------------------------------------

IsRecursive(C) == \E p, q \in C : p # q

\* An isolated unit is left to its ordinary analysis.
Needed(C) ==
  \/ \E p \in C : calls[p] # {}
  \/ \E p \in Paths : calls[p] \cap C # {}

IsNext(C) == C \cap done = {} /\ CalleesOutside(calls, C) \subseteq done

Skip ==
  /\ status = "building" /\ current = {}
  /\ \E p \in Paths : LET C == Component(calls, p) IN
       IsNext(C) /\ ~Needed(C) /\ done' = done \cup C
  /\ UNCHANGED <<program, status, current, rounds, snapshot, updates, units>>

StartComponent ==
  /\ status = "building" /\ current = {}
  /\ \E p \in Paths : LET C == Component(calls, p) IN
       IsNext(C) /\ Needed(C) /\ current' = C
  /\ rounds' = 1 /\ snapshot' = outputs /\ updates' = Nothing
  /\ UNCHANGED <<program, status, done, units>>

Imports(p, from) ==
  [q \in calls[p] |-> IF from[q] # None /\ Exportable(from[q]) THEN from[q] ELSE None]

\* Faulty: keeps the caches of a session whose imports have changed.
KeepCache(p, new) == cached[p]

\* What the unit's session still holds once these imports are in place.
CacheFor(p, new) == IF imports[p] = new THEN cached[p] ELSE None

SummaryOf(p, new) == IF CacheFor(p, new) # None THEN CacheFor(p, new) ELSE Analyse(body[p], new)

IsTurnOf(p) == status = "building" /\ p \in current \ DOMAIN updates

Evaluate(p) ==
  LET new == Imports(p, snapshot)
      summary == SummaryOf(p, new)
  IN  /\ IsTurnOf(p) /\ summary # Fails
      /\ imports' = [imports EXCEPT ![p] = new]
      /\ cached' = [cached EXCEPT ![p] = summary]
      /\ updates' = [q \in DOMAIN updates \cup {p} |-> IF q = p THEN summary ELSE updates[q]]
      /\ UNCHANGED <<program, status, done, current, rounds, snapshot, outputs>>

Raise(p) ==
  /\ IsTurnOf(p) /\ SummaryOf(p, Imports(p, snapshot)) = Fails
  /\ status' = "failed"
  /\ imports' = [q \in Paths |-> NoImports(q)]
  /\ cached' = [q \in Paths |-> None]
  /\ UNCHANGED <<program, done, current, rounds, snapshot, updates, outputs>>

RoundOver == status = "building" /\ current # {} /\ DOMAIN updates = current
Unchanged == \A p \in current : updates[p] = snapshot[p]

\* Faulty: takes the last permitted round for a fixed point.
ConvergedOrSpent == ~IsRecursive(current) \/ Unchanged \/ rounds = MaxRounds

Converged == ~IsRecursive(current) \/ Unchanged

RoundsLeft == rounds < MaxRounds

Updated == [p \in Paths |-> IF p \in current THEN updates[p] ELSE outputs[p]]

NextRound ==
  /\ RoundOver /\ ~Converged /\ RoundsLeft
  /\ outputs' = Updated /\ snapshot' = Updated
  /\ rounds' = rounds + 1 /\ updates' = Nothing
  /\ UNCHANGED <<program, status, done, current, imports, cached>>

CloseComponent ==
  /\ done' = done \cup current /\ current' = {}
  /\ rounds' = 0 /\ updates' = Nothing

Converge ==
  /\ RoundOver /\ Converged
  /\ outputs' = Updated
  /\ CloseComponent
  /\ UNCHANGED <<program, status, snapshot, imports, cached>>

\* Faulty: withdraws the exports and leaves what the units imported.
DiscardExports ==
  /\ RoundOver /\ ~Converged /\ ~RoundsLeft
  /\ outputs' = [p \in Paths |-> IF p \in current THEN None ELSE outputs[p]]
  /\ CloseComponent
  /\ UNCHANGED <<program, status, snapshot, imports, cached>>

Discard ==
  /\ RoundOver /\ ~Converged /\ ~RoundsLeft
  /\ outputs' = [p \in Paths |-> IF p \in current THEN None ELSE outputs[p]]
  /\ imports' = [p \in Paths |-> IF p \in current THEN NoImports(p) ELSE imports[p]]
  /\ cached' = [p \in Paths |-> IF p \in current THEN None ELSE cached[p]]
  /\ CloseComponent
  /\ UNCHANGED <<program, status, snapshot>>

Return ==
  /\ status = "building" /\ done = Paths
  /\ status' = "built"
  /\ UNCHANGED <<program, done, current, rounds, snapshot, updates, units>>

Terminated == status # "building" /\ UNCHANGED vars

Next == \/ Skip \/ StartComponent
        \/ \E p \in Paths : Evaluate(p) \/ Raise(p)
        \/ NextRound \/ Converge \/ Discard
        \/ Return \/ Terminated

Spec == Init /\ [][Next]_vars

-----------------------------------------------------------------------------
(* Properties.                                                             *)

\* Every variable stays in its range.
TypeOK ==
  /\ calls \in [Paths -> SUBSET Paths] /\ body \in [Paths -> Bodies]
  /\ \A p \in Paths : p \notin calls[p]
  /\ status \in {"building", "built", "failed"}
  /\ done \subseteq Paths /\ current \subseteq Paths \ done
  /\ rounds \in 0..MaxRounds
  /\ outputs \in [Paths -> Summaries \cup {None}] /\ snapshot \in [Paths -> Summaries \cup {None}]
  /\ cached \in [Paths -> Summaries \cup {None}]
  /\ DOMAIN updates \subseteq current
  /\ \A p \in DOMAIN updates : updates[p] \in Summaries
  /\ DOMAIN imports = Paths /\ \A p \in Paths : imports[p] \in Imported(calls[p])

\* What a finished unit imports is what the other units publish in the end,
\* and what it publishes follows from that: nothing rests on a summary of an
\* earlier round, on one withdrawn since, or on one that may not leave its
\* unit.
Consistent ==
  status # "failed" =>
    \A p \in done : outputs[p] # None =>
      /\ imports[p] = Imports(p, outputs)
      /\ outputs[p] = Analyse(body[p], imports[p])

\* Only a unit that is being evaluated, or whose component converged, has
\* imports: neither a component out of rounds nor a failed build leaves a
\* partial safety proof attached to a unit.
NothingPartial ==
  \A p \in Paths :
    imports[p] # NoImports(p) =>
      /\ status # "failed"
      /\ p \in current \/ (p \in done /\ outputs[p] # None)

\* The summary a session holds is the one its unit's imports lead to: the
\* rules that read it later never see one derived from replaced imports.
CacheIsFresh ==
  \A p \in Paths : cached[p] # None => cached[p] = Analyse(body[p], imports[p])
=============================================================================
