--------------------------- MODULE UnitPreparation ---------------------------
(***************************************************************************)
(* prepare_units with several workers: every source is expanded and parsed *)
(* for every profile, in worker processes, by a coordinator that hands out *)
(* sources lazily, keeps at most one outstanding per worker, and prepares  *)
(* a source itself when the pool refuses it or loses it.                   *)
(*                                                                         *)
(* A source starts with the units an earlier phase of the scan left: none, *)
(* one with another preparation key ("stale"), one expanded but not yet    *)
(* parsed, or a complete one.                                              *)
(***************************************************************************)
EXTENDS Integers, FiniteSets

CONSTANTS NPaths,         \* number of sources; sorted order is 1..NPaths
          Profiles,       \* the profiles requested for each source
          Workers,        \* min(jobs, number of sources), more than one
          BadExpansion,   \* units whose include expansion raises
          BadParse,       \* units whose parse raises
          MaxFaults,      \* bound on lost workers and lost transports
          MaxInterrupts   \* bound on interrupts of the coordinator

Paths == 1..NPaths
Units == Paths \X Profiles

ASSUME NPathsAssumption == NPaths \in Nat
ASSUME WorkersAssumption == Workers \in Nat \ {0}
ASSUME ProfilesAssumption == IsFiniteSet(Profiles)
ASSUME BadAssumption == BadExpansion \subseteq Units /\ BadParse \subseteq Units
ASSUME BoundsAssumption == MaxFaults \in Nat /\ MaxInterrupts \in Nat

VARIABLES
  phase,      \* where the coordinator is in prepare_units
  next,       \* the next source the task generator looks at
  exhausted,  \* the generator has ended
  task,       \* the state of each source's task in the pool
  done,       \* the settled futures the coordinator is working through
  broken,     \* the pool has lost a worker
  before,     \* the units the earlier phase left
  prepared,   \* the units the coordinator holds
  diagnosed,  \* the units with a PROJECT_PREPARATION_FAILED diagnostic
  faults, interrupts

budget == <<faults, interrupts>>
vars == <<phase, next, exhausted, task, done, broken, before, prepared, diagnosed, budget>>

UnitStates == {"none", "stale", "unparsed", "parsed"}
TaskStates == {"none", "running", "finished", "failed", "taken"}
Pending == {p \in Paths : task[p] \in {"running", "finished", "failed"}}

Init ==
  /\ phase = "fill" /\ next = 1 /\ exhausted = FALSE
  /\ task = [p \in Paths |-> "none"] /\ done = {} /\ broken = FALSE
  /\ before \in [Units -> UnitStates] /\ prepared = before /\ diagnosed = {}
  /\ faults = 0 /\ interrupts = 0

-----------------------------------------------------------------------------
(* Preparing one source: _prepare_source on the units the task carries.    *)

\* Faulty: a unit prepared under another key is taken as it is.
NeedsMissing(p, held) == {u \in {p} \X Profiles : held[u] \in {"none", "unparsed"}}

\* The units of p a worker is needed for: missing, incompatible, not parsed.
Needs(p, held) == {u \in {p} \X Profiles : held[u] # "parsed"}

\* An expansion that fails leaves the unit the earlier phase had, if any; the
\* parse then runs on whatever unit there is.
PrepareUnit(u, state) ==
  LET expanded == IF state \in {"none", "stale"} /\ u \notin BadExpansion
                    THEN "unparsed" ELSE state
  IN  IF expanded = "unparsed" /\ u \notin BadParse THEN "parsed" ELSE expanded

Diagnoses(u, state) ==
  \/ state \in {"none", "stale"} /\ u \in BadExpansion
  \/ PrepareUnit(u, state) # "none" /\ u \in BadParse

\* prepared[path].update(units) and diagnostics.extend(errors).
Merge(p) ==
  /\ prepared' = [u \in Units |-> IF u \in Needs(p, prepared)
                                    THEN PrepareUnit(u, prepared[u]) ELSE prepared[u]]
  /\ diagnosed' = diagnosed \cup {u \in Needs(p, prepared) : Diagnoses(u, prepared[u])}

-----------------------------------------------------------------------------
(* The coordinator.                                                        *)

Room == Cardinality(Pending) < Workers

\* The generator moves past the sources that need nothing.
IsNextTask(p) ==
  /\ p >= next /\ Needs(p, prepared) # {}
  /\ \A q \in Paths : next <= q /\ q < p => Needs(q, prepared) = {}

Submit(p) ==
  /\ phase = "fill" /\ Room /\ ~exhausted /\ IsNextTask(p) /\ ~broken
  /\ task' = [task EXCEPT ![p] = "running"]
  /\ next' = p + 1
  /\ UNCHANGED <<phase, exhausted, done, broken, before, prepared, diagnosed, budget>>

\* Faulty: the source the pool refused is offered to it again.
SubmitRetried(p) ==
  phase = "fill" /\ Room /\ ~exhausted /\ IsNextTask(p) /\ broken /\ UNCHANGED vars

\* A broken pool refuses the task: the coordinator prepares the source.
SubmitRefused(p) ==
  /\ phase = "fill" /\ Room /\ ~exhausted /\ IsNextTask(p) /\ broken
  /\ Merge(p)
  /\ task' = [task EXCEPT ![p] = "taken"]
  /\ next' = p + 1
  /\ UNCHANGED <<phase, exhausted, done, broken, before, budget>>

Exhaust ==
  /\ phase = "fill" /\ Room /\ ~exhausted
  /\ \A p \in Paths : p >= next => Needs(p, prepared) = {}
  /\ exhausted' = TRUE
  /\ UNCHANGED <<phase, next, task, done, broken, before, prepared, diagnosed, budget>>

Settled == {p \in Paths : task[p] \in {"finished", "failed"}}

\* wait(pending, FIRST_COMPLETED) takes what has settled by then.
Wait ==
  /\ phase = "fill" /\ (~Room \/ exhausted) /\ Settled # {}
  /\ done' = Settled
  /\ phase' = "take"
  /\ UNCHANGED <<next, exhausted, task, broken, before, prepared, diagnosed, budget>>

\* Faulty: a lost task counts as done.
DropFailed(p) ==
  /\ phase = "take" /\ p \in done
  /\ IF task[p] = "finished" THEN Merge(p) ELSE UNCHANGED <<prepared, diagnosed>>
  /\ task' = [task EXCEPT ![p] = "taken"]
  /\ done' = done \ {p}
  /\ phase' = IF done' = {} THEN "fill" ELSE "take"
  /\ UNCHANGED <<next, exhausted, broken, before, budget>>

\* The units a worker returns, or the coordinator's own retry: they agree.
Take(p) ==
  /\ phase = "take" /\ p \in done
  /\ Merge(p)
  /\ task' = [task EXCEPT ![p] = "taken"]
  /\ done' = done \ {p}
  /\ phase' = IF done' = {} THEN "fill" ELSE "take"
  /\ UNCHANGED <<next, exhausted, broken, before, budget>>

Return ==
  /\ phase = "fill" /\ exhausted /\ Pending = {}
  /\ phase' = "returned"
  /\ UNCHANGED <<next, exhausted, task, done, broken, before, prepared, diagnosed, budget>>

\* An interrupt leaves through the executor's __exit__, which waits for the
\* tasks that are still outstanding.
Interrupt ==
  /\ phase \in {"fill", "take"} /\ interrupts < MaxInterrupts
  /\ interrupts' = interrupts + 1 /\ phase' = "draining"
  /\ UNCHANGED <<next, exhausted, task, done, broken, before, prepared, diagnosed, faults>>

Raise ==
  /\ phase = "draining" /\ \A p \in Paths : task[p] # "running"
  /\ phase' = "raised"
  /\ UNCHANGED <<next, exhausted, task, done, broken, before, prepared, diagnosed, budget>>

-----------------------------------------------------------------------------
(* The pool (external).                                                    *)

Finish(p) ==
  /\ task[p] = "running"
  /\ task' = [task EXCEPT ![p] = "finished"]
  /\ UNCHANGED <<phase, next, exhausted, done, broken, before, prepared, diagnosed, budget>>

\* One result cannot be transported back.
LoseResult(p) ==
  /\ task[p] = "running" /\ faults < MaxFaults
  /\ task' = [task EXCEPT ![p] = "failed"]
  /\ faults' = faults + 1
  /\ UNCHANGED <<phase, next, exhausted, done, broken, before, prepared, diagnosed, interrupts>>

\* A worker dies: the pool is broken and all it was running fails.
LoseWorker ==
  /\ ~broken /\ faults < MaxFaults
  /\ \E p \in Paths : task[p] # "none"
  /\ phase \notin {"returned", "raised"}
  /\ broken' = TRUE
  /\ task' = [p \in Paths |-> IF task[p] = "running" THEN "failed" ELSE task[p]]
  /\ faults' = faults + 1
  /\ UNCHANGED <<phase, next, exhausted, done, before, prepared, diagnosed, interrupts>>

-----------------------------------------------------------------------------
Coordinate == (\E p \in Paths : Submit(p) \/ SubmitRefused(p) \/ Take(p))
              \/ Exhaust \/ Wait \/ Return \/ Raise

Terminated == phase \in {"returned", "raised"} /\ UNCHANGED vars

Next ==
  \/ Coordinate \/ Interrupt \/ LoseWorker \/ Terminated
  \/ \E p \in Paths : Finish(p) \/ LoseResult(p)

Spec == Init /\ [][Next]_vars

\* The coordinator runs, and a worker finishes the source it is given.
Fairness == WF_vars(Coordinate) /\ \A p \in Paths : WF_vars(Finish(p))

FairSpec == Spec /\ Fairness

-----------------------------------------------------------------------------
(* Properties.                                                             *)

TypeOK ==
  /\ phase \in {"fill", "take", "draining", "returned", "raised"}
  /\ next \in 1..NPaths + 1 /\ exhausted \in BOOLEAN
  /\ task \in [Paths -> TaskStates] /\ done \subseteq Paths /\ broken \in BOOLEAN
  /\ before \in [Units -> UnitStates] /\ prepared \in [Units -> UnitStates]
  /\ diagnosed \subseteq Units
  /\ faults \in Nat /\ interrupts \in Nat

\* "At most one source task per worker is outstanding": the coordinator never
\* queues a second set of serialized results.
OneTaskPerWorker == Cardinality(Pending) <= Workers

\* Every source handed to the pool, lost ones included, is taken once, and the
\* units are what jobs=1 with eager parsing gives, whatever the schedule: the
\* result does not depend on completion order or on which workers were lost.
SameAsSequential ==
  phase = "returned" =>
    /\ prepared = [u \in Units |-> PrepareUnit(u, before[u])]
    /\ diagnosed = {u \in Units : before[u] # "parsed" /\ Diagnoses(u, before[u])}

\* A unit that is not usable after the call has a diagnostic: nothing is lost
\* without a trace, and no unit of another configuration passes silently.
UnusableIsDiagnosed ==
  phase = "returned" => \A u \in Units : prepared[u] # "parsed" => u \in diagnosed

\* The call ends, lost workers and lost results notwithstanding.
CallEnds == <>(phase \in {"returned", "raised"})
=============================================================================
