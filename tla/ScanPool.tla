------------------------------ MODULE ScanPool ------------------------------
(***************************************************************************)
(* ParallelWorkerMixin._scan_files_parallel: the coordinator of a parallel *)
(* scan, its worker processes, and the ProcessPoolExecutor between them    *)
(* (the executor is library code, modelled from how it is used here).      *)
(*                                                                         *)
(* The coordinator submits one work item per file, collects the futures in *)
(* completion order, appends one row per file and reports progress, then   *)
(* shuts the pool down.  Any exception on that path, an interrupt and a    *)
(* raising progress callback included, goes through _terminate_pool.       *)
(* Worker processes may die at any moment.                                 *)
(***************************************************************************)
EXTENDS Integers, Sequences, FiniteSets

CONSTANTS NFiles,         \* number of files to scan, submitted in order 1..NFiles
          Workers,        \* the worker slots, max_workers of the executor
          Outcome,        \* what scanning each file does: "success", "failed", "raised"
          MaxFaults,      \* bound on worker deaths, worker interrupts and callback errors
          MaxInterrupts   \* bound on interrupts of the coordinator

ASSUME NFilesAssumption == NFiles \in Nat \ {0}
ASSUME WorkersAssumption == IsFiniteSet(Workers) /\ Workers # {}
ASSUME OutcomeAssumption == Outcome \in [1..NFiles -> {"success", "failed", "raised"}]
ASSUME BoundsAssumption == MaxFaults \in Nat /\ MaxInterrupts \in Nat

Files == 1..NFiles

VARIABLES
  phase,        \* where the coordinator is in _scan_files_parallel
  submitted,    \* number of files submitted
  bound,        \* the local `futures` holds the submitted futures
  fut,          \* the state of each file's future
  worker,       \* the state of each worker process
  job,          \* the file a worker is scanning, 0 when none
  callq,        \* the executor's call queue
  resq,         \* the executor's result pipe
  manager,      \* the executor's manager thread
  shut,         \* pool.shutdown has been called
  yielded,      \* the files as_completed has yielded
  completed,    \* completed_count
  results,      \* the rows appended, in order
  telemetry,    \* _telemetry_files_scanned and _telemetry_errors
  faults, interrupts

pool == <<fut, callq, resq, manager>>
procs == <<worker, job>>
rowvars == <<yielded, completed, results, telemetry>>
budget == <<faults, interrupts>>
vars == <<phase, submitted, bound, pool, procs, shut, rowvars, budget>>

Alive == {"idle", "busy"}                    \* a process that can still run code
Settled == {"success", "failed", "raised", "interrupted", "broken", "cancelled"}
Unsettled(f) == fut[f] \in {"pending", "running"}

Init ==
  /\ phase = "submit" /\ submitted = 0 /\ bound = FALSE
  /\ fut = [f \in Files |-> "none"]
  /\ worker = [w \in Workers |-> "off"] /\ job = [w \in Workers |-> 0]
  /\ callq = <<>> /\ resq = <<>> /\ manager = "off" /\ shut = FALSE
  /\ yielded = {} /\ completed = 0 /\ results = <<>>
  /\ telemetry = [scanned |-> 0, errors |-> 0]
  /\ faults = 0 /\ interrupts = 0

-----------------------------------------------------------------------------
(* The coordinator: submission.                                            *)

\* pool.submit of the next file.  The executor starts worker processes as
\* files are submitted, at least one with the first.
Submit ==
  /\ phase = "submit" /\ manager \in {"off", "up"}
  /\ fut' = [fut EXCEPT ![submitted + 1] = "pending"]
  /\ submitted' = submitted + 1
  /\ manager' = "up"
  /\ \E S \in SUBSET {w \in Workers : worker[w] = "off"} :
       /\ (\A w \in Workers : worker[w] = "off") => S # {}
       /\ worker' = [w \in Workers |-> IF w \in S THEN "idle" ELSE worker[w]]
  /\ bound' = (submitted' = NFiles)
  /\ phase' = IF submitted' = NFiles THEN "collect" ELSE "submit"
  /\ UNCHANGED <<job, callq, resq, shut, rowvars, budget>>

\* Faulty: waits for a broken pool to take files again.
SubmitRetried ==
  phase = "submit" /\ manager \in {"broken", "stopped"} /\ UNCHANGED vars

\* A pool that broke while files were still being submitted refuses the next
\* one: the comprehension never binds `futures` and the whole call fails.
SubmitRefused ==
  /\ phase = "submit" /\ manager \in {"broken", "stopped"}
  /\ phase' = "cancel"
  /\ UNCHANGED <<submitted, bound, pool, procs, shut, rowvars, budget>>

-----------------------------------------------------------------------------
(* The coordinator: collection, progress and normal shutdown.              *)

RowOf(state) == IF state = "success" THEN "success" ELSE "failed"

\* _record_progress_result counts a row as scanned or as an error.
Tally(t, status) == IF status = "success" THEN [t EXCEPT !.scanned = @ + 1]
                                          ELSE [t EXCEPT !.errors = @ + 1]

\* A result and any Exception give a row; an interrupt that was raised inside
\* the worker is re-raised here and ends the loop.
Report(f) ==
  /\ phase = "collect" /\ fut[f] \in Settled
  /\ yielded' = yielded \cup {f}
  /\ completed' = completed + 1
  /\ \/ /\ fut[f] = "interrupted"
        /\ phase' = "cancel"
        /\ UNCHANGED <<results, telemetry>>
     \/ /\ fut[f] # "interrupted"
        /\ results' = Append(results, [file |-> f, status |-> RowOf(fut[f])])
        /\ telemetry' = Tally(telemetry, RowOf(fut[f]))
        /\ phase' = "progress"
  /\ UNCHANGED <<submitted, bound, pool, procs, shut, budget>>

\* Faulty: a future may be yielded twice.
CollectTwice(f) == Report(f)

\* as_completed yields each future once, when it is settled.
Collect(f) == f \notin yielded /\ Report(f)

\* Faulty: leaves the loop one file early.
ProgressEarly ==
  /\ phase = "progress"
  /\ phase' = IF Cardinality(yielded) >= NFiles - 1 THEN "shutdown" ELSE "collect"
  /\ UNCHANGED <<submitted, bound, pool, procs, shut, rowvars, budget>>

\* The progress callback returns: the next future, or the end of the loop.
Progress ==
  /\ phase = "progress"
  /\ phase' = IF yielded = Files THEN "shutdown" ELSE "collect"
  /\ UNCHANGED <<submitted, bound, pool, procs, shut, rowvars, budget>>

ProgressRaises ==
  /\ phase = "progress" /\ faults < MaxFaults
  /\ faults' = faults + 1
  /\ phase' = "cancel"
  /\ UNCHANGED <<submitted, bound, pool, procs, shut, rowvars, interrupts>>

\* pool.shutdown(wait=True), then the join of the manager thread.
Shutdown ==
  /\ phase = "shutdown"
  /\ shut' = TRUE /\ phase' = "join"
  /\ UNCHANGED <<submitted, bound, pool, procs, rowvars, budget>>

Join ==
  /\ phase = "join" /\ manager \in {"off", "stopped"}
  /\ phase' = "returned"
  /\ UNCHANGED <<submitted, bound, pool, procs, shut, rowvars, budget>>

-----------------------------------------------------------------------------
(* The coordinator: _terminate_pool, and interrupts.                       *)

Working == {"submit", "collect", "progress", "shutdown", "join"}
Cleaning == {"cancel", "terminate", "grace", "reap", "reapjoin"}

\* An interrupt on the working path enters the cleanup; a second one, during
\* the cleanup, leaves it: nothing in the except block catches it.
Interrupt ==
  /\ interrupts < MaxInterrupts /\ phase \in Working \cup Cleaning
  /\ interrupts' = interrupts + 1
  /\ phase' = IF phase \in Working THEN "cancel" ELSE "abandoned"
  /\ UNCHANGED <<submitted, bound, pool, procs, shut, rowvars, faults>>

CancelPending == [f \in Files |-> IF fut[f] = "pending" THEN "cancelled" ELSE fut[f]]

CancelFutures ==
  /\ phase = "cancel"
  /\ fut' = IF bound THEN CancelPending ELSE fut
  /\ phase' = "terminate"
  /\ UNCHANGED <<submitted, bound, callq, resq, manager, procs, shut, rowvars, budget>>

\* SIGTERM to every live process: none of them runs any more of the scan.
Terminate ==
  /\ phase = "terminate"
  /\ worker' = [w \in Workers |-> IF worker[w] \in Alive THEN "dying" ELSE worker[w]]
  /\ phase' = "grace"
  /\ UNCHANGED <<submitted, bound, pool, job, shut, rowvars, budget>>

\* The bounded joins: whoever outlives the grace period is killed.
Kill ==
  /\ phase = "grace"
  /\ worker' = [w \in Workers |-> IF worker[w] = "dying" THEN "dead" ELSE worker[w]]
  /\ phase' = "reap"
  /\ UNCHANGED <<submitted, bound, pool, job, shut, rowvars, budget>>

\* pool.shutdown(wait=True, cancel_futures=True), then its join.
Reap ==
  /\ phase = "reap"
  /\ shut' = TRUE
  /\ fut' = IF manager = "up" THEN CancelPending ELSE fut
  /\ phase' = "reapjoin"
  /\ UNCHANGED <<submitted, bound, callq, resq, manager, procs, rowvars, budget>>

\* Faulty: shutdown(wait=False) leaves the manager thread running.
ReapNoWait ==
  /\ phase = "reapjoin"
  /\ phase' = "raised"
  /\ UNCHANGED <<submitted, bound, pool, procs, shut, rowvars, budget>>

ReapJoin ==
  /\ phase = "reapjoin" /\ manager \in {"off", "stopped"}
  /\ phase' = "raised"
  /\ UNCHANGED <<submitted, bound, pool, procs, shut, rowvars, budget>>

-----------------------------------------------------------------------------
(* The executor's manager thread (external).                               *)

\* Moves the oldest pending item to the call queue, which holds one item
\* more than there are workers; from then on it cannot be cancelled.
Feed(f) ==
  /\ manager = "up" /\ fut[f] = "pending"
  /\ \A g \in Files : fut[g] = "pending" => f <= g
  /\ Len(callq) <= Cardinality(Workers)
  /\ callq' = Append(callq, f)
  /\ fut' = [fut EXCEPT ![f] = "running"]
  /\ UNCHANGED <<phase, submitted, bound, resq, manager, procs, shut, rowvars, budget>>

\* A message in the result pipe settles the future it belongs to.
Settle ==
  /\ manager = "up" /\ resq # <<>>
  /\ LET m == Head(resq) IN fut' = [fut EXCEPT ![m.file] = m.state]
  /\ resq' = Tail(resq)
  /\ UNCHANGED <<phase, submitted, bound, callq, manager, procs, shut, rowvars, budget>>

\* A dead worker is noticed once the pipe is drained: every future still
\* outstanding gets BrokenProcessPool.
Break ==
  /\ manager = "up" /\ resq = <<>> /\ \E w \in Workers : worker[w] = "dead"
  /\ fut' = [f \in Files |-> IF Unsettled(f) THEN "broken" ELSE fut[f]]
  /\ manager' = "broken"
  /\ UNCHANGED <<phase, submitted, bound, callq, resq, procs, shut, rowvars, budget>>

StopAll(end) ==
  /\ manager' = "stopped"
  /\ worker' = [w \in Workers |-> IF worker[w] \in Alive \cup {"dying"} THEN end ELSE worker[w]]
  /\ UNCHANGED <<phase, submitted, bound, fut, callq, resq, job, shut, rowvars, budget>>

\* A broken pool terminates and joins the workers that are left.
StopBroken == manager = "broken" /\ StopAll("dead")

\* A pool that was shut down stops its workers when nothing is outstanding.
StopIdle ==
  /\ manager = "up" /\ shut /\ \A f \in Files : ~Unsettled(f)
  /\ StopAll("exited")

-----------------------------------------------------------------------------
(* The worker processes.                                                   *)

Take(w) ==
  /\ worker[w] = "idle" /\ callq # <<>>
  /\ worker' = [worker EXCEPT ![w] = "busy"]
  /\ job' = [job EXCEPT ![w] = Head(callq)]
  /\ callq' = Tail(callq)
  /\ UNCHANGED <<phase, submitted, bound, fut, resq, manager, shut, rowvars, budget>>

Reply(w, state) ==
  /\ worker[w] = "busy"
  /\ resq' = Append(resq, [file |-> job[w], state |-> state])
  /\ worker' = [worker EXCEPT ![w] = "idle"]
  /\ job' = [job EXCEPT ![w] = 0]
  /\ UNCHANGED <<phase, submitted, bound, fut, callq, manager, shut, rowvars, interrupts>>

\* _scan_worker_item returns a row or raises an Exception.
Finish(w) == worker[w] = "busy" /\ Reply(w, Outcome[job[w]]) /\ UNCHANGED faults

\* A terminal interrupt reaches a worker in the middle of a scan: the executor
\* ships the KeyboardInterrupt to the coordinator and the worker goes on.
InterruptWorker(w) == faults < MaxFaults /\ faults' = faults + 1 /\ Reply(w, "interrupted")

\* The process dies: the out-of-memory killer, a crash in native code, an
\* initializer that raises.
Crash(w) ==
  /\ worker[w] \in Alive /\ faults < MaxFaults
  /\ faults' = faults + 1
  /\ worker' = [worker EXCEPT ![w] = "dead"]
  /\ UNCHANGED <<phase, submitted, bound, pool, job, shut, rowvars, interrupts>>

\* A process that got SIGTERM exits.
Exit(w) ==
  /\ worker[w] = "dying"
  /\ worker' = [worker EXCEPT ![w] = "dead"]
  /\ UNCHANGED <<phase, submitted, bound, pool, job, shut, rowvars, budget>>

-----------------------------------------------------------------------------
Coordinate ==
  \/ Submit \/ SubmitRefused \/ (\E f \in Files : Collect(f)) \/ Progress
  \/ Shutdown \/ Join \/ CancelFutures \/ Terminate \/ Kill \/ Reap \/ ReapJoin

Manage == (\E f \in Files : Feed(f)) \/ Settle \/ Break \/ StopBroken \/ StopIdle

Work(w) == Take(w) \/ Finish(w) \/ Exit(w)

Disturb == ProgressRaises \/ Interrupt \/ \E w \in Workers : InterruptWorker(w) \/ Crash(w)

Ended == phase \in {"returned", "raised", "abandoned"}

Terminated == Ended /\ UNCHANGED vars

Next == Coordinate \/ Manage \/ (\E w \in Workers : Work(w)) \/ Disturb \/ Terminated

Spec == Init /\ [][Next]_vars

\* The operating system schedules the coordinator, the manager thread and
\* every worker, and a scan of one file ends.  Nothing makes a fault happen.
Fairness == WF_vars(Coordinate) /\ WF_vars(Manage) /\ \A w \in Workers : WF_vars(Work(w))

FairSpec == Spec /\ Fairness

-----------------------------------------------------------------------------
(* Properties.                                                             *)

FutureStates == {"none", "pending", "running"} \cup Settled

Messages == [file : Files, state : {"success", "failed", "raised", "interrupted"}]
Rows == [file : Files, status : {"success", "failed"}]

TypeOK ==
  /\ phase \in Working \cup Cleaning \cup {"returned", "raised", "abandoned"}
  /\ submitted \in 0..NFiles /\ bound \in BOOLEAN
  /\ fut \in [Files -> FutureStates]
  /\ worker \in [Workers -> Alive \cup {"off", "dying", "dead", "exited"}]
  /\ job \in [Workers -> 0..NFiles]
  /\ callq \in Seq(Files)
  /\ resq \in Seq(Messages)
  /\ manager \in {"off", "up", "broken", "stopped"} /\ shut \in BOOLEAN
  /\ yielded \subseteq Files /\ completed \in Nat
  /\ results \in Seq(Rows)
  /\ telemetry \in [scanned : Nat, errors : Nat]
  /\ faults \in Nat /\ interrupts \in Nat

HasRow(f) == \E i \in 1..Len(results) : results[i].file = f

\* No file is reported twice, and a call that returns reports every file: no
\* crash, however timed, loses a file or lets a late result add a second row.
OneRowPerFile ==
  /\ \A i, j \in 1..Len(results) : results[i].file = results[j].file => i = j
  /\ phase = "returned" => \A f \in Files : HasRow(f)

\* The call leaves no worker process and no manager thread behind, on either
\* exit.  (A second interrupt during the cleanup is the exception.)
NothingLeftBehind ==
  phase \in {"returned", "raised"} =>
    /\ \A w \in Workers : worker[w] \in {"off", "dead", "exited"}
    /\ manager \in {"off", "stopped"}

\* The call ends whatever is lost, under fair scheduling.
CallEnds == <>Ended

\* The promise to scan_path, with the rows read as a function of the file.
Promise == INSTANCE ScanMap WITH
  Row <- [f \in Files |-> RowOf(Outcome[f])],
  rows <- [f \in {results[i].file : i \in 1..Len(results)} |->
             results[CHOOSE i \in 1..Len(results) : results[i].file = f].status],
  call <- IF phase = "returned" THEN "returned"
          ELSE IF phase \in {"raised", "abandoned"} THEN "raised" ELSE "running",
  lost <- \E w \in Workers : worker[w] = "dead"

KeepsPromise == Promise!Spec
=============================================================================
