-------------------------- MODULE ScanPool_proofs --------------------------
(***************************************************************************)
(* The safety of the parallel scan, for every number of files, every pool  *)
(* size and every number of faults and interrupts.                         *)
(*                                                                         *)
(* TypeOK and OneRowPerFile are not inductive as they stand.  TypeInv adds *)
(* that a busy worker has a file and that the submission loop has a file   *)
(* left; RowInv ties the rows to the files as_completed has yielded and    *)
(* that to the coordinator's place in its loop; PoolInv ties the worker    *)
(* processes to the manager thread that owns them.                         *)
(* The refinement of ScanMap needs to know in addition where a future's    *)
(* outcome comes from: FutureInv.                                          *)
(***************************************************************************)
EXTENDS ScanPool, SequenceTheorems, TLAPS

TypeInv ==
  /\ TypeOK
  /\ phase = "submit" => submitted < NFiles
  /\ \A w \in Workers : worker[w] = "busy" => job[w] \in Files

RowInv ==
  /\ \A i \in 1..Len(results) : results[i].file \in yielded
  /\ \A i, j \in 1..Len(results) : results[i].file = results[j].file => i = j
  /\ phase \in {"submit", "collect", "progress", "shutdown", "join", "returned"}
       => \A f \in yielded : HasRow(f)
  /\ phase \in {"shutdown", "join", "returned"} => yielded = Files

PoolInv ==
  /\ manager = "off" => \A w \in Workers : worker[w] = "off"
  /\ manager = "stopped" => \A w \in Workers : worker[w] \in {"off", "dead", "exited"}
  /\ phase \in {"returned", "raised"} => manager \in {"off", "stopped"}

-----------------------------------------------------------------------------
(* Types.                                                                  *)

LEMMA TypeInit == Init => TypeInv
<1> SUFFICES ASSUME Init PROVE TypeInv
  OBVIOUS
<1>1. 0 \in 0..NFiles /\ submitted < NFiles
  BY NFilesAssumption DEF Init
<1>2. telemetry \in [scanned : Nat, errors : Nat]
  BY DEF Init
<1>3. callq \in Seq(Files) /\ results \in Seq(Rows)
      /\ resq \in Seq(Messages)
  BY DEF Init
<1>4. fut \in [Files -> FutureStates]
      /\ worker \in [Workers -> Alive \cup {"off", "dying", "dead", "exited"}]
      /\ job \in [Workers -> 0..NFiles]
  BY <1>1 DEF Init, FutureStates
<1> QED
  BY <1>1, <1>2, <1>3, <1>4 DEF Init, TypeInv, TypeOK, Working

LEMMA TallyType ==
  ASSUME NEW t \in [scanned : Nat, errors : Nat], NEW status
  PROVE  Tally(t, status) \in [scanned : Nat, errors : Nat]
<1>1. [t EXCEPT !.scanned = @ + 1] \in [scanned : Nat, errors : Nat]
  OBVIOUS
<1>2. [t EXCEPT !.errors = @ + 1] \in [scanned : Nat, errors : Nat]
  OBVIOUS
<1> QED
  BY <1>1, <1>2 DEF Tally

\* A reply puts a message into the pipe and frees the worker.
LEMMA ReplyType ==
  ASSUME TypeInv, NEW w \in Workers, faults' \in Nat,
         NEW state \in {"success", "failed", "raised", "interrupted"},
         Reply(w, state)
  PROVE  TypeInv'
<1>1. [file |-> job[w], state |-> state] \in Messages /\ resq \in Seq(Messages)
  BY DEF Reply, TypeInv, TypeOK, Messages
<1>2. resq' \in Seq(Messages)
  <2> DEFINE m == [file |-> job[w], state |-> state]
  <2>1. resq' = Append(resq, m)
    BY DEF Reply
  <2> HIDE DEF m
  <2> QED
    BY <1>1, <2>1 DEF m
<1>3. worker' \in [Workers -> Alive \cup {"off", "dying", "dead", "exited"}]
      /\ \A v \in Workers : worker'[v] = "busy" => worker[v] = "busy" /\ v # w
  BY DEF Reply, TypeInv, TypeOK, Alive
<1>4. job' \in [Workers -> 0..NFiles] /\ \A v \in Workers \ {w} : job'[v] = job[v]
  BY NFilesAssumption DEF Reply, TypeInv, TypeOK
<1> QED
  BY <1>2, <1>3, <1>4
     DEF Reply, TypeInv, TypeOK, rowvars, Files, FutureStates, Working, Cleaning

LEMMA TypeStep == TypeInv /\ [Next]_vars => TypeInv'
<1> SUFFICES ASSUME TypeInv, [Next]_vars
             PROVE  TypeInv'
  OBVIOUS
<1> USE NFilesAssumption, OutcomeAssumption
     DEF TypeInv, TypeOK, vars, pool, procs, rowvars, budget,
         Files, FutureStates, Settled, Working, Cleaning, Alive
<1>1. CASE Submit
  BY <1>1 DEF Submit
<1>2. CASE SubmitRefused
  BY <1>2 DEF SubmitRefused
<1>3. CASE \E f \in Files : Collect(f)
  <2> PICK f \in Files : Collect(f)
    BY <1>3
  <2>1. telemetry' \in [scanned : Nat, errors : Nat]
    BY TallyType DEF Collect, Report
  <2>2. results' \in Seq(Rows)
    <3>1. [file |-> f, status |-> RowOf(fut[f])] \in Rows
      BY DEF Rows, RowOf
    <3>2. results' = results \/ results' = Append(results, [file |-> f, status |-> RowOf(fut[f])])
      BY DEF Collect, Report
    <3>3. results \in Seq(Rows)
      OBVIOUS
    <3> DEFINE r == [file |-> f, status |-> RowOf(fut[f])]
    <3> HIDE DEF r
    <3>4. Append(results, r) \in Seq(Rows)
      BY <3>1, <3>3 DEF r
    <3> QED
      BY <3>2, <3>3, <3>4 DEF r
  <2> QED
    BY <2>1, <2>2 DEF Collect, Report
<1>4. CASE Progress
  BY <1>4 DEF Progress
<1>5. CASE ProgressRaises
  BY <1>5 DEF ProgressRaises
<1>6. CASE Shutdown
  BY <1>6 DEF Shutdown
<1>7. CASE Join
  BY <1>7 DEF Join
<1>8. CASE CancelFutures
  BY <1>8 DEF CancelFutures, CancelPending
<1>9. CASE Terminate
  BY <1>9 DEF Terminate
<1>10. CASE Kill
  BY <1>10 DEF Kill
<1>11. CASE Reap
  BY <1>11 DEF Reap, CancelPending
<1>12. CASE ReapJoin
  BY <1>12 DEF ReapJoin
<1>13. CASE Interrupt
  BY <1>13 DEF Interrupt
<1>14. CASE \E f \in Files : Feed(f)
  BY <1>14 DEF Feed
<1>15. CASE Settle
  <2> DEFINE m == Head(resq)
  <2>1. m \in Messages
        /\ Tail(resq) \in Seq(Messages)
    <3>1. resq \in Seq(Messages) /\ resq # <<>>
      BY <1>15 DEF Settle
    <3> QED
      BY <3>1
  <2>2. fut' = [fut EXCEPT ![m.file] = m.state]
    BY <1>15 DEF Settle
  <2> HIDE DEF m
  <2>3. fut' \in [Files -> FutureStates]
    BY <2>1, <2>2 DEF Messages
  <2> QED
    BY <1>15, <2>1, <2>3 DEF Settle
<1>16. CASE Break
  BY <1>16 DEF Break
<1>17. CASE StopBroken
  BY <1>17 DEF StopBroken, StopAll
<1>18. CASE StopIdle
  BY <1>18 DEF StopIdle, StopAll
<1>19. CASE \E w \in Workers : Take(w)
  BY <1>19 DEF Take
<1>20. CASE \E w \in Workers : Finish(w)
  <2> PICK w \in Workers : Finish(w)
    BY <1>20
  <2>1. Outcome[job[w]] \in {"success", "failed", "raised", "interrupted"}
    BY DEF Finish
  <2>2. Reply(w, Outcome[job[w]]) /\ faults' \in Nat
    BY DEF Finish
  <2> HIDE DEF TypeInv
  <2> QED
    BY <2>1, <2>2, ReplyType
<1>21. CASE \E w \in Workers : InterruptWorker(w)
  <2> PICK w \in Workers : InterruptWorker(w)
    BY <1>21
  <2>1. Reply(w, "interrupted") /\ faults' = faults + 1 /\ faults \in Nat
    BY DEF InterruptWorker
  <2>2. faults' \in Nat
    BY <2>1
  <2> HIDE DEF TypeInv
  <2> QED
    BY <2>1, <2>2, ReplyType
<1>22. CASE \E w \in Workers : Crash(w)
  BY <1>22 DEF Crash
<1>23. CASE \E w \in Workers : Exit(w)
  BY <1>23 DEF Exit
<1>24. CASE Terminated
  BY <1>24 DEF Terminated
<1>25. CASE UNCHANGED vars
  BY <1>25
<1> QED
  BY <1>1, <1>2, <1>3, <1>4, <1>5, <1>6, <1>7, <1>8, <1>9, <1>10, <1>11, <1>12, <1>13, <1>14, <1>15, <1>16, <1>17, <1>18, <1>19, <1>20, <1>21, <1>22, <1>23, <1>24, <1>25
     DEF Next, Coordinate, Manage, Work, Disturb

\* Every variable of the parallel scan stays in its declared range.
THEOREM TypeCorrect == Spec => []TypeOK
<1>1. Init => TypeInv
  BY TypeInit
<1>2. TypeInv /\ [Next]_vars => TypeInv'
  BY TypeStep
<1>3. TypeInv => TypeOK
  BY DEF TypeInv
<1> QED
  BY <1>1, <1>2, <1>3, PTL DEF Spec

LEMMA TypeInvariant == Spec => []TypeInv
<1>1. Init => TypeInv
  BY TypeInit
<1>2. TypeInv /\ [Next]_vars => TypeInv'
  BY TypeStep
<1> QED
  BY <1>1, <1>2, PTL DEF Spec

-----------------------------------------------------------------------------
(* Rows.                                                                   *)

LEMMA RowStep == TypeInv /\ RowInv /\ [Next]_vars => RowInv'
<1> SUFFICES ASSUME TypeInv, RowInv, [Next]_vars
             PROVE  RowInv'
  OBVIOUS
<1> USE NFilesAssumption DEF RowInv, HasRow, vars, pool, procs, rowvars, budget
<1>1. CASE Submit
  BY <1>1 DEF Submit
<1>2. CASE SubmitRefused
  BY <1>2 DEF SubmitRefused
<1>3. CASE \E f \in Files : Collect(f)
  BY <1>3 DEF Collect, Report, Tally, RowOf
<1>4. CASE Progress
  BY <1>4 DEF Progress
<1>5. CASE ProgressRaises
  BY <1>5 DEF ProgressRaises
<1>6. CASE Shutdown
  BY <1>6 DEF Shutdown
<1>7. CASE Join
  BY <1>7 DEF Join
<1>8. CASE CancelFutures
  BY <1>8 DEF CancelFutures, CancelPending
<1>9. CASE Terminate
  BY <1>9 DEF Terminate
<1>10. CASE Kill
  BY <1>10 DEF Kill
<1>11. CASE Reap
  BY <1>11 DEF Reap, CancelPending
<1>12. CASE ReapJoin
  BY <1>12 DEF ReapJoin
<1>13. CASE Interrupt
  BY <1>13 DEF Interrupt
<1>14. CASE \E f \in Files : Feed(f)
  BY <1>14 DEF Feed
<1>15. CASE Settle
  BY <1>15 DEF Settle
<1>16. CASE Break
  BY <1>16 DEF Break
<1>17. CASE StopBroken
  BY <1>17 DEF StopBroken, StopAll
<1>18. CASE StopIdle
  BY <1>18 DEF StopIdle, StopAll
<1>19. CASE \E w \in Workers : Take(w)
  BY <1>19 DEF Take
<1>20. CASE \E w \in Workers : Finish(w)
  BY <1>20 DEF Finish, Reply
<1>21. CASE \E w \in Workers : InterruptWorker(w)
  BY <1>21 DEF InterruptWorker, Reply
<1>22. CASE \E w \in Workers : Crash(w)
  BY <1>22 DEF Crash
<1>23. CASE \E w \in Workers : Exit(w)
  BY <1>23 DEF Exit
<1>24. CASE Terminated
  BY <1>24 DEF Terminated
<1>25. CASE UNCHANGED vars
  BY <1>25
<1> QED
  BY <1>1, <1>2, <1>3, <1>4, <1>5, <1>6, <1>7, <1>8, <1>9, <1>10, <1>11, <1>12, <1>13, <1>14, <1>15, <1>16, <1>17, <1>18, <1>19, <1>20, <1>21, <1>22, <1>23, <1>24, <1>25
     DEF Next, Coordinate, Manage, Work, Disturb

\* However the workers die and whenever the coordinator is interrupted, no
\* file gets two rows, and a call that returns has a row for every file.
THEOREM EveryFileReportedOnce == Spec => []OneRowPerFile
<1>1. Init => RowInv
  BY DEF Init, RowInv, HasRow
<1>2. TypeInv /\ RowInv /\ [Next]_vars => RowInv'
  BY RowStep
<1>3. RowInv => OneRowPerFile
  BY DEF RowInv, OneRowPerFile
<1>4. Spec => []TypeInv
  BY TypeInvariant
<1> QED
  BY <1>1, <1>2, <1>3, <1>4, PTL DEF Spec

-----------------------------------------------------------------------------
(* Processes.                                                              *)

LEMMA PoolStep == TypeInv /\ PoolInv /\ [Next]_vars => PoolInv'
<1> SUFFICES ASSUME TypeInv, PoolInv, [Next]_vars
             PROVE  PoolInv'
  OBVIOUS
<1> USE DEF PoolInv, Alive, TypeInv, TypeOK, vars, pool, procs, rowvars, budget
<1>1. CASE Submit
  BY <1>1 DEF Submit
<1>2. CASE SubmitRefused
  BY <1>2 DEF SubmitRefused
<1>3. CASE \E f \in Files : Collect(f)
  BY <1>3 DEF Collect, Report, Tally, RowOf
<1>4. CASE Progress
  BY <1>4 DEF Progress
<1>5. CASE ProgressRaises
  BY <1>5 DEF ProgressRaises
<1>6. CASE Shutdown
  BY <1>6 DEF Shutdown
<1>7. CASE Join
  BY <1>7 DEF Join
<1>8. CASE CancelFutures
  BY <1>8 DEF CancelFutures, CancelPending
<1>9. CASE Terminate
  BY <1>9 DEF Terminate
<1>10. CASE Kill
  BY <1>10 DEF Kill
<1>11. CASE Reap
  BY <1>11 DEF Reap, CancelPending
<1>12. CASE ReapJoin
  BY <1>12 DEF ReapJoin
<1>13. CASE Interrupt
  BY <1>13 DEF Interrupt
<1>14. CASE \E f \in Files : Feed(f)
  BY <1>14 DEF Feed
<1>15. CASE Settle
  BY <1>15 DEF Settle
<1>16. CASE Break
  BY <1>16 DEF Break
<1>17. CASE StopBroken
  BY <1>17 DEF StopBroken, StopAll
<1>18. CASE StopIdle
  BY <1>18 DEF StopIdle, StopAll
<1>19. CASE \E w \in Workers : Take(w)
  BY <1>19 DEF Take
<1>20. CASE \E w \in Workers : Finish(w)
  BY <1>20 DEF Finish, Reply
<1>21. CASE \E w \in Workers : InterruptWorker(w)
  BY <1>21 DEF InterruptWorker, Reply
<1>22. CASE \E w \in Workers : Crash(w)
  BY <1>22 DEF Crash
<1>23. CASE \E w \in Workers : Exit(w)
  BY <1>23 DEF Exit
<1>24. CASE Terminated
  BY <1>24 DEF Terminated
<1>25. CASE UNCHANGED vars
  BY <1>25
<1> QED
  BY <1>1, <1>2, <1>3, <1>4, <1>5, <1>6, <1>7, <1>8, <1>9, <1>10, <1>11, <1>12, <1>13, <1>14, <1>15, <1>16, <1>17, <1>18, <1>19, <1>20, <1>21, <1>22, <1>23, <1>24, <1>25
     DEF Next, Coordinate, Manage, Work, Disturb

\* When the call has returned or raised, no worker process is alive and the
\* executor's manager thread has ended.
THEOREM NothingIsLeftBehind == Spec => []NothingLeftBehind
<1>1. Init => PoolInv
  BY DEF Init, PoolInv
<1>2. TypeInv /\ PoolInv /\ [Next]_vars => PoolInv'
  BY PoolStep
<1>3. PoolInv => NothingLeftBehind
  BY DEF PoolInv, NothingLeftBehind
<1>4. Spec => []TypeInv
  BY TypeInvariant
<1> QED
  BY <1>1, <1>2, <1>3, <1>4, PTL DEF Spec
-----------------------------------------------------------------------------
(* The promise to scan_path.                                               *)

Lost == \E w \in Workers : worker[w] = "dead"

\* What a settled future, and a message on its way to one, can say: what
\* scanning the file gives, that the scan was interrupted, or that a worker was
\* lost.  Futures are cancelled only once the call is bound to raise.
FutureInv ==
  /\ \A f \in Files : fut[f] \in {"success", "failed", "raised"} => fut[f] = Outcome[f]
  /\ \A f \in Files : fut[f] = "broken" => Lost
  /\ \A f \in Files : fut[f] = "cancelled" => phase \notin Working \cup {"returned"}
  /\ \A i \in 1..Len(resq) : resq[i].state \in {"interrupted", Outcome[resq[i].file]}

LEMMA FutureInit == Init => FutureInv
  BY DEF Init, FutureInv

\* A reply carries the outcome of the worker's file, or an interrupt.
LEMMA ReplyIsHonest ==
  ASSUME TypeInv, FutureInv, NEW w \in Workers, worker[w] = "busy",
         NEW state \in {"interrupted", Outcome[job[w]]}, Reply(w, state)
  PROVE  FutureInv'
<1> DEFINE m == [file |-> job[w], state |-> state]
<1>1. m \in Messages /\ resq \in Seq(Messages) /\ m.state \in {"interrupted", Outcome[m.file]}
  BY OutcomeAssumption DEF TypeInv, TypeOK, Messages, Files
<1>2. resq' = Append(resq, m)
  BY DEF Reply
<1> HIDE DEF m
<1>3. \A i \in 1..Len(resq') : resq'[i] = m \/ (i \in 1..Len(resq) /\ resq'[i] = resq[i])
  BY <1>1, <1>2
<1>4. \A i \in 1..Len(resq') : resq'[i].state \in {"interrupted", Outcome[resq'[i].file]}
  BY <1>1, <1>3 DEF FutureInv
<1>5. fut' = fut /\ phase' = phase /\ \A v \in Workers : worker[v] = "dead" => worker'[v] = "dead"
  BY DEF Reply, TypeInv, TypeOK
<1> QED
  BY <1>4, <1>5 DEF FutureInv, Lost

\* A worker that was lost stays lost.
LEMMA LossIsKnown ==
  ASSUME TypeInv, [Next]_vars
  PROVE  \A w \in Workers : worker[w] = "dead" => worker'[w] = "dead"
  BY DEF Next, Coordinate, Manage, Work, Disturb, Terminated, Submit, SubmitRefused, Collect,
         Report, Progress, ProgressRaises, Shutdown, Join, CancelFutures, Terminate, Kill, Reap,
         ReapJoin, Interrupt, Feed, Settle, Break, StopBroken, StopIdle, StopAll, Take, Finish,
         Reply, InterruptWorker, Crash, Exit, TypeInv, TypeOK, Alive, vars, pool, procs, rowvars,
         budget

LEMMA FutureStep == TypeInv /\ FutureInv /\ [Next]_vars => FutureInv'
<1> SUFFICES ASSUME TypeInv, FutureInv, [Next]_vars
             PROVE  FutureInv'
  OBVIOUS
<1>0. Lost => Lost'
  BY LossIsKnown DEF Lost
<1> USE DEF vars, pool, procs, rowvars, budget, Working, Cleaning
<1>1. CASE Submit
  <2>1. \A f \in Files : fut'[f] = fut[f] \/ fut'[f] = "pending"
    BY <1>1 DEF Submit, TypeInv, TypeOK
  <2>2. phase \in Working /\ resq' = resq
    BY <1>1 DEF Submit
  <2> QED
    BY <1>0, <2>1, <2>2 DEF FutureInv
<1>2. CASE UNCHANGED <<fut, resq>> /\ (phase' \in Working \cup {"returned"} => phase \in Working \cup {"returned"})
  BY <1>0, <1>2 DEF FutureInv
<1>3. CASE CancelFutures \/ Reap
  <2>1. \A f \in Files : fut'[f] = fut[f] \/ fut'[f] = "cancelled"
    BY <1>3 DEF CancelFutures, Reap, CancelPending
  <2>2. phase' \notin Working \cup {"returned"} /\ resq' = resq
    BY <1>3 DEF CancelFutures, Reap
  <2> QED
    BY <1>0, <2>1, <2>2 DEF FutureInv
<1>4. CASE \E f \in Files : Feed(f)
  <2>1. \A f \in Files : fut'[f] = fut[f] \/ fut'[f] = "running"
    BY <1>4 DEF Feed, TypeInv, TypeOK
  <2>2. phase' = phase /\ resq' = resq
    BY <1>4 DEF Feed
  <2> QED
    BY <1>0, <2>1, <2>2 DEF FutureInv
<1>5. CASE Settle
  <2> DEFINE m == Head(resq)
  <2>1. resq \in Seq(Messages) /\ resq # <<>>
    BY <1>5 DEF Settle, TypeInv, TypeOK
  <2>2. /\ m = resq[1] /\ 1 \in 1..Len(resq) /\ m \in Messages
        /\ \A i \in 1..Len(Tail(resq)) : Tail(resq)[i] = resq[i + 1] /\ i + 1 \in 1..Len(resq)
    BY <2>1
  <2>3. m.state \in {"interrupted", Outcome[m.file]}
    BY <2>2 DEF FutureInv
  <2>4. fut' = [fut EXCEPT ![m.file] = m.state] /\ resq' = Tail(resq) /\ phase' = phase
    BY <1>5 DEF Settle
  <2> HIDE DEF m
  <2>5. \A f \in Files : fut'[f] = fut[f] \/ fut'[f] \in {"interrupted", Outcome[f]}
    BY <2>3, <2>4 DEF TypeInv, TypeOK
  <2>6. \A i \in 1..Len(resq') : resq'[i].state \in {"interrupted", Outcome[resq'[i].file]}
    BY <2>2, <2>4 DEF FutureInv
  <2> QED
    BY <1>0, <2>4, <2>5, <2>6, OutcomeAssumption DEF FutureInv, Files
<1>6. CASE Break
  <2>1. Lost /\ phase' = phase /\ resq' = resq
    BY <1>6 DEF Break, Lost
  <2>2. \A f \in Files : fut'[f] = fut[f] \/ fut'[f] = "broken"
    BY <1>6 DEF Break
  <2> QED
    BY <1>0, <2>1, <2>2 DEF FutureInv
<1>7. CASE \E w \in Workers : Finish(w)
  BY <1>7, ReplyIsHonest DEF Finish
<1>8. CASE \E w \in Workers : InterruptWorker(w)
  BY <1>8, ReplyIsHonest DEF InterruptWorker, Reply
<1> QED
  BY <1>1, <1>2, <1>3, <1>4, <1>5, <1>6, <1>7, <1>8
     DEF Next, Coordinate, Manage, Work, Disturb, Terminated, SubmitRefused, Collect, Report,
         Progress, ProgressRaises, Shutdown, Join, Terminate, Kill, ReapJoin, Interrupt,
         StopBroken, StopIdle, StopAll, Take, Crash, Exit

\* The refinement mapping.
RowsBar == [f \in {results[i].file : i \in 1..Len(results)} |->
              results[CHOOSE i \in 1..Len(results) : results[i].file = f].status]
CallBar == IF phase = "returned" THEN "returned"
           ELSE IF phase \in {"raised", "abandoned"} THEN "raised" ELSE "running"
OwnRow == [f \in Files |-> RowOf(Outcome[f])]

\* One more row in the list is one more point of the function.
LEMMA AppendRow ==
  ASSUME TypeInv, RowInv, NEW f \in Files \ yielded, NEW status \in {"success", "failed"},
         results' = Append(results, [file |-> f, status |-> status])
  PROVE  /\ f \notin DOMAIN RowsBar
         /\ RowsBar' = [g \in DOMAIN RowsBar \cup {f} |-> IF g = f THEN status ELSE RowsBar[g]]
<1> DEFINE r == [file |-> f, status |-> status]
           n == Len(results)
           at(g) == CHOOSE i \in 1..n : results[i].file = g
           at2(g) == CHOOSE i \in 1..Len(results') : results'[i].file = g
<1>1. r \in Rows /\ results \in Seq(Rows) /\ r.file = f /\ r.status = status
  BY DEF TypeInv, TypeOK, Rows
<1>2. results' = Append(results, r)
  OBVIOUS
<1> HIDE DEF r
<1>3. /\ n \in Nat /\ Len(results') = n + 1 /\ results'[n + 1] = r
      /\ \A i \in 1..n : results'[i] = results[i]
  BY <1>1, <1>2
<1>4. \A i \in 1..n : results[i].file # f
  BY DEF RowInv
<1>5. DOMAIN RowsBar = {results[i].file : i \in 1..n}
  BY DEF RowsBar
<1>6. DOMAIN RowsBar' = DOMAIN RowsBar \cup {f}
  BY <1>1, <1>3, <1>5 DEF RowsBar
<1>7. RowsBar'[f] = status
  <2>1. at2(f) = n + 1
    BY <1>1, <1>3, <1>4
  <2>2. f \in {results'[i].file : i \in 1..Len(results')}
    BY <1>1, <1>3
  <2> QED
    BY <1>1, <1>3, <2>1, <2>2 DEF RowsBar
<1>8. ASSUME NEW g \in DOMAIN RowsBar PROVE RowsBar'[g] = RowsBar[g] /\ g # f
  <2>1. PICK i \in 1..n : results[i].file = g
    BY <1>5
  <2>2. at(g) = i
    BY <2>1 DEF RowInv
  <2>3. g # f /\ i \in 1..Len(results') /\ results'[i].file = g
    BY <1>3, <1>4, <2>1
  <2>4. \A j \in 1..Len(results') : results'[j].file = g => j = i
    BY <1>1, <1>3, <2>1, <2>3 DEF RowInv
  <2>5. at2(g) = i
    BY <2>3, <2>4
  <2>6. g \in {results'[j].file : j \in 1..Len(results')}
    BY <2>3
  <2>7. RowsBar'[g] = results'[at2(g)].status
    BY <2>6 DEF RowsBar
  <2>8. RowsBar[g] = results[at(g)].status
    BY <1>5 DEF RowsBar
  <2> QED
    BY <1>3, <2>1, <2>2, <2>3, <2>5, <2>7, <2>8
<1>9. f \notin DOMAIN RowsBar
  BY <1>4, <1>5
<1>10. RowsBar' = [g \in DOMAIN RowsBar' |-> RowsBar'[g]]
  <2> DEFINE D == {results'[i].file : i \in 1..Len(results')}
             value(g) == results'[at2(g)].status
  <2>1. RowsBar' = [g \in D |-> value(g)]
    BY DEF RowsBar
  <2> HIDE DEF D, value
  <2> QED
    BY <2>1
<1> QED
  BY <1>6, <1>7, <1>8, <1>9, <1>10
LEMMA PromiseInit == Init => Promise!Init
<1> SUFFICES ASSUME Init PROVE Promise!Init
  OBVIOUS
<1>1. ~Lost
  BY DEF Init, Lost
<1>2. CallBar = "running"
  BY DEF Init, CallBar
<1>3. DOMAIN RowsBar = {}
  BY DEF Init, RowsBar
<1>4. RowsBar = [f \in {} |-> "failed"]
  BY <1>3 DEF RowsBar
<1> QED
  BY <1>1, <1>2, <1>4 DEF Promise!Init, Lost, CallBar, RowsBar

LEMMA PromiseStep ==
  TypeInv /\ RowInv /\ FutureInv /\ [Next]_vars => [Promise!Next]_(Promise!vars)
<1> SUFFICES ASSUME TypeInv, RowInv, FutureInv, [Next]_vars
             PROVE  [Promise!Next]_(Promise!vars)
  OBVIOUS
<1>0. Lost => Lost'
  BY LossIsKnown DEF Lost
<1>a. ASSUME UNCHANGED RowsBar, UNCHANGED CallBar, UNCHANGED Lost
      PROVE  UNCHANGED Promise!vars
  BY <1>a DEF Promise!vars, RowsBar, CallBar, Lost
<1>b. ASSUME UNCHANGED RowsBar, UNCHANGED CallBar PROVE [Promise!Next]_(Promise!vars)
  <2>1. CASE UNCHANGED Lost
    BY <1>a, <1>b, <2>1
  <2>2. CASE ~Lost /\ Lost'
    <3>1. Promise!LoseWorker
      BY <1>b, <2>2 DEF Promise!LoseWorker, RowsBar, CallBar, Lost
    <3> QED
      BY <3>1 DEF Promise!Next
  <2> QED
    BY <1>0, <2>1, <2>2 DEF Lost
<1>1. CASE UNCHANGED <<results, phase>>
  BY <1>1, <1>b DEF RowsBar, CallBar
<1>2. CASE UNCHANGED results /\ {phase, phase'} \subseteq Working \cup Cleaning
  <2>1. UNCHANGED RowsBar
    BY <1>2 DEF RowsBar
  <2>2. UNCHANGED CallBar
    BY <1>2 DEF CallBar, Working, Cleaning
  <2> QED
    BY <2>1, <2>2, <1>b
<1>3. ASSUME NEW f \in Files, Collect(f), fut[f] # "interrupted"
      PROVE  [Promise!Next]_(Promise!vars)
  <2> DEFINE status == RowOf(fut[f])
  <2>1. /\ f \in Files \ yielded /\ status \in {"success", "failed"}
        /\ results' = Append(results, [file |-> f, status |-> status])
        /\ fut[f] \in Settled /\ phase = "collect" /\ phase' = "progress"
        /\ UNCHANGED worker
    BY <1>3 DEF Collect, Report, RowOf, procs
  <2>2. /\ f \notin DOMAIN RowsBar
        /\ RowsBar' = [g \in DOMAIN RowsBar \cup {f} |-> IF g = f THEN status ELSE RowsBar[g]]
    BY <2>1, AppendRow
  <2>3. status \in {OwnRow[f]} \cup (IF Lost THEN {"failed"} ELSE {})
    <3>1. fut[f] # "cancelled"
      BY <2>1 DEF FutureInv, Working
    <3>2. CASE fut[f] = "broken"
      BY <3>2 DEF FutureInv, RowOf
    <3>3. CASE fut[f] \in {"success", "failed", "raised"}
      BY <3>3 DEF FutureInv, OwnRow
    <3> QED
      BY <1>3, <2>1, <3>1, <3>2, <3>3 DEF Settled
  <2>4. CallBar = "running" /\ UNCHANGED CallBar /\ UNCHANGED Lost
    BY <2>1 DEF CallBar, Lost
  <2> HIDE DEF status
  <2>5. Promise!Deliver(f)
    BY <2>2, <2>3, <2>4 DEF Promise!Deliver, RowsBar, CallBar, Lost, OwnRow
  <2> QED
    BY <2>5 DEF Promise!Next
<1>4. ASSUME NEW f \in Files, Collect(f), fut[f] = "interrupted"
      PROVE  [Promise!Next]_(Promise!vars)
  BY <1>2, <1>4 DEF Collect, Report, Working, Cleaning
<1>5. CASE Join
  <2>1. CallBar = "running" /\ CallBar' = "returned" /\ UNCHANGED RowsBar /\ UNCHANGED Lost
    BY <1>5 DEF Join, CallBar, RowsBar, Lost, procs, rowvars
  <2>2. DOMAIN RowsBar = Files
    <3>1. \A f \in Files : HasRow(f)
      BY <1>5 DEF Join, RowInv
    <3>2. \A i \in 1..Len(results) : results[i].file \in Files
      BY DEF RowInv, TypeInv, TypeOK
    <3> QED
      BY <3>1, <3>2 DEF RowsBar, HasRow
  <2>3. Promise!Return
    BY <2>1, <2>2 DEF Promise!Return, CallBar, RowsBar, Lost
  <2> QED
    BY <2>3 DEF Promise!Next
<1>6. CASE ReapJoin \/ (Interrupt /\ phase \in Cleaning)
  <2>0. phase \in Cleaning /\ phase' \in {"raised", "abandoned"} /\ UNCHANGED <<results, worker>>
    BY <1>6 DEF ReapJoin, Interrupt, procs, rowvars, Working, Cleaning
  <2>1. CallBar = "running" /\ CallBar' = "raised" /\ UNCHANGED RowsBar /\ UNCHANGED Lost
    BY <2>0 DEF CallBar, RowsBar, Lost, Cleaning
  <2>2. Promise!Raise
    BY <2>1 DEF Promise!Raise, CallBar, RowsBar, Lost
  <2> QED
    BY <2>2 DEF Promise!Next
<1>7. CASE Coordinate \/ Interrupt \/ ProgressRaises
  BY <1>2, <1>3, <1>4, <1>5, <1>6, <1>7
     DEF Coordinate, Submit, SubmitRefused, Progress, ProgressRaises, Shutdown, CancelFutures,
         Terminate, Kill, Reap, Interrupt, Working, Cleaning, rowvars
<1>8. CASE \/ Manage \/ \E w \in Workers : Work(w) \/ InterruptWorker(w) \/ Crash(w)
           \/ Terminated \/ UNCHANGED vars
  BY <1>1, <1>8
     DEF Manage, Work, Feed, Settle, Break, StopBroken, StopIdle, StopAll, Take, Finish, Reply,
         InterruptWorker, Crash, Exit, Terminated, vars, rowvars
<1> QED
  BY <1>7, <1>8 DEF Next, Disturb

\* The scan keeps its promise, for every number of files and workers and
\* however they are lost: a file's row is its own, or a failed one once a worker
\* is lost; no row is taken back; and the call returns only with a row for
\* every file.
THEOREM PoolKeepsPromise == Spec => KeepsPromise
<1>1. Spec => []TypeInv
  BY TypeInvariant
<1>2. Spec => []RowInv
  <2>1. Init => RowInv
    BY DEF Init, RowInv, HasRow
  <2> QED
    BY <1>1, <2>1, RowStep, PTL DEF Spec
<1>3. Spec => []FutureInv
  BY <1>1, FutureInit, FutureStep, PTL DEF Spec
<1> QED
  BY <1>1, <1>2, <1>3, PromiseInit, PromiseStep, PTL DEF Spec, KeepsPromise, Promise!Spec
=============================================================================
