-------------------------- MODULE LoggingTransport --------------------------
(***************************************************************************)
(* multiprocessing_logging_context: the coordinator-owned transport that   *)
(* brings the log records of worker processes to the coordinator's         *)
(* handlers, for several scans of one process that overlap in time.        *)
(*                                                                         *)
(* An activation of the context manager sets a marker in the process       *)
(* environment (shared by all activations, under a lock), starts a manager *)
(* process that holds the queue and a listener thread that reads it, runs  *)
(* the body (a scan with its workers), then stops the listener, the        *)
(* manager, and releases the marker.  Each step of the set-up may fail or  *)
(* be interrupted, the body may raise, and the manager process may die.    *)
(***************************************************************************)
EXTENDS Integers, Sequences, FiniteSets

CONSTANTS Contexts,       \* the activations of the context manager
          MaxRecords,     \* bound on the records the workers of one body log
          MaxFaults       \* bound on failures, interrupts and deaths of managers

ASSUME ContextsAssumption == IsFiniteSet(Contexts)
ASSUME LoggingBounds == MaxRecords \in Nat /\ MaxFaults \in Nat

VARIABLES
  phase,      \* where each activation is
  env,        \* the marker variable of the process environment
  users,      \* _WORKER_LOGGING_ENV_USERS
  original,   \* _WORKER_LOGGING_ENV_ORIGINAL
  found,      \* the marker as it was before any activation
  manager,    \* each activation's manager process
  listener,   \* its listener: "none" when the body got no queue
  queue,      \* the manager's queue: records, then the sentinel "end"
  pool,       \* the workers of its body
  put,        \* how many records its workers have put on the queue
  owed,       \* how many of them were there when the body ended
  delivered,  \* how many records the listener has handed to the handlers
  cut,        \* the activations interrupted during their set-up
  faults

marker == <<env, users, original, found>>
transport == <<manager, listener, queue>>
records == <<put, owed, delivered>>
vars == <<phase, marker, transport, pool, records, cut, faults>>

SettingUp == {"manager", "queue", "listener"}
Phases == {"before", "yield", "body", "stop", "join", "shutdown", "release", "closed"}
            \cup SettingUp
Open(c) == phase[c] \notin {"before", "closed"}

Init ==
  /\ phase = [c \in Contexts |-> "before"]
  /\ env \in {"absent", "other"} /\ found = env
  /\ users = 0 /\ original = "absent"
  /\ manager = [c \in Contexts |-> "off"]
  /\ listener = [c \in Contexts |-> "none"]
  /\ queue = [c \in Contexts |-> <<>>]
  /\ pool = [c \in Contexts |-> "none"]
  /\ put = [c \in Contexts |-> 0] /\ owed = put /\ delivered = put
  /\ cut = {} /\ faults = 0

Goto(c, p) == phase' = [phase EXCEPT ![c] = p]
Fault == faults < MaxFaults /\ faults' = faults + 1

-----------------------------------------------------------------------------
(* The marker, taken and released under the lock.                          *)

\* Faulty: every owner saves the value it finds.
TakeMarkerAlways ==
  /\ original' = env /\ env' = "1"
  /\ users' = users + 1 /\ UNCHANGED found

\* The first owner saves the value it finds.
TakeMarker ==
  /\ IF users = 0 THEN original' = env /\ env' = "1"
                  ELSE UNCHANGED <<env, original>>
  /\ users' = users + 1 /\ UNCHANGED found

\* The last owner restores it.
DropMarker ==
  /\ users > 0
  /\ users' = users - 1
  /\ IF users = 1 THEN env' = original /\ original' = "absent"
                  ELSE UNCHANGED <<env, original>>
  /\ UNCHANGED found

-----------------------------------------------------------------------------
(* Entering the context.                                                   *)

\* Without handlers on the root logger there is nothing to transport to.
Enter(c) ==
  /\ phase[c] = "before"
  /\ TakeMarker
  /\ \E handlers \in BOOLEAN : Goto(c, IF handlers THEN "manager" ELSE "yield")
  /\ UNCHANGED <<transport, pool, records, cut, faults>>

StartManager(c) ==
  /\ phase[c] = "manager" /\ Goto(c, "queue")
  /\ manager' = [manager EXCEPT ![c] = "up"]
  /\ UNCHANGED <<marker, listener, queue, pool, records, cut, faults>>

MakeQueue(c) ==
  /\ phase[c] = "queue" /\ manager[c] = "up" /\ Goto(c, "listener")
  /\ UNCHANGED <<marker, transport, pool, records, cut, faults>>

StartListener(c) ==
  /\ phase[c] = "listener" /\ Goto(c, "yield")
  /\ listener' = [listener EXCEPT ![c] = "up"]
  /\ UNCHANGED <<marker, manager, queue, pool, records, cut, faults>>

\* Faulty: a failed set-up forgets the manager it has started.
AbandonSetUpLeaking(c) == manager' = manager

\* A failed set-up shuts down the manager it has started.
AbandonSetUp(c) ==
  manager' = [manager EXCEPT ![c] = IF @ = "up" THEN "off" ELSE @]

\* Any Exception of a set-up step: the scan goes on without a transport.  A
\* queue cannot be made in a manager that has died.
FailSetUp(c) ==
  /\ phase[c] \in SettingUp
  /\ IF phase[c] = "queue" /\ manager[c] = "dead" THEN UNCHANGED faults ELSE Fault
  /\ AbandonSetUp(c)
  /\ Goto(c, "yield")
  /\ UNCHANGED <<marker, listener, queue, pool, records, cut>>

\* An interrupt is no Exception: it passes the handler of the set-up and only
\* the marker is released.
InterruptSetUp(c) ==
  /\ phase[c] \in SettingUp \cup {"yield"} /\ Fault
  /\ Goto(c, "release") /\ cut' = cut \cup {c}
  /\ UNCHANGED <<marker, transport, pool, records>>

Yield(c) ==
  /\ phase[c] = "yield" /\ Goto(c, "body")
  /\ UNCHANGED <<marker, transport, pool, records, cut, faults>>

-----------------------------------------------------------------------------
(* The body: a scan whose workers log through the queue.                   *)

StartWorkers(c) ==
  /\ phase[c] = "body" /\ pool[c] = "none"
  /\ pool' = [pool EXCEPT ![c] = "running"]
  /\ UNCHANGED <<phase, marker, transport, records, cut, faults>>

\* A worker's QueueHandler puts a record; with no queue, or a manager that is
\* gone, the record is lost and the worker goes on.
Log(c) ==
  /\ pool[c] = "running" /\ listener[c] # "none" /\ manager[c] = "up"
  /\ put[c] < MaxRecords
  /\ put' = [put EXCEPT ![c] = @ + 1]
  /\ queue' = [queue EXCEPT ![c] = Append(@, "record")]
  /\ UNCHANGED <<phase, marker, manager, listener, pool, owed, delivered, cut, faults>>

\* The workers end: at shutdown of their pool, or killed after the body raised.
WorkersEnd(c) ==
  /\ pool[c] = "running"
  /\ pool' = [pool EXCEPT ![c] = "ended"]
  /\ UNCHANGED <<phase, marker, transport, records, cut, faults>>

\* A scan waits for its workers before it returns; one that raises does not.
EndBody(c) ==
  /\ phase[c] = "body" /\ Goto(c, "stop")
  /\ IF pool[c] = "running" THEN Fault ELSE UNCHANGED faults
  /\ owed' = [owed EXCEPT ![c] = put[c]]
  /\ UNCHANGED <<marker, transport, pool, put, delivered, cut>>

-----------------------------------------------------------------------------
(* The listener thread and the manager process.                            *)

Listen(c) ==
  /\ listener[c] = "up" /\ manager[c] = "up" /\ queue[c] # <<>>
  /\ queue' = [queue EXCEPT ![c] = Tail(@)]
  /\ IF Head(queue[c]) = "end"
     THEN listener' = [listener EXCEPT ![c] = "ended"] /\ UNCHANGED delivered
     ELSE delivered' = [delivered EXCEPT ![c] = @ + 1] /\ UNCHANGED listener
  /\ UNCHANGED <<phase, marker, manager, pool, put, owed, cut, faults>>

\* Reading from a manager that is gone raises and ends the thread.
ListenerFails(c) ==
  /\ listener[c] = "up" /\ manager[c] # "up"
  /\ listener' = [listener EXCEPT ![c] = "ended"]
  /\ UNCHANGED <<phase, marker, manager, queue, pool, records, cut, faults>>

ManagerDies(c) ==
  /\ manager[c] = "up" /\ phase[c] # "closed" /\ Fault
  /\ manager' = [manager EXCEPT ![c] = "dead"]
  /\ queue' = [queue EXCEPT ![c] = <<>>]
  /\ UNCHANGED <<phase, marker, listener, pool, records, cut>>

-----------------------------------------------------------------------------
(* Leaving the context.                                                    *)

\* Faulty: the sentinel overtakes the records.
PutSentinelFirst(q) == <<"end">> \o q

\* Faulty: the thread is joined and never told to end.
PutNothing(q) == q

PutSentinel(q) == Append(q, "end")

\* With a dead manager the put raises, which is swallowed, and nothing is
\* waited for.
AfterSentinel(c) == IF manager[c] = "up" THEN "join" ELSE "shutdown"

\* listener.stop(): the sentinel goes behind the records already there.
StopListener(c) ==
  /\ phase[c] = "stop"
  /\ IF listener[c] = "none"
     THEN Goto(c, "shutdown") /\ UNCHANGED queue
     ELSE /\ Goto(c, AfterSentinel(c))
          /\ queue' = IF manager[c] = "up"
                      THEN [queue EXCEPT ![c] = PutSentinel(@)] ELSE queue
  /\ UNCHANGED <<marker, manager, listener, pool, records, cut, faults>>

JoinListener(c) ==
  /\ phase[c] = "join" /\ listener[c] = "ended" /\ Goto(c, "shutdown")
  /\ UNCHANGED <<marker, transport, pool, records, cut, faults>>

\* After a failed set-up the context knows of no manager.
ShutdownManager(c) ==
  /\ phase[c] = "shutdown" /\ Goto(c, "release")
  /\ manager' = [manager EXCEPT ![c] = IF @ = "up" /\ listener[c] # "none" THEN "off" ELSE @]
  /\ UNCHANGED <<marker, listener, queue, pool, records, cut, faults>>

Release(c) ==
  /\ phase[c] = "release" /\ Goto(c, "closed")
  /\ DropMarker
  /\ UNCHANGED <<transport, pool, records, cut, faults>>

-----------------------------------------------------------------------------
Coordinate(c) ==
  \/ StartManager(c) \/ MakeQueue(c) \/ StartListener(c) \/ FailSetUp(c)
  \/ Yield(c) \/ EndBody(c)
  \/ StopListener(c) \/ JoinListener(c) \/ ShutdownManager(c) \/ Release(c)

Listener(c) == Listen(c) \/ ListenerFails(c)

Done == /\ \A c \in Contexts : phase[c] = "closed"
        /\ UNCHANGED vars

Next ==
  \/ \E c \in Contexts : \/ Enter(c) \/ InterruptSetUp(c) \/ Coordinate(c)
                         \/ StartWorkers(c) \/ Log(c) \/ WorkersEnd(c)
                         \/ Listener(c) \/ ManagerDies(c)
  \/ Done

Spec == Init /\ [][Next]_vars

\* Every thread of the coordinator goes on, and workers end.
Fairness == \A c \in Contexts : /\ WF_vars(Coordinate(c))
                                /\ WF_vars(Listener(c)) /\ WF_vars(WorkersEnd(c))

FairSpec == Spec /\ Fairness

-----------------------------------------------------------------------------
TypeOK ==
  /\ phase \in [Contexts -> Phases]
  /\ env \in {"absent", "other", "1"} /\ original \in {"absent", "other", "1"}
  /\ found \in {"absent", "other"} /\ users \in Nat
  /\ manager \in [Contexts -> {"off", "up", "dead"}]
  /\ listener \in [Contexts -> {"none", "up", "ended"}]
  /\ queue \in [Contexts -> Seq({"record", "end"})]
  /\ pool \in [Contexts -> {"none", "running", "ended"}]
  /\ put \in [Contexts -> Nat] /\ owed \in [Contexts -> Nat]
  /\ delivered \in [Contexts -> Nat]
  /\ cut \subseteq Contexts /\ faults \in Nat

\* While any scan is inside its context, however the others come and go, the
\* environment carries the marker its workers read when they are spawned;
\* when none is, the environment is what it was (_acquire_worker_logging_marker,
\* _release_worker_logging_marker).
MarkerFollowsScans ==
  env = IF \E c \in Contexts : Open(c) THEN "1" ELSE found

\* When a context closes, every record its workers had put on the queue by the
\* end of the body has reached the handlers, unless the manager process died
\* (listener.stop drains the queue before file handlers can be closed).
RecordsArrive ==
  \A c \in Contexts : phase[c] = "closed" /\ manager[c] # "dead" /\ c \notin cut
                        => delivered[c] >= owed[c]

\* A closed context leaves no manager process and, with its manager alive to
\* the end, no listener, whichever step of the set-up failed; an interrupt of
\* the set-up is the exception, it leaves them to the garbage collector.
NothingLeftRunning ==
  \A c \in Contexts : phase[c] = "closed" /\ c \notin cut
                        => manager[c] # "up" /\ (manager[c] = "off" => listener[c] # "up")

\* A context that is entered is left again, even when the manager dies while
\* the listener is waited for.
ContextsClose == \A c \in Contexts : Open(c) ~> phase[c] = "closed"
=============================================================================
