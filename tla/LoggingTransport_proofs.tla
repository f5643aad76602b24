---------------------- MODULE LoggingTransport_proofs ----------------------
(***************************************************************************)
(* The marker of the process environment follows the open contexts, for    *)
(* every finite set of activations, whichever steps fail or are            *)
(* interrupted.                                                            *)
(*                                                                         *)
(* MarkerFollowsScans alone is not inductive: it says nothing of the       *)
(* counter and of the saved value, from which the last owner restores the  *)
(* environment.  MarkerIsCounted adds that the counter is the number of    *)
(* open contexts, and what is saved while there is one.                    *)
(*                                                                         *)
(* That a closed context leaves nothing running, and that the records of   *)
(* its workers have arrived, follow from what is known of one activation   *)
(* at each of its phases: Hosted for its manager and listener, Accounted   *)
(* for its records.                                                        *)
(***************************************************************************)
EXTENDS LoggingTransport, FiniteSetTheorems, TLAPS

Opened == {c \in Contexts : Open(c)}

MarkerIsCounted ==
  /\ users = Cardinality(Opened)
  /\ users = 0 => env = found /\ original = "absent"
  /\ users > 0 => env = "1" /\ original = found

-----------------------------------------------------------------------------
(* Type correctness.                                                       *)

\* The steps of the set-up, its failures included, keep the types.
LEMMA SetUpTypes ==
  ASSUME TypeOK, NEW c \in Contexts,
         \/ Enter(c) \/ StartManager(c) \/ MakeQueue(c) \/ StartListener(c)
         \/ FailSetUp(c) \/ InterruptSetUp(c) \/ Yield(c)
  PROVE  TypeOK'
<1> USE DEF TypeOK, Goto, Phases, SettingUp, marker, transport, records
<1>1. CASE Enter(c)
  <2>1. PICK handlers \in BOOLEAN :
          phase' = [phase EXCEPT ![c] = IF handlers THEN "manager" ELSE "yield"]
    BY <1>1 DEF Enter
  <2>2. phase' \in [Contexts -> Phases]  BY <2>1
  <2>3. /\ env' \in {"absent", "other", "1"} /\ original' \in {"absent", "other", "1"}
        /\ found' \in {"absent", "other"} /\ users' \in Nat
    BY <1>1 DEF Enter, TakeMarker
  <2> QED  BY <1>1, <2>2, <2>3 DEF Enter
<1>2. CASE StartManager(c)  BY <1>2 DEF StartManager
<1>3. CASE MakeQueue(c)  BY <1>3 DEF MakeQueue
<1>4. CASE StartListener(c)  BY <1>4 DEF StartListener
<1>5. CASE FailSetUp(c)
  <2>1. faults' \in Nat  BY <1>5 DEF FailSetUp, Fault
  <2>2. manager' \in [Contexts -> {"off", "up", "dead"}]  BY <1>5 DEF FailSetUp, AbandonSetUp
  <2> QED  BY <1>5, <2>1, <2>2 DEF FailSetUp
<1>6. CASE InterruptSetUp(c)  BY <1>6 DEF InterruptSetUp, Fault
<1>7. CASE Yield(c)  BY <1>7 DEF Yield
<1> QED  BY <1>1, <1>2, <1>3, <1>4, <1>5, <1>6, <1>7

\* So do those of the body, the workers, the listener and the manager.
LEMMA BodyTypes ==
  ASSUME TypeOK, NEW c \in Contexts,
         \/ StartWorkers(c) \/ Log(c) \/ WorkersEnd(c) \/ EndBody(c)
         \/ Listen(c) \/ ListenerFails(c) \/ ManagerDies(c)
  PROVE  TypeOK'
<1> USE DEF TypeOK, Goto, marker, transport, records
<1>1. CASE StartWorkers(c)  BY <1>1 DEF StartWorkers
<1>2. CASE Log(c)
  <2>1. put' \in [Contexts -> Nat]  BY <1>2 DEF Log
  <2>2. queue[c] \in Seq({"record", "end"})  OBVIOUS
  <2>3. Append(queue[c], "record") \in Seq({"record", "end"})  BY <2>2
  <2>4. queue' \in [Contexts -> Seq({"record", "end"})]  BY <1>2, <2>3 DEF Log
  <2> QED  BY <1>2, <2>1, <2>4 DEF Log
<1>3. CASE WorkersEnd(c)  BY <1>3 DEF WorkersEnd
<1>4. CASE EndBody(c)
  <2>1. faults' \in Nat  BY <1>4 DEF EndBody, Fault
  <2>2. phase' \in [Contexts -> Phases]  BY <1>4 DEF EndBody, Phases
  <2> QED  BY <1>4, <2>1, <2>2 DEF EndBody
<1>5. CASE Listen(c)
  <2>1. queue[c] \in Seq({"record", "end"}) /\ queue[c] # <<>>  BY <1>5 DEF Listen
  <2>2. Tail(queue[c]) \in Seq({"record", "end"})  BY <2>1
  <2>3. queue' \in [Contexts -> Seq({"record", "end"})]  BY <1>5, <2>2 DEF Listen
  <2>4. /\ listener' \in [Contexts -> {"none", "up", "ended"}]
        /\ delivered' \in [Contexts -> Nat]
    <3>1. \/ listener' = [listener EXCEPT ![c] = "ended"] /\ delivered' = delivered
          \/ delivered' = [delivered EXCEPT ![c] = @ + 1] /\ listener' = listener
      BY <1>5, Zenon DEF Listen
    <3>2. [listener EXCEPT ![c] = "ended"] \in [Contexts -> {"none", "up", "ended"}]
      OBVIOUS
    <3>3. [delivered EXCEPT ![c] = @ + 1] \in [Contexts -> Nat]  OBVIOUS
    <3>4. listener \in [Contexts -> {"none", "up", "ended"}]
          /\ delivered \in [Contexts -> Nat]
      OBVIOUS
    <3> HIDE DEF TypeOK
    <3> QED  BY <3>1, <3>2, <3>3, <3>4, Zenon
  <2> QED  BY <1>5, <2>3, <2>4 DEF Listen
<1>6. CASE ListenerFails(c)  BY <1>6 DEF ListenerFails
<1>7. CASE ManagerDies(c)
  <2>1. queue' \in [Contexts -> Seq({"record", "end"})]  BY <1>7 DEF ManagerDies
  <2> QED  BY <1>7, <2>1 DEF ManagerDies, Fault
<1> QED  BY <1>1, <1>2, <1>3, <1>4, <1>5, <1>6, <1>7

\* And those that leave the context.
LEMMA LeavingTypes ==
  ASSUME TypeOK, NEW c \in Contexts,
         StopListener(c) \/ JoinListener(c) \/ ShutdownManager(c) \/ Release(c)
  PROVE  TypeOK'
<1> USE DEF TypeOK, Goto, Phases, marker, transport, records
<1>1. CASE StopListener(c)
  <2>1. phase' \in [Contexts -> Phases]  BY <1>1 DEF StopListener, AfterSentinel
  <2>2. queue[c] \in Seq({"record", "end"})  OBVIOUS
  <2>3. PutSentinel(queue[c]) \in Seq({"record", "end"})  BY <2>2 DEF PutSentinel
  <2>4. queue' \in [Contexts -> Seq({"record", "end"})]  BY <1>1, <2>3 DEF StopListener
  <2> QED  BY <1>1, <2>1, <2>4 DEF StopListener
<1>2. CASE JoinListener(c)  BY <1>2 DEF JoinListener
<1>3. CASE ShutdownManager(c)  BY <1>3 DEF ShutdownManager
<1>4. CASE Release(c)
  <2>1. /\ env' \in {"absent", "other", "1"} /\ original' \in {"absent", "other", "1"}
        /\ found' \in {"absent", "other"} /\ users' \in Nat
    BY <1>4 DEF Release, DropMarker
  <2> QED  BY <1>4, <2>1 DEF Release
<1> QED  BY <1>1, <1>2, <1>3, <1>4

\* The variables of the transport keep their types whatever fails or dies.
THEOREM TransportTypes == Spec => []TypeOK
<1>1. Init => TypeOK  BY DEF Init, TypeOK, Phases, SettingUp
<1>2. TypeOK /\ [Next]_vars => TypeOK'
  <2> SUFFICES ASSUME TypeOK, [Next]_vars PROVE TypeOK'  OBVIOUS
  <2>1. CASE UNCHANGED vars  BY <2>1 DEF TypeOK, vars, marker, transport, records
  <2>2. CASE Next  BY <2>1, <2>2, SetUpTypes, BodyTypes, LeavingTypes
          DEF Next, Done, Coordinate, Listener
  <2> QED  BY <2>1, <2>2
<1> QED  BY <1>1, <1>2, PTL DEF Spec

-----------------------------------------------------------------------------
(* The marker.                                                             *)

\* A step of an open context that leaves it open opens and closes nothing.
LEMMA OpenedStays ==
  ASSUME TypeOK, NEW c \in Contexts, Open(c),
         NEW p \in Phases \ {"before", "closed"}, Goto(c, p)
  PROVE  Opened' = Opened
BY DEF TypeOK, Opened, Open, Goto

\* Neither does a step that moves no context.
LEMMA OpenedUnmoved ==
  ASSUME UNCHANGED phase
  PROVE  Opened' = Opened
BY DEF Opened, Open

\* A step that neither opens nor closes a context and leaves the marker alone.
LEMMA MarkerUntouched ==
  ASSUME MarkerIsCounted, UNCHANGED marker, Opened' = Opened
  PROVE  MarkerIsCounted'
BY DEF MarkerIsCounted, marker

LEMMA OpenedFinite == IsFiniteSet(Opened) /\ Cardinality(Opened) \in Nat
<1>1. Opened \subseteq Contexts  BY DEF Opened
<1>2. IsFiniteSet(Opened)  BY <1>1, ContextsAssumption, FS_Subset
<1> QED  BY <1>2, FS_CardinalityType

\* The first owner saves what it found, a later one finds it saved.
LEMMA EnterCounts ==
  ASSUME TypeOK, MarkerIsCounted, NEW c \in Contexts, Enter(c)
  PROVE  MarkerIsCounted'
<1>1. PICK p \in {"manager", "yield"} : phase' = [phase EXCEPT ![c] = p]
  BY DEF Enter, Goto
<1>2. Opened' = Opened \cup {c} /\ c \notin Opened
  BY <1>1 DEF Enter, TypeOK, Opened, Open
<1>3. Cardinality(Opened') = Cardinality(Opened) + 1
  BY <1>2, OpenedFinite, FS_AddElement
<1>4. users' = users + 1 /\ users \in Nat /\ found' = found
  BY DEF Enter, TakeMarker, TypeOK
<1>5. users' = Cardinality(Opened')  BY <1>3, <1>4 DEF MarkerIsCounted
<1>6. env' = "1" /\ original' = found'
  <2>1. CASE users = 0  BY <2>1, <1>4 DEF Enter, TakeMarker, MarkerIsCounted
  <2>2. CASE users # 0  BY <2>2, <1>4 DEF Enter, TakeMarker, MarkerIsCounted
  <2> QED  BY <2>1, <2>2
<1> QED  BY <1>4, <1>5, <1>6 DEF MarkerIsCounted

\* The last owner restores it.
LEMMA ReleaseCounts ==
  ASSUME TypeOK, MarkerIsCounted, NEW c \in Contexts, Release(c)
  PROVE  MarkerIsCounted'
<1>1. Opened' = Opened \ {c} /\ c \in Opened
  BY DEF Release, Goto, TypeOK, Opened, Open
<1>2. Cardinality(Opened') = Cardinality(Opened) - 1
  BY <1>1, OpenedFinite, FS_RemoveElement
<1>3. users' = users - 1 /\ users \in Nat /\ users > 0 /\ found' = found
  BY DEF Release, DropMarker, TypeOK
<1>4. users' = Cardinality(Opened')  BY <1>2, <1>3 DEF MarkerIsCounted
<1>5. CASE users = 1
  BY <1>3, <1>4, <1>5 DEF Release, DropMarker, MarkerIsCounted
<1>6. CASE users # 1
  BY <1>3, <1>4, <1>6 DEF Release, DropMarker, MarkerIsCounted
<1> QED  BY <1>3, <1>5, <1>6

\* Every other step leaves the marker alone and no context opens or closes.
LEMMA OthersCount ==
  ASSUME TypeOK, MarkerIsCounted, NEW c \in Contexts,
         \/ StartManager(c) \/ MakeQueue(c) \/ StartListener(c) \/ FailSetUp(c)
         \/ InterruptSetUp(c) \/ Yield(c)
         \/ StartWorkers(c) \/ Log(c) \/ WorkersEnd(c) \/ EndBody(c)
         \/ Listen(c) \/ ListenerFails(c) \/ ManagerDies(c)
         \/ StopListener(c) \/ JoinListener(c) \/ ShutdownManager(c)
  PROVE  MarkerIsCounted'
<1> USE DEF Phases, SettingUp
<1>1. UNCHANGED marker
  BY DEF StartManager, MakeQueue, StartListener, FailSetUp, InterruptSetUp, Yield,
         StartWorkers, Log, WorkersEnd, EndBody, Listen, ListenerFails, ManagerDies,
         StopListener, JoinListener, ShutdownManager
<1>2. \/ UNCHANGED phase
      \/ Open(c) /\ \E p \in Phases \ {"before", "closed"} : Goto(c, p)
  <2>1. CASE StartManager(c) \/ MakeQueue(c) \/ StartListener(c) \/ FailSetUp(c)
               \/ InterruptSetUp(c) \/ Yield(c) \/ EndBody(c)
    BY <2>1 DEF StartManager, MakeQueue, StartListener, FailSetUp, InterruptSetUp,
                Yield, EndBody, Open
  <2>2. CASE StopListener(c) \/ JoinListener(c) \/ ShutdownManager(c)
    BY <2>2 DEF StopListener, AfterSentinel, JoinListener, ShutdownManager, Open
  <2>3. CASE StartWorkers(c) \/ Log(c) \/ WorkersEnd(c)
               \/ Listen(c) \/ ListenerFails(c) \/ ManagerDies(c)
    BY <2>3 DEF StartWorkers, Log, WorkersEnd, Listen, ListenerFails, ManagerDies
  <2> QED  BY <2>1, <2>2, <2>3
<1>3. Opened' = Opened  BY <1>2, OpenedStays, OpenedUnmoved
<1> QED  BY <1>1, <1>3, MarkerUntouched

\* The counter and the saved value belong to the contexts that are open.
THEOREM MarkerCount == Spec => []MarkerIsCounted
<1>1. Init => MarkerIsCounted
  <2> SUFFICES ASSUME Init PROVE MarkerIsCounted  OBVIOUS
  <2>1. Opened = {}  BY DEF Init, Opened, Open
  <2>2. Cardinality(Opened) = 0  BY <2>1, FS_EmptySet
  <2> QED  BY <2>2 DEF Init, MarkerIsCounted
<1>2. TypeOK /\ MarkerIsCounted /\ [Next]_vars => MarkerIsCounted'
  <2> SUFFICES ASSUME TypeOK, MarkerIsCounted, [Next]_vars PROVE MarkerIsCounted'
    OBVIOUS
  <2>1. CASE UNCHANGED vars
    <3>1. UNCHANGED phase /\ UNCHANGED marker  BY <2>1 DEF vars
    <3> QED  BY <3>1, OpenedUnmoved, MarkerUntouched
  <2>2. CASE Next  BY <2>1, <2>2, EnterCounts, ReleaseCounts, OthersCount
          DEF Next, Done, Coordinate, Listener
  <2> QED  BY <2>1, <2>2
<1> QED  BY <1>1, <1>2, TransportTypes, PTL DEF Spec

\* While any scan is inside its context the environment carries the marker,
\* and when none is, it is what it was (_acquire_worker_logging_marker,
\* _release_worker_logging_marker), for every number of overlapping scans.
THEOREM EnvironmentIsRestored == Spec => []MarkerFollowsScans
<1>1. TypeOK /\ MarkerIsCounted => MarkerFollowsScans
  <2> SUFFICES ASSUME TypeOK, MarkerIsCounted PROVE MarkerFollowsScans  OBVIOUS
  <2>1. users = 0 <=> Opened = {}
    BY OpenedFinite, FS_EmptySet DEF MarkerIsCounted
  <2>2. users \in Nat  BY DEF TypeOK
  <2>3. Opened = {} <=> ~ \E c \in Contexts : Open(c)  BY DEF Opened
  <2> QED  BY <2>1, <2>2, <2>3 DEF MarkerIsCounted, MarkerFollowsScans
<1> QED  BY <1>1, TransportTypes, MarkerCount, PTL

-----------------------------------------------------------------------------
(* What an activation leaves behind.                                       *)

\* The manager and the listener of an activation, phase by phase.
Hosted(c) ==
  c \notin cut =>
    /\ phase[c] \in {"before", "manager"} => manager[c] = "off" /\ listener[c] = "none"
    /\ phase[c] \in {"queue", "listener"} => manager[c] # "off" /\ listener[c] = "none"
    /\ phase[c] \in {"yield", "body", "stop"} =>
         IF listener[c] = "none" THEN manager[c] # "up" ELSE manager[c] # "off"
    /\ phase[c] = "join" => listener[c] # "none" /\ manager[c] # "off"
    /\ phase[c] = "shutdown" =>
         IF listener[c] = "none" THEN manager[c] # "up"
                                 ELSE listener[c] = "up" => manager[c] = "dead"
    /\ phase[c] \in {"release", "closed"} =>
         manager[c] # "up" /\ (manager[c] = "off" => listener[c] # "up")

\* The sentinel is on the queue behind enough records.
EndAhead(c) ==
  \E i \in 1..Len(queue[c]) : /\ \A j \in 1..(i - 1) : queue[c][j] = "record"
                             /\ queue[c][i] = "end"
                             /\ delivered[c] + i - 1 >= owed[c]

\* Its records: on the queue, then behind the sentinel or delivered.
Accounted(c) ==
  c \notin cut =>
    /\ listener[c] = "none" => put[c] = 0 /\ owed[c] = 0
    /\ phase[c] \in {"before", "manager", "queue", "listener"} => queue[c] = <<>>
    /\ manager[c] # "dead" =>
         /\ phase[c] \in {"yield", "body", "stop"} /\ listener[c] # "none" =>
              /\ listener[c] = "up"
              /\ \A i \in 1..Len(queue[c]) : queue[c][i] = "record"
              /\ delivered[c] + Len(queue[c]) >= put[c] /\ put[c] >= owed[c]
         /\ phase[c] = "join" => \/ listener[c] = "up" /\ EndAhead(c)
                                 \/ listener[c] = "ended" /\ delivered[c] >= owed[c]
         /\ phase[c] \in {"shutdown", "release", "closed"} => delivered[c] >= owed[c]

\* What the invariants read of an activation.
StateOf(c) == <<phase[c], manager[c], listener[c], queue[c], put[c], owed[c],
                delivered[c], c \in cut>>

\* The steps of one activation, or of its listener, workers and manager.
Steps(c) == \/ Enter(c) \/ InterruptSetUp(c) \/ Coordinate(c)
            \/ StartWorkers(c) \/ Log(c) \/ WorkersEnd(c) \/ Listener(c) \/ ManagerDies(c)

\* A step of one activation changes nothing of another.
LEMMA StepsApart ==
  ASSUME TypeOK, NEW c \in Contexts, Steps(c), NEW d \in Contexts, d # c
  PROVE  StateOf(d)' = StateOf(d)
<1> USE DEF TypeOK, StateOf, Goto, transport, records
<1>1. CASE Enter(c) \/ StartManager(c) \/ MakeQueue(c) \/ StartListener(c) \/ Yield(c)
  BY <1>1 DEF Enter, StartManager, MakeQueue, StartListener, Yield
<1>2. CASE FailSetUp(c) \/ InterruptSetUp(c)
  BY <1>2 DEF FailSetUp, AbandonSetUp, InterruptSetUp
<1>3. CASE StartWorkers(c) \/ Log(c) \/ WorkersEnd(c) \/ EndBody(c)
  BY <1>3 DEF StartWorkers, Log, WorkersEnd, EndBody
<1>4. CASE Listen(c) \/ ListenerFails(c) \/ ManagerDies(c)
  <2>1. CASE Listen(c) /\ Head(queue[c]) = "end"  BY <2>1 DEF Listen
  <2>2. CASE Listen(c) /\ Head(queue[c]) # "end"  BY <2>2 DEF Listen
  <2>3. CASE ListenerFails(c)  BY <2>3 DEF ListenerFails
  <2>4. CASE ManagerDies(c)  BY <2>4 DEF ManagerDies
  <2> QED  BY <1>4, <2>1, <2>2, <2>3, <2>4
<1>5. CASE StopListener(c) \/ JoinListener(c) \/ ShutdownManager(c) \/ Release(c)
  BY <1>5 DEF StopListener, JoinListener, ShutdownManager, Release
<1> QED  BY <1>1, <1>2, <1>3, <1>4, <1>5 DEF Steps, Coordinate, Listener

\* An activation of which nothing changes keeps what is known of it.
LEMMA StandingStill ==
  ASSUME NEW c \in Contexts, StateOf(c)' = StateOf(c)
  PROVE  (Hosted(c) => Hosted(c)') /\ (Accounted(c) => Accounted(c)')
BY DEF StateOf, Hosted, Accounted, EndAhead

\* Whatever step it makes, an activation's manager and listener are where its
\* phase says.
LEMMA StepsHost ==
  ASSUME TypeOK, NEW c \in Contexts, Hosted(c), Steps(c)
  PROVE  Hosted(c)'
<1> USE DEF TypeOK, Hosted, Goto, Phases, SettingUp, transport
<1>1. CASE Enter(c)
  <2>1. PICK p \in {"manager", "yield"} : phase' = [phase EXCEPT ![c] = p]
    BY <1>1 DEF Enter
  <2> QED  BY <1>1, <2>1 DEF Enter
<1>2. CASE StartManager(c)  BY <1>2 DEF StartManager
<1>3. CASE MakeQueue(c)  BY <1>3 DEF MakeQueue
<1>4. CASE StartListener(c)  BY <1>4 DEF StartListener
<1>5. CASE FailSetUp(c)  BY <1>5 DEF FailSetUp, AbandonSetUp
<1>6. CASE InterruptSetUp(c)  BY <1>6 DEF InterruptSetUp
<1>7. CASE Yield(c)  BY <1>7 DEF Yield
<1>8. CASE StartWorkers(c) \/ Log(c) \/ WorkersEnd(c)
  BY <1>8 DEF StartWorkers, Log, WorkersEnd
<1>9. CASE EndBody(c)  BY <1>9 DEF EndBody
<1>10. CASE Listen(c)
  <2>1. /\ phase' = phase /\ manager' = manager /\ cut' = cut
        /\ listener' \in {listener, [listener EXCEPT ![c] = "ended"]}
        /\ listener[c] = "up" /\ manager[c] = "up"
    BY <1>10 DEF Listen
  <2> QED  BY <2>1
<1>11. CASE ListenerFails(c)  BY <1>11 DEF ListenerFails
<1>12. CASE ManagerDies(c)  BY <1>12 DEF ManagerDies
<1>13. CASE StopListener(c)
  <2>1. /\ manager' = manager /\ listener' = listener /\ cut' = cut /\ phase[c] = "stop"
        /\ phase' = [phase EXCEPT ![c] = IF listener[c] = "none" THEN "shutdown"
                                        ELSE AfterSentinel(c)]
    BY <1>13 DEF StopListener
  <2> QED  BY <2>1 DEF AfterSentinel
<1>14. CASE JoinListener(c)  BY <1>14 DEF JoinListener
<1>15. CASE ShutdownManager(c)  BY <1>15 DEF ShutdownManager
<1>16. CASE Release(c)  BY <1>16 DEF Release
<1> QED  BY <1>1, <1>2, <1>3, <1>4, <1>5, <1>6, <1>7, <1>8, <1>9, <1>10, <1>11,
            <1>12, <1>13, <1>14, <1>15, <1>16 DEF Steps, Coordinate, Listener

\* A record put on the queue leaves the sentinel where it is.
LEMMA LogAccounts ==
  ASSUME TypeOK, NEW c \in Contexts, Hosted(c), Accounted(c), Log(c)
  PROVE  Accounted(c)'
<1>1. /\ phase' = phase /\ manager' = manager /\ listener' = listener /\ cut' = cut
      /\ owed' = owed /\ delivered' = delivered
      /\ put'[c] = put[c] + 1 /\ queue'[c] = Append(queue[c], "record")
      /\ listener[c] # "none" /\ manager[c] = "up"
  BY DEF Log, TypeOK, transport, records
<1>2. /\ queue[c] \in Seq({"record", "end"}) /\ phase[c] \in Phases
      /\ put[c] \in Nat /\ owed[c] \in Nat /\ delivered[c] \in Nat
  BY DEF TypeOK
<1>3. /\ Len(queue'[c]) = Len(queue[c]) + 1 /\ queue'[c][Len(queue[c]) + 1] = "record"
      /\ \A i \in 1..Len(queue[c]) : queue'[c][i] = queue[c][i]
  BY <1>1, <1>2
<1>4. EndAhead(c) => EndAhead(c)'
  <2> SUFFICES ASSUME EndAhead(c) PROVE EndAhead(c)'  OBVIOUS
  <2>1. PICK i \in 1..Len(queue[c]) : /\ \A j \in 1..(i - 1) : queue[c][j] = "record"
                                     /\ queue[c][i] = "end"
                                     /\ delivered[c] + i - 1 >= owed[c]
    BY DEF EndAhead
  <2>2. i \in 1..Len(queue'[c])  BY <1>2, <1>3
  <2>3. \A j \in 1..(i - 1) : queue'[c][j] = "record"
    <3> TAKE j \in 1..(i - 1)
    <3>1. queue[c][j] = "record"  BY <2>1
    <3>2. j \in 1..Len(queue[c])  BY <1>2
    <3> QED  BY <1>3, <3>1, <3>2
  <2> QED  BY <1>1, <1>3, <2>1, <2>2, <2>3 DEF EndAhead
<1>5. CASE c \in cut  BY <1>1, <1>5 DEF Accounted
<1>6. CASE c \notin cut
  <2>1. phase[c] \notin {"before", "manager", "queue", "listener"}
    BY <1>1, <1>6 DEF Hosted
  <2> QED  BY <1>1, <1>2, <1>3, <1>4, <1>6, <2>1 DEF Accounted
<1> QED  BY <1>5, <1>6

\* A record handed on is one less before the sentinel; the sentinel is read
\* when all owed ones are delivered.
LEMMA ListenAccounts ==
  ASSUME TypeOK, NEW c \in Contexts, Hosted(c), Accounted(c), Listen(c)
  PROVE  Accounted(c)'
<1>1. /\ phase' = phase /\ manager' = manager /\ cut' = cut
      /\ owed' = owed /\ put' = put
      /\ listener[c] = "up" /\ manager[c] = "up" /\ queue[c] # <<>>
      /\ queue'[c] = Tail(queue[c])
  BY DEF Listen, TypeOK
<1>2. /\ queue[c] \in Seq({"record", "end"}) /\ phase[c] \in Phases
      /\ put[c] \in Nat /\ owed[c] \in Nat /\ delivered[c] \in Nat
  BY DEF TypeOK
<1>3. /\ Len(queue[c]) \in Nat \ {0} /\ Head(queue[c]) = queue[c][1]
      /\ Len(queue'[c]) = Len(queue[c]) - 1
      /\ \A i \in 1..Len(queue'[c]) : queue'[c][i] = queue[c][i + 1]
  BY <1>1, <1>2
<1>4. CASE c \in cut  BY <1>1, <1>4 DEF Accounted
<1>5. CASE c \notin cut /\ Head(queue[c]) = "end"
  <2>1. listener'[c] = "ended" /\ delivered' = delivered
    BY <1>5 DEF Listen, TypeOK
  <2>2. phase[c] \notin {"before", "manager", "queue", "listener"}
    BY <1>1, <1>5 DEF Hosted
  <2>3. phase[c] \notin {"yield", "body", "stop"}
    BY <1>1, <1>2, <1>3, <1>5 DEF Accounted
  <2>4. phase[c] = "join" => delivered[c] >= owed[c]
    <3> SUFFICES ASSUME phase[c] = "join" PROVE delivered[c] >= owed[c]  OBVIOUS
    <3>1. EndAhead(c)  BY <1>1, <1>5 DEF Accounted
    <3>2. PICK i \in 1..Len(queue[c]) : /\ \A j \in 1..(i - 1) : queue[c][j] = "record"
                                       /\ queue[c][i] = "end"
                                       /\ delivered[c] + i - 1 >= owed[c]
      BY <3>1 DEF EndAhead
    <3>3. i = 1  BY <1>3, <1>5, <3>2
    <3> QED  BY <1>2, <3>2, <3>3
  <2> QED  BY <1>1, <1>5, <2>1, <2>2, <2>3, <2>4 DEF Accounted
<1>6. CASE c \notin cut /\ Head(queue[c]) # "end"
  <2>1. listener' = listener /\ delivered'[c] = delivered[c] + 1
    BY <1>6 DEF Listen, TypeOK
  <2>2. phase[c] \notin {"before", "manager", "queue", "listener"}
    BY <1>1, <1>6 DEF Hosted
  <2>3. EndAhead(c) => EndAhead(c)'
    <3> SUFFICES ASSUME EndAhead(c) PROVE EndAhead(c)'  OBVIOUS
    <3>1. PICK i \in 1..Len(queue[c]) : /\ \A j \in 1..(i - 1) : queue[c][j] = "record"
                                       /\ queue[c][i] = "end"
                                       /\ delivered[c] + i - 1 >= owed[c]
      BY DEF EndAhead
    <3>2. i # 1  BY <1>3, <1>6, <3>1
    <3>3. i - 1 \in 1..Len(queue'[c])  BY <1>3, <3>2
    <3>4. queue'[c][i - 1] = "end"  BY <1>3, <3>1, <3>3
    <3>5. \A j \in 1..((i - 1) - 1) : queue'[c][j] = "record"
      <4> TAKE j \in 1..((i - 1) - 1)
      <4>1. j + 1 \in 1..(i - 1) /\ j \in 1..Len(queue'[c])  BY <1>3
      <4>2. queue[c][j + 1] = "record"  BY <3>1, <4>1
      <4> QED  BY <1>3, <4>1, <4>2
    <3>6. delivered'[c] + (i - 1) - 1 >= owed'[c]  BY <1>1, <1>2, <2>1, <3>1
    <3> QED  BY <3>3, <3>4, <3>5, <3>6 DEF EndAhead
  <2>4. (\A i \in 1..Len(queue[c]) : queue[c][i] = "record")
          => \A i \in 1..Len(queue'[c]) : queue'[c][i] = "record"
    <3>1. \A i \in 1..Len(queue'[c]) : i + 1 \in 1..Len(queue[c])
      BY <1>3
    <3> QED  BY <1>3, <3>1
  <2> QED  BY <1>1, <1>2, <1>3, <1>6, <2>1, <2>2, <2>3, <2>4 DEF Accounted
<1> QED  BY <1>4, <1>5, <1>6

\* The sentinel goes behind all that was owed.
LEMMA StopAccounts ==
  ASSUME TypeOK, NEW c \in Contexts, Hosted(c), Accounted(c), StopListener(c)
  PROVE  Accounted(c)'
<1>1. /\ manager' = manager /\ listener' = listener /\ cut' = cut
      /\ put' = put /\ owed' = owed /\ delivered' = delivered /\ phase[c] = "stop"
  BY DEF StopListener, records
<1>2. /\ queue[c] \in Seq({"record", "end"})
      /\ put[c] \in Nat /\ owed[c] \in Nat /\ delivered[c] \in Nat
  BY DEF TypeOK
<1>3. CASE c \in cut  BY <1>1, <1>3 DEF Accounted
<1>4. CASE c \notin cut /\ (listener[c] = "none" \/ manager[c] # "up")
  <2>1. phase'[c] = "shutdown"
    BY <1>4 DEF StopListener, Goto, AfterSentinel, TypeOK
  <2>2. listener[c] # "none" => manager[c] = "dead"
    BY <1>1, <1>4 DEF Hosted, TypeOK
  <2> QED  BY <1>1, <1>2, <1>4, <2>1, <2>2 DEF Accounted
<1>5. CASE c \notin cut /\ listener[c] # "none" /\ manager[c] = "up"
  <2>1. phase'[c] = "join" /\ queue'[c] = Append(queue[c], "end")
    BY <1>5 DEF StopListener, Goto, AfterSentinel, PutSentinel, TypeOK
  <2>2. /\ Len(queue'[c]) = Len(queue[c]) + 1 /\ queue'[c][Len(queue[c]) + 1] = "end"
        /\ \A i \in 1..Len(queue[c]) : queue'[c][i] = queue[c][i]
        /\ Len(queue[c]) \in Nat
    BY <1>2, <2>1
  <2>3. /\ listener[c] = "up" /\ delivered[c] + Len(queue[c]) >= owed[c]
        /\ \A i \in 1..Len(queue[c]) : queue[c][i] = "record"
    BY <1>1, <1>2, <1>5, <2>2 DEF Accounted
  <2>4. EndAhead(c)'
    <3>1. Len(queue[c]) + 1 \in 1..Len(queue'[c])  BY <2>2
    <3>2. \A j \in 1..((Len(queue[c]) + 1) - 1) : queue'[c][j] = "record"
      BY <2>2, <2>3
    <3>3. delivered'[c] + (Len(queue[c]) + 1) - 1 >= owed'[c]  BY <1>1, <1>2, <2>2, <2>3
    <3> QED  BY <2>2, <3>1, <3>2, <3>3 DEF EndAhead
  <2> QED  BY <1>1, <1>5, <2>1, <2>3, <2>4 DEF Accounted
<1> QED  BY <1>3, <1>4, <1>5

\* The other steps put, read and owe nothing that is not accounted for.
LEMMA StepsAccount ==
  ASSUME TypeOK, NEW c \in Contexts, Hosted(c), Accounted(c), Steps(c)
  PROVE  Accounted(c)'
<1> USE DEF Accounted, EndAhead, Goto, Phases, SettingUp, transport, records
<1> USE DEF TypeOK
<1>1. CASE Enter(c)
  <2>1. PICK p \in {"manager", "yield"} : phase' = [phase EXCEPT ![c] = p]
    BY <1>1 DEF Enter
  <2>2. phase[c] = "before" /\ UNCHANGED <<listener, manager, queue, put, owed, delivered, cut>>
    BY <1>1 DEF Enter
  <2> QED  BY <2>1, <2>2 DEF Hosted
<1>2. CASE StartManager(c) \/ MakeQueue(c)  BY <1>2 DEF StartManager, MakeQueue
<1>3. CASE StartListener(c)
  <2>1. /\ phase[c] = "listener" /\ phase'[c] = "yield" /\ listener'[c] = "up"
        /\ UNCHANGED <<manager, queue, put, owed, delivered, cut>>
    BY <1>3 DEF StartListener
  <2>2. c \notin cut => put[c] = 0 /\ owed[c] = 0 /\ queue[c] = <<>>
    BY <2>1 DEF Hosted
  <2>3. delivered[c] \in Nat /\ Len(<<>>) = 0  OBVIOUS
  <2> HIDE DEF TypeOK
  <2> QED  BY <2>1, <2>2, <2>3
<1>4. CASE FailSetUp(c)  BY <1>4 DEF FailSetUp, AbandonSetUp, Hosted
<1>5. CASE InterruptSetUp(c)  BY <1>5 DEF InterruptSetUp
<1>6. CASE Yield(c)  BY <1>6 DEF Yield
<1>7. CASE StartWorkers(c) \/ WorkersEnd(c)  BY <1>7 DEF StartWorkers, WorkersEnd
<1>8. CASE Log(c)  BY <1>8, LogAccounts
<1>9. CASE EndBody(c)
  <2>1. /\ phase[c] = "body" /\ phase'[c] = "stop" /\ owed'[c] = put[c]
        /\ UNCHANGED <<manager, listener, queue, put, delivered, cut>>
    BY <1>9 DEF EndBody
  <2>2. put[c] \in Nat /\ delivered[c] \in Nat /\ Len(queue[c]) \in Nat  OBVIOUS
  <2> HIDE DEF TypeOK
  <2> QED  BY <2>1, <2>2
<1>10. CASE Listen(c)  BY <1>10, ListenAccounts
<1>11. CASE ListenerFails(c)  BY <1>11 DEF ListenerFails, Hosted
<1>12. CASE ManagerDies(c)  BY <1>12 DEF ManagerDies
<1>13. CASE StopListener(c)  BY <1>13, StopAccounts
<1>14. CASE JoinListener(c)  BY <1>14 DEF JoinListener
<1>15. CASE ShutdownManager(c)  BY <1>15 DEF ShutdownManager
<1>16. CASE Release(c)  BY <1>16 DEF Release
<1> QED  BY <1>1, <1>2, <1>3, <1>4, <1>5, <1>6, <1>7, <1>8, <1>9, <1>10, <1>11,
            <1>12, <1>13, <1>14, <1>15, <1>16 DEF Steps, Coordinate, Listener

\* Each activation is where its phase says, whatever the others do.
THEOREM ActivationsKept == Spec => [](\A c \in Contexts : Hosted(c) /\ Accounted(c))
<1> DEFINE Kept == \A c \in Contexts : Hosted(c) /\ Accounted(c)
<1>1. Init => Kept  BY DEF Init, Hosted, Accounted
<1>2. TypeOK /\ Kept /\ [Next]_vars => Kept'
  <2> SUFFICES ASSUME TypeOK, Kept, [Next]_vars, NEW d \in Contexts
               PROVE  Hosted(d)' /\ Accounted(d)'
    OBVIOUS
  <2>1. CASE UNCHANGED vars
    <3>1. StateOf(d)' = StateOf(d)  BY <2>1 DEF StateOf, vars, transport, records
    <3> QED  BY <3>1, StandingStill
  <2>2. CASE \E c \in Contexts : Steps(c)
    <3>1. PICK c \in Contexts : Steps(c)  BY <2>2
    <3>2. CASE c = d  BY <3>1, <3>2, StepsHost, StepsAccount
    <3>3. CASE c # d  BY <3>1, <3>3, StepsApart, StandingStill
    <3> QED  BY <3>2, <3>3
  <2> QED  BY <2>1, <2>2 DEF Next, Done, Steps
<1> QED  BY <1>1, <1>2, TransportTypes, PTL DEF Spec

\* A closed context leaves no manager process and, with its manager alive to
\* the end, no listener, whichever step of the set-up failed.
THEOREM NothingIsLeftRunning == Spec => []NothingLeftRunning
<1>1. (\A c \in Contexts : Hosted(c) /\ Accounted(c)) => NothingLeftRunning
  BY DEF Hosted, NothingLeftRunning
<1> QED  BY <1>1, ActivationsKept, PTL

\* When a context closes, the records its workers had put on the queue by the
\* end of the body have reached the handlers (listener.stop drains the queue),
\* for every number of records and of overlapping scans.
THEOREM AllRecordsArrive == Spec => []RecordsArrive
<1>1. (\A c \in Contexts : Hosted(c) /\ Accounted(c)) => RecordsArrive
  BY DEF Accounted, RecordsArrive
<1> QED  BY <1>1, ActivationsKept, PTL
=============================================================================
