----------------------- MODULE ProjectSummaries_proofs -----------------------
(***************************************************************************)
(* For any units, import graph, analysis and bound on the rounds: what a   *)
(* build publishes is consistent, nothing partial is left behind, and the  *)
(* sessions' caches are fresh.                                             *)
(***************************************************************************)
EXTENDS ProjectSummaries, TLAPS

\* A component is made of units of the group.
LEMMA ComponentOfUnits ==
  ASSUME calls \in [Paths -> SUBSET Paths], NEW p \in Paths
  PROVE  Component(calls, p) \subseteq Paths
  BY DEF Component, Reach

-----------------------------------------------------------------------------
(* The inductive invariant.                                                *)

\* Components are evaluated after those they import from.
CalleesDone ==
  /\ \A p \in done : calls[p] \subseteq done
  /\ \A p \in current : calls[p] \subseteq done \cup current

\* What the round has computed follows from the outputs it started from.
RoundReadsOutputs ==
  status = "building" /\ current # {} =>
    /\ snapshot = outputs
    /\ rounds \in 1..MaxRounds
    /\ \A p \in DOMAIN updates :
         /\ imports[p] = Imports(p, snapshot)
         /\ updates[p] = Analyse(body[p], imports[p])

\* A unit whose component has not been started publishes nothing.
UnstartedAreEmpty == \A p \in Paths \ (done \cup current) : outputs[p] = None

IInv == /\ TypeOK /\ CalleesDone /\ RoundReadsOutputs /\ UnstartedAreEmpty
        /\ Consistent /\ NothingPartial /\ CacheIsFresh

LEMMA ImportsType ==
  ASSUME TypeOK, NEW p \in Paths, NEW from \in [Paths -> Summaries \cup {None}]
  PROVE  /\ Imports(p, from) \in Imported(calls[p])
         /\ calls[p] \in SUBSET Paths
         /\ body[p] \in Bodies
  <1>1. calls[p] \in SUBSET Paths /\ body[p] \in Bodies
    BY DEF TypeOK
  <1> QED BY <1>1 DEF Imports, Imported

LEMMA NoImportsType ==
  ASSUME NEW p \in Paths
  PROVE  NoImports(p) \in Imported(calls[p])
  BY DEF NoImports, Imported

\* A summary taken from the session is the one the analysis would give.
LEMMA SummaryIsAnalysis ==
  ASSUME IInv, NEW p \in Paths, NEW new
  PROVE  SummaryOf(p, new) = Analyse(body[p], new)
  BY DEF IInv, CacheIsFresh, SummaryOf, CacheFor

LEMMA UpdatedType ==
  ASSUME TypeOK, RoundOver
  PROVE  Updated \in [Paths -> Summaries \cup {None}]
  BY DEF TypeOK, RoundOver, Updated

\* What a unit imports depends on the outputs of the units it calls only.
LEMMA ImportsDependOnCallees ==
  ASSUME NEW p \in Paths, NEW from, NEW to, \A q \in calls[p] : from[q] = to[q]
  PROVE  Imports(p, from) = Imports(p, to)
  BY DEF Imports

LEMMA InitInductive == Init => IInv
  <1> SUFFICES ASSUME Init PROVE IInv
    OBVIOUS
  <1>1. TypeOK
    BY NoImportsType, MaxRoundsAssumption DEF Init, TypeOK, Nothing
  <1>2. CalleesDone /\ RoundReadsOutputs /\ UnstartedAreEmpty
    BY DEF Init, CalleesDone, RoundReadsOutputs, UnstartedAreEmpty
  <1>3. Consistent /\ NothingPartial /\ CacheIsFresh
    BY DEF Init, Consistent, NothingPartial, CacheIsFresh
  <1> QED BY <1>1, <1>2, <1>3 DEF IInv

\* Outputs of units outside the finished ones may change freely.
LEMMA ConsistentKept ==
  ASSUME IInv, calls' = calls, body' = body, status' = status,
         \A p \in done : outputs'[p] = outputs[p] /\ imports'[p] = imports[p],
         NEW p \in done, outputs'[p] # None, status # "failed"
  PROVE  /\ imports'[p] = Imports(p, outputs')
         /\ outputs'[p] = Analyse(body[p], imports'[p])
  <1>1. calls[p] \subseteq done /\ p \in Paths
    BY DEF IInv, CalleesDone, TypeOK
  <1>2. Imports(p, outputs') = Imports(p, outputs)
    BY <1>1, ImportsDependOnCallees
  <1> QED BY <1>2 DEF IInv, Consistent

LEMMA StepInductive == IInv /\ [Next]_vars => IInv'
  <1> SUFFICES ASSUME IInv, [Next]_vars PROVE IInv'
    OBVIOUS
  <1> USE DEF IInv
  <1>1. CASE Skip
    <2> PICK p \in Paths : /\ IsNext(Component(calls, p)) /\ ~Needed(Component(calls, p))
                           /\ done' = done \cup Component(calls, p)
      BY <1>1 DEF Skip
    <2> DEFINE C == Component(calls, p)
    <2> HIDE DEF C
    <2>1. C \subseteq Paths /\ current = {} /\ C \cap done = {} /\ done' = done \cup C
      BY <1>1, ComponentOfUnits DEF Skip, TypeOK, IsNext, C
    <2>2. UNCHANGED <<calls, body, status, current, rounds, snapshot, updates, outputs, imports, cached>>
      BY <1>1 DEF Skip, program, units
    <2>3. \A q \in C : calls[q] = {} /\ outputs[q] = None
      BY <2>1 DEF Needed, UnstartedAreEmpty, C
    <2>4. TypeOK'
      BY <2>1, <2>2 DEF TypeOK
    <2>5. CalleesDone' /\ RoundReadsOutputs' /\ UnstartedAreEmpty'
      BY <2>1, <2>2, <2>3 DEF CalleesDone, RoundReadsOutputs, UnstartedAreEmpty
    <2>6. Consistent'
      BY <2>1, <2>2, <2>3 DEF Consistent, Imports
    <2>7. NothingPartial' /\ CacheIsFresh'
      BY <2>1, <2>2 DEF NothingPartial, CacheIsFresh, NoImports
    <2> QED BY <2>4, <2>5, <2>6, <2>7
  <1>2. CASE StartComponent
    <2> PICK p \in Paths : IsNext(Component(calls, p)) /\ current' = Component(calls, p)
      BY <1>2 DEF StartComponent
    <2>1. /\ current = {} /\ current' \subseteq Paths /\ current' \cap done = {}
          /\ \A q \in current' : calls[q] \subseteq done \cup current'
      BY <1>2, ComponentOfUnits DEF StartComponent, TypeOK, IsNext, CalleesOutside
    <2>2. /\ UNCHANGED <<calls, body, status, done, outputs, imports, cached>>
          /\ rounds' = 1 /\ snapshot' = outputs /\ updates' = Nothing
      BY <1>2 DEF StartComponent, program, units
    <2>3. TypeOK'
      BY <2>1, <2>2, MaxRoundsAssumption DEF TypeOK, Nothing
    <2>4. CalleesDone' /\ RoundReadsOutputs' /\ UnstartedAreEmpty'
      BY <2>1, <2>2, MaxRoundsAssumption
      DEF CalleesDone, RoundReadsOutputs, UnstartedAreEmpty, Nothing
    <2>5. Consistent' /\ NothingPartial' /\ CacheIsFresh'
      BY <2>1, <2>2 DEF Consistent, NothingPartial, CacheIsFresh, Imports, NoImports
    <2> QED BY <2>3, <2>4, <2>5
  <1>3. ASSUME NEW p \in Paths, Evaluate(p) PROVE IInv'
    <2> DEFINE new == Imports(p, snapshot)
               summary == Analyse(body[p], new)
    <2>1. /\ status = "building" /\ p \in current /\ p \notin DOMAIN updates
          /\ UNCHANGED <<calls, body, status, done, current, rounds, snapshot, outputs>>
      BY <1>3 DEF Evaluate, IsTurnOf, program
    <2>2. new \in Imported(calls[p]) /\ calls[p] \in SUBSET Paths /\ body[p] \in Bodies
      BY ImportsType DEF TypeOK
    <2>3. summary # Fails
      BY <1>3, SummaryIsAnalysis DEF Evaluate
    <2>4. summary \in Summaries
      BY <2>2, <2>3, AnalyseAssumption
    <2>5. /\ imports' = [imports EXCEPT ![p] = new]
          /\ cached' = [cached EXCEPT ![p] = summary]
          /\ updates' = [q \in DOMAIN updates \cup {p} |-> IF q = p THEN summary ELSE updates[q]]
      BY <1>3, SummaryIsAnalysis DEF Evaluate
    <2> HIDE DEF new, summary
    <2>6. DOMAIN updates' = DOMAIN updates \cup {p}
      BY <2>5
    <2>7. \A q \in DOMAIN updates' : updates'[q] = IF q = p THEN summary ELSE updates[q]
      BY <2>5
    <2>8. \A q \in Paths : /\ imports'[q] = IF q = p THEN new ELSE imports[q]
                           /\ cached'[q] = IF q = p THEN summary ELSE cached[q]
      BY <2>5 DEF TypeOK
    <2>9. TypeOK'
      <3>1. DOMAIN imports' = Paths /\ \A q \in Paths : imports'[q] \in Imported(calls'[q])
        BY <2>1, <2>2, <2>5, <2>8 DEF TypeOK
      <3>2. cached' \in [Paths -> Summaries \cup {None}]
        BY <2>4, <2>5 DEF TypeOK
      <3>3. DOMAIN updates' \subseteq current'
        BY <2>1, <2>6 DEF TypeOK
      <3>4. \A q \in DOMAIN updates' : updates'[q] \in Summaries
        BY <2>4, <2>6, <2>7 DEF TypeOK
      <3> QED BY <2>1, <3>1, <3>2, <3>3, <3>4 DEF TypeOK
    <2>10. CalleesDone' /\ UnstartedAreEmpty'
      BY <2>1 DEF CalleesDone, UnstartedAreEmpty
    <2>11. RoundReadsOutputs'
      <3>1. snapshot' = outputs' /\ rounds' \in 1..MaxRounds
        BY <2>1 DEF RoundReadsOutputs
      <3>2. ASSUME NEW q \in DOMAIN updates'
            PROVE  imports'[q] = Imports(q, snapshot)' /\ updates'[q] = Analyse(body'[q], imports'[q])
        <4>1. q \in Paths /\ Imports(q, snapshot)' = Imports(q, snapshot)
          BY <2>1, <2>6 DEF TypeOK, Imports
        <4>2. CASE q = p
          BY <2>1, <2>7, <2>8, <4>1, <4>2 DEF new, summary
        <4>3. CASE q # p
          BY <2>1, <2>6, <2>7, <2>8, <4>1, <4>3 DEF RoundReadsOutputs
        <4> QED BY <4>2, <4>3
      <3> QED BY <3>1, <3>2 DEF RoundReadsOutputs
    <2>12. Consistent'
      <3>1. \A q \in done : imports'[q] = imports[q]
        BY <2>1, <2>8 DEF TypeOK
      <3> QED BY <2>1, <3>1 DEF Consistent, Imports
    <2>13. NothingPartial'
      BY <2>1, <2>8 DEF NothingPartial, NoImports
    <2>14. CacheIsFresh'
      BY <2>1, <2>8 DEF CacheIsFresh, summary
    <2> QED BY <2>9, <2>10, <2>11, <2>12, <2>13, <2>14
  <1>4. ASSUME NEW p \in Paths, Raise(p) PROVE IInv'
    <2>1. /\ UNCHANGED <<calls, body, done, current, rounds, snapshot, updates, outputs>>
          /\ status' = "failed"
          /\ imports' = [q \in Paths |-> NoImports(q)] /\ cached' = [q \in Paths |-> None]
      BY <1>4 DEF Raise, program
    <2>2. TypeOK'
      BY <2>1, NoImportsType DEF TypeOK
    <2>3. CalleesDone' /\ RoundReadsOutputs' /\ UnstartedAreEmpty' /\ Consistent'
      BY <2>1 DEF CalleesDone, RoundReadsOutputs, UnstartedAreEmpty, Consistent
    <2>4. NothingPartial' /\ CacheIsFresh'
      BY <2>1 DEF NothingPartial, CacheIsFresh, NoImports
    <2> QED BY <2>2, <2>3, <2>4
  <1>5. CASE NextRound
    <2>1. /\ UNCHANGED <<calls, body, status, done, current, imports, cached>>
          /\ outputs' = Updated /\ snapshot' = Updated /\ rounds' = rounds + 1
          /\ updates' = Nothing /\ RoundOver /\ rounds < MaxRounds
      BY <1>5 DEF NextRound, program, RoundsLeft
    <2>2. rounds + 1 \in 1..MaxRounds
      BY <2>1, MaxRoundsAssumption DEF RoundOver, RoundReadsOutputs
    <2>3. Updated \in [Paths -> Summaries \cup {None}]
      BY <2>1, UpdatedType
    <2>4. \A q \in Paths \ current : outputs'[q] = outputs[q]
      BY <2>1 DEF Updated
    <2>5. TypeOK'
      BY <2>1, <2>2, <2>3 DEF TypeOK, Nothing
    <2>6. CalleesDone' /\ RoundReadsOutputs' /\ UnstartedAreEmpty'
      BY <2>1, <2>2, <2>4 DEF CalleesDone, RoundReadsOutputs, UnstartedAreEmpty, Nothing
    <2>7. \A q \in done : outputs'[q] = outputs[q] /\ imports'[q] = imports[q]
      BY <2>1, <2>4 DEF TypeOK
    <2>8. Consistent'
      BY <2>1, <2>7, ConsistentKept DEF Consistent, Imports
    <2>9. NothingPartial' /\ CacheIsFresh'
      BY <2>1, <2>7 DEF NothingPartial, CacheIsFresh, NoImports
    <2> QED BY <2>5, <2>6, <2>8, <2>9
  <1>6. CASE Converge
    <2>1. /\ UNCHANGED <<calls, body, status, snapshot, imports, cached>>
          /\ outputs' = Updated /\ done' = done \cup current /\ current' = {}
          /\ rounds' = 0 /\ updates' = Nothing /\ RoundOver /\ Converged
      BY <1>6 DEF Converge, CloseComponent, program
    <2>2. Updated \in [Paths -> Summaries \cup {None}]
      BY <2>1, UpdatedType
    <2>3. \A q \in Paths : outputs'[q] = IF q \in current THEN updates[q] ELSE outputs[q]
      BY <2>1 DEF Updated
    <2>4. TypeOK'
      BY <2>1, <2>2, MaxRoundsAssumption DEF TypeOK, Nothing
    <2>5. CalleesDone' /\ RoundReadsOutputs' /\ UnstartedAreEmpty'
      BY <2>1, <2>3 DEF CalleesDone, RoundReadsOutputs, UnstartedAreEmpty
    <2>6. \A q \in done : outputs'[q] = outputs[q] /\ imports'[q] = imports[q]
      BY <2>1, <2>3 DEF TypeOK
    <2>7. ASSUME NEW q \in current
          PROVE  imports[q] = Imports(q, outputs') /\ outputs'[q] = Analyse(body[q], imports[q])
      <3>1. /\ q \in Paths /\ snapshot = outputs /\ outputs'[q] = updates[q]
            /\ imports[q] = Imports(q, outputs) /\ updates[q] = Analyse(body[q], imports[q])
        BY <2>1, <2>3, <2>7 DEF RoundOver, RoundReadsOutputs, TypeOK
      <3>2. \A r \in calls[q] : outputs'[r] = outputs[r]
        <4>1. calls[q] \subseteq done \cup current /\ q \notin calls[q]
          BY <2>7, <3>1 DEF CalleesDone, TypeOK
        <4>2. CASE Unchanged
          BY <2>3, <2>6, <3>1, <4>1, <4>2 DEF Unchanged, TypeOK
        <4>3. CASE ~IsRecursive(current)
          <5>1. calls[q] \subseteq done
            BY <2>7, <4>1, <4>3 DEF IsRecursive
          <5> QED BY <2>6, <5>1
        <4> QED BY <2>1, <4>2, <4>3 DEF Converged
      <3> QED BY <3>1, <3>2, ImportsDependOnCallees
    <2>8. Consistent'
      <3> SUFFICES ASSUME (status # "failed")', NEW q \in done', outputs'[q] # None
                   PROVE  imports'[q] = Imports(q, outputs)' /\ outputs'[q] = Analyse(body'[q], imports'[q])
        BY DEF Consistent
      <3>1. Imports(q, outputs)' = Imports(q, outputs')
        BY <2>1 DEF Imports
      <3>2. CASE q \in done
        BY <2>1, <2>6, <3>1, <3>2, ConsistentKept
      <3>3. CASE q \in current
        BY <2>1, <2>7, <3>1, <3>3
      <3> QED BY <2>1, <3>2, <3>3
    <2>9. \A q \in current : outputs'[q] \in Summaries /\ outputs'[q] # None
      BY <2>1, <2>3, AnalyseAssumption DEF RoundOver, TypeOK
    <2>10. NothingPartial'
      BY <2>1, <2>6, <2>9 DEF NothingPartial, NoImports
    <2>11. CacheIsFresh'
      BY <2>1 DEF CacheIsFresh
    <2> QED BY <2>4, <2>5, <2>8, <2>10, <2>11
  <1>7. CASE Discard
    <2>1. /\ UNCHANGED <<calls, body, status, snapshot>>
          /\ done' = done \cup current /\ current' = {}
          /\ rounds' = 0 /\ updates' = Nothing /\ RoundOver
          /\ outputs' = [q \in Paths |-> IF q \in current THEN None ELSE outputs[q]]
          /\ imports' = [q \in Paths |-> IF q \in current THEN NoImports(q) ELSE imports[q]]
          /\ cached' = [q \in Paths |-> IF q \in current THEN None ELSE cached[q]]
      BY <1>7 DEF Discard, CloseComponent, program
    <2>2. TypeOK'
      BY <2>1, NoImportsType, MaxRoundsAssumption DEF TypeOK, Nothing
    <2>3. CalleesDone' /\ RoundReadsOutputs' /\ UnstartedAreEmpty'
      BY <2>1 DEF CalleesDone, RoundReadsOutputs, UnstartedAreEmpty
    <2>4. \A q \in done : outputs'[q] = outputs[q] /\ imports'[q] = imports[q]
      BY <2>1 DEF TypeOK
    <2>5. \A q \in current : outputs'[q] = None
      BY <2>1 DEF TypeOK
    <2>6. Consistent'
      <3> SUFFICES ASSUME (status # "failed")', NEW q \in done', outputs'[q] # None
                   PROVE  imports'[q] = Imports(q, outputs)' /\ outputs'[q] = Analyse(body'[q], imports'[q])
        BY DEF Consistent
      <3>1. Imports(q, outputs)' = Imports(q, outputs') /\ q \in done
        BY <2>1, <2>5 DEF Imports
      <3> QED BY <2>1, <2>4, <3>1, ConsistentKept
    <2>7. NothingPartial' /\ CacheIsFresh'
      BY <2>1 DEF NothingPartial, CacheIsFresh, NoImports
    <2> QED BY <2>2, <2>3, <2>6, <2>7
  <1>8. CASE Return
    <2>1. /\ UNCHANGED <<calls, body, done, current, rounds, snapshot, updates, outputs, imports, cached>>
          /\ status = "building" /\ status' = "built"
      BY <1>8 DEF Return, program, units
    <2> QED BY <2>1 DEF TypeOK, CalleesDone, RoundReadsOutputs, UnstartedAreEmpty, Consistent,
                        NothingPartial, CacheIsFresh, Imports, NoImports
  <1>9. CASE UNCHANGED vars
    <2>1. UNCHANGED <<calls, body, status, done, current, rounds, snapshot, updates, outputs, imports, cached>>
      BY <1>9 DEF vars, program, units
    <2> QED BY <2>1 DEF TypeOK, CalleesDone, RoundReadsOutputs, UnstartedAreEmpty, Consistent,
                        NothingPartial, CacheIsFresh, Imports, NoImports
  <1> QED BY <1>1, <1>2, <1>3, <1>4, <1>5, <1>6, <1>7, <1>8, <1>9 DEF Next, Terminated

-----------------------------------------------------------------------------

\* Every variable of the build stays in its range.
THEOREM TypeCorrect == Spec => []TypeOK
  <1>1. IInv => TypeOK
    BY DEF IInv
  <1> QED BY InitInductive, StepInductive, <1>1, PTL DEF Spec

\* What a finished unit imports is what its callees publish in the end, and
\* what it publishes follows from its imports.
THEOREM PublishedIsConsistent == Spec => []Consistent
  <1>1. IInv => Consistent
    BY DEF IInv
  <1> QED BY InitInductive, StepInductive, <1>1, PTL DEF Spec

\* No component out of rounds and no failed build leaves imports attached.
THEOREM NothingPartialRemains == Spec => []NothingPartial
  <1>1. IInv => NothingPartial
    BY DEF IInv
  <1> QED BY InitInductive, StepInductive, <1>1, PTL DEF Spec

\* Every summary a session holds follows from its unit's current imports.
THEOREM SessionsAreFresh == Spec => []CacheIsFresh
  <1>1. IInv => CacheIsFresh
    BY DEF IInv
  <1> QED BY InitInductive, StepInductive, <1>1, PTL DEF Spec
=============================================================================
