----------------------- MODULE UnitPreparation_proofs -----------------------
(***************************************************************************)
(* Preparation in worker processes gives what sequential preparation       *)
(* gives, for every number of sources, profiles, workers and faults.       *)
(*                                                                         *)
(* SeqInv says what the coordinator knows of each source by the state of   *)
(* its task: a taken source has its final units, any other source still    *)
(* has the units the earlier phase left, and a source the generator passed *)
(* without a task needed none.                                             *)
(***************************************************************************)
EXTENDS UnitPreparation, FiniteSetTheorems, TLAPS

Untouched(p) == \A v \in Profiles : /\ prepared[<<p, v>>] = before[<<p, v>>]
                                    /\ <<p, v>> \notin diagnosed

FinalUnits(p) ==
  \A v \in Profiles :
    /\ prepared[<<p, v>>] = PrepareUnit(<<p, v>>, before[<<p, v>>])
    /\ <<p, v>> \in diagnosed <=>
         before[<<p, v>>] # "parsed" /\ Diagnoses(<<p, v>>, before[<<p, v>>])

SeqInv ==
  /\ \A p \in Paths : task[p] = "taken" => FinalUnits(p)
  /\ \A p \in Paths : task[p] # "taken" => Untouched(p)
  /\ \A p \in Paths : task[p] = "none" /\ p < next => Needs(p, prepared) = {}
  /\ \A p \in Paths : task[p] # "none" => p < next
  /\ exhausted => \A p \in Paths : p >= next => Needs(p, prepared) = {}
  /\ phase = "returned" => exhausted /\ Pending = {}
  /\ \A p \in done : task[p] \in {"finished", "failed"}
  /\ phase = "fill" => done = {}

-----------------------------------------------------------------------------
(* What preparing one source does.                                         *)

LEMMA PrepareUnitType ==
  ASSUME NEW u, NEW state \in UnitStates
  PROVE  PrepareUnit(u, state) \in UnitStates
BY DEF PrepareUnit, UnitStates

LEMMA NeedsMember ==
  ASSUME NEW p \in Paths, NEW q \in Paths, NEW v \in Profiles, NEW held
  PROVE  <<q, v>> \in Needs(p, held) <=> q = p /\ held[<<q, v>>] # "parsed"
BY DEF Needs

LEMMA ParsedStaysParsed ==
  ASSUME NEW u PROVE PrepareUnit(u, "parsed") = "parsed"
BY DEF PrepareUnit

\* Merging a source gives it its final units and touches no other source.
LEMMA MergeEffect ==
  ASSUME TypeOK, NEW p \in Paths, Merge(p)
  PROVE  /\ prepared' \in [Units -> UnitStates] /\ diagnosed' \subseteq Units
         /\ Untouched(p) /\ before' = before => FinalUnits(p)'
         /\ \A q \in Paths \ {p}, v \in Profiles :
              /\ prepared'[<<q, v>>] = prepared[<<q, v>>]
              /\ <<q, v>> \in diagnosed' <=> <<q, v>> \in diagnosed
<1>1. Needs(p, prepared) \subseteq Units
  BY DEF Needs, Units
<1>2. prepared' \in [Units -> UnitStates] /\ diagnosed' \subseteq Units
  BY <1>1, PrepareUnitType DEF Merge, TypeOK
<1>3. \A q \in Paths \ {p}, v \in Profiles :
        /\ prepared'[<<q, v>>] = prepared[<<q, v>>]
        /\ <<q, v>> \in diagnosed' <=> <<q, v>> \in diagnosed
  <2> TAKE q \in Paths \ {p}, v \in Profiles
  <2>1. <<q, v>> \notin Needs(p, prepared) /\ <<q, v>> \in Units
    BY NeedsMember DEF Units
  <2> QED
    BY <2>1 DEF Merge
<1>4. ASSUME Untouched(p), before' = before
      PROVE  FinalUnits(p)'
  <2> SUFFICES ASSUME NEW v \in Profiles
               PROVE  /\ prepared'[<<p, v>>] = PrepareUnit(<<p, v>>, before[<<p, v>>])
                      /\ <<p, v>> \in diagnosed' <=>
                           before[<<p, v>>] # "parsed" /\ Diagnoses(<<p, v>>, before[<<p, v>>])
    BY <1>4 DEF FinalUnits, PrepareUnit, Diagnoses
  <2> DEFINE u == <<p, v>>
  <2>1. u \in Units /\ prepared[u] = before[u] /\ u \notin diagnosed
    BY <1>4 DEF Units, Untouched
  <2>2. u \in Needs(p, prepared) <=> before[u] # "parsed"
    BY <2>1, NeedsMember
  <2>3. prepared'[u] = IF u \in Needs(p, prepared) THEN PrepareUnit(u, prepared[u]) ELSE prepared[u]
    BY <2>1 DEF Merge
  <2>4. u \in diagnosed' <=> u \in Needs(p, prepared) /\ Diagnoses(u, prepared[u])
    BY <2>1 DEF Merge
  <2> HIDE DEF u
  <2>5. prepared'[u] = PrepareUnit(u, before[u])
    BY <2>1, <2>2, <2>3, ParsedStaysParsed
  <2>6. u \in diagnosed' <=> before[u] # "parsed" /\ Diagnoses(u, before[u])
    BY <2>1, <2>2, <2>4
  <2> QED
    BY <2>5, <2>6 DEF u
<1> QED
  BY <1>2, <1>3, <1>4

\* What is known of the other sources survives a merge.
LEMMA OthersKeep ==
  ASSUME TypeOK, NEW p \in Paths, Merge(p), Untouched(p), before' = before
  PROVE  /\ FinalUnits(p)'
      /\ \A q \in Paths : q # p => /\ FinalUnits(q)' <=> FinalUnits(q)
                                   /\ Untouched(q)' <=> Untouched(q)
                                   /\ Needs(q, prepared)' = Needs(q, prepared)
<1>1. FinalUnits(p)'
  BY MergeEffect
<1>2. ASSUME NEW q \in Paths \ {p}
      PROVE  /\ FinalUnits(q)' <=> FinalUnits(q)
             /\ Untouched(q)' <=> Untouched(q)
             /\ Needs(q, prepared)' = Needs(q, prepared)
  <2>1. \A v \in Profiles : /\ prepared'[<<q, v>>] = prepared[<<q, v>>]
                            /\ <<q, v>> \in diagnosed' <=> <<q, v>> \in diagnosed
    BY MergeEffect
  <2> QED
    BY <2>1 DEF FinalUnits, Untouched, Needs, PrepareUnit, Diagnoses
<1> QED
  BY <1>1, <1>2

-----------------------------------------------------------------------------
(* Types.                                                                  *)

LEMMA TypeStep == TypeOK /\ [Next]_vars => TypeOK'
<1> SUFFICES ASSUME TypeOK, [Next]_vars
             PROVE  TypeOK'
  OBVIOUS
<1> USE NPathsAssumption DEF vars, budget
<1>1. ASSUME NEW p \in Paths, Submit(p) PROVE TypeOK'
  BY <1>1 DEF TypeOK, Submit, Paths, TaskStates
<1>2. ASSUME NEW p \in Paths, SubmitRefused(p) PROVE TypeOK'
  <2>1. prepared' \in [Units -> UnitStates] /\ diagnosed' \subseteq Units
    BY <1>2, MergeEffect DEF SubmitRefused
  <2>2. next' \in 1..NPaths + 1 /\ task' \in [Paths -> TaskStates]
    BY <1>2 DEF SubmitRefused, TypeOK, Paths, TaskStates
  <2> QED
    BY <1>2, <2>1, <2>2 DEF SubmitRefused, TypeOK
<1>3. ASSUME NEW p \in Paths, Take(p) PROVE TypeOK'
  <2>1. prepared' \in [Units -> UnitStates] /\ diagnosed' \subseteq Units
    BY <1>3, MergeEffect DEF Take
  <2>2. task' \in [Paths -> TaskStates]
    BY <1>3 DEF Take, TypeOK, TaskStates
  <2> QED
    BY <1>3, <2>1, <2>2 DEF Take, TypeOK
<1>4. CASE Exhaust
  BY <1>4 DEF TypeOK, Exhaust
<1>5. CASE Wait
  BY <1>5 DEF TypeOK, Wait, Settled
<1>6. CASE Return \/ Raise \/ Interrupt
  BY <1>6 DEF TypeOK, Return, Raise, Interrupt
<1>7. ASSUME NEW p \in Paths, Finish(p) \/ LoseResult(p) PROVE TypeOK'
  BY <1>7 DEF TypeOK, Finish, LoseResult, TaskStates
<1>8. CASE LoseWorker
  BY <1>8 DEF TypeOK, LoseWorker, TaskStates
<1>9. CASE Terminated \/ UNCHANGED vars
  BY <1>9 DEF TypeOK, Terminated
<1> QED
  BY <1>1, <1>2, <1>3, <1>4, <1>5, <1>6, <1>7, <1>8, <1>9 DEF Next, Coordinate

\* Every variable of the preparation stays in its declared range.
THEOREM TypeCorrect == Spec => []TypeOK
<1>1. Init => TypeOK
  <2> SUFFICES ASSUME Init PROVE TypeOK
    OBVIOUS
  <2>1. 1 \in 1..NPaths + 1 /\ 0 \in Nat
    BY NPathsAssumption
  <2> QED
    BY <2>1 DEF Init, TypeOK, TaskStates
<1>2. TypeOK /\ [Next]_vars => TypeOK'
  BY TypeStep
<1> QED
  BY <1>1, <1>2, PTL DEF Spec

-----------------------------------------------------------------------------
(* The bound on outstanding tasks.                                         *)

LEMMA PendingFinite == IsFiniteSet(Pending)
<1>1. IsFiniteSet(Paths)
  BY NPathsAssumption, FS_Interval DEF Paths
<1> QED
  BY <1>1, FS_Subset DEF Pending

\* At most one source is outstanding per worker, for any number of sources.
THEOREM AtMostOneTaskPerWorker == Spec => []OneTaskPerWorker
<1>1. Init => OneTaskPerWorker
  <2> SUFFICES ASSUME Init PROVE OneTaskPerWorker
    OBVIOUS
  <2>1. Pending = {}
    BY DEF Init, Pending
  <2> QED
    BY <2>1, FS_EmptySet, WorkersAssumption DEF OneTaskPerWorker
<1>2. TypeOK /\ OneTaskPerWorker /\ [Next]_vars => OneTaskPerWorker'
  <2> SUFFICES ASSUME TypeOK, OneTaskPerWorker, [Next]_vars
               PROVE  OneTaskPerWorker'
    OBVIOUS
  <2>1. ASSUME NEW p \in Paths, Submit(p) PROVE OneTaskPerWorker'
    <3>1. Cardinality(Pending) < Workers
      BY <2>1 DEF Submit, Room
    <3>2. Pending' \subseteq Pending \cup {p}
      BY <2>1 DEF Submit, Pending, TypeOK
    <3>3. Cardinality(Pending \cup {p}) <= Cardinality(Pending) + 1
          /\ IsFiniteSet(Pending \cup {p}) /\ Cardinality(Pending) \in Nat
      <4>1. Cardinality(Pending) \in Nat
        BY PendingFinite, FS_CardinalityType
      <4> QED
        BY <4>1, PendingFinite, FS_AddElement
    <3>4. Cardinality(Pending') <= Cardinality(Pending \cup {p})
          /\ Cardinality(Pending') \in Nat /\ Cardinality(Pending \cup {p}) \in Nat
      BY <3>2, <3>3, FS_Subset, FS_CardinalityType
    <3> QED
      BY <3>1, <3>3, <3>4, WorkersAssumption DEF OneTaskPerWorker
  <2>2. CASE ~\E p \in Paths : Submit(p)
    <3>1. Pending' \subseteq Pending
      <4>1. ASSUME NEW p \in Paths, SubmitRefused(p) \/ Take(p) PROVE Pending' \subseteq Pending
        BY <4>1 DEF SubmitRefused, Take, Pending, TypeOK
      <4>2. CASE Exhaust \/ Wait \/ Return \/ Raise \/ Interrupt \/ Terminated \/ UNCHANGED vars
        BY <4>2 DEF Exhaust, Wait, Return, Raise, Interrupt, Terminated, vars, Pending
      <4>3. ASSUME NEW p \in Paths, Finish(p) \/ LoseResult(p) PROVE Pending' \subseteq Pending
        BY <4>3 DEF Finish, LoseResult, Pending, TypeOK
      <4>4. CASE LoseWorker
        BY <4>4 DEF LoseWorker, Pending, TypeOK
      <4> QED
        BY <2>2, <4>1, <4>2, <4>3, <4>4 DEF Next, Coordinate
    <3>2. Cardinality(Pending') <= Cardinality(Pending)
          /\ Cardinality(Pending') \in Nat /\ Cardinality(Pending) \in Nat
      BY <3>1, PendingFinite, FS_Subset, FS_CardinalityType
    <3> QED
      BY <3>2, WorkersAssumption DEF OneTaskPerWorker
  <2> QED
    BY <2>1, <2>2
<1>3. Spec => []TypeOK
  BY TypeCorrect
<1> QED
  BY <1>1, <1>2, <1>3, PTL DEF Spec

-----------------------------------------------------------------------------
(* The prepared units.                                                     *)

LEMMA SeqStep == TypeOK /\ SeqInv /\ [Next]_vars => SeqInv'
<1> SUFFICES ASSUME TypeOK, SeqInv, [Next]_vars
             PROVE  SeqInv'
  OBVIOUS
<1> USE DEF vars, budget
<1>1. ASSUME UNCHANGED <<before, prepared, diagnosed>>
      PROVE  \A p \in Paths : /\ FinalUnits(p)' <=> FinalUnits(p)
                              /\ Untouched(p)' <=> Untouched(p)
                              /\ Needs(p, prepared)' = Needs(p, prepared)
  BY <1>1 DEF FinalUnits, Untouched, Needs, PrepareUnit, Diagnoses
<1>2. ASSUME NEW p \in Paths, Submit(p) PROVE SeqInv'
  <2>1. UNCHANGED <<before, prepared, diagnosed, exhausted, phase, done>> /\ phase = "fill" /\ done = {}
    BY <1>2 DEF Submit, SeqInv
  <2>2. /\ next' = p + 1 /\ p >= next /\ next \in Int /\ p \in Int
        /\ \A q \in Paths : q \in Int
        /\ \A q \in Paths : next <= q /\ q < p => Needs(q, prepared) = {}
        /\ ~exhausted
    BY <1>2, NPathsAssumption DEF Submit, IsNextTask, TypeOK, Paths
  <2>3. \A q \in Paths : task'[q] = IF q = p THEN "running" ELSE task[q]
    BY <1>2 DEF Submit, TypeOK
  <2>4. task[p] # "taken"
    BY <2>2 DEF SeqInv
  <2> QED
    BY <1>1, <2>1, <2>2, <2>3, <2>4 DEF SeqInv
<1>3. ASSUME NEW p \in Paths, SubmitRefused(p) PROVE SeqInv'
  <2>1. UNCHANGED <<before, exhausted, phase, done>> /\ phase = "fill" /\ done = {}
    BY <1>3 DEF SubmitRefused, SeqInv
  <2>2. /\ next' = p + 1 /\ p >= next /\ next \in Int /\ p \in Int
        /\ \A q \in Paths : q \in Int
        /\ \A q \in Paths : next <= q /\ q < p => Needs(q, prepared) = {}
        /\ ~exhausted
    BY <1>3, NPathsAssumption DEF SubmitRefused, IsNextTask, TypeOK, Paths
  <2>3. \A q \in Paths : task'[q] = IF q = p THEN "taken" ELSE task[q]
    BY <1>3 DEF SubmitRefused, TypeOK
  <2>4. task[p] # "taken" /\ Untouched(p)
    BY <2>2 DEF SeqInv
  <2>5. /\ FinalUnits(p)'
      /\ \A q \in Paths : q # p => /\ FinalUnits(q)' <=> FinalUnits(q)
                                   /\ Untouched(q)' <=> Untouched(q)
                                   /\ Needs(q, prepared)' = Needs(q, prepared)
    BY <1>3, <2>1, <2>4, OthersKeep DEF SubmitRefused
  <2>6. \A q \in Paths : /\ task'[q] = "taken" => FinalUnits(q)'
                         /\ task'[q] # "taken" => Untouched(q)'
    <3> TAKE q \in Paths
    <3> QED
      BY <2>3, <2>5 DEF SeqInv
  <2>7. \A q \in Paths : /\ task'[q] = "none" /\ q < next' => Needs(q, prepared)' = {}
                         /\ task'[q] # "none" => q < next'
    BY <2>2, <2>3, <2>5 DEF SeqInv
  <2>8. (exhausted => \A q \in Paths : q >= next => Needs(q, prepared) = {})'
    BY <2>1, <2>2
  <2>9. (phase = "returned" => exhausted /\ Pending = {})'
    BY <2>1
  <2>10. (\A q \in done : task[q] \in {"finished", "failed"})'
    BY <2>1
  <2>11. (\A q \in Paths : task[q] = "taken" => FinalUnits(q))'
    BY <2>6
  <2>12. (\A q \in Paths : task[q] # "taken" => Untouched(q))'
    BY <2>6
  <2>13. (\A q \in Paths : task[q] = "none" /\ q < next => Needs(q, prepared) = {})'
    BY <2>7
  <2> QED
    BY <2>1, <2>11, <2>12, <2>13, <2>7, <2>8, <2>9, <2>10 DEF SeqInv
<1>4. ASSUME NEW p \in Paths, Take(p) PROVE SeqInv'
  <2>1. UNCHANGED <<before, exhausted, next>> /\ p \in done /\ done' = done \ {p}
        /\ phase' = (IF done' = {} THEN "fill" ELSE "take")
    BY <1>4 DEF Take
  <2>2. \A q \in Paths : task'[q] = IF q = p THEN "taken" ELSE task[q]
    BY <1>4 DEF Take, TypeOK
  <2>3. task[p] \in {"finished", "failed"} /\ Untouched(p) /\ p < next /\ done \subseteq Paths
        /\ next \in Int /\ \A q \in Paths : q \in Int
    BY <2>1 DEF SeqInv, TypeOK, Paths
  <2>4. /\ FinalUnits(p)'
      /\ \A q \in Paths : q # p => /\ FinalUnits(q)' <=> FinalUnits(q)
                                   /\ Untouched(q)' <=> Untouched(q)
                                   /\ Needs(q, prepared)' = Needs(q, prepared)
    BY <1>4, <2>1, <2>3, OthersKeep DEF Take
  <2>5. \A q \in Paths : /\ task'[q] = "taken" => FinalUnits(q)'
                         /\ task'[q] # "taken" => Untouched(q)'
    BY <2>2, <2>4 DEF SeqInv
  <2>6. \A q \in Paths : /\ task'[q] = "none" /\ q < next' => Needs(q, prepared)' = {}
                         /\ task'[q] # "none" => q < next'
    BY <2>1, <2>2, <2>3, <2>4 DEF SeqInv
  <2>7. exhausted' => \A q \in Paths : q >= next' => Needs(q, prepared)' = {}
    BY <2>1, <2>3, <2>4 DEF SeqInv
  <2>8. \A q \in done' : task'[q] \in {"finished", "failed"}
    BY <2>1, <2>2, <2>3 DEF SeqInv
  <2>9. (phase = "returned" => exhausted /\ Pending = {})'
    BY <2>1
  <2>10. (phase = "fill" => done = {})'
    BY <2>1
  <2> QED
    BY <2>5, <2>6, <2>7, <2>8, <2>9, <2>10 DEF SeqInv
<1>5. CASE Exhaust
  BY <1>1, <1>5 DEF Exhaust, SeqInv
<1>6. CASE Wait
  BY <1>1, <1>6 DEF Wait, Settled, SeqInv, TypeOK
<1>7. CASE Return
  BY <1>1, <1>7 DEF Return, SeqInv, Pending
<1>8. CASE Raise \/ Interrupt \/ Terminated \/ UNCHANGED vars
  BY <1>1, <1>8 DEF Raise, Interrupt, Terminated, SeqInv, Pending
<1>9. ASSUME NEW p \in Paths, Finish(p) \/ LoseResult(p) PROVE SeqInv'
  BY <1>1, <1>9 DEF Finish, LoseResult, SeqInv, Pending, TypeOK
<1>10. CASE LoseWorker
  BY <1>1, <1>10 DEF LoseWorker, SeqInv, Pending, TypeOK
<1> QED
  BY <1>2, <1>3, <1>4, <1>5, <1>6, <1>7, <1>8, <1>9, <1>10 DEF Next, Coordinate

\* What preparation returns is what sequential preparation of every unit
\* gives, whatever the order in which sources settle and whatever is lost.
THEOREM ParallelIsSequential == Spec => []SameAsSequential
<1>1. Init => SeqInv
  BY NPathsAssumption DEF Init, SeqInv, Untouched, Paths
<1>2. TypeOK /\ SeqInv /\ [Next]_vars => SeqInv'
  BY SeqStep
<1>3. TypeOK /\ SeqInv => SameAsSequential
  <2> SUFFICES ASSUME TypeOK, SeqInv, phase = "returned"
               PROVE  /\ prepared = [u \in Units |-> PrepareUnit(u, before[u])]
                      /\ diagnosed = {u \in Units : before[u] # "parsed" /\ Diagnoses(u, before[u])}
    BY DEF SameAsSequential
  <2>1. \A p \in Paths : FinalUnits(p)
    <3> SUFFICES ASSUME NEW p \in Paths PROVE FinalUnits(p)
      OBVIOUS
    <3>1. CASE task[p] = "taken"
      BY <3>1 DEF SeqInv
    <3>2. CASE task[p] = "none"
      <4>1. Needs(p, prepared) = {} /\ Untouched(p)
        BY <3>2, NPathsAssumption DEF SeqInv, TypeOK, Paths
      <4>2. \A v \in Profiles : before[<<p, v>>] = "parsed"
        BY <4>1, NeedsMember DEF Untouched
      <4> QED
        BY <4>1, <4>2, ParsedStaysParsed DEF FinalUnits, Untouched
    <3> QED
      BY <3>1, <3>2 DEF SeqInv, Pending, TypeOK, TaskStates
  <2>2. \A u \in Units : /\ prepared[u] = PrepareUnit(u, before[u])
                         /\ u \in diagnosed <=> before[u] # "parsed" /\ Diagnoses(u, before[u])
    BY <2>1 DEF Units, FinalUnits
  <2> QED
    BY <2>2 DEF TypeOK
<1>4. Spec => []TypeOK
  BY TypeCorrect
<1> QED
  BY <1>1, <1>2, <1>3, <1>4, PTL DEF Spec

\* A unit the scan cannot use has a diagnostic when preparation returns.
THEOREM UnusableUnitsAreDiagnosed == Spec => []UnusableIsDiagnosed
<1>1. TypeOK /\ SameAsSequential => UnusableIsDiagnosed
  <2> SUFFICES ASSUME TypeOK, SameAsSequential, phase = "returned",
                      NEW u \in Units, prepared[u] # "parsed"
               PROVE  u \in diagnosed
    BY DEF UnusableIsDiagnosed
  <2>1. before[u] \in UnitStates /\ PrepareUnit(u, before[u]) # "parsed"
    BY DEF TypeOK, SameAsSequential
  <2>2. before[u] # "parsed" /\ Diagnoses(u, before[u])
    BY <2>1 DEF PrepareUnit, Diagnoses, UnitStates
  <2> QED
    BY <2>2 DEF SameAsSequential
<1> QED
  BY <1>1, TypeCorrect, ParallelIsSequential, PTL
=============================================================================
