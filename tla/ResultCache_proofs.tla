-------------------------- MODULE ResultCache_proofs --------------------------
(***************************************************************************)
(* The cache shared by any number of processes, edits, crashes and damaged *)
(* entries: an entry follows from its key, and a hit reports what a scan   *)
(* without the cache would find.                                           *)
(*                                                                         *)
(* What is on disk is right only because what is about to be put there is: *)
(* Prepared follows a result from the expansion over the analysis to the   *)
(* temporary file.  Until it is analysed, the header is as it was expanded *)
(* or the key is known to be torn; from then on the result is one of those *)
(* that Suppressing allows, and an edit only makes it allow more.          *)
(***************************************************************************)
EXTENDS ResultCache, TLAPS

Stages == {"idle", "expand", "lookup", "analyse", "store", "replace", "done", "failed"}

\* What the steps need to know of the types.
Typed ==
  /\ file \in Versions /\ header \in Versions
  /\ pc \in [Procs -> Stages]
  /\ read \in [Procs -> Versions] /\ expanded \in [Procs -> Versions]
  /\ summaries \in [Procs -> BOOLEAN] /\ reused \in [Procs -> BOOLEAN]
  /\ result = [p \in Procs |-> result[p]]
  /\ temp = [p \in Procs |-> temp[p]]
  /\ disk = [k \in Keys |-> disk[k]]

\* A complete temporary file is all that is ever renamed into place.
Whole == \A p \in Procs : pc[p] = "replace" => Usable(temp[p])

\* A result that an analysis of the contents of k may give.
Follows(findings, k) == \E s \in Suppressing(k) : findings = Findings(k[1], k[2], s, FALSE)

\* What a hit of p makes of such a result.
FindsTheSame(p) ==
  \E s \in Suppressing(Key(p)) :
    /\ {Says(f) : f \in result[p]} = {Says(f) : f \in Findings(read[p], expanded[p], s, summaries[p])}
    /\ \A f \in Findings(read[p], expanded[p], s, summaries[p]) : f.at = "file" => f \in result[p]

\* What a process is about to store, and what it has reused.
Prepared(p) ==
  /\ pc[p] \in {"expand", "lookup", "analyse", "store", "replace"} => ~reused[p]
  /\ pc[p] \in {"lookup", "analyse"} => header \in Suppressing(Key(p))
  /\ pc[p] \in {"store", "replace"} => ~summaries[p]
  /\ pc[p] = "store" => Follows(result[p], Key(p))
  /\ pc[p] = "replace" => Follows(temp[p].findings, Key(p))
  /\ pc[p] = "done" /\ reused[p] => FindsTheSame(p)

Right == EntryMatchesKey /\ \A p \in Procs : Prepared(p)

\* The steps of one process.
Steps(p) == \/ Start(p) \/ Expand(p) \/ Hit(p) \/ Miss(p) \/ Analyse(p) \/ Fail(p)
            \/ WriteTemp(p) \/ Replace(p) \/ GiveUp(p) \/ Return(p) \/ Crash(p)

-----------------------------------------------------------------------------
LEMMA StepsTyped ==
  ASSUME Typed, NEW p \in Procs, Steps(p)
  PROVE  Typed'
<1> USE DEF Typed, Stages
<1>1. CASE Start(p)
  <2>1. PICK m \in BOOLEAN : summaries' = [summaries EXCEPT ![p] = m]  BY <1>1 DEF Start
  <2> QED  BY <1>1, <2>1 DEF Start
<1>2. CASE Expand(p)  BY <1>2 DEF Expand
<1>3. CASE Hit(p)  BY <1>3 DEF Hit
<1>4. CASE Miss(p)  BY <1>4 DEF Miss
<1>5. CASE Analyse(p)  BY <1>5 DEF Analyse
<1>6. CASE Fail(p)  BY <1>6 DEF Fail
<1>7. CASE WriteTemp(p)  BY <1>7 DEF WriteTemp
<1>8. CASE Replace(p)  BY <1>8 DEF Replace
<1>9. CASE GiveUp(p)  BY <1>9 DEF GiveUp
<1>10. CASE Return(p)  BY <1>10 DEF Return
<1>11. CASE Crash(p)  BY <1>11 DEF Crash
<1> QED  BY <1>1, <1>2, <1>3, <1>4, <1>5, <1>6, <1>7, <1>8, <1>9, <1>10, <1>11 DEF Steps

\* The steps of the environment.
LEMMA EnvironmentTyped ==
  ASSUME Typed, (\E k \in Keys : Damage(k)) \/ Edit
  PROVE  Typed'
<1>1. CASE \E k \in Keys : Damage(k)  BY <1>1 DEF Typed, Damage, scan
<1>2. CASE Edit  BY <1>2 DEF Typed, Edit, scan
<1> QED  BY <1>1, <1>2

THEOREM CacheTyped == Spec => []Typed
<1>1. Init => Typed  BY BoundsAssumption DEF Init, Typed, Stages, Versions
<1>2. Typed /\ [Next]_vars => Typed'
  <2> SUFFICES ASSUME Typed, [Next]_vars PROVE Typed'  OBVIOUS
  <2>1. CASE UNCHANGED vars  BY <2>1 DEF Typed, vars, scan, budget
  <2>2. CASE Next  BY <2>1, <2>2, StepsTyped, EnvironmentTyped DEF Next, Steps, Finished
  <2> QED  BY <2>1, <2>2
<1> QED  BY <1>1, <1>2, PTL DEF Spec

-----------------------------------------------------------------------------
(* Entries survive.                                                        *)

LEMMA WrittenIsUsable == \A findings : Usable(Entry(findings, "success"))
BY DEF Usable, Entry

LEMMA WholeKept ==
  ASSUME Typed, Whole, [Next]_vars
  PROVE  Whole'
<1> SUFFICES ASSUME NEW q \in Procs, pc'[q] = "replace" PROVE Usable(temp'[q])
  BY DEF Whole, Usable
<1>1. CASE UNCHANGED <<pc, temp>>  BY <1>1 DEF Whole
<1>2. ASSUME NEW p \in Procs, Steps(p) PROVE Usable(temp'[q])
  <2>1. CASE WriteTemp(p)  BY <2>1, WrittenIsUsable DEF WriteTemp, Whole, Typed
  <2>2. CASE Replace(p) \/ GiveUp(p) \/ Crash(p)
    BY <2>2 DEF Replace, GiveUp, Crash, Whole, Typed
  <2>3. CASE Start(p) \/ Expand(p) \/ Hit(p) \/ Miss(p) \/ Analyse(p) \/ Fail(p) \/ Return(p)
    BY <2>3 DEF Start, Expand, Hit, Miss, Analyse, Fail, Return, Whole, Typed
  <2> QED  BY <1>2, <2>1, <2>2, <2>3 DEF Steps
<1>3. UNCHANGED vars \/ Finished \/ Edit \/ (\E k \in Keys : Damage(k)) => UNCHANGED <<pc, temp>>
  BY DEF vars, scan, Finished, Edit, Damage
<1> QED  BY <1>1, <1>2, <1>3 DEF Next, Steps

THEOREM OnlyWholeEntriesArePlaced == Spec => []Whole
<1>1. Init => Whole  BY DEF Init, Whole
<1> QED  BY <1>1, WholeKept, CacheTyped, PTL DEF Spec

\* Writers that race, fail or die never take a usable entry away: only damage
\* from outside does (ResultCache.put replaces, it never writes in place).
THEOREM UsableEntriesSurvive == Spec => EntriesSurvive
<1>1. Typed /\ Whole /\ [Next]_vars
        => [\A k \in Keys : Usable(disk[k]) => Usable(disk'[k]) \/ Damage(k)]_vars
  <2> SUFFICES ASSUME Typed, Whole, Next, NEW k \in Keys, Usable(disk[k])
               PROVE  Usable(disk'[k]) \/ Damage(k)
    OBVIOUS
  <2>1. CASE disk' = disk  BY <2>1
  <2>2. CASE \E p \in Procs : Replace(p)
    <3>1. PICK p \in Procs : Replace(p)  BY <2>2
    <3>2. disk' = [disk EXCEPT ![Key(p)] = temp[p]] /\ Usable(temp[p])
      BY <3>1 DEF Replace, Whole
    <3>3. disk'[k] \in {disk[k], temp[p]}  BY <3>2 DEF Typed
    <3> QED  BY <3>2, <3>3
  <2>3. CASE \E j \in Keys : Damage(j)
    <3>1. PICK j \in Keys : Damage(j)  BY <2>3
    <3>2. CASE j = k  BY <3>1, <3>2
    <3>3. CASE j # k
      <4>1. disk'[k] = disk[k]  BY <3>1, <3>3 DEF Damage, Typed
      <4> QED  BY <4>1
    <3> QED  BY <3>2, <3>3
  <2> QED
    BY <2>1, <2>2, <2>3 DEF Next, Start, Expand, Hit, Miss, Analyse, Fail, WriteTemp,
       GiveUp, Return, Crash, Edit, Finished, vars
<1> QED  BY <1>1, CacheTyped, OnlyWholeEntriesArePlaced, PTL DEF Spec, EntriesSurvive

-----------------------------------------------------------------------------
(* Entries follow from their keys, and hits from entries.                  *)

\* A finding that moves says the same, and one that is in the file stays as it is.
LEMMA MovedSaysTheSame ==
  ASSUME NEW v, NEW h, NEW s, NEW m, NEW f \in Findings(v, h, s, m)
  PROVE  Says(Moved(f)) = Says(f) /\ (f.at = "file" => Moved(f) = f)
<1>1. PICK r \in Reports :
        f = [report |-> r, at |-> r.at, related |-> r.related, unit |-> <<v, h>>, summaries |-> m,
             suppressed |-> [t \in {r.at} \cup r.related |-> IF t = "file" THEN v ELSE s]]
  BY DEF Findings
<1>2. Says(Moved(f)) = Says(f)  BY <1>1 DEF Says, Moved
<1>3. ASSUME f.at = "file" PROVE Moved(f) = f
  <2>1. {IF t = f.at THEN "file" ELSE t : t \in f.related} = f.related  BY <1>3
  <2> QED  BY <1>1, <1>3, <2>1 DEF Moved
<1> QED  BY <1>2, <1>3

LEMMA RebindSaysTheSame ==
  ASSUME NEW v, NEW h, NEW s, NEW m, NEW cold, cold = Findings(v, h, s, m)
  PROVE  /\ {Says(f) : f \in Rebind(cold)} = {Says(f) : f \in cold}
         /\ \A f \in cold : f.at = "file" => f \in Rebind(cold)
<1>1. \A f \in cold : Moved(f) \in Rebind(cold)  BY DEF Rebind
<1>2. \A f \in cold : Says(Moved(f)) = Says(f) /\ (f.at = "file" => Moved(f) = f)
  BY MovedSaysTheSame
<1>3. {Says(f) : f \in Rebind(cold)} = {Says(Moved(f)) : f \in cold}  BY DEF Rebind
<1>4. {Says(Moved(f)) : f \in cold} = {Says(f) : f \in cold}  BY <1>2
<1> QED  BY <1>1, <1>2, <1>3, <1>4

LEMMA KeysTyped == ASSUME Typed, NEW p \in Procs PROVE Key(p) \in Keys
BY DEF Typed, Key, Keys

\* What a hit makes of an entry that follows from its key.
LEMMA HitFindsTheSame ==
  ASSUME Typed, NEW p \in Procs, ~summaries[p],
         NEW findings, Follows(findings, Key(p))
  PROVE  \E s \in Suppressing(Key(p)) :
           LET cold == Findings(read[p], expanded[p], s, summaries[p]) IN
           /\ {Says(f) : f \in Rebind(findings)} = {Says(f) : f \in cold}
           /\ \A f \in cold : f.at = "file" => f \in Rebind(findings)
<1>1. PICK s \in Suppressing(Key(p)) : findings = Findings(read[p], expanded[p], s, FALSE)
  BY DEF Follows, Key
<1>2. summaries[p] = FALSE  BY DEF Typed
<1>3. findings = Findings(read[p], expanded[p], s, summaries[p])  BY <1>1, <1>2
<1> QED  BY <1>3, RebindSaysTheSame

\* While a scan's key stays the same, what it may report only grows with torn.
LEMMA SameKeyAllowsMore ==
  ASSUME Typed, NEW p \in Procs, torn \subseteq torn',
         read'[p] = read[p], expanded'[p] = expanded[p]
  PROVE  Key(p)' = Key(p) /\ Suppressing(Key(p)) \subseteq Suppressing(Key(p))'
BY DEF Typed, Key, Suppressing

\* Prepared holds of a scan that keeps what it has, whatever else happens, as long
\* as torn grows with the edits that concern it.
LEMMA PreparedStays ==
  ASSUME Typed, NEW p \in Procs, Prepared(p), torn \subseteq torn',
         pc'[p] = pc[p], reused'[p] = reused[p], summaries'[p] = summaries[p], result'[p] = result[p],
         read'[p] = read[p], expanded'[p] = expanded[p], temp'[p] = temp[p],
         pc[p] \in {"lookup", "analyse"} => header' \in Suppressing(Key(p))'
  PROVE  Prepared(p)'
<1>1. Key(p)' = Key(p) /\ Suppressing(Key(p)) \subseteq Suppressing(Key(p))'  BY SameKeyAllowsMore
<1>2. pc'[p] = "store" => Follows(result[p], Key(p))'  BY <1>1 DEF Prepared, Follows
<1>3. pc'[p] = "replace" => Follows(temp[p].findings, Key(p))'  BY <1>1 DEF Prepared, Follows
<1>4. pc'[p] = "done" /\ reused'[p] => FindsTheSame(p)'  BY <1>1 DEF Prepared, FindsTheSame
<1> QED  BY <1>2, <1>3, <1>4 DEF Prepared

\* No process edits.
LEMMA StepsEditNothing ==
  ASSUME NEW p \in Procs, Steps(p) PROVE header' = header /\ torn' = torn
BY DEF Steps, Start, Expand, Hit, Miss, Analyse, Fail, WriteTemp, Replace, GiveUp, Return, Crash

\* A step of one process prepares what it stores from what it has read.
LEMMA StepsPrepare ==
  ASSUME Typed, Right, NEW p \in Procs, Steps(p)
  PROVE  Prepared(p)'
<1>p. Prepared(p)  BY DEF Right
<1>e. header' = header /\ torn' = torn  BY StepsEditNothing
<1>k. ASSUME read'[p] = read[p], expanded'[p] = expanded[p]
      PROVE  Key(p)' = Key(p) /\ Suppressing(Key(p))' = Suppressing(Key(p))
  BY <1>e, <1>k DEF Key, Suppressing
<1>1. CASE Start(p)  BY <1>1 DEF Start, Typed, Prepared
<1>2. CASE Expand(p)
  <2>1. Key(p)'[2] = header'  BY <1>e, <1>2 DEF Expand, Key, Typed
  <2>2. header' \in Suppressing(Key(p))'  BY <1>e, <2>1 DEF Suppressing, Typed
  <2> QED  BY <1>p, <1>2, <2>2 DEF Expand, Typed, Prepared
<1>3. CASE Hit(p)
  <2>1. Key(p) \in Keys /\ ~summaries[p]  BY <1>3, KeysTyped DEF Hit, Cacheable
  <2>2. Follows(disk[Key(p)].findings, Key(p))
    BY <1>3, <2>1 DEF Hit, Right, EntryMatchesKey, Follows
  <2>3. result'[p] = Rebind(disk[Key(p)].findings)  BY <1>3 DEF Hit, Typed
  <2>4. Key(p)' = Key(p) /\ Suppressing(Key(p))' = Suppressing(Key(p))  BY <1>k, <1>3 DEF Hit
  <2>5. read'[p] = read[p] /\ expanded'[p] = expanded[p] /\ summaries'[p] = summaries[p]
    BY <1>3 DEF Hit
  <2>6. FindsTheSame(p)'
    <3> DEFINE cold(s) == Findings(read[p], expanded[p], s, summaries[p])
    <3>1. PICK s \in Suppressing(Key(p)) :
            /\ {Says(f) : f \in result'[p]} = {Says(f) : f \in cold(s)}
            /\ \A f \in cold(s) : f.at = "file" => f \in result'[p]
      BY <2>1, <2>2, <2>3, HitFindsTheSame
    <3>2. cold(s) = Findings(read'[p], expanded'[p], s, summaries'[p])  BY <2>5
    <3>3. s \in Suppressing(Key(p))'  BY <2>4, <3>1
    <3> HIDE DEF cold
    <3> QED  BY <3>1, <3>2, <3>3 DEF FindsTheSame
  <2> QED  BY <1>3, <2>6 DEF Hit, Typed, Prepared
<1>4. CASE Miss(p)  BY <1>p, <1>e, <1>k, <1>4 DEF Miss, Typed, Prepared
<1>5. CASE Analyse(p)
  <2>1. result'[p] = Findings(read[p], expanded[p], header, summaries[p])
    BY <1>5 DEF Analyse, Typed
  <2>2. Key(p)' = Key(p) /\ Suppressing(Key(p))' = Suppressing(Key(p))  BY <1>k, <1>5 DEF Analyse
  <2>3. header \in Suppressing(Key(p))  BY <1>p, <1>5 DEF Analyse, Prepared
  <2>4. CASE Cacheable(p)
    <3>1. summaries[p] = FALSE  BY <2>4 DEF Cacheable, Typed
    <3>2. Follows(result[p], Key(p))'  BY <2>1, <2>2, <2>3, <3>1 DEF Follows, Key
    <3> QED  BY <1>p, <1>5, <2>4, <3>1, <3>2 DEF Analyse, Typed, Prepared
  <2>5. CASE ~Cacheable(p)  BY <1>p, <1>5, <2>5 DEF Analyse, Typed, Prepared
  <2> QED  BY <2>4, <2>5
<1>6. CASE Fail(p)  BY <1>6 DEF Fail, Typed, Prepared
<1>7. CASE WriteTemp(p)
  <2>1. temp'[p].findings = result[p]  BY <1>7 DEF WriteTemp, Entry, Typed
  <2>2. Key(p)' = Key(p) /\ Suppressing(Key(p))' = Suppressing(Key(p))  BY <1>k, <1>7 DEF WriteTemp
  <2>3. Follows(temp[p].findings, Key(p))'
    BY <1>p, <1>7, <2>1, <2>2 DEF WriteTemp, Prepared, Follows
  <2> QED  BY <1>p, <1>7, <2>3 DEF WriteTemp, Typed, Prepared
<1>8. CASE Replace(p)  BY <1>p, <1>8 DEF Replace, Typed, Prepared
<1>9. CASE GiveUp(p)  BY <1>p, <1>9 DEF GiveUp, Typed, Prepared
<1>10. CASE Return(p)  BY <1>10 DEF Return, Typed, Prepared
<1>11. CASE Crash(p)  BY <1>11 DEF Crash, Typed, Prepared
<1> QED  BY <1>1, <1>2, <1>3, <1>4, <1>5, <1>6, <1>7, <1>8, <1>9, <1>10, <1>11 DEF Steps

\* Another process's steps do not disturb it.
LEMMA StepsApart ==
  ASSUME Typed, NEW p \in Procs, Steps(p), NEW q \in Procs, q # p, Prepared(q)
  PROVE  Prepared(q)'
<1>1. /\ pc'[q] = pc[q] /\ reused'[q] = reused[q] /\ summaries'[q] = summaries[q]
      /\ result'[q] = result[q] /\ read'[q] = read[q] /\ expanded'[q] = expanded[q]
      /\ temp'[q] = temp[q]
  <2> USE DEF Typed
  <2>1. CASE Start(p)  BY <2>1 DEF Start
  <2>2. CASE Expand(p) \/ Hit(p) \/ Miss(p) \/ Analyse(p) \/ Fail(p) \/ Return(p)
    BY <2>2 DEF Expand, Hit, Miss, Analyse, Fail, Return
  <2>3. CASE WriteTemp(p) \/ Replace(p) \/ GiveUp(p) \/ Crash(p)
    BY <2>3 DEF WriteTemp, Replace, GiveUp, Crash
  <2> QED  BY <2>1, <2>2, <2>3 DEF Steps
<1>2. header' = header /\ torn' = torn  BY StepsEditNothing
<1>3. Key(q)' = Key(q) /\ Suppressing(Key(q)) \subseteq Suppressing(Key(q))'
  BY <1>1, <1>2, SameKeyAllowsMore
<1>4. pc[q] \in {"lookup", "analyse"} => header' \in Suppressing(Key(q))'
  BY <1>2, <1>3 DEF Prepared
<1> QED  BY <1>1, <1>2, <1>4, PreparedStays

\* An edit of the header concerns the scans that have expanded it: it may be what
\* their suppression comments come from.
LEMMA EditKeepsPrepared ==
  ASSUME Typed, Edit, NEW q \in Procs, Prepared(q)
  PROVE  Prepared(q)'
<1>1. /\ pc' = pc /\ reused' = reused /\ summaries' = summaries /\ result' = result
      /\ read' = read /\ expanded' = expanded /\ temp' = temp
  BY DEF Edit, scan
<1>2. torn \subseteq torn'  BY DEF Edit
<1>3. Key(q)' = Key(q) /\ Suppressing(Key(q)) \subseteq Suppressing(Key(q))'
  BY <1>1, <1>2, SameKeyAllowsMore
<1>4. ASSUME pc[q] \in {"lookup", "analyse"} PROVE header' \in Suppressing(Key(q))'
  <2>1. CASE header' = header  BY <1>3, <1>4, <2>1 DEF Prepared
  <2>2. CASE header' # header
    <3>1. Key(q) \in torn'  BY <1>4, <2>2 DEF Edit, HaveExpanded
    <3>2. header' \in Versions  BY <2>2 DEF Edit
    <3> QED  BY <1>3, <3>1, <3>2 DEF Suppressing
  <2> QED  BY <2>1, <2>2
<1> QED  BY <1>1, <1>2, <1>4, PreparedStays

\* Only what was prepared is placed.
LEMMA PlacedIsRight ==
  ASSUME Typed, Right, [Next]_vars
  PROVE  EntryMatchesKey'
<1> SUFFICES ASSUME NEW k \in Keys, Usable(disk[k])'
             PROVE  \E s \in Suppressing(k)' : disk'[k].findings = Findings(k[1], k[2], s, FALSE)
  BY DEF EntryMatchesKey
<1>1. Suppressing(k) \subseteq Suppressing(k)'
  <2>1. torn \subseteq torn'
    BY DEF Next, Start, Expand, Hit, Miss, Analyse, Fail, WriteTemp, Replace,
       GiveUp, Return, Crash, Damage, Edit, Finished, vars
  <2>2. k[2] \in Versions  BY DEF Keys
  <2> QED  BY <2>1, <2>2 DEF Suppressing
<1>2. CASE disk'[k] = disk[k]  BY <1>1, <1>2 DEF Right, EntryMatchesKey, Usable
<1>3. CASE \E p \in Procs : Replace(p) /\ k = Key(p)
  <2>1. PICK p \in Procs : Replace(p) /\ k = Key(p)  BY <1>3
  <2>2. disk'[k] = temp[p]  BY <2>1, KeysTyped DEF Replace, Typed
  <2>3. Follows(temp[p].findings, k)  BY <2>1 DEF Replace, Right, Prepared
  <2> QED  BY <1>1, <2>2, <2>3 DEF Follows
<1>4. CASE disk'[k] = Damaged  BY <1>4 DEF Damaged, Usable
<1>5. disk'[k] = disk[k] \/ disk'[k] = Damaged \/ \E p \in Procs : Replace(p) /\ k = Key(p)
  <2>1. CASE disk' = disk  BY <2>1
  <2>2. ASSUME NEW p \in Procs, Replace(p), k # Key(p) PROVE disk'[k] = disk[k]
    BY <2>2 DEF Replace, Typed
  <2>3. ASSUME NEW j \in Keys, Damage(j) PROVE disk'[k] \in {disk[k], Damaged}
    BY <2>3 DEF Damage, Typed
  <2> QED
    BY <2>1, <2>2, <2>3 DEF Next, Start, Expand, Hit, Miss, Analyse, Fail, WriteTemp,
       GiveUp, Return, Crash, Edit, Finished, vars
<1> QED  BY <1>2, <1>3, <1>4, <1>5

LEMMA RightKept ==
  ASSUME Typed, Right, [Next]_vars
  PROVE  Right'
<1>1. EntryMatchesKey'  BY PlacedIsRight
<1>2. ASSUME NEW q \in Procs PROVE Prepared(q)'
  <2>p. Prepared(q)  BY DEF Right
  <2>1. CASE \E p \in Procs : Steps(p)
    <3>1. PICK p \in Procs : Steps(p)  BY <2>1
    <3>2. CASE p = q  BY <3>1, <3>2, StepsPrepare
    <3>3. CASE p # q  BY <2>p, <3>1, <3>3, StepsApart
    <3> QED  BY <3>2, <3>3
  <2>2. CASE Edit  BY <2>p, <2>2, EditKeepsPrepared
  <2>3. CASE UNCHANGED <<header, scan, temp, torn>>
    BY <2>p, <2>3 DEF Prepared, Follows, FindsTheSame, Key, Suppressing, scan
  <2> QED  BY <2>1, <2>2, <2>3 DEF Next, Steps, Damage, Finished, vars
<1> QED  BY <1>1, <1>2 DEF Right

LEMMA RightAtFirst == Init => Right
<1>1. ASSUME Init, NEW k \in Keys PROVE ~Usable(disk[k])
  BY <1>1 DEF Init, Usable, Absent
<1> QED  BY <1>1 DEF Init, Right, Prepared, EntryMatchesKey

\* Whatever is stored under a key follows from the contents the key covers, for
\* any number of processes and any edits, faults and damage; and where the header
\* was edited in the middle of a scan of these contents, but for the suppression
\* comments (compute_cache_key, ResultCache.put).
THEOREM EntriesMatchTheirKeys == Spec => []EntryMatchesKey
<1>1. Right => EntryMatchesKey  BY DEF Right
<1> QED  BY <1>1, RightAtFirst, RightKept, CacheTyped, PTL DEF Spec

\* A scan that reuses a cached result reports the findings it would make without
\* the cache, and those in the file unchanged (ResultCache.get,
\* rebind_cached_result).
THEOREM CachedResultsAreCold == Spec => []WarmFindsTheSame
<1>1. Right => WarmFindsTheSame
  BY DEF Right, Prepared, FindsTheSame, WarmFindsTheSame
<1> QED  BY <1>1, RightAtFirst, RightKept, CacheTyped, PTL DEF Spec

\* What a hit makes of the result of a cold scan of the same contents is another
\* result, since the findings of the header have moved (rebind_cached_result);
\* only findings that are in the file stay as they are.
THEOREM HeaderFindingsMove ==
  ASSUME NEW v, NEW h, NEW m
  PROVE  /\ Rebind(Cold(v, h, m)) # Cold(v, h, m)
         /\ \A f \in Cold(v, h, m) : Moved(f) = f <=> f.at = "file"
<1>1. ASSUME NEW f \in Cold(v, h, m) PROVE Moved(f).at = "file"
  BY DEF Cold, Findings, Moved
<1>2. ASSUME NEW f \in Cold(v, h, m) PROVE Moved(f) = f <=> f.at = "file"
  BY <1>1, MovedSaysTheSame DEF Cold
<1>3. \A f \in Rebind(Cold(v, h, m)) : f.at = "file"  BY <1>1 DEF Rebind
<1>4. \E f \in Cold(v, h, m) : f.at = "header"
  <2>1. [at |-> "header", related |-> {}] \in Reports  BY DEF Reports, Places
  <2> DEFINE r == [at |-> "header", related |-> {}]
             f == [report |-> r, at |-> r.at, related |-> r.related, unit |-> <<v, h>>, summaries |-> m,
                   suppressed |-> [t \in {r.at} \cup r.related |-> IF t = "file" THEN v ELSE h]]
  <2>2. f \in Cold(v, h, m)  BY <2>1 DEF Cold, Findings
  <2>3. f.at = "header"  OBVIOUS
  <2> QED  BY <2>2, <2>3
<1> QED  BY <1>2, <1>3, <1>4
=============================================================================
