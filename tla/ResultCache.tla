---------------------------- MODULE ResultCache ----------------------------
(***************************************************************************)
(* The opt-in result cache: scans of one file, by several processes that   *)
(* share a cache directory, while the file and a header it includes are    *)
(* being edited.  A scan reads the file, expands it, looks its key up,     *)
(* and on a miss analyses it and stores the result with a temporary file   *)
(* and os.replace.                                                         *)
(*                                                                         *)
(* A result is the set of its findings.  All of them come from the text of *)
(* the translation unit, the file with the header expanded in it; each has *)
(* survived the suppression comments of the texts it points to.            *)
(***************************************************************************)
EXTENDS Integers, FiniteSets

CONSTANTS Procs,
          MaxEdits,   \* bound on edits of the file and of the header
          MaxScans,   \* bound on scans started
          MaxFaults   \* bound on crashes, failures and damaged entries

ASSUME BoundsAssumption == MaxEdits \in Nat /\ MaxScans \in Nat /\ MaxFaults \in Nat

Versions == 0..MaxEdits
Keys == Versions \X Versions      \* what was read of the file, and of the header

VARIABLES
  file, header,  \* the versions on disk
  disk,          \* the cache entry under each key
  pc,            \* where each scan is
  read,          \* the version of the file it read
  expanded,      \* the version of the header in its translation unit
  summaries,     \* does its context carry project summaries
  result,        \* its findings
  reused,        \* did they come from the cache
  temp,          \* its temporary file
  torn,          \* keys of scans during which the header was edited (history)
  edits, scans, faults

scan == <<pc, read, expanded, summaries, result, reused>>
budget == <<edits, scans, faults>>
vars == <<file, header, disk, scan, temp, torn, budget>>

Absent == [state |-> "absent"]
Damaged == [state |-> "damaged"]
Entry(findings, status) == [state |-> "complete", findings |-> findings, status |-> status]

Init ==
  /\ file = 0 /\ header = 0 /\ disk = [k \in Keys |-> Absent]
  /\ pc = [p \in Procs |-> "idle"]
  /\ read = [p \in Procs |-> 0] /\ expanded = [p \in Procs |-> 0]
  /\ summaries = [p \in Procs |-> FALSE]
  /\ result = [p \in Procs |-> {}] /\ reused = [p \in Procs |-> FALSE]
  /\ temp = [p \in Procs |-> Absent] /\ torn = {}
  /\ edits = 0 /\ scans = 0 /\ faults = 0

-----------------------------------------------------------------------------
(* What an analysis finds, and what a hit makes of it.                     *)

Places == {"file", "header"}

\* A rule reports something in one of the texts, with related locations.
Reports == [at : Places, related : SUBSET Places]

\* What is found in the file at v with the header at h, when the header's
\* suppression comments are those of its version s.  The comments of a text are
\* consulted for the findings that point to it.
Findings(v, h, s, m) ==
  {[report |-> r, at |-> r.at, related |-> r.related, unit |-> <<v, h>>, summaries |-> m,
    suppressed |-> [t \in {r.at} \cup r.related |-> IF t = "file" THEN v ELSE s]] : r \in Reports}

\* What a scan of these contents reports when nothing changes meanwhile.
Cold(v, h, m) == Findings(v, h, h, m)

\* A finding moves to the requesting path, wherever it was, and related locations
\* in the same text with it.
Moved(f) == [f EXCEPT !.at = "file", !.related = {IF t = f.at THEN "file" ELSE t : t \in @}]

Rebind(findings) == {Moved(f) : f \in findings}

-----------------------------------------------------------------------------
(* The scan of one process.                                                *)

\* Faulty: the digest of the expanded text is missing.
KeyOfSource(p) == <<read[p], 0>>

Key(p) == <<read[p], expanded[p]>>

Start(p) ==
  /\ pc[p] = "idle" /\ scans < MaxScans
  /\ scans' = scans + 1
  /\ pc' = [pc EXCEPT ![p] = "expand"] /\ read' = [read EXCEPT ![p] = file]
  /\ result' = [result EXCEPT ![p] = {}] /\ reused' = [reused EXCEPT ![p] = FALSE]
  /\ \E m \in BOOLEAN : summaries' = [summaries EXCEPT ![p] = m]
  /\ UNCHANGED <<file, header, disk, expanded, temp, torn, edits, faults>>

Expand(p) ==
  /\ pc[p] = "expand"
  /\ expanded' = [expanded EXCEPT ![p] = header] /\ pc' = [pc EXCEPT ![p] = "lookup"]
  /\ UNCHANGED <<file, header, disk, read, summaries, result, reused, temp, torn, budget>>

\* Faulty: looks up although the key does not cover the summaries.
AlwaysCacheable(p) == TRUE

\* Summaries are not part of the key, so such a scan neither reads nor writes.
Cacheable(p) == ~summaries[p]

Usable(e) == e.state = "complete" /\ e.status = "success"

Hit(p) ==
  /\ pc[p] = "lookup" /\ Cacheable(p) /\ Usable(disk[Key(p)])
  /\ result' = [result EXCEPT ![p] = Rebind(disk[Key(p)].findings)]
  /\ reused' = [reused EXCEPT ![p] = TRUE]
  /\ pc' = [pc EXCEPT ![p] = "done"]
  /\ UNCHANGED <<file, header, disk, read, expanded, summaries, temp, torn, budget>>

Miss(p) ==
  /\ pc[p] = "lookup" /\ ~(Cacheable(p) /\ Usable(disk[Key(p)]))
  /\ pc' = [pc EXCEPT ![p] = "analyse"]
  /\ UNCHANGED <<file, header, disk, read, expanded, summaries, result, reused, temp, torn, budget>>

\* The suppression comments of the header are read again from disk.
Analyse(p) ==
  /\ pc[p] = "analyse"
  /\ result' = [result EXCEPT ![p] = Findings(read[p], expanded[p], header, summaries[p])]
  /\ pc' = [pc EXCEPT ![p] = IF Cacheable(p) THEN "store" ELSE "done"]
  /\ UNCHANGED <<file, header, disk, read, expanded, summaries, reused, temp, torn, budget>>

\* An exception in a rule: no findings, and put is not called.
Fail(p) ==
  /\ pc[p] = "analyse" /\ faults < MaxFaults
  /\ faults' = faults + 1
  /\ pc' = [pc EXCEPT ![p] = "failed"]
  /\ UNCHANGED <<file, header, disk, read, expanded, summaries, result, reused, temp, torn, edits, scans>>

\* Faulty: writes the entry in place.
WriteInPlace(p) ==
  /\ pc[p] = "store"
  /\ disk' = [disk EXCEPT ![Key(p)] = Damaged]
  /\ temp' = [temp EXCEPT ![p] = Entry(result[p], "success")]
  /\ pc' = [pc EXCEPT ![p] = "replace"]
  /\ UNCHANGED <<file, header, read, expanded, summaries, result, reused, torn, budget>>

\* mkstemp, json.dump and fsync: what is left if the process dies meanwhile is
\* a temporary file that no key names.
WriteTemp(p) ==
  /\ pc[p] = "store"
  /\ temp' = [temp EXCEPT ![p] = Entry(result[p], "success")]
  /\ pc' = [pc EXCEPT ![p] = "replace"]
  /\ UNCHANGED <<file, header, disk, read, expanded, summaries, result, reused, torn, budget>>

Replace(p) ==
  /\ pc[p] = "replace"
  /\ disk' = [disk EXCEPT ![Key(p)] = temp[p]]
  /\ temp' = [temp EXCEPT ![p] = Absent]
  /\ pc' = [pc EXCEPT ![p] = "done"]
  /\ UNCHANGED <<file, header, read, expanded, summaries, result, reused, torn, budget>>

\* An OSError on the way: the temporary file is removed and the scan goes on.
GiveUp(p) ==
  /\ pc[p] \in {"store", "replace"} /\ faults < MaxFaults
  /\ faults' = faults + 1
  /\ temp' = [temp EXCEPT ![p] = Absent]
  /\ pc' = [pc EXCEPT ![p] = "done"]
  /\ UNCHANGED <<file, header, disk, read, expanded, summaries, result, reused, torn, edits, scans>>

Return(p) ==
  /\ pc[p] \in {"done", "failed"}
  /\ pc' = [pc EXCEPT ![p] = "idle"]
  /\ UNCHANGED <<file, header, disk, read, expanded, summaries, result, reused, temp, torn, budget>>

-----------------------------------------------------------------------------
(* The environment.                                                        *)

\* The process is killed; a temporary file stays, out of every key's way, and
\* the next run uses another name.
Crash(p) ==
  /\ pc[p] # "idle" /\ faults < MaxFaults
  /\ faults' = faults + 1
  /\ pc' = [pc EXCEPT ![p] = "idle"] /\ temp' = [temp EXCEPT ![p] = Absent]
  /\ UNCHANGED <<file, header, disk, read, expanded, summaries, result, reused, torn, edits, scans>>

Damage(k) ==
  /\ disk[k].state = "complete" /\ faults < MaxFaults
  /\ faults' = faults + 1 /\ disk' = [disk EXCEPT ![k] = Damaged]
  /\ UNCHANGED <<file, header, scan, temp, torn, edits, scans>>

\* The scans that have read the header and are not through with it.
HaveExpanded == {p \in Procs : pc[p] \in {"lookup", "analyse"}}

\* An edit may bring back an earlier version.
Edit ==
  /\ edits < MaxEdits /\ edits' = edits + 1
  /\ \/ file' \in Versions \ {file} /\ UNCHANGED <<header, torn>>
     \/ /\ header' \in Versions \ {header} /\ UNCHANGED file
        /\ torn' = torn \cup {Key(p) : p \in HaveExpanded}
  /\ UNCHANGED <<disk, scan, temp, scans, faults>>

Finished == scans = MaxScans /\ (\A p \in Procs : pc[p] = "idle") /\ UNCHANGED vars

Next == \/ \E p \in Procs : \/ Start(p) \/ Expand(p) \/ Hit(p) \/ Miss(p)
                            \/ Analyse(p) \/ Fail(p)
                            \/ WriteTemp(p) \/ Replace(p) \/ GiveUp(p)
                            \/ Return(p) \/ Crash(p)
        \/ \E k \in Keys : Damage(k)
        \/ Edit \/ Finished

Spec == Init /\ [][Next]_vars
-----------------------------------------------------------------------------
(* Properties.                                                             *)

\* The header's suppression comments a scan of these contents may have used: those
\* of the version it expanded, unless the header was edited in the middle of such
\* a scan.
Suppressing(k) == IF k \in torn THEN Versions ELSE {k[2]}

\* Whatever is stored under a key follows from the contents the key covers, the
\* expanded text included: docs/result-cache.md, "Changing any of those inputs
\* yields a miss and recomputes the file".  Where the header was edited between
\* its two readings, it follows from them but for the suppression comments, which
\* are all of one version.
EntryMatchesKey ==
  \A k \in Keys : Usable(disk[k]) =>
    \E s \in Suppressing(k) : disk[k].findings = Findings(k[1], k[2], s, FALSE)

\* What a finding says, wherever it is shown.
Says(f) == <<f.report, f.unit, f.suppressed, f.summaries>>

\* A scan that reuses a cached result reports the findings that a scan of the same
\* contents would make without the cache and no others, under the same suppression
\* comments; of those in the file, also the place and the related locations are the
\* same (ResultCache.get, rebind_cached_result).
WarmFindsTheSame ==
  \A p \in Procs : pc[p] = "done" /\ reused[p] =>
    \E s \in Suppressing(Key(p)) :
      LET cold == Findings(read[p], expanded[p], s, summaries[p]) IN
      /\ {Says(f) : f \in result[p]} = {Says(f) : f \in cold}
      /\ \A f \in cold : f.at = "file" => f \in result[p]

\* A scan that reuses a cached result reports what a scan of the same contents
\* without the cache would: docs/result-cache.md, "producing the same
\* findings/fingerprints".
WarmIsCold ==
  \A p \in Procs :
    pc[p] = "done" /\ reused[p] => result[p] = Cold(read[p], expanded[p], summaries[p])

\* Writers that race, fail or die never take a usable entry away: only damage
\* from outside does.
EntriesSurvive ==
  [][\A k \in Keys : Usable(disk[k]) => Usable(disk'[k]) \/ Damage(k)]_vars
=============================================================================
