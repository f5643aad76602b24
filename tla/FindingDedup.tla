---------------------------- MODULE FindingDedup ----------------------------
(***************************************************************************)
(* How findings of one rule on one line of a header become rows of the     *)
(* report: every scanned file that includes the header contributes its     *)
(* candidates, under each configuration profile.  They are finalised over  *)
(* the profiles, per file and, when the results of all files are in, again *)
(* together.  Results arrive in the order in which the workers complete.   *)
(*                                                                         *)
(* A row has a column, 1 when its analyser knew no better, a message, the  *)
(* files it is related to, the profiles it was found under, and here, for  *)
(* the properties only, the analyser findings it stands for.               *)
(***************************************************************************)
EXTENDS Integers, FiniteSets, SequencesExt

CONSTANTS Files,        \* the scanned files, 1..n, in discovery order
          Standalone,   \* those of them that are the header itself
          Columns,      \* 1 and the columns of precise findings
          Messages,     \* 1..m, in the order in which messages sort
          DedupChoices, \* values of config.dedup_headers
          Profiles,     \* the possible profiles, 1..n
          MaxFindings,  \* bound on the findings of one file under one profile
          Inputs        \* what to scan: the profiles, and what the analysers find for each
                        \* file under each of them

ASSUME FilesAssumption ==
  /\ Files = 1..Cardinality(Files) /\ IsFiniteSet(Files)
  /\ Standalone \subseteq Files /\ \A f, g \in Standalone : f = g
ASSUME RowsAssumption ==
  /\ Columns \subseteq Nat \ {0} /\ 1 \in Columns
  /\ Messages = 1..Cardinality(Messages) /\ IsFiniteSet(Messages)
  /\ DedupChoices \subseteq BOOLEAN /\ MaxFindings \in Nat /\ Profiles \subseteq Nat \ {0}

VARIABLES dedup,       \* config.dedup_headers
          profiles,    \* the profiles of the scan; none when it has no profiles
          raw,         \* what the analysers find for each file and profile
          failed,      \* the files whose scan failed
          arrived,     \* the files whose results are in
          candidates,  \* the finalised rows collected so far
          counted,     \* issues_count of each file's summary
          report,      \* the rows of the report, at their occurrence number
          finished     \* the report is written

input == <<dedup, profiles, raw>>
vars == <<input, failed, arrived, candidates, counted, report, finished>>

Nothing == << >>

-----------------------------------------------------------------------------
(* Rows and their order.                                                   *)

Tus(f) == IF f \in Standalone THEN {} ELSE {f}

\* Without profiles a file is analysed once, as under profile 0.
Runs == IF profiles = {} THEN {0} ELSE profiles

\* `token` marks candidates of a profile until its candidates are merged.
Row(f, p, i) == [column |-> raw[f][p][i].column, message |-> raw[f][p][i].message,
                 tus |-> Tus(f), token |-> profiles \cap {p}, under |-> {}, of |-> {<<f, p, i>>}]

IsCoarse(r) == r.column = 1

\* Better located rows first, then by column and message.  Nothing else that
\* differs between two rows of this line is part of the key.
Before(a, b) ==
  IF IsCoarse(a) # IsCoarse(b) THEN IsCoarse(b)
  ELSE a.column < b.column \/ (a.column = b.column /\ a.message < b.message)

Keys == [column : Columns, message : Messages]

\* The elements of S in the order in which x comes after those of below[x].
InOrder(S, below) == [k \in 1..Cardinality(S) |-> CHOOSE x \in S : Cardinality(below[x]) = k - 1]

Ascending(S) == InOrder(S, [x \in S |-> {y \in S : y < x}])

\* sorted() is stable: rows with equal keys keep the order they came in.
Sorted(rows) ==
  LET first(i, j) == Before(rows[i], rows[j]) \/ (~Before(rows[j], rows[i]) /\ i < j)
      order == InOrder(DOMAIN rows, [j \in DOMAIN rows |-> {i \in DOMAIN rows : first(i, j)}])
  IN [k \in DOMAIN rows |-> rows[order[k]]]

\* The rows at some of the places of a sequence.
RowsAt(rows, places) == LET order == Ascending(places) IN [k \in DOMAIN order |-> rows[order[k]]]

\* Stands in `under` for a finding of every profile.
Unconditional == 0

\* _merge_reachable_under.
MergedUnder(labels) == IF Unconditional \in labels THEN {Unconditional} ELSE labels

\* One row for a cluster: the best placed one, related to all their files.
Merged(cluster) ==
  LET best == CHOOSE r \in cluster : \A s \in cluster : ~Before(s, r)
  IN [best EXCEPT !.tus = UNION {r.tus : r \in cluster}, !.token = UNION {r.token : r \in cluster},
                  !.under = MergedUnder(UNION {r.under : r \in cluster}),
                  !.of = UNION {r.of : r \in cluster}]

-----------------------------------------------------------------------------
(* Finalising a list of candidates.                                        *)

PreciseClusters(rows) ==
  LET columns == Ascending({r.column : r \in ToSet(rows)} \ {1})
  IN [k \in DOMAIN columns |-> {r \in ToSet(rows) : r.column = columns[k]}]

\* Faulty: coarse rows in excess of the sites are dropped.
DropExcess(rows, n) == IF n = 0 THEN rows ELSE Nothing

Excess(rows, n) == SubSeq(rows, n + 1, Len(rows))

\* The coarse rows with one message pair, in order, with the precise sites that
\* have that message and no coarse row yet; the others are left over.
Pair(s, message, rows) ==
  LET same == RowsAt(rows, {i \in DOMAIN rows : IsCoarse(rows[i]) /\ rows[i].message = message})
      sites == Ascending({k \in DOMAIN s.clusters \ s.paired : \E r \in s.clusters[k] : r.message = message})
      pairs == DOMAIN same \cap DOMAIN sites
  IN [clusters |-> [k \in DOMAIN s.clusters |->
                      s.clusters[k] \cup {same[i] : i \in {j \in pairs : sites[j] = k}}],
      paired |-> s.paired \cup {sites[i] : i \in pairs},
      rest |-> s.rest \o Excess(same, Len(sites))]

Unpaired(rows) == [clusters |-> PreciseClusters(rows), paired |-> {}, rest |-> Nothing]

\* The messages in turn.
Paired(rows) ==
  LET after[m \in 0..Cardinality(Messages)] ==
        IF m = 0 THEN Unpaired(rows) ELSE Pair(after[m - 1], m, rows)
  IN after[Cardinality(Messages)]

\* Where a row comes from, if from one place: its profile, or else its file.
Origin(r) == IF Cardinality(r.token) = 1 THEN <<"profile", r.token>> ELSE <<"file", r.tus>>
HasOrigin(r) == Cardinality(r.token) = 1 \/ Cardinality(r.tus) <= 1

\* Faulty: rows of different profiles or files are not aligned.
Unaligned(rows) == [i \in DOMAIN rows |-> {rows[i]}]

\* The n-th left-over row of every origin is one occurrence, when each row has one.
Aligned(rows) ==
  LET origins == {Origin(r) : r \in ToSet(rows)}
      ofOrigin == [o \in origins |-> RowsAt(rows, {i \in DOMAIN rows : Origin(rows[i]) = o})]
      longest == Max({Len(ofOrigin[o]) : o \in origins})
  IN IF Cardinality(origins) > 1 /\ \A r \in ToSet(rows) : HasOrigin(r)
     THEN [n \in 1..longest |->
             {ofOrigin[o][n] : o \in {q \in origins : n <= Len(ofOrigin[q])}}]
     ELSE [i \in DOMAIN rows |-> {rows[i]}]

Finalised(rows) ==
  LET s == Paired(Sorted(rows))
      clusters == s.clusters \o Aligned(s.rest)
  IN Sorted([k \in DOMAIN clusters |-> Merged(clusters[k])])

\* Faulty: counts the candidates of a row and not their profiles.
LabelledByCount(r) ==
  [r EXCEPT !.token = {},
            !.under = IF Cardinality(r.of) >= Cardinality(profiles) THEN {Unconditional} ELSE r.token]

\* The private tokens become public labels once the profiles are merged.
Labelled(r) ==
  [r EXCEPT !.token = {},
            !.under = IF r.token = profiles THEN {Unconditional} ELSE r.token]

\* _scan_file_content_profiles: the candidates of all profiles, merged.
OverProfiles(rows) ==
  IF profiles = {} THEN rows
  ELSE LET merged == Finalised(rows) IN [k \in DOMAIN merged |-> Labelled(merged[k])]

\* Sequences in the order of their first difference.
Precedes(a, b) ==
  \E k \in DOMAIN b : /\ \A m \in 1..k - 1 : m \in DOMAIN a /\ a[m] = b[m]
                      /\ k \in DOMAIN a => a[k] < b[k]

\* Without header deduplication rows are only numbered, in an order that
\* includes the files they are related to.
Numbered(rows) ==
  LET key(i) == <<rows[i].column, rows[i].message>> \o Ascending(rows[i].tus)
      first(i, j) == Precedes(key(i), key(j)) \/ (key(i) = key(j) /\ i < j)
      order == InOrder(DOMAIN rows, [j \in DOMAIN rows |-> {i \in DOMAIN rows : first(i, j)}])
  IN [k \in DOMAIN rows |-> rows[order[k]]]

\* What the candidates of the scan become.
Report(rows) == IF dedup THEN Finalised(rows) ELSE Numbered(rows)

-----------------------------------------------------------------------------
(* The scan.                                                               *)

\* An analyser's findings, up to the order of equal ones.
Presorted(findings) == \A i, j \in DOMAIN findings : i < j => ~Before(findings[j], findings[i])

RawFindings == {s \in BoundedSeq(Keys, MaxFindings) : Presorted(s)}

ASSUME InputsAssumption ==
  \A i \in Inputs :
    /\ i.profiles \subseteq Profiles /\ IsFiniteSet(i.profiles)
    /\ i.raw \in [Files -> [IF i.profiles = {} THEN {0} ELSE i.profiles -> RawFindings]]

Init ==
  /\ dedup \in DedupChoices
  /\ \E i \in Inputs : profiles = i.profiles /\ raw = i.raw
  /\ failed = {} /\ arrived = {} /\ candidates = Nothing
  /\ counted = [f \in Files |-> 0] /\ report = Nothing /\ finished = FALSE

\* The candidates of a file, profile after profile.
RowsUnder(f, ps) ==
  LET places == UNION {{p} \X DOMAIN raw[f][p] : p \in ps}
      first(x, y) == x[1] < y[1] \/ (x[1] = y[1] /\ x[2] < y[2])
      order == InOrder(places, [y \in places |-> {x \in places : first(x, y)}])
  IN [k \in DOMAIN order |-> Row(f, order[k][1], order[k][2])]

Rows(f) == RowsUnder(f, Runs)
FileRows(f) == Finalised(OverProfiles(Rows(f)))

\* The result of a file: its rows are finalised and counted.
Collect(f) ==
  /\ f \notin arrived
  /\ arrived' = arrived \cup {f}
  /\ candidates' = candidates \o FileRows(f)
  /\ counted' = [counted EXCEPT ![f] = Len(FileRows(f))]
  /\ UNCHANGED <<input, failed, report, finished>>

\* A file that failed, under one of its profiles for instance, contributes
\* nothing even if it has findings.
CollectFailed(f) ==
  /\ f \notin arrived
  /\ arrived' = arrived \cup {f} /\ failed' = failed \cup {f}
  /\ UNCHANGED <<input, candidates, counted, report, finished>>

Finish ==
  /\ arrived = Files /\ ~finished
  /\ report' = Report(candidates) /\ finished' = TRUE
  /\ UNCHANGED <<input, failed, arrived, candidates, counted>>

Finished == finished /\ UNCHANGED vars

Next == Finish \/ Finished \/ \E f \in Files : Collect(f) \/ CollectFailed(f)

Spec == Init /\ [][Next]_vars

-----------------------------------------------------------------------------
(* Properties of the finished report.                                      *)

Found(f) == {p \in Runs : raw[f][p] # Nothing}
Reporting == {f \in Files \ failed : Found(f) # {}}
Findings(f) == UNION {{<<f, p, i>> : i \in DOMAIN raw[f][p]} : p \in Runs}
Finding(x) == raw[x[1]][x[2]][x[3]]

\* Every finding of a file that did not fail is in exactly one row, and no other
\* is in any.  A precise site is never merged with another one, and with
\* deduplication it is one row that names every including file that found
\* something there.
SitesAreKept ==
  finished =>
    /\ UNION {r.of : r \in ToSet(report)} = UNION {Findings(f) : f \in Reporting}
    /\ \A j, k \in DOMAIN report : j # k => report[j].of \cap report[k].of = {}
    /\ \A r \in ToSet(report) :
         /\ \A x \in r.of : Finding(x).column \in {1, r.column}
         /\ dedup /\ ~IsCoarse(r) =>
              \A f \in Reporting : \A x \in Findings(f) :
                Finding(x).column = r.column => x \in r.of /\ Tus(f) \subseteq r.tus

\* Coarse findings of several profiles compete for the sites: in excess of them,
\* or with a message that the row of their site does not keep.
Crowded(f, p) ==
  LET s == Paired(Sorted(RowsUnder(f, {p})))
  IN /\ s.paired # {}
     /\ s.rest # Nothing \/ \E k \in s.paired : \E a, b \in s.clusters[k] : a.message # b.message

\* Another file or profile that finds the same in the header adds no row: the
\* report has at most as many as one file has, and as it has under one profile
\* except where lines are crowded.
RepeatsAddNoRow ==
  finished /\ dedup /\ (\A f, g \in Reporting : \A p, q \in Runs : raw[f][p] = raw[g][q])
    => \A f \in Reporting :
         /\ Len(report) <= counted[f]
         /\ \A p \in Runs : ~Crowded(f, p) => Len(report) <= Len(Finalised(RowsUnder(f, {p})))

\* The profiles under which a row was found in a file.
FoundUnder(r, f) == {p \in profiles : \E x \in r.of : x[1] = f /\ x[2] = p}

\* A row is said to be unconditional only if some file has a finding of it under
\* each of its profiles, and otherwise names the profiles it was found under.
LabelsAreRight ==
  finished /\ profiles # {} =>
    \A r \in ToSet(report) :
      IF Unconditional \in r.under THEN \E f \in Reporting : FoundUnder(r, f) = profiles
      ELSE r.under = UNION {FoundUnder(r, f) : f \in Reporting}

\* If a file finds the same under every profile, all its rows are unconditional,
\* except where lines are crowded.
RepeatsAreUnconditional ==
  finished /\ profiles # {} =>
    \A r \in ToSet(report), f \in Reporting :
      /\ FoundUnder(r, f) # {}
      /\ \A p, q \in profiles : raw[f][p] = raw[f][q] /\ ~Crowded(f, p)
      => r.under = {Unconditional}

\* What is found again, by another file or under another profile, adds neither a
\* row nor a condition.
RepeatsAddNothing == RepeatsAddNoRow /\ RepeatsAreUnconditional
=============================================================================
