-------------------------- MODULE IncludeExpansion --------------------------
(***************************************************************************)
(* The depth-first expansion of #include directives of a translation unit, *)
(* one source line at a time, for several units one after the other in one *)
(* process: they share the cache of expanded leaf headers.                 *)
(*                                                                         *)
(* A file is a sequence of lines.  A line is text, an include of a file it *)
(* resolves to, or a conditional directive whose condition holds or not    *)
(* under the macros of the process; macros do not change while a unit is   *)
(* expanded, and an include that resolves to no file is text.              *)
(***************************************************************************)
EXTENDS Integers, FiniteSets, SequencesExt

CONSTANTS Files,
          Kinds,      \* how a file protects itself, a subset of AllKinds
          Bodies,     \* what the lines of the files may be
          Depths,     \* choices of max_depth
          Budgets,    \* choices of max_total_bytes, in units of one file
          Scans       \* the units that are expanded, one after the other, and
                      \* where a new scan begins

AllKinds == {"plain", "once", "guard", "shared", "unreadable"}

Text == [is |-> "text"]
Include(f) == [is |-> "include", of |-> f]
If(h) == [is |-> "if", holds |-> h]
Elif(h) == [is |-> "elif", holds |-> h]
Else == [is |-> "else"]
Endif == [is |-> "endif"]
Lines == {Text, Else, Endif} \cup {Include(f) : f \in Files}
           \cup {If(h) : h \in BOOLEAN} \cup {Elif(h) : h \in BOOLEAN}

ASSUME KindsAssumption == Kinds \subseteq AllKinds
ASSUME LimitsAssumption == Depths \subseteq Nat \ {0} /\ Budgets \subseteq Nat \ {0}
ASSUME BodiesAssumption == Bodies \subseteq [Files -> Seq(Lines)]
ASSUME ScansAssumption == Scans \subseteq Seq([unit : Files, fresh : BOOLEAN])

VARIABLES
  body, kind, depth, budget, scan,  \* the input: files, limits, units to expand
  stack,     \* the files being expanded, the unit first
  seen,      \* guard symbols, seen_guards
  guarded,   \* files not to be expanded again, guarded_files
  total,     \* bytes expanded, one for each file
  rejected,  \* files over the budget, rejected_paths
  cut,       \* guarded files that were met at the maximal depth
  cache,     \* the expansions kept for leaf headers
  outs       \* the expanded units so far

input == <<body, kind, depth, budget, scan>>
marks == <<seen, guarded, total, rejected, cut>>
vars == <<input, stack, marks, cache, outs>>

\* Lines of the expanded unit remember where they come from.
Copied(frame) == [from |-> frame.file, line |-> frame.next, blank |-> FALSE]
Blanked(frame) == [Copied(frame) EXCEPT !.blank = TRUE]

\* The guard symbol of a file, if it has one; shared is one symbol of two files.
Guard(f) == CASE kind[f] = "guard" -> {<<f>>} [] kind[f] = "shared" -> {<< >>} [] OTHER -> {}
Protected(f) == kind[f] \in {"once", "guard", "shared"}

\* Faulty: looks for the file, not for its symbol.
TakenBefore(f) == Guard(f) # {} /\ f \in guarded

Taken(f) == Guard(f) \cap seen # {}

NoCache == [f \in {} |-> << >>]

Frame(f) == [file |-> f, next |-> 1, conds |-> << >>, out |-> << >>, included |-> {}]

Top == Last(stack)
Unit == scan[Len(outs) + 1].unit
Active(frame) == frame.conds # << >> => Last(frame.conds).parent /\ Last(frame.conds).taken
Opened == {stack[k].file : k \in DOMAIN stack}

-----------------------------------------------------------------------------
Init ==
  /\ body \in Bodies /\ kind \in [Files -> Kinds]
  \* A file protects itself by a line of its own.
  /\ \A f \in Files : Protected(f) => \E n \in DOMAIN body[f] : body[f][n].is # "include"
  /\ depth \in Depths /\ budget \in Budgets /\ scan \in Scans
  /\ stack = << >> /\ seen = {} /\ guarded = {} /\ total = 0 /\ rejected = {} /\ cut = {}
  /\ cache = NoCache /\ outs = << >>

\* A new expander for the next unit; its own guard counts as seen.  A new scan
\* clears the cache.
Begin ==
  /\ stack = << >> /\ Len(outs) < Len(scan)
  /\ stack' = <<Frame(Unit)>>
  /\ seen' = Guard(Unit) /\ guarded' = {f \in {Unit} : Protected(f)}
  /\ total' = 1 /\ rejected' = {} /\ cut' = {}
  /\ cache' = IF scan[Len(outs) + 1].fresh THEN NoCache ELSE cache
  /\ UNCHANGED <<input, outs>>

\* The top frame goes on to its next line with these lines written.
Continue(frame, written) ==
  stack' = Append(Front(stack), [frame EXCEPT !.next = @ + 1, !.out = @ \o written])

Reads(what) ==
  /\ stack # << >> /\ Top.next <= Len(body[Top.file])
  /\ body[Top.file][Top.next].is = what

Line == body[Top.file][Top.next]

Skip == Continue(Top, <<Copied(Top)>>) /\ UNCHANGED <<input, marks, cache, outs>>

CopyText == Reads("text") /\ Skip

PassInactive == Reads("include") /\ ~Active(Top) /\ Skip

\* Faulty: an else is taken whatever was taken before.
ElseTaken(frame, h) == [frame EXCEPT !.taken = h, !.done = @ \/ h]

\* A later part is taken when it holds and no part before it was.
Part(frame, h) == [frame EXCEPT !.taken = ~frame.done /\ h, !.done = @ \/ h]

\* The conditions after a directive, which may be a stray one.
NextConds(line, conds, parent) ==
  CASE line.is = "if" -> Append(conds, [done |-> parent /\ line.holds,
                                        taken |-> parent /\ line.holds, parent |-> parent])
    [] line.is # "if" /\ conds = << >> -> conds
    [] line.is = "elif" /\ conds # << >> ->
         Append(Front(conds), Part(Last(conds), Last(conds).parent /\ line.holds))
    [] line.is = "else" /\ conds # << >> ->
         Append(Front(conds), [Part(Last(conds), Last(conds).parent) EXCEPT !.done = TRUE])
    [] line.is = "endif" /\ conds # << >> -> Front(conds)

\* Conditional directives, nested and unbalanced ones too.
Conditional ==
  /\ \E what \in {"if", "elif", "else", "endif"} : Reads(what)
  /\ Continue([Top EXCEPT !.conds = NextConds(Line, @, Active(Top))], <<Copied(Top)>>)
  /\ UNCHANGED <<input, marks, cache, outs>>

-----------------------------------------------------------------------------
(* An active include, in the order of the tests.                           *)

IncludesNow(f) == Reads("include") /\ Active(Top) /\ Line.of = f

\* The frame with f among its included files.
Noted(f) == [Top EXCEPT !.included = @ \cup {f}]

\* Circular, or already expanded and protected.
Known(f) == f \notin rejected /\ (f \in Opened \/ f \in guarded)

Room(f) == total + 1 <= budget

Enterable(f) ==
  f \notin rejected /\ ~Known(f) /\ Room(f) /\ kind[f] # "unreadable"

PassRejected(f) ==
  /\ IncludesNow(f) /\ f \in rejected
  /\ Continue(Noted(f), <<Copied(Top)>>)
  /\ UNCHANGED <<input, marks, cache, outs>>

BlankKnown(f) ==
  /\ IncludesNow(f) /\ Known(f)
  /\ Continue(Noted(f), <<Blanked(Top)>>)
  /\ UNCHANGED <<input, marks, cache, outs>>

\* Faulty: a file that does not fit counts as seen.
RejectAndMark(f) ==
  /\ IncludesNow(f) /\ f \notin rejected /\ ~Known(f) /\ ~Room(f)
  /\ rejected' = rejected \cup {f} /\ guarded' = guarded \cup {f}
  /\ Continue(Noted(f), <<Copied(Top)>>)
  /\ UNCHANGED <<input, seen, total, cut, cache, outs>>

Reject(f) ==
  /\ IncludesNow(f) /\ f \notin rejected /\ ~Known(f) /\ ~Room(f)
  /\ rejected' = rejected \cup {f}
  /\ Continue(Noted(f), <<Copied(Top)>>)
  /\ UNCHANGED <<input, seen, guarded, total, cut, cache, outs>>

PassUnreadable(f) ==
  /\ IncludesNow(f) /\ f \notin rejected /\ ~Known(f) /\ Room(f) /\ kind[f] = "unreadable"
  /\ Continue(Noted(f), <<Copied(Top)>>)
  /\ UNCHANGED <<input, marks, cache, outs>>

\* Another file with the same guard symbol was there before.
BlankGuarded(f) ==
  /\ IncludesNow(f) /\ Enterable(f) /\ Taken(f)
  /\ guarded' = guarded \cup {f}
  /\ Continue(Noted(f), <<Blanked(Top)>>)
  /\ UNCHANGED <<input, seen, total, rejected, cut, cache, outs>>

\* From here on f counts as seen, whether or not it is then expanded.
Mark(f) ==
  /\ seen' = seen \cup Guard(f) /\ guarded' = guarded \cup {g \in {f} : Protected(g)}

TooDeep(f) ==
  /\ IncludesNow(f) /\ Enterable(f) /\ ~Taken(f)
  /\ Len(stack) >= depth /\ Mark(f)
  /\ cut' = cut \cup {g \in {f} : Protected(g)}
  /\ Continue(Noted(f), <<Copied(Top)>>)
  /\ UNCHANGED <<input, total, rejected, cache, outs>>

Expandable(f) == Enterable(f) /\ ~Taken(f) /\ Len(stack) < depth

\* A leaf header that was expanded before, by this unit or an earlier one.
Reuse(f) ==
  /\ IncludesNow(f) /\ Expandable(f) /\ f \in DOMAIN cache
  /\ Mark(f) /\ total' = total + 1
  /\ Continue(Noted(f), cache[f])
  /\ UNCHANGED <<input, rejected, cut, cache, outs>>

Enter(f) ==
  /\ IncludesNow(f) /\ Expandable(f) /\ f \notin DOMAIN cache
  /\ Mark(f) /\ total' = total + 1
  /\ stack' = Append(Append(Front(stack), Noted(f)), Frame(f))
  /\ UNCHANGED <<input, rejected, cut, cache, outs>>

\* Faulty: keeps the expansion of every header.
AnyHeader(frame) == TRUE

\* included starts as the header itself, so an include of itself keeps it a leaf.
IsLeaf(frame) == frame.included \subseteq {frame.file}

\* The end of a header: a leaf is cached, and its lines go to the including file.
Leave ==
  /\ Len(stack) > 1 /\ Top.next > Len(body[Top.file])
  /\ cache' = IF IsLeaf(Top)
               THEN [f \in DOMAIN cache \cup {Top.file} |-> IF f = Top.file THEN Top.out ELSE cache[f]]
               ELSE cache
  /\ LET parent == stack[Len(stack) - 1]
     IN stack' = Append(Front(Front(stack)),
                        [parent EXCEPT !.next = @ + 1, !.out = @ \o Top.out,
                                       !.included = @ \cup Top.included \cup {Top.file}])
  /\ UNCHANGED <<input, marks, outs>>

\* The end of the unit.
End ==
  /\ Len(stack) = 1 /\ Top.next > Len(body[Top.file])
  /\ outs' = Append(outs, Top.out) /\ stack' = << >>
  /\ UNCHANGED <<input, marks, cache>>

Finished == stack = << >> /\ Len(outs) = Len(scan) /\ UNCHANGED vars

IncludeStep(f) == \/ PassRejected(f) \/ BlankKnown(f) \/ Reject(f) \/ PassUnreadable(f)
                  \/ BlankGuarded(f) \/ TooDeep(f) \/ Reuse(f) \/ Enter(f)

Next == \/ Begin \/ CopyText \/ PassInactive \/ Conditional
        \/ \E f \in Files : IncludeStep(f)
        \/ Leave \/ End \/ Finished

Spec == Init /\ [][Next]_vars
-----------------------------------------------------------------------------
(* Properties.                                                             *)

\* How often line n of f is in the expanded unit.
Copies(out, f, n) == Cardinality({k \in DOMAIN out : out[k].from = f /\ out[k].line = n})

SameGuard(f) == {f} \cup {g \in Files : Guard(g) \cap Guard(f) # {}}

ProtectedOnce(out) ==
  \A f \in Files : Protected(f) => \A n \in DOMAIN body[f] : Copies(out, f, n) <= 1

OneOfAGuard(out) ==
  \A m, n \in DOMAIN out :
    LET f == out[m].from  g == out[n].from
    IN  Guard(f) \cap Guard(g) # {} => f = g

\* The lines of a protected file occur at most once in a unit, whichever way
\* they got there, and of files that share a guard symbol only one has any.
IncludedOnce == \A k \in DOMAIN outs : ProtectedOnce(outs[k]) /\ OneOfAGuard(outs[k])

\* An include is blanked only when the text it stands for is in the unit, in this
\* file or in another with its guard, unless the file was met at maximal depth.
BlankedIsThere ==
  stack # << >> =>
    \A f \in guarded :
      \/ SameGuard(f) \cap (cut \cup Opened) # {}
      \/ \E k \in DOMAIN stack : \E n \in DOMAIN stack[k].out : stack[k].out[n].from \in SameGuard(f)

\* A guarded header that is included repeatedly, directly or through others, is in
\* the unit neither twice nor not at all.
ExactlyOnce == IncludedOnce /\ BlankedIsThere

\* Expanding a unit again, in a scan that cached the headers of another first, gives the same
\* lines: docs/analysis-model.md, "repeated headers are handled".
Repeatable ==
  \A j, k \in DOMAIN outs : scan[j].unit = scan[k].unit => outs[j] = outs[k]

\* The meaning of conditionals in C: line n of f is active when in every group
\* around it, its part is the first that holds.
Balance(f, i, n) ==
  Cardinality({m \in i + 1..n : body[f][m].is = "if"})
    - Cardinality({m \in i + 1..n : body[f][m].is = "endif"})

Around(f, n) ==
  {i \in 1..n - 1 : body[f][i].is = "if" /\ \A m \in i..n : Balance(f, i, m) >= 0}

Parts(f, i, n) ==
  {i} \cup {j \in i + 1..n - 1 : body[f][j].is \in {"elif", "else"} /\ Balance(f, i, j) = 0}

Holds(f, j) == body[f][j].is = "else" \/ body[f][j].holds

ActiveInC(f, n) ==
  \A i \in Around(f, n) : \A j \in Parts(f, i, n) : Holds(f, j) <=> j = Max(Parts(f, i, n))

\* The expander follows exactly the includes that are active, in files with any
\* nesting of conditionals and stray directives (tests/test_includes.py,
\* test_inactive_include_in_untaken_branch_does_not_mutate_guards).
ConditionalsAgree ==
  stack # << >> /\ Reads("include") => (Active(Top) <=> ActiveInC(Top.file, Top.next))
=============================================================================
