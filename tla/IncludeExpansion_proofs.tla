---------------------- MODULE IncludeExpansion_proofs ----------------------
(***************************************************************************)
(* For every set of files, headers that include each other in any way, any *)
(* limits and any list of units: guarded headers are in the expanded unit  *)
(* exactly once, the includes that are followed are those that are active  *)
(* in C, and a unit that is expanded again, with leaf headers cached by    *)
(* others, is the same.                                                    *)
(*                                                                         *)
(* None is inductive.  StackInv, CacheInv and MarkInv say where the lines  *)
(* of protected files are (in one frame, in the cache) and that what is    *)
(* marked is there or was cut off; CondsIn says that the conditions kept   *)
(* for a file are those of the groups open before its next line; RepeatInv *)
(* compares every unit with what an expander without a cache makes of it.  *)
(***************************************************************************)
EXTENDS IncludeExpansion, SequenceTheorems, FiniteSetTheorems, TLAPS

-----------------------------------------------------------------------------
(* The stack.                                                              *)

LEMMA FrontProperties ==
  ASSUME NEW S, NEW s \in Seq(S), s # << >>
  PROVE  /\ Len(s) \in Nat \ {0} /\ Front(s) \in Seq(S) /\ Len(Front(s)) = Len(s) - 1
         /\ \A i \in 1..Len(s) - 1 : Front(s)[i] = s[i]
         /\ Last(s) = s[Len(s)] /\ Last(s) \in S
  <1>1. Len(s) \in Nat \ {0} /\ s[Len(s)] \in S
    BY EmptySeq, LenProperties, ElementOfSeq
  <1> DEFINE n == Len(s)
             t == SubSeq(s, 1, n - 1)
  <1>2. /\ t \in Seq(S) /\ Len(t) = n - 1
        /\ \A i \in 1..n - 1 : t[i] = s[i]
    <2> HIDE DEF n
    <2>1. n \in Nat \ {0} /\ n = Len(s)
      BY <1>1 DEF n
    <2> QED BY <2>1
  <1> QED BY <1>1, <1>2 DEF Front, Last

LEMMA TopReplaced ==
  ASSUME NEW S, NEW s \in Seq(S), s # << >>, NEW x \in S
  PROVE  /\ Append(Front(s), x) \in Seq(S) /\ Len(Append(Front(s), x)) = Len(s)
         /\ \A i \in 1..Len(s) : Append(Front(s), x)[i] = IF i = Len(s) THEN x ELSE s[i]
  <1> DEFINE t == Front(s)
             n == Len(s)
  <1>1. /\ n \in Nat \ {0} /\ t \in Seq(S) /\ Len(t) = n - 1
        /\ \A i \in 1..n - 1 : t[i] = s[i]
    BY FrontProperties
  <1> HIDE DEF t, n
  <1>2. /\ Append(t, x) \in Seq(S) /\ Len(Append(t, x)) = n
        /\ \A i \in 1..n : Append(t, x)[i] = IF i = n THEN x ELSE s[i]
    BY <1>1
  <1> QED BY <1>2 DEF t, n

LEMMA TopPushed ==
  ASSUME NEW S, NEW s \in Seq(S), s # << >>, NEW x \in S, NEW y \in S
  PROVE  LET t == Append(Append(Front(s), x), y)
         IN  /\ t \in Seq(S) /\ Len(t) = Len(s) + 1
             /\ \A i \in 1..Len(t) :
                  t[i] = IF i = Len(t) THEN y ELSE IF i = Len(s) THEN x ELSE s[i]
  <1> DEFINE t == Append(Front(s), x)
             n == Len(s)
  <1>1. /\ n \in Nat \ {0} /\ t \in Seq(S) /\ Len(t) = n
        /\ \A i \in 1..n : t[i] = IF i = n THEN x ELSE s[i]
    BY TopReplaced, FrontProperties
  <1> HIDE DEF t, n
  <1>2. /\ Append(t, y) \in Seq(S) /\ Len(Append(t, y)) = n + 1
        /\ \A i \in 1..n + 1 : Append(t, y)[i] = IF i = n + 1 THEN y ELSE t[i]
    BY <1>1
  <1>3. \A i \in 1..n + 1 : i # n + 1 => i \in 1..n
    BY <1>1
  <1> QED BY <1>1, <1>2, <1>3 DEF t, n

LEMMA TopMerged ==
  ASSUME NEW S, NEW s \in Seq(S), Len(s) > 1, NEW x \in S
  PROVE  LET t == Append(Front(Front(s)), x)
         IN  /\ t \in Seq(S) /\ Len(t) = Len(s) - 1 /\ Len(s) \in Nat
             /\ \A i \in 1..Len(t) : t[i] = IF i = Len(t) THEN x ELSE s[i]
  <1> DEFINE f == Front(s)
             n == Len(s)
  <1>1. s # << >> /\ n \in Nat
    BY LenProperties, EmptySeq
  <1>2. f \in Seq(S) /\ Len(f) = n - 1 /\ \A i \in 1..n - 1 : f[i] = s[i]
    BY <1>1, FrontProperties
  <1>3. f # << >>
    BY <1>1, <1>2
  <1> HIDE DEF f
  <1>4. /\ Append(Front(f), x) \in Seq(S) /\ Len(Append(Front(f), x)) = n - 1
        /\ \A i \in 1..n - 1 : Append(Front(f), x)[i] = IF i = n - 1 THEN x ELSE f[i]
    BY <1>2, <1>3, TopReplaced
  <1> QED BY <1>1, <1>2, <1>4 DEF f

LEMMA Concatenated ==
  ASSUME NEW S, NEW s \in Seq(S), NEW t \in Seq(S)
  PROVE  /\ s \o t \in Seq(S)
         /\ \A i \in DOMAIN s : i \in DOMAIN (s \o t) /\ (s \o t)[i] = s[i]
         /\ \A i \in DOMAIN t : Len(s) + i \in DOMAIN (s \o t) /\ (s \o t)[Len(s) + i] = t[i]
         /\ \A i \in DOMAIN (s \o t) : \/ i \in DOMAIN s /\ (s \o t)[i] = s[i]
                                       \/ \E j \in DOMAIN t : i = Len(s) + j /\ (s \o t)[i] = t[j]
  <1>1. /\ s \o t \in Seq(S) /\ Len(s \o t) = Len(s) + Len(t) /\ Len(s) \in Nat /\ Len(t) \in Nat
        /\ DOMAIN s = 1..Len(s) /\ DOMAIN t = 1..Len(t) /\ DOMAIN (s \o t) = 1..Len(s) + Len(t)
        /\ \A i \in 1..Len(s) + Len(t) : (s \o t)[i] = IF i <= Len(s) THEN s[i] ELSE t[i - Len(s)]
    BY ConcatProperties, LenProperties
  <1> DEFINE u == s \o t
             m == Len(s)
             n == Len(t)
  <1> HIDE DEF u, m, n
  <1>2. /\ m \in Nat /\ n \in Nat
        /\ \A i \in 1..m + n : u[i] = IF i <= m THEN s[i] ELSE t[i - m]
    BY <1>1 DEF u, m, n
  <1>3. /\ \A i \in 1..m : i \in 1..m + n /\ u[i] = s[i]
        /\ \A i \in 1..n : m + i \in 1..m + n /\ u[m + i] = t[i]
        /\ \A i \in 1..m + n : \/ i \in 1..m /\ u[i] = s[i]
                               \/ \E j \in 1..n : i = m + j /\ u[i] = t[j]
    <2>1. ASSUME NEW i \in 1..m PROVE i \in 1..m + n /\ u[i] = s[i]
      BY <1>2
    <2>2. ASSUME NEW i \in 1..n PROVE m + i \in 1..m + n /\ u[m + i] = t[i]
      <3>1. m + i \in 1..m + n /\ ~(m + i <= m) /\ (m + i) - m = i
        BY <1>2
      <3> QED BY <1>2, <3>1
    <2>3. ASSUME NEW i \in 1..m + n PROVE \/ i \in 1..m /\ u[i] = s[i]
                                          \/ \E j \in 1..n : i = m + j /\ u[i] = t[j]
      <3>1. CASE i <= m
        BY <1>2, <3>1
      <3>2. CASE ~(i <= m)
        <4>1. i - m \in 1..n /\ i = m + (i - m) /\ u[i] = t[i - m]
          BY <1>2, <3>2
        <4> QED BY <4>1
      <3> QED BY <3>1, <3>2
    <2> QED BY <2>1, <2>2, <2>3
  <1> QED BY <1>1, <1>3 DEF u, m, n

-----------------------------------------------------------------------------
(* Types.                                                                  *)

OutLines == [from : Files, line : Nat, blank : BOOLEAN]
Conds == [done : BOOLEAN, taken : BOOLEAN, parent : BOOLEAN]
Frames == [file : Files, next : Nat \ {0}, conds : Seq(Conds), out : Seq(OutLines), included : SUBSET Files]

\* The input is one of those that Init allows, and the rest is in range.
InputInv ==
  /\ body \in [Files -> Seq(Lines)] /\ kind \in [Files -> AllKinds]
  /\ scan \in Seq([unit : Files, fresh : BOOLEAN]) /\ depth \in Nat \ {0} /\ budget \in Nat \ {0}
  /\ \A f \in Files : Protected(f) => \E n \in DOMAIN body[f] : body[f][n].is # "include"

TypeInv ==
  /\ InputInv
  /\ stack \in Seq(Frames) /\ outs \in Seq(Seq(OutLines))
  /\ guarded \subseteq Files /\ cut \subseteq Files /\ rejected \subseteq Files /\ total \in Nat
  /\ DOMAIN cache \subseteq Files /\ \A f \in DOMAIN cache : cache[f] \in Seq(OutLines)

-----------------------------------------------------------------------------
(* The invariant of guarded headers.                                       *)

\* The frame has a line of f.
Shows(frame, f) == \E m \in DOMAIN frame.out : frame.out[m].from = f

\* No line of a protected file is repeated.
Distinct(out) ==
  \A m, n \in DOMAIN out :
    Protected(out[m].from) /\ out[m].from = out[n].from /\ out[m].line = out[n].line => m = n

\* The protected files that are being expanded in s or have lines there.
PresentIn(s) ==
  {f \in Files : Protected(f) /\ \E k \in DOMAIN s : s[k].file = f \/ Shows(s[k], f)}

\* A frame has lines of its file and of those it included, not twice if they are
\* protected, and has those of its own that it has passed.
FrameInv(frame) ==
  /\ Distinct(frame.out)
  /\ \A m \in DOMAIN frame.out :
       /\ frame.out[m].from \in {frame.file} \cup frame.included
       /\ Protected(frame.file) /\ frame.out[m].from = frame.file => frame.out[m].line < frame.next
  /\ \A n \in DOMAIN body[frame.file] :
       n < frame.next /\ body[frame.file][n].is # "include" => Shows(frame, frame.file)

\* No file is open twice; a protected one has its lines in one frame, its own while
\* it is open; a frame that is not the top one stands at an include.
StackInv(s) ==
  /\ \A j, k \in DOMAIN s : s[j].file = s[k].file => j = k
  /\ \A j, k \in DOMAIN s : \A f \in Files :
       Protected(f) /\ Shows(s[j], f) /\ (s[k].file = f \/ Shows(s[k], f)) => j = k
  /\ \A k \in DOMAIN s : FrameInv(s[k])
  /\ \A k \in DOMAIN s : k + 1 \in DOMAIN s => body[s[k].file][s[k].next].is = "include"

\* The cache has whole headers without the text of others.
CacheInv ==
  \A f \in DOMAIN cache :
    /\ \A m \in DOMAIN cache[f] : cache[f][m].from = f
    /\ Distinct(cache[f])
    /\ Protected(f) => cache[f] # << >>

Present == PresentIn(stack)

\* What is present is marked, and of files that share a guard symbol one only is;
\* what is marked is present or was cut off.
MarkInv ==
  /\ Present \subseteq guarded /\ \A f \in guarded : Protected(f)
  /\ \A f \in Present : Guard(f) \subseteq seen
  /\ \A f, g \in Present : Guard(f) \cap Guard(g) # {} => f = g
  /\ stack # << >> =>
       /\ \A f \in guarded : SameGuard(f) \cap (cut \cup Present) # {}
       /\ \A s \in seen : \E g \in cut \cup Present : s \in Guard(g)

OutInv == \A k \in DOMAIN outs : Distinct(outs[k]) /\ OneOfAGuard(outs[k])

-----------------------------------------------------------------------------
(* The invariant of conditionals.                                          *)

\* The part of the group at i that is current at line n is the first that holds.
FirstThatHolds(f, i, n) == \A j \in Parts(f, i, n) : Holds(f, j) <=> j = Max(Parts(f, i, n))

\* The groups open before line n: those around it, unless it ends one.
Open(f, n) ==
  {i \in 1..n - 1 : body[f][i].is = "if" /\ \A m \in i..n - 1 : Balance(f, i, m) >= 0}

\* The conditions kept before line n of f are those of the groups open there, the
\* outermost first: at[d] is the line that opens the d-th.
Matches(f, n, conds, at) ==
  /\ \A d \in 1..Len(conds) : at[d] \in Open(f, n)
  /\ \A i \in Open(f, n) : \E d \in 1..Len(conds) : at[d] = i
  /\ \A d \in 1..Len(conds) :
       /\ Balance(f, at[d], n - 1) = Len(conds) - d
       /\ conds[d].parent <=> \A e \in 1..d - 1 : FirstThatHolds(f, at[e], n)
       /\ conds[d].taken <=> conds[d].parent /\ FirstThatHolds(f, at[d], n)
       /\ conds[d].parent => (conds[d].done <=> \E j \in Parts(f, at[d], n) : Holds(f, j))

MatchesSome(f, n, conds) == \E at \in [1..Len(conds) -> Nat] : Matches(f, n, conds, at)

CondsIn(s) == \A k \in DOMAIN s : MatchesSome(s[k].file, s[k].next, s[k].conds)

\* The frame after a line was passed.
Advanced(frame, written) == [frame EXCEPT !.next = @ + 1, !.out = @ \o written]

\* The frame under the top one when a header is left.
Merged(parent, frame) ==
  [parent EXCEPT !.next = @ + 1, !.out = @ \o frame.out,
                 !.included = @ \cup frame.included \cup {frame.file}]

\* The top frame with other conditions and included files.
SameText(frame) ==
  /\ frame \in Frames /\ frame.file = Top.file /\ frame.next = Top.next /\ frame.out = Top.out
  /\ Top.included \subseteq frame.included

LEMMA TopIsFrame ==
  ASSUME TypeInv, stack # << >>
  PROVE  /\ Len(stack) \in Nat \ {0} /\ Top = stack[Len(stack)] /\ Top \in Frames
         /\ DOMAIN stack = 1..Len(stack) /\ Len(stack) \in DOMAIN stack
         /\ \A k \in DOMAIN stack : stack[k] \in Frames
  <1>1. Len(stack) \in Nat \ {0} /\ Top = stack[Len(stack)] /\ Top \in Frames
    BY FrontProperties DEF TypeInv, Top
  <1>2. DOMAIN stack = 1..Len(stack) /\ \A k \in DOMAIN stack : stack[k] \in Frames
    BY LenProperties, ElementOfSeq DEF TypeInv
  <1> QED BY <1>1, <1>2

LEMMA AdvancedType ==
  ASSUME NEW frame \in Frames, NEW written \in Seq(OutLines)
  PROVE  /\ Advanced(frame, written) \in Frames
         /\ Advanced(frame, written).file = frame.file
         /\ Advanced(frame, written).next = frame.next + 1
         /\ Advanced(frame, written).conds = frame.conds
         /\ Advanced(frame, written).out = frame.out \o written
         /\ Advanced(frame, written).included = frame.included
  <1>1. frame.out \in Seq(OutLines)
    BY DEF Frames
  <1>2. frame.out \o written \in Seq(OutLines)
    BY <1>1, Concatenated
  <1> DEFINE w == frame.out \o written
             n == frame.next + 1
  <1>3. Advanced(frame, written) = [frame EXCEPT !.next = n, !.out = w]
    BY DEF Advanced
  <1>4. w \in Seq(OutLines) /\ n \in Nat \ {0}
    BY <1>2 DEF Frames
  <1> HIDE DEF w, n
  <1> QED BY <1>3, <1>4 DEF Frames, w, n

LEMMA ContinueShape ==
  ASSUME TypeInv, stack # << >>, NEW frame \in Frames, NEW written \in Seq(OutLines),
         Continue(frame, written)
  PROVE  /\ stack' \in Seq(Frames) /\ Len(stack') = Len(stack) /\ DOMAIN stack' = DOMAIN stack
         /\ \A k \in DOMAIN stack :
              stack'[k] = IF k = Len(stack) THEN Advanced(frame, written) ELSE stack[k]
  <1>1. stack' = Append(Front(stack), Advanced(frame, written)) /\ Advanced(frame, written) \in Frames
    BY AdvancedType DEF Continue, Advanced
  <1>2. /\ stack' \in Seq(Frames) /\ Len(stack') = Len(stack)
        /\ \A k \in 1..Len(stack) : stack'[k] = IF k = Len(stack) THEN Advanced(frame, written) ELSE stack[k]
    BY <1>1, TopReplaced DEF TypeInv
  <1> QED BY <1>2, LenProperties, TopIsFrame

LEMMA MergedType ==
  ASSUME NEW parent \in Frames, NEW frame \in Frames
  PROVE  /\ Merged(parent, frame) \in Frames
         /\ Merged(parent, frame).file = parent.file
         /\ Merged(parent, frame).next = parent.next + 1
         /\ Merged(parent, frame).conds = parent.conds
         /\ Merged(parent, frame).out = parent.out \o frame.out
         /\ Merged(parent, frame).included = parent.included \cup frame.included \cup {frame.file}
  <1>1. parent.out \in Seq(OutLines) /\ frame.out \in Seq(OutLines)
    BY DEF Frames
  <1>2. parent.out \o frame.out \in Seq(OutLines)
    BY <1>1, Concatenated
  <1> DEFINE w == parent.out \o frame.out
             n == parent.next + 1
             i == parent.included \cup frame.included \cup {frame.file}
  <1>3. Merged(parent, frame) = [parent EXCEPT !.next = n, !.out = w, !.included = i]
    BY DEF Merged
  <1>4. w \in Seq(OutLines) /\ n \in Nat \ {0} /\ i \in SUBSET Files
    BY <1>2 DEF Frames
  <1> HIDE DEF w, n, i
  <1> QED BY <1>3, <1>4 DEF Frames, w, n, i

LEMMA LeaveShape ==
  ASSUME TypeInv, Leave
  PROVE  LET n == Len(stack)
         IN  /\ n \in Nat /\ n > 1 /\ stack' \in Seq(Frames) /\ Len(stack') = n - 1
             /\ DOMAIN stack = 1..n /\ DOMAIN stack' = 1..n - 1
             /\ \A k \in 1..n - 1 : stack'[k] = IF k = n - 1 THEN Merged(stack[k], Top) ELSE stack[k]
             /\ Top = stack[n] /\ Top \in Frames /\ stack[n - 1] \in Frames
  <1>1. stack # << >> /\ Len(stack) > 1 /\ Len(stack) \in Nat
    BY LenProperties, EmptySeq DEF Leave, TypeInv
  <1>2. /\ Top = stack[Len(stack)] /\ Top \in Frames /\ stack[Len(stack) - 1] \in Frames
        /\ DOMAIN stack = 1..Len(stack)
    BY <1>1, TopIsFrame
  <1>3. stack' = Append(Front(Front(stack)), Merged(stack[Len(stack) - 1], Top))
    BY DEF Leave, Merged
  <1>4. /\ stack' \in Seq(Frames) /\ Len(stack') = Len(stack) - 1
        /\ \A k \in 1..Len(stack') : stack'[k] = IF k = Len(stack') THEN Merged(stack[Len(stack) - 1], Top)
                                                                   ELSE stack[k]
    <2> DEFINE x == Merged(stack[Len(stack) - 1], Top)
    <2>1. x \in Frames /\ stack' = Append(Front(Front(stack)), x) /\ stack \in Seq(Frames)
      BY <1>2, <1>3, MergedType DEF TypeInv
    <2> HIDE DEF x
    <2>2. /\ stack' \in Seq(Frames) /\ Len(stack') = Len(stack) - 1
          /\ \A k \in 1..Len(stack') : stack'[k] = IF k = Len(stack') THEN x ELSE stack[k]
      BY <1>1, <2>1, TopMerged
    <2> QED BY <2>2 DEF x
  <1>5. DOMAIN stack' = 1..Len(stack')
    BY <1>4, LenProperties
  <1> QED BY <1>1, <1>2, <1>4, <1>5

LEMMA EnterShape ==
  ASSUME TypeInv, NEW f \in Files, Enter(f)
  PROVE  LET n == Len(stack)
         IN  /\ n \in Nat \ {0} /\ stack' \in Seq(Frames) /\ Len(stack') = n + 1
             /\ DOMAIN stack = 1..n /\ DOMAIN stack' = 1..n + 1
             /\ \A k \in 1..n + 1 : stack'[k] = IF k = n + 1 THEN Frame(f)
                                                ELSE IF k = n THEN Noted(f) ELSE stack[k]
             /\ Top = stack[n] /\ SameText(Noted(f)) /\ Noted(f).included = Top.included \cup {f}
             /\ Noted(f).conds = Top.conds
  <1>1. stack # << >>
    BY DEF Enter, IncludesNow, Reads
  <1>2. /\ Len(stack) \in Nat \ {0} /\ Top = stack[Len(stack)] /\ Top \in Frames
        /\ DOMAIN stack = 1..Len(stack)
    BY <1>1, TopIsFrame
  <1>3. Noted(f) \in Frames /\ SameText(Noted(f)) /\ Noted(f).included = Top.included \cup {f}
        /\ Noted(f).conds = Top.conds
    BY <1>2 DEF Noted, Frames, SameText
  <1>4. Frame(f) \in Frames
    BY DEF Frame, Frames
  <1>5. stack' = Append(Append(Front(stack), Noted(f)), Frame(f))
    BY DEF Enter
  <1>6. /\ stack' \in Seq(Frames) /\ Len(stack') = Len(stack) + 1
        /\ \A k \in 1..Len(stack') : stack'[k] = IF k = Len(stack') THEN Frame(f)
                                                 ELSE IF k = Len(stack) THEN Noted(f) ELSE stack[k]
    BY <1>1, <1>3, <1>4, <1>5, TopPushed DEF TypeInv
  <1>7. DOMAIN stack' = 1..Len(stack')
    BY <1>6, LenProperties
  <1> QED BY <1>2, <1>3, <1>6, <1>7

\* What may be written instead of an include or for a line: the line itself.
LEMMA CopiedType ==
  ASSUME NEW frame \in Frames
  PROVE  /\ Copied(frame) \in OutLines /\ Blanked(frame) \in OutLines
         /\ Copied(frame).from = frame.file /\ Copied(frame).line = frame.next
         /\ Blanked(frame).from = frame.file /\ Blanked(frame).line = frame.next
  BY DEF Copied, Blanked, OutLines, Frames

-----------------------------------------------------------------------------
(* What the steps do.                                                      *)

\* A line of the top file is written and passed.
Passes(frame) ==
  /\ stack # << >> /\ SameText(frame)
  /\ \E line \in OutLines : /\ line.from = Top.file /\ line.line = Top.next
                            /\ Continue(frame, <<line>>)

LEMMA ReadsLine ==
  ASSUME TypeInv, NEW what, Reads(what)
  PROVE  /\ stack # << >> /\ Top \in Frames /\ Line \in Lines /\ Line.is = what
         /\ Top.next \in DOMAIN body[Top.file] /\ body[Top.file] \in Seq(Lines)
         /\ DOMAIN body[Top.file] = 1..Len(body[Top.file]) /\ Len(body[Top.file]) \in Nat
  <1>1. stack # << >> /\ Top \in Frames /\ Top.file \in Files /\ Top.next \in Nat \ {0}
    BY TopIsFrame DEF Reads, Frames
  <1>2. body[Top.file] \in Seq(Lines)
    BY <1>1 DEF TypeInv, InputInv
  <1>3. DOMAIN body[Top.file] = 1..Len(body[Top.file]) /\ Len(body[Top.file]) \in Nat
    BY <1>2, LenProperties
  <1>4. Top.next \in 1..Len(body[Top.file])
    BY <1>1, <1>3 DEF Reads
  <1>5. Line \in Lines
    BY <1>2, <1>3, <1>4, ElementOfSeq DEF Line
  <1> QED BY <1>1, <1>2, <1>3, <1>4, <1>5 DEF Reads, Line

LEMMA LineKinds ==
  ASSUME NEW l \in Lines
  PROVE  /\ l.is \in {"if", "elif"} => l.holds \in BOOLEAN
         /\ l.is = "include" => l.of \in Files
  BY DEF Lines, Text, Include, If, Elif, Else, Endif

LEMMA NextCondsType ==
  ASSUME TypeInv, NEW what \in {"if", "elif", "else", "endif"}, Reads(what)
  PROVE  NextConds(Line, Top.conds, Active(Top)) \in Seq(Conds)
  <1> DEFINE conds == Top.conds
  <1>1. conds \in Seq(Conds) /\ Active(Top) \in BOOLEAN /\ Line.is = what
        /\ (what \in {"if", "elif"} => Line.holds \in BOOLEAN)
    BY ReadsLine, LineKinds DEF Frames, Active
  <1> HIDE DEF conds
  <1>2. CASE what = "if"
    <2>1. [done |-> Active(Top) /\ Line.holds, taken |-> Active(Top) /\ Line.holds,
           parent |-> Active(Top)] \in Conds
      BY <1>1, <1>2 DEF Conds
    <2> QED BY <1>1, <1>2, <2>1, AppendProperties DEF NextConds, conds
  <1>3. CASE what # "if" /\ conds = << >>
    BY <1>1, <1>3 DEF NextConds, conds
  <1>4. CASE what # "if" /\ conds # << >>
    <2>1. Last(conds) \in Conds /\ Front(conds) \in Seq(Conds)
      BY <1>1, <1>4, FrontProperties
    <2>2. /\ what = "elif" => Part(Last(conds), Last(conds).parent /\ Line.holds) \in Conds
          /\ [Part(Last(conds), Last(conds).parent) EXCEPT !.done = TRUE] \in Conds
      BY <1>1, <2>1 DEF Part, Conds
    <2> QED BY <1>1, <1>4, <2>1, <2>2, AppendProperties DEF NextConds, conds
  <1> QED BY <1>2, <1>3, <1>4

LEMMA PassSteps ==
  ASSUME TypeInv
  PROVE  /\ CopyText \/ PassInactive => Passes(Top)
         /\ Conditional => Passes([Top EXCEPT !.conds = NextConds(Line, Top.conds, Active(Top))])
         /\ \A f \in Files :
              PassRejected(f) \/ BlankKnown(f) \/ Reject(f) \/ PassUnreadable(f) \/ BlankGuarded(f) \/ TooDeep(f)
                => Passes(Noted(f)) /\ Noted(f).conds = Top.conds
  <1>1. ASSUME stack # << >>
        PROVE  /\ Top \in Frames /\ SameText(Top) /\ \A f \in Files : SameText(Noted(f)) /\ Noted(f).conds = Top.conds
               /\ Copied(Top) \in OutLines /\ Copied(Top).from = Top.file /\ Copied(Top).line = Top.next
               /\ Blanked(Top) \in OutLines /\ Blanked(Top).from = Top.file /\ Blanked(Top).line = Top.next
    <2>1. Top \in Frames
      BY <1>1, TopIsFrame
    <2> QED BY <2>1, CopiedType DEF SameText, Noted, Frames
  <1>2. CopyText \/ PassInactive => Passes(Top)
    BY <1>1 DEF CopyText, PassInactive, Skip, Reads, Passes
  <1>3. Conditional => Passes([Top EXCEPT !.conds = NextConds(Line, Top.conds, Active(Top))])
    <2> SUFFICES ASSUME Conditional
                 PROVE  Passes([Top EXCEPT !.conds = NextConds(Line, Top.conds, Active(Top))])
      OBVIOUS
    <2> DEFINE after == NextConds(Line, Top.conds, Active(Top))
    <2>1. stack # << >> /\ after \in Seq(Conds)
      BY NextCondsType DEF Conditional, Reads
    <2>2. Continue([Top EXCEPT !.conds = after], <<Copied(Top)>>)
      BY DEF Conditional
    <2> HIDE DEF after
    <2>3. SameText([Top EXCEPT !.conds = after])
      BY <1>1, <2>1 DEF SameText, Frames
    <2>4. Passes([Top EXCEPT !.conds = after])
      BY <1>1, <2>1, <2>2, <2>3 DEF Passes
    <2> QED BY <2>4 DEF after
  <1>4. ASSUME NEW f \in Files,
               PassRejected(f) \/ BlankKnown(f) \/ Reject(f) \/ PassUnreadable(f) \/ BlankGuarded(f) \/ TooDeep(f)
        PROVE  Passes(Noted(f)) /\ Noted(f).conds = Top.conds
    <2>1. stack # << >> /\ \/ Continue(Noted(f), <<Copied(Top)>>)
                           \/ Continue(Noted(f), <<Blanked(Top)>>)
      BY <1>4 DEF PassRejected, BlankKnown, Reject, PassUnreadable, BlankGuarded, TooDeep, IncludesNow, Reads
    <2> QED BY <1>1, <2>1 DEF Passes
  <1> QED BY <1>2, <1>3, <1>4

LEMMA PassShape ==
  ASSUME TypeInv, NEW frame, Passes(frame)
  PROVE  /\ stack' \in Seq(Frames) /\ Len(stack') = Len(stack) /\ DOMAIN stack' = DOMAIN stack
         /\ \E line \in OutLines :
              /\ line.from = Top.file /\ line.line = Top.next
              /\ \A k \in DOMAIN stack :
                   stack'[k] = IF k = Len(stack) THEN Advanced(frame, <<line>>) ELSE stack[k]
  <1>1. PICK line \in OutLines : line.from = Top.file /\ line.line = Top.next /\ Continue(frame, <<line>>)
    BY DEF Passes
  <1>2. <<line>> \in Seq(OutLines)
    BY <1>1
  <1> QED BY <1>1, <1>2, ContinueShape DEF Passes, SameText

LEMMA ReuseShape ==
  ASSUME TypeInv, NEW f \in Files, Reuse(f)
  PROVE  /\ stack' \in Seq(Frames) /\ Len(stack') = Len(stack) /\ DOMAIN stack' = DOMAIN stack
         /\ stack # << >> /\ SameText(Noted(f)) /\ Noted(f).included = Top.included \cup {f}
         /\ Noted(f).conds = Top.conds /\ cache[f] \in Seq(OutLines)
         /\ \A k \in DOMAIN stack :
              stack'[k] = IF k = Len(stack) THEN Advanced(Noted(f), cache[f]) ELSE stack[k]
  <1>1. stack # << >> /\ cache[f] \in Seq(OutLines)
    BY DEF Reuse, IncludesNow, Reads, TypeInv
  <1>2. Top \in Frames
    BY <1>1, TopIsFrame
  <1>3. Noted(f) \in Frames /\ SameText(Noted(f)) /\ Noted(f).included = Top.included \cup {f}
        /\ Noted(f).conds = Top.conds
    BY <1>2 DEF Noted, Frames, SameText
  <1> QED BY <1>1, <1>3, ContinueShape DEF Reuse

LEMMA UnitIsFile == TypeInv /\ Begin => Unit \in Files
  <1> SUFFICES ASSUME TypeInv, Begin PROVE Unit \in Files
    OBVIOUS
  <1>1. Len(outs) \in Nat /\ Len(scan) \in Nat /\ Len(outs) < Len(scan)
    BY LenProperties DEF TypeInv, InputInv, Begin
  <1>2. scan[Len(outs) + 1] \in [unit : Files, fresh : BOOLEAN]
    <2>1. Len(outs) + 1 \in 1..Len(scan)
      BY <1>1
    <2> QED BY <2>1, ElementOfSeq DEF TypeInv, InputInv
  <1> QED BY <1>2 DEF Unit

\* Leaving a header changes at most its own entry of the cache.
LEMMA CachedByLeave ==
  ASSUME Leave
  PROVE  \/ cache' = cache
         \/ /\ IsLeaf(Top) /\ DOMAIN cache' = DOMAIN cache \cup {Top.file}
            /\ cache'[Top.file] = Top.out
            /\ \A f \in DOMAIN cache : f # Top.file => cache'[f] = cache[f]
  BY DEF Leave

LEMMA TypeInit == Init => TypeInv
  <1> SUFFICES ASSUME Init PROVE TypeInv
    OBVIOUS
  <1>1. InputInv
    BY BodiesAssumption, KindsAssumption, LimitsAssumption, ScansAssumption DEF Init, InputInv
  <1> QED BY <1>1 DEF Init, TypeInv, NoCache

LEMMA InputStep == InputInv /\ UNCHANGED input => InputInv'
  BY DEF InputInv, input, Protected

LEMMA TypeStep == TypeInv /\ [Next]_vars => TypeInv'
  <1> SUFFICES ASSUME TypeInv, [Next]_vars PROVE TypeInv'
    OBVIOUS
  <1>1. InputInv'
    BY InputStep DEF TypeInv, Next, Begin, CopyText, PassInactive, Skip, Conditional, IncludeStep,
         PassRejected, BlankKnown, Reject, PassUnreadable, BlankGuarded, TooDeep, Reuse, Enter,
         Leave, End, Finished, vars
  <1>2. CASE Begin
    <2>1. Unit \in Files
      BY <1>2, UnitIsFile
    <2>2. <<Frame(Unit)>> \in Seq(Frames)
      BY <2>1 DEF Frame, Frames
    <2> QED BY <1>1, <1>2, <2>1, <2>2 DEF Begin, TypeInv, NoCache
  <1>3. CASE CopyText \/ PassInactive \/ Conditional
    <2>1. stack' \in Seq(Frames)
      BY <1>3, PassSteps, PassShape
    <2> QED BY <1>1, <1>3, <2>1 DEF CopyText, PassInactive, Skip, Conditional, marks, TypeInv
  <1>4. ASSUME NEW f \in Files,
               PassRejected(f) \/ BlankKnown(f) \/ Reject(f) \/ PassUnreadable(f) \/ BlankGuarded(f) \/ TooDeep(f)
        PROVE  TypeInv'
    <2>1. stack' \in Seq(Frames)
      BY <1>4, PassSteps, PassShape
    <2>2. guarded' \subseteq Files /\ cut' \subseteq Files /\ rejected' \subseteq Files /\ total' \in Nat
          /\ UNCHANGED <<cache, outs>>
      BY <1>4 DEF PassRejected, BlankKnown, Reject, PassUnreadable, BlankGuarded, TooDeep, Mark, marks, TypeInv
    <2> QED BY <1>1, <2>1, <2>2 DEF TypeInv
  <1>5. ASSUME NEW f \in Files, Reuse(f) PROVE TypeInv'
    <2>1. stack' \in Seq(Frames)
      BY <1>5, ReuseShape
    <2> QED BY <1>1, <1>5, <2>1 DEF Reuse, Mark, TypeInv
  <1>6. ASSUME NEW f \in Files, Enter(f) PROVE TypeInv'
    <2>1. stack' \in Seq(Frames)
      BY <1>6, EnterShape
    <2> QED BY <1>1, <1>6, <2>1 DEF Enter, Mark, TypeInv
  <1>7. CASE Leave
    <2>1. stack' \in Seq(Frames) /\ Top \in Frames
      BY <1>7, LeaveShape
    <2>2. DOMAIN cache' \subseteq Files /\ \A f \in DOMAIN cache' : cache'[f] \in Seq(OutLines)
      <3>1. Top.file \in Files /\ Top.out \in Seq(OutLines)
        BY <2>1 DEF Frames
      <3> QED BY <1>7, <3>1, CachedByLeave DEF TypeInv
    <2> QED BY <1>1, <1>7, <2>1, <2>2 DEF Leave, marks, TypeInv
  <1>8. CASE End
    <2>1. Top.out \in Seq(OutLines)
      <3>1. stack # << >>
        BY <1>8, EmptySeq DEF End
      <3> QED BY <3>1, TopIsFrame DEF Frames
    <2>2. outs' \in Seq(Seq(OutLines)) /\ stack' \in Seq(Frames)
      BY <1>8, <2>1, AppendProperties DEF End, TypeInv
    <2> QED BY <1>1, <1>8, <2>2 DEF End, marks, TypeInv
  <1>9. CASE UNCHANGED vars
    BY <1>1, <1>9 DEF vars, marks, TypeInv
  <1> QED BY <1>2, <1>3, <1>4, <1>5, <1>6, <1>7, <1>8, <1>9 DEF Next, IncludeStep, Finished

-----------------------------------------------------------------------------
(* Guarded headers: the stack.                                             *)

LEMMA PrimedStack ==
  ASSUME UNCHANGED <<body, kind>>
  PROVE  /\ StackInv(stack') => StackInv(stack)'
         /\ Present' = PresentIn(stack')
         /\ \A out : Distinct(out)' <=> Distinct(out)
  BY DEF StackInv, FrameInv, Distinct, Shows, Protected, Present, PresentIn

LEMMA DistinctConcat ==
  ASSUME NEW s \in Seq(OutLines), NEW t \in Seq(OutLines), Distinct(s), Distinct(t),
         \A m \in DOMAIN s : \A n \in DOMAIN t :
           ~(Protected(t[n].from) /\ s[m].from = t[n].from /\ s[m].line = t[n].line)
  PROVE  Distinct(s \o t)
  <1> DEFINE u == s \o t
  <1>1. \A i \in DOMAIN u : \/ i \in DOMAIN s /\ u[i] = s[i]
                            \/ \E j \in DOMAIN t : i = Len(s) + j /\ u[i] = t[j]
    BY Concatenated
  <1> HIDE DEF u
  <1>2. ASSUME NEW m \in DOMAIN u, NEW n \in DOMAIN u,
               Protected(u[m].from), u[m].from = u[n].from, u[m].line = u[n].line
        PROVE  m = n
    <2>1. CASE m \in DOMAIN s /\ u[m] = s[m] /\ n \in DOMAIN s /\ u[n] = s[n]
      BY <1>2, <2>1 DEF Distinct
    <2>2. ASSUME NEW i \in DOMAIN t, m = Len(s) + i, u[m] = t[i],
                 NEW j \in DOMAIN t, n = Len(s) + j, u[n] = t[j]
          PROVE  m = n
      <3>1. i = j
        BY <1>2, <2>2 DEF Distinct
      <3> QED BY <2>2, <3>1
    <2>3. ASSUME NEW i \in DOMAIN s, NEW j \in DOMAIN t,
                 \/ u[m] = s[i] /\ u[n] = t[j]
                 \/ u[n] = s[i] /\ u[m] = t[j]
          PROVE  FALSE
      BY <1>2, <2>3
    <2> QED BY <1>1, <2>1, <2>2, <2>3
  <1> QED BY <1>2 DEF u, Distinct

LEMMA BodyLines ==
  ASSUME TypeInv, NEW f \in Files
  PROVE  DOMAIN body[f] = 1..Len(body[f]) /\ Len(body[f]) \in Nat /\ DOMAIN body[f] \subseteq Nat
  <1>1. body[f] \in Seq(Lines)
    BY DEF TypeInv, InputInv
  <1> QED BY <1>1, LenProperties

\* The top of the stack s, of n frames, grows by the lines in w, which are new to
\* s, and t is the result.
Grows(s, t, n, w) ==
  /\ n \in Nat \ {0} /\ DOMAIN s = 1..n /\ DOMAIN t = 1..n /\ w \in Seq(OutLines)
  /\ \A k \in 1..n : s[k] \in Frames
  /\ \A k \in 1..n : k # n => t[k] = s[k]
  /\ t[n].file = s[n].file /\ t[n].next = s[n].next + 1 /\ t[n].out = s[n].out \o w
  /\ s[n].included \subseteq t[n].included
  /\ \A m \in DOMAIN w : w[m].from \in {t[n].file} \cup t[n].included
  /\ Distinct(w)
  /\ \A m \in DOMAIN w : Protected(w[m].from) =>
       \/ w[m].from = s[n].file /\ w[m].line = s[n].next
       \/ \A k \in 1..n : s[k].file # w[m].from /\ ~Shows(s[k], w[m].from)
  /\ \/ body[s[n].file][s[n].next].is = "include"
     \/ \E m \in DOMAIN w : w[m].from = s[n].file

LEMMA GrowTop ==
  ASSUME TypeInv, NEW s, StackInv(s), NEW t, NEW n, NEW w, Grows(s, t, n, w)
  PROVE  /\ StackInv(t)
         /\ PresentIn(t) = PresentIn(s)
              \cup {f \in Files : Protected(f) /\ \E m \in DOMAIN w : w[m].from = f}
  <1> USE DEF Grows
  <1>0. DOMAIN body[s[n].file] \subseteq Nat
    <2>1. s[n] \in Frames
      OBVIOUS
    <2> QED BY <2>1, BodyLines DEF Frames
  <1> DEFINE old == s[n].out
             new == t[n].out
             from(f) == \E m \in DOMAIN w : w[m].from = f
  <1>1. s[n] \in Frames /\ old \in Seq(OutLines) /\ n \in 1..n
    BY DEF Frames
  <1>2. /\ \A i \in DOMAIN old : i \in DOMAIN new /\ new[i] = old[i]
        /\ \A i \in DOMAIN w : \E j \in DOMAIN new : new[j] = w[i]
        /\ \A i \in DOMAIN new : \/ i \in DOMAIN old /\ new[i] = old[i]
                                 \/ \E j \in DOMAIN w : new[i] = w[j]
    <2>1. /\ \A i \in DOMAIN old : i \in DOMAIN (old \o w) /\ (old \o w)[i] = old[i]
          /\ \A i \in DOMAIN w : \E j \in DOMAIN (old \o w) : (old \o w)[j] = w[i]
          /\ \A i \in DOMAIN (old \o w) : \/ i \in DOMAIN old /\ (old \o w)[i] = old[i]
                                          \/ \E j \in DOMAIN w : (old \o w)[i] = w[j]
      <3> HIDE DEF old
      <3>1. ASSUME NEW i \in DOMAIN w PROVE \E j \in DOMAIN (old \o w) : (old \o w)[j] = w[i]
        <4>1. Len(old) + i \in DOMAIN (old \o w) /\ (old \o w)[Len(old) + i] = w[i]
          BY <1>1, Concatenated
        <4> QED BY <4>1
      <3>2. \A i \in DOMAIN old : i \in DOMAIN (old \o w) /\ (old \o w)[i] = old[i]
        BY <1>1, Concatenated
      <3>3. \A i \in DOMAIN (old \o w) : \/ i \in DOMAIN old /\ (old \o w)[i] = old[i]
                                         \/ \E j \in DOMAIN w : (old \o w)[i] = w[j]
        BY <1>1, Concatenated
      <3> QED BY <3>1, <3>2, <3>3
    <2>2. new = old \o w
      OBVIOUS
    <2> HIDE DEF old, new
    <2> QED BY <2>1, <2>2
  <1>3. \A f : Shows(t[n], f) <=> Shows(s[n], f) \/ from(f)
    <2> SUFFICES ASSUME NEW f PROVE Shows(t[n], f) <=> Shows(s[n], f) \/ from(f)
      OBVIOUS
    <2>1. Shows(t[n], f) <=> \E i \in DOMAIN new : new[i].from = f
      BY DEF Shows
    <2>2. Shows(s[n], f) <=> \E i \in DOMAIN old : old[i].from = f
      BY DEF Shows
    <2> HIDE DEF old, new
    <2> QED BY <1>2, <2>1, <2>2
  <1>4. \A k \in 1..n : t[k].file = s[k].file
    OBVIOUS
  <1>5. \A k \in 1..n : \A f : Shows(t[k], f) <=> Shows(s[k], f) \/ (k = n /\ from(f))
    BY <1>3
  <1>6. \A f : Protected(f) /\ from(f) =>
          f = s[n].file \/ \A k \in 1..n : s[k].file # f /\ ~Shows(s[k], f)
    OBVIOUS
  <1>7. \A m \in DOMAIN old :
          /\ old[m].from \in {s[n].file} \cup s[n].included
          /\ Protected(s[n].file) /\ old[m].from = s[n].file => old[m].line < s[n].next
    BY <1>1 DEF StackInv, FrameInv
  <1>8. \A m \in DOMAIN old : old[m] \in OutLines
    BY <1>1, LenProperties, ElementOfSeq
  <1>9. \A m \in DOMAIN w : w[m] \in OutLines
    BY LenProperties, ElementOfSeq
  <1>10. Distinct(new)
    <2>1. Distinct(old)
      BY <1>1 DEF StackInv, FrameInv
    <2>2. ASSUME NEW m \in DOMAIN old, NEW i \in DOMAIN w,
                 Protected(w[i].from), old[m].from = w[i].from, old[m].line = w[i].line
          PROVE  FALSE
      <3>1. CASE w[i].from = s[n].file /\ w[i].line = s[n].next
        <4>1. old[m].line < s[n].next /\ s[n].next \in Nat
          BY <1>1, <1>7, <2>2, <3>1 DEF Frames
        <4> QED BY <2>2, <3>1, <4>1
      <3>2. CASE ~Shows(s[n], w[i].from)
        BY <2>2, <3>2 DEF Shows
      <3> QED BY <1>1, <2>2, <3>1, <3>2
    <2> QED BY <1>1, <2>1, <2>2, DistinctConcat
  <1>11. FrameInv(t[n])
    <2>1. ASSUME NEW m \in DOMAIN new
          PROVE  /\ new[m].from \in {t[n].file} \cup t[n].included
                 /\ Protected(t[n].file) /\ new[m].from = t[n].file => new[m].line < t[n].next
      <3>1. CASE m \in DOMAIN old /\ new[m] = old[m]
        <4>1. old[m].line \in Nat /\ s[n].next \in Nat
          BY <1>1, <1>8, <3>1 DEF OutLines, Frames
        <4>2. /\ old[m].from \in {s[n].file} \cup s[n].included
              /\ Protected(s[n].file) /\ old[m].from = s[n].file => old[m].line < s[n].next
          BY <1>7, <3>1
        <4>3. new[m].from = old[m].from /\ new[m].line = old[m].line
          BY <3>1
        <4> HIDE DEF old, new
        <4> QED BY <4>1, <4>2, <4>3
      <3>2. ASSUME NEW j \in DOMAIN w, new[m] = w[j]
            PROVE  /\ new[m].from \in {t[n].file} \cup t[n].included
                   /\ Protected(t[n].file) /\ new[m].from = t[n].file => new[m].line < t[n].next
        <4>1. w[j].from = s[n].file /\ Protected(s[n].file) => w[j].line = s[n].next
          BY <1>1
        <4>2. s[n].next \in Nat
          BY <1>1 DEF Frames
        <4> QED BY <3>2, <4>1, <4>2
      <3> QED BY <1>2, <3>1, <3>2
    <2>2. ASSUME NEW i \in DOMAIN body[t[n].file], i < t[n].next, body[t[n].file][i].is # "include"
          PROVE  Shows(t[n], t[n].file)
      <3>1. i < s[n].next \/ i = s[n].next
        <4>1. t[n].file = s[n].file /\ t[n].next = s[n].next + 1
          OBVIOUS
        <4>2. i \in Nat /\ s[n].next \in Nat
          BY <1>0, <1>1, <4>1 DEF Frames
        <4>3. i < s[n].next + 1
          BY <2>2, <4>1
        <4> HIDE DEF Grows, old, new, from
        <4> QED BY <4>2, <4>3
      <3>2. CASE i < s[n].next
        BY <1>1, <1>3, <2>2, <3>2 DEF StackInv, FrameInv
      <3>3. CASE i = s[n].next
        BY <1>3, <2>2, <3>3
      <3> QED BY <3>1, <3>2, <3>3
    <2> HIDE DEF old, new
    <2> QED BY <1>10, <2>1, <2>2 DEF FrameInv, new
  <1> HIDE DEF from
  <1>12. ASSUME NEW j \in 1..n, NEW k \in 1..n, NEW f \in Files,
                Protected(f), Shows(t[j], f), t[k].file = f \/ Shows(t[k], f)
         PROVE  j = k
    <2>1. \A i \in 1..n : Shows(s[i], f) /\ s[n].file = f => i = n
      BY <1>1, <1>12 DEF StackInv
    <2>2. CASE Shows(s[j], f) /\ (s[k].file = f \/ Shows(s[k], f))
      BY <1>12, <2>2 DEF StackInv
    <2>3. Shows(s[j], f) \/ (j = n /\ from(f))
      BY <1>5, <1>12
    <2>4. s[k].file = f \/ Shows(s[k], f) \/ (k = n /\ from(f))
      BY <1>4, <1>5, <1>12
    <2>5. CASE from(f) /\ f = s[n].file
      <3>1. s[k].file = f => k = n
        BY <1>1, <2>5 DEF StackInv
      <3> QED BY <2>1, <2>3, <2>4, <2>5, <3>1
    <2>6. CASE from(f) /\ \A i \in 1..n : s[i].file # f /\ ~Shows(s[i], f)
      BY <2>3, <2>4, <2>6
    <2> QED BY <1>6, <1>12, <2>2, <2>3, <2>4, <2>5, <2>6
  <1>13. StackInv(t)
    <2>1. \A k \in 1..n : FrameInv(t[k])
      BY <1>11 DEF StackInv
    <2>2. ASSUME NEW k \in 1..n, k + 1 \in 1..n PROVE body[t[k].file][t[k].next].is = "include"
      <3>1. k # n
        BY <2>2
      <3> QED BY <2>2, <3>1 DEF StackInv
    <2>3. \A j, k \in 1..n : t[j].file = t[k].file => j = k
      BY <1>4 DEF StackInv
    <2> QED BY <1>12, <2>1, <2>2, <2>3 DEF StackInv
  <1>14. PresentIn(t) = PresentIn(s) \cup {f \in Files : Protected(f) /\ from(f)}
    <2> SUFFICES ASSUME NEW f \in Files, Protected(f)
                 PROVE  f \in PresentIn(t) <=> f \in PresentIn(s) \/ from(f)
      BY DEF PresentIn
    <2>1. f \in PresentIn(t) <=> \E k \in 1..n : t[k].file = f \/ Shows(t[k], f)
      BY DEF PresentIn
    <2>2. f \in PresentIn(s) <=> \E k \in 1..n : s[k].file = f \/ Shows(s[k], f)
      BY DEF PresentIn
    <2> QED BY <1>1, <1>4, <1>5, <2>1, <2>2
  <1> QED BY <1>13, <1>14 DEF from
LEMMA PassStack ==
  ASSUME TypeInv, StackInv(stack), NEW frame, Passes(frame), UNCHANGED <<body, kind>>
  PROVE  StackInv(stack)' /\ Present' = Present
  <1> DEFINE n == Len(stack)
  <1>1. PICK line \in OutLines :
          /\ line.from = Top.file /\ line.line = Top.next
          /\ \A k \in DOMAIN stack : stack'[k] = IF k = n THEN Advanced(frame, <<line>>) ELSE stack[k]
    BY PassShape
  <1>2. /\ n \in Nat \ {0} /\ DOMAIN stack = 1..n /\ DOMAIN stack' = 1..n /\ Top = stack[n]
        /\ \A k \in 1..n : stack[k] \in Frames
    BY PassShape, TopIsFrame DEF Passes
  <1> DEFINE w == <<line>>
  <1>3. w \in Seq(OutLines) /\ DOMAIN w = {1} /\ w[1] = line
    BY <1>1
  <1>4. Advanced(frame, w).file = frame.file /\ Advanced(frame, w).next = frame.next + 1
        /\ Advanced(frame, w).out = frame.out \o w /\ Advanced(frame, w).included = frame.included
    BY <1>3, AdvancedType DEF Passes, SameText
  <1> HIDE DEF w
  <1>5. stack'[n] = Advanced(frame, w)
    BY <1>1, <1>2 DEF w
  <1>6. /\ stack'[n].file = stack[n].file /\ stack'[n].next = stack[n].next + 1
        /\ stack'[n].out = stack[n].out \o w /\ stack[n].included \subseteq stack'[n].included
    BY <1>2, <1>4, <1>5 DEF Passes, SameText
  <1>7. \A m \in DOMAIN w : w[m].from = stack[n].file /\ w[m].line = stack[n].next
    BY <1>1, <1>2, <1>3
  <1>8. Distinct(w)
    BY <1>3 DEF Distinct
  <1>9. \E m \in DOMAIN w : w[m].from = stack[n].file
    BY <1>3, <1>7
  <1>11. \A k \in 1..n : k # n => stack'[k] = stack[k]
    BY <1>1, <1>2
  <1>12. \A m \in DOMAIN w : w[m].from \in {stack'[n].file} \cup stack'[n].included
    BY <1>6, <1>7
  <1> HIDE DEF n
  <1>13. /\ StackInv(stack')
         /\ PresentIn(stack') = PresentIn(stack)
              \cup {f \in Files : Protected(f) /\ \E m \in DOMAIN w : w[m].from = f}
    <2>1. Grows(stack, stack', n, w)
      BY <1>2, <1>3, <1>6, <1>7, <1>8, <1>9, <1>11, <1>12 DEF Grows
    <2> QED BY <2>1, GrowTop
  <1>14. {f \in Files : Protected(f) /\ \E m \in DOMAIN w : w[m].from = f} \subseteq PresentIn(stack)
    BY <1>2, <1>7 DEF PresentIn
  <1> QED BY <1>13, <1>14, PrimedStack DEF Present

LEMMA ReuseStack ==
  ASSUME TypeInv, StackInv(stack), CacheInv, MarkInv, NEW f \in Files, Reuse(f)
  PROVE  StackInv(stack)' /\ Present' = Present \cup {g \in {f} : Protected(g)}
  <1> DEFINE n == Len(stack)
             w == cache[f]
  <1>1. /\ n \in Nat \ {0} /\ DOMAIN stack = 1..n /\ DOMAIN stack' = 1..n /\ Top = stack[n]
        /\ \A k \in 1..n : stack[k] \in Frames
    BY ReuseShape, TopIsFrame
  <1>2. /\ SameText(Noted(f)) /\ Noted(f).included = Top.included \cup {f} /\ w \in Seq(OutLines)
        /\ \A k \in 1..n : stack'[k] = IF k = n THEN Advanced(Noted(f), w) ELSE stack[k]
    BY <1>1, ReuseShape
  <1>3. /\ Advanced(Noted(f), w).file = Noted(f).file /\ Advanced(Noted(f), w).next = Noted(f).next + 1
        /\ Advanced(Noted(f), w).out = Noted(f).out \o w
        /\ Advanced(Noted(f), w).included = Noted(f).included
    BY <1>2, AdvancedType DEF SameText
  <1>4. f \in DOMAIN cache /\ f \notin Opened /\ f \notin guarded
    BY DEF Reuse, Expandable, Enterable, Known
  <1>5. /\ \A m \in DOMAIN w : w[m].from = f
        /\ Distinct(w) /\ (Protected(f) => w # << >>)
    BY <1>4 DEF CacheInv
  <1>6. Protected(f) => \E m \in DOMAIN w : w[m].from = f
    <2>1. w # << >> => 1 \in DOMAIN w
      <3> HIDE DEF w
      <3> QED BY <1>2, LenProperties, EmptySeq
    <2> QED BY <1>5, <2>1
  <1>7. \A k \in 1..n : stack[k].file # f /\ (Protected(f) => ~Shows(stack[k], f))
    BY <1>1, <1>4 DEF Opened, MarkInv, Present, PresentIn
  <1>8. UNCHANGED <<body, kind>> /\ body[Top.file][Top.next].is = "include"
    BY DEF Reuse, IncludesNow, Reads, input
  <1> HIDE DEF w, n
  <1>10. /\ stack'[n].file = stack[n].file /\ stack'[n].next = stack[n].next + 1
         /\ stack'[n].out = stack[n].out \o w /\ stack'[n].included = stack[n].included \cup {f}
    <2>1. n \in 1..n /\ Top = stack[n]
      BY <1>1
    <2>2. stack'[n] = Advanced(Noted(f), w)
      BY <1>2, <2>1
    <2>3. /\ Noted(f).file = stack[n].file /\ Noted(f).next = stack[n].next
          /\ Noted(f).out = stack[n].out /\ Noted(f).included = stack[n].included \cup {f}
      BY <1>2, <2>1 DEF SameText
    <2> QED BY <1>3, <2>2, <2>3
  <1>11. /\ StackInv(stack')
         /\ PresentIn(stack') = PresentIn(stack)
              \cup {g \in Files : Protected(g) /\ \E m \in DOMAIN w : w[m].from = g}
    <2>1. \A k \in 1..n : k # n => stack'[k] = stack[k]
      BY <1>2
    <2>2. \A m \in DOMAIN w : w[m].from \in {stack'[n].file} \cup stack'[n].included
      BY <1>5, <1>10
    <2>3. \A m \in DOMAIN w : Protected(w[m].from) =>
            \A k \in 1..n : stack[k].file # w[m].from /\ ~Shows(stack[k], w[m].from)
      BY <1>5, <1>7
    <2>4. Grows(stack, stack', n, w)
      BY <1>1, <1>2, <1>5, <1>8, <1>10, <2>1, <2>2, <2>3 DEF Grows
    <2> QED BY <2>4, GrowTop
  <1>12. {g \in Files : Protected(g) /\ \E m \in DOMAIN w : w[m].from = g} = {g \in {f} : Protected(g)}
    BY <1>5, <1>6
  <1> QED BY <1>8, <1>11, <1>12, PrimedStack DEF Present

LEMMA EnterStack ==
  ASSUME TypeInv, StackInv(stack), MarkInv, NEW f \in Files, Enter(f)
  PROVE  StackInv(stack)' /\ Present' = Present \cup {g \in {f} : Protected(g)}
  <1> DEFINE n == Len(stack)
             t == stack'
  <1>1. /\ n \in Nat \ {0} /\ DOMAIN stack = 1..n /\ DOMAIN t = 1..n + 1
        /\ t[n + 1] = Frame(f) /\ t[n] = Noted(f) /\ \A k \in 1..n - 1 : t[k] = stack[k]
        /\ Top = stack[n] /\ SameText(Noted(f)) /\ Noted(f).included = Top.included \cup {f}
    BY EnterShape
  <1>2. f \notin Opened /\ f \notin guarded /\ UNCHANGED <<body, kind>>
        /\ body[Top.file][Top.next].is = "include"
    BY DEF Enter, Expandable, Enterable, Known, IncludesNow, Reads, input
  <1>3. \A k \in 1..n : stack[k].file # f /\ (Protected(f) => ~Shows(stack[k], f))
    BY <1>1, <1>2 DEF Opened, MarkInv, Present, PresentIn
  <1>4. /\ t[n + 1].file = f /\ t[n + 1].next = 1 /\ t[n + 1].out = << >>
        /\ DOMAIN t[n + 1].out = {}
    BY <1>1 DEF Frame
  <1>5. t[n].file = stack[n].file /\ t[n].next = stack[n].next /\ t[n].out = stack[n].out
        /\ stack[n].included \subseteq t[n].included
    BY <1>1 DEF SameText
  <1> HIDE DEF t, n
  <1>6. \A k \in 1..n : /\ t[k].file = stack[k].file /\ t[k].next = stack[k].next /\ t[k].out = stack[k].out
                        /\ stack[k].included \subseteq t[k].included
    <2> SUFFICES ASSUME NEW k \in 1..n
                 PROVE  /\ t[k].file = stack[k].file /\ t[k].next = stack[k].next
                        /\ t[k].out = stack[k].out /\ stack[k].included \subseteq t[k].included
      OBVIOUS
    <2>1. k = n \/ k \in 1..n - 1
      BY <1>1
    <2> QED BY <1>1, <1>5, <2>1
  <1>7. /\ \A k \in 1..n : \A g : Shows(t[k], g) <=> Shows(stack[k], g)
        /\ \A g : ~Shows(t[n + 1], g)
    BY <1>4, <1>6 DEF Shows
  <1>8. \A k \in 1..n : FrameInv(t[k])
    BY <1>1, <1>6, <1>7 DEF StackInv, FrameInv
  <1>9. FrameInv(t[n + 1])
    <2>1. DOMAIN body[f] \subseteq Nat \ {0}
      BY BodyLines
    <2>2. \A i \in DOMAIN body[f] : ~(i < 1)
      BY <2>1
    <2> QED BY <1>4, <2>2 DEF FrameInv, Distinct
  <1>10. 1..n + 1 = (1..n) \cup {n + 1} /\ n + 1 \notin 1..n /\ n \in 1..n
    BY <1>1
  <1>11. StackInv(t)
    <2>1. \A j, k \in 1..n + 1 : t[j].file = t[k].file => j = k
      <3>1. \A j, k \in 1..n : t[j].file = t[k].file => j = k
        BY <1>1, <1>6 DEF StackInv
      <3>2. \A k \in 1..n : t[k].file # t[n + 1].file
        BY <1>3, <1>4, <1>6
      <3> QED BY <1>10, <3>1, <3>2
    <2>2. ASSUME NEW j \in 1..n + 1, NEW k \in 1..n + 1, NEW g \in Files,
                 Protected(g), Shows(t[j], g), t[k].file = g \/ Shows(t[k], g)
          PROVE  j = k
      <3>1. j \in 1..n /\ Shows(stack[j], g)
        BY <1>7, <1>10, <2>2
      <3>2. g # f
        BY <1>3, <2>2, <3>1
      <3>3. k \in 1..n /\ (stack[k].file = g \/ Shows(stack[k], g))
        BY <1>4, <1>6, <1>7, <1>10, <2>2, <3>2
      <3> QED BY <1>1, <2>2, <3>1, <3>3 DEF StackInv
    <2>3. \A k \in 1..n + 1 : FrameInv(t[k])
      BY <1>8, <1>9, <1>10
    <2>4. ASSUME NEW k \in 1..n + 1, k + 1 \in 1..n + 1 PROVE body[t[k].file][t[k].next].is = "include"
      <3>1. k = n \/ (k \in 1..n /\ k + 1 \in 1..n)
        BY <1>1, <2>4
      <3> QED BY <1>1, <1>2, <1>5, <1>6, <3>1 DEF StackInv
    <2> QED BY <1>1, <2>1, <2>2, <2>3, <2>4 DEF StackInv
  <1>12. PresentIn(t) = PresentIn(stack) \cup {g \in {f} : Protected(g)}
    <2> SUFFICES ASSUME NEW g \in Files, Protected(g)
                 PROVE  g \in PresentIn(t) <=> g \in PresentIn(stack) \/ g = f
      BY DEF PresentIn
    <2>1. g \in PresentIn(t) <=> \E k \in 1..n + 1 : t[k].file = g \/ Shows(t[k], g)
      BY <1>1 DEF PresentIn
    <2>2. g \in PresentIn(stack) <=> \E k \in 1..n : stack[k].file = g \/ Shows(stack[k], g)
      BY <1>1 DEF PresentIn
    <2>3. (\E k \in 1..n + 1 : t[k].file = g \/ Shows(t[k], g))
            <=> (\E k \in 1..n : t[k].file = g \/ Shows(t[k], g)) \/ t[n + 1].file = g \/ Shows(t[n + 1], g)
      BY <1>10
    <2>4. (\E k \in 1..n : t[k].file = g \/ Shows(t[k], g))
            <=> \E k \in 1..n : stack[k].file = g \/ Shows(stack[k], g)
      BY <1>6, <1>7
    <2>5. t[n + 1].file = f /\ ~Shows(t[n + 1], g)
      BY <1>4, <1>7
    <2> QED BY <2>1, <2>2, <2>3, <2>4, <2>5
  <1> QED BY <1>2, <1>11, <1>12, PrimedStack DEF Present, t

LEMMA LeaveStack ==
  ASSUME TypeInv, StackInv(stack), Leave
  PROVE  StackInv(stack)' /\ Present' = Present
  <1> DEFINE n == Len(stack) - 1
             s == [k \in 1..n |-> stack[k]]
             w == Top.out
             t == stack'
  <1>1. /\ n \in Nat \ {0} /\ DOMAIN stack = 1..n + 1 /\ DOMAIN t = 1..n
        /\ t[n] = Merged(stack[n], Top) /\ \A k \in 1..n : k # n => t[k] = stack[k]
        /\ Top = stack[n + 1] /\ Top \in Frames /\ stack[n] \in Frames
    BY LeaveShape
  <1> HIDE DEF t, n
  <1>2. \A k \in 1..n : stack[k] \in Frames
    <2>1. \A k \in DOMAIN stack : stack[k] \in Frames
      BY LenProperties, ElementOfSeq DEF TypeInv
    <2>2. \A k \in 1..n : k \in 1..n + 1
      BY <1>1
    <2> QED BY <1>1, <2>1, <2>2
  <1>3. UNCHANGED <<body, kind>> /\ Top.next > Len(body[Top.file])
    BY DEF Leave, input
  <1>4. /\ t[n].file = stack[n].file /\ t[n].next = stack[n].next + 1 /\ t[n].out = stack[n].out \o w
        /\ t[n].included = stack[n].included \cup Top.included \cup {Top.file}
    <2>1. stack[n] \in Frames /\ Top \in Frames /\ t[n] = Merged(stack[n], Top)
      BY <1>1
    <2> DEFINE p == stack[n]
               q == Top
    <2> HIDE DEF p, q
    <2>2. p \in Frames /\ q \in Frames
      BY <2>1 DEF p, q
    <2>3. /\ Merged(p, q).file = p.file /\ Merged(p, q).next = p.next + 1
          /\ Merged(p, q).out = p.out \o q.out
          /\ Merged(p, q).included = p.included \cup q.included \cup {q.file}
      BY <2>2, MergedType
    <2> QED BY <2>1, <2>3 DEF p, q
  <1>5. /\ DOMAIN s = 1..n /\ \A k \in 1..n : s[k] = stack[k] /\ k \in 1..n + 1
        /\ n + 1 \in 1..n + 1 /\ n \in 1..n /\ 1..n + 1 = (1..n) \cup {n + 1} /\ n + 1 \notin 1..n
    BY <1>1
  <1> HIDE DEF s
  <1>6. StackInv(s)
    <2>1. ASSUME NEW k \in 1..n, k + 1 \in 1..n PROVE body[s[k].file][s[k].next].is = "include"
      BY <1>1, <1>5, <2>1 DEF StackInv
    <2> QED BY <1>1, <1>5, <2>1 DEF StackInv
  <1>7. \A m \in DOMAIN w : w[m] \in OutLines
    BY <1>1, LenProperties, ElementOfSeq DEF Frames
  <1>8. FrameInv(Top) /\ w \in Seq(OutLines) /\ Distinct(w)
    BY <1>1, <1>5 DEF StackInv, FrameInv, Frames
  <1>9. \A m \in DOMAIN w : w[m].from \in {t[n].file} \cup t[n].included
    BY <1>4, <1>8 DEF FrameInv
  <1>10. \A m \in DOMAIN w : Protected(w[m].from) =>
           \A k \in 1..n : s[k].file # w[m].from /\ ~Shows(s[k], w[m].from)
    <2> SUFFICES ASSUME NEW m \in DOMAIN w, Protected(w[m].from), NEW k \in 1..n,
                        s[k].file = w[m].from \/ Shows(s[k], w[m].from)
                 PROVE  FALSE
      OBVIOUS
    <2>1. w[m].from \in Files /\ Shows(stack[n + 1], w[m].from)
      BY <1>1, <1>7 DEF OutLines, Shows
    <2>2. n + 1 = k
      BY <1>1, <1>5, <2>1 DEF StackInv
    <2> QED BY <1>5, <2>2
  <1>11. body[s[n].file][s[n].next].is = "include"
    BY <1>1, <1>5 DEF StackInv
  <1>13. /\ StackInv(t)
         /\ PresentIn(t) = PresentIn(s)
              \cup {f \in Files : Protected(f) /\ \E m \in DOMAIN w : w[m].from = f}
    <2>1. /\ \A k \in 1..n : s[k] \in Frames
          /\ \A k \in 1..n : k # n => t[k] = s[k]
          /\ t[n].file = s[n].file /\ t[n].next = s[n].next + 1 /\ t[n].out = s[n].out \o w
          /\ s[n].included \subseteq t[n].included
      BY <1>1, <1>2, <1>4, <1>5
    <2> HIDE DEF w
    <2>2. Grows(s, t, n, w)
      BY <1>1, <1>5, <1>8, <1>9, <1>10, <1>11, <2>1 DEF Grows
    <2> QED BY <1>6, <2>2, GrowTop
  <1>14. PresentIn(t) = PresentIn(stack)
    <2> SUFFICES ASSUME NEW f \in Files, Protected(f)
                 PROVE  f \in PresentIn(t) <=> f \in PresentIn(stack)
      BY DEF PresentIn
    <2>1. f \in PresentIn(stack) <=> \E k \in 1..n + 1 : stack[k].file = f \/ Shows(stack[k], f)
      BY <1>1 DEF PresentIn
    <2>2. f \in PresentIn(s) <=> \E k \in 1..n : stack[k].file = f \/ Shows(stack[k], f)
      BY <1>5 DEF PresentIn
    <2>3. f \in PresentIn(t) <=> f \in PresentIn(s) \/ Shows(Top, f)
      BY <1>13 DEF Shows
    <2>4. f = Top.file => Shows(Top, f)
      <3>1. PICK i \in DOMAIN body[f] : body[f][i].is # "include"
        BY DEF TypeInv, InputInv
      <3>2. i \in Nat /\ i <= Len(body[f]) /\ Len(body[f]) \in Nat
        BY BodyLines
      <3>3. f = Top.file => i < Top.next
        BY <1>1, <1>3, <3>2 DEF Frames
      <3> QED BY <1>8, <3>1, <3>3 DEF FrameInv
    <2> QED BY <1>1, <1>5, <2>1, <2>2, <2>3, <2>4
  <1> QED BY <1>3, <1>13, <1>14, PrimedStack DEF Present, t

LEMMA BeginStack ==
  ASSUME TypeInv, Begin
  PROVE  StackInv(stack)' /\ Present' = {g \in {Unit} : Protected(g)}
  <1> DEFINE t == <<Frame(Unit)>>
  <1>1. Unit \in Files /\ stack' = t /\ UNCHANGED <<body, kind>>
    BY UnitIsFile DEF Begin, input
  <1>2. DOMAIN t = {1} /\ t[1] = Frame(Unit)
    OBVIOUS
  <1>3. /\ t[1].file = Unit /\ t[1].next = 1 /\ t[1].out = << >> /\ DOMAIN t[1].out = {}
    BY <1>2 DEF Frame
  <1> HIDE DEF t
  <1>4. DOMAIN body[Unit] \subseteq Nat \ {0}
    BY <1>1, BodyLines
  <1>5. \A i \in DOMAIN body[Unit] : ~(i < 1)
    BY <1>4
  <1>6. FrameInv(t[1])
    BY <1>3, <1>5 DEF FrameInv, Distinct
  <1>7. StackInv(t)
    BY <1>2, <1>6 DEF StackInv
  <1>8. PresentIn(t) = {g \in {Unit} : Protected(g)}
    BY <1>1, <1>2, <1>3 DEF PresentIn, Shows
  <1> QED BY <1>1, <1>7, <1>8, PrimedStack

-----------------------------------------------------------------------------
(* Guarded headers: the cache, the marks and the expanded units.           *)

LEMMA TopIsWhole ==
  ASSUME TypeInv, StackInv(stack), stack # << >>
  PROVE  /\ Top \in Frames /\ FrameInv(Top)
         /\ Top.next > Len(body[Top.file]) /\ Protected(Top.file) => Shows(Top, Top.file)
  <1>1. Top \in Frames /\ FrameInv(Top)
    BY TopIsFrame DEF StackInv
  <1>2. ASSUME Top.next > Len(body[Top.file]), Protected(Top.file) PROVE Shows(Top, Top.file)
    <2>1. Top.file \in Files /\ Top.next \in Nat
      BY <1>1 DEF Frames
    <2>2. PICK i \in DOMAIN body[Top.file] : body[Top.file][i].is # "include"
      BY <1>2, <2>1 DEF TypeInv, InputInv
    <2>3. i < Top.next
      BY <1>2, <2>1, <2>2, BodyLines
    <2> QED BY <1>1, <2>2, <2>3 DEF FrameInv
  <1> QED BY <1>1, <1>2

LEMMA CacheStep == TypeInv /\ StackInv(stack) /\ CacheInv /\ [Next]_vars => CacheInv'
  <1> SUFFICES ASSUME TypeInv, StackInv(stack), CacheInv, [Next]_vars PROVE CacheInv'
    OBVIOUS
  <1>1. UNCHANGED <<body, kind>>
    BY DEF Next, Begin, CopyText, PassInactive, Skip, Conditional, IncludeStep,
           PassRejected, BlankKnown, Reject, PassUnreadable, BlankGuarded, TooDeep, Reuse, Enter,
           Leave, End, Finished, vars, input
  <1>2. ASSUME cache' = cache PROVE CacheInv'
    BY <1>1, <1>2 DEF CacheInv, Distinct, Protected
  <1>3. CASE Begin
    <2>1. cache' = cache \/ DOMAIN cache' = {}
      BY <1>3 DEF Begin, NoCache
    <2> QED BY <1>2, <2>1 DEF CacheInv
  <1>4. CASE Leave
    <2> DEFINE f == Top.file
    <2>1. stack # << >>
      BY <1>4, LenProperties, EmptySeq DEF Leave, TypeInv
    <2>2. /\ FrameInv(Top) /\ (Protected(f) => Shows(Top, f))
          /\ Top.out \in Seq(OutLines)
      BY <1>4, <2>1, TopIsWhole DEF Leave, Frames
    <2>3. CASE cache' = cache
      BY <1>2, <2>3
    <2>4. CASE /\ IsLeaf(Top) /\ DOMAIN cache' = DOMAIN cache \cup {f} /\ cache'[f] = Top.out
               /\ \A g \in DOMAIN cache : g # f => cache'[g] = cache[g]
      <3>1. \A m \in DOMAIN Top.out : Top.out[m].from = f
        BY <2>2, <2>4 DEF FrameInv, IsLeaf
      <3>2. Distinct(Top.out)
        BY <2>2 DEF FrameInv
      <3>3. Protected(f) => Top.out # << >>
        BY <2>2, EmptySeq DEF Shows
      <3> HIDE DEF f
      <3>4. \A g \in DOMAIN cache' : /\ \A m \in DOMAIN cache'[g] : cache'[g][m].from = g
                                     /\ Distinct(cache'[g])
                                     /\ Protected(g) => cache'[g] # << >>
        BY <2>4, <3>1, <3>2, <3>3 DEF CacheInv
      <3> QED BY <1>1, <3>4 DEF CacheInv, Distinct, Protected
    <2> QED BY <1>4, <2>3, <2>4, CachedByLeave
  <1> QED BY <1>2, <1>3, <1>4
      DEF Next, CopyText, PassInactive, Skip, Conditional, IncludeStep,
          PassRejected, BlankKnown, Reject, PassUnreadable, BlankGuarded, TooDeep, Reuse, Enter,
          End, Finished, vars

LEMMA GuardProtects == \A f : Guard(f) # {} => Protected(f)
  BY DEF Guard, Protected

LEMMA PrimedGuards ==
  ASSUME kind' = kind
  PROVE  \A f : /\ Guard(f)' = Guard(f) /\ SameGuard(f)' = SameGuard(f)
                /\ (Protected(f)' <=> Protected(f))
  BY DEF Guard, SameGuard, Protected

\* f is marked, and is then present or was cut off.
LEMMA MarkGrows ==
  ASSUME TypeInv, MarkInv, stack # << >>, kind' = kind, NEW f \in Files, Mark(f),
         Guard(f) \cap seen = {}, cut \subseteq cut', Present \subseteq Present',
         Present' \subseteq Present \cup {g \in {f} : Protected(g)},
         Protected(f) => f \in cut' \cup Present'
  PROVE  MarkInv'
  <1>1. /\ seen' = seen \cup Guard(f) /\ guarded' = guarded \cup {g \in {f} : Protected(g)}
        /\ f \in SameGuard(f)
    BY DEF Mark, SameGuard
  <1>2. Present' \subseteq guarded' /\ \A g \in guarded' : Protected(g)
    BY <1>1 DEF MarkInv
  <1>3. \A g \in Present' : Guard(g) \subseteq seen'
    BY <1>1 DEF MarkInv
  <1>4. ASSUME NEW g \in Present', NEW h \in Present', Guard(g) \cap Guard(h) # {}
        PROVE  g = h
    <2>1. \A x \in Present : Guard(x) \cap Guard(f) = {}
      BY DEF MarkInv
    <2> QED BY <1>4, <2>1 DEF MarkInv
  <1>5. \A g \in guarded' : SameGuard(g) \cap (cut' \cup Present') # {}
    BY <1>1 DEF MarkInv
  <1>6. \A s \in seen' : \E g \in cut' \cup Present' : s \in Guard(g)
    BY <1>1, GuardProtects DEF MarkInv
  <1> QED BY <1>2, <1>3, <1>4, <1>5, <1>6, PrimedGuards DEF MarkInv

\* f has the guard of another file.
LEMMA MarkTaken ==
  ASSUME TypeInv, MarkInv, stack # << >>, kind' = kind, NEW f \in Files, Taken(f),
         guarded' = guarded \cup {f}, UNCHANGED <<seen, cut>>, Present' = Present
  PROVE  MarkInv'
  <1>1. PICK s \in seen : s \in Guard(f)
    BY DEF Taken
  <1>2. PICK g \in cut \cup Present : s \in Guard(g)
    BY <1>1 DEF MarkInv
  <1>3. g \in SameGuard(f)
    BY <1>1, <1>2 DEF SameGuard, TypeInv, Present, PresentIn
  <1>4. Protected(f)
    BY <1>1, GuardProtects
  <1> QED BY <1>2, <1>3, <1>4, PrimedGuards DEF MarkInv

LEMMA MarkStep ==
  TypeInv /\ StackInv(stack) /\ CacheInv /\ MarkInv /\ [Next]_vars => StackInv(stack)' /\ MarkInv'
  <1> SUFFICES ASSUME TypeInv, StackInv(stack), CacheInv, MarkInv, [Next]_vars
               PROVE  StackInv(stack)' /\ MarkInv'
    OBVIOUS
  <1>1. UNCHANGED <<body, kind>>
    BY DEF Next, Begin, CopyText, PassInactive, Skip, Conditional, IncludeStep,
           PassRejected, BlankKnown, Reject, PassUnreadable, BlankGuarded, TooDeep, Reuse, Enter,
           Leave, End, Finished, vars, input
  <1>2. ASSUME UNCHANGED <<seen, guarded, cut>>, Present' = Present, stack' # << >> => stack # << >>
        PROVE  MarkInv'
    BY <1>1, <1>2, PrimedGuards DEF MarkInv
  <1>3. CASE Begin
    <2>1. /\ StackInv(stack)' /\ Present' = {g \in {Unit} : Protected(g)} /\ Unit \in Files
          /\ seen' = Guard(Unit) /\ guarded' = {g \in {Unit} : Protected(g)}
      BY <1>3, BeginStack, UnitIsFile DEF Begin
    <2>2. Unit \in SameGuard(Unit)
      BY DEF SameGuard
    <2> QED BY <1>1, <2>1, <2>2, PrimedGuards, GuardProtects DEF MarkInv
  <1>4. ASSUME NEW frame, Passes(frame) PROVE StackInv(stack)' /\ Present' = Present /\ stack # << >>
    BY <1>1, <1>4, PassStack DEF Passes
  <1>5. CASE CopyText \/ PassInactive \/ Conditional
    <2>1. UNCHANGED marks
      BY <1>5 DEF CopyText, PassInactive, Skip, Conditional
    <2> QED BY <1>2, <1>4, <1>5, <2>1, PassSteps DEF marks
  <1>6. ASSUME NEW f \in Files, PassRejected(f) \/ BlankKnown(f) \/ Reject(f) \/ PassUnreadable(f)
        PROVE  StackInv(stack)' /\ MarkInv'
    <2>1. UNCHANGED <<seen, guarded, cut>>
      BY <1>6 DEF PassRejected, BlankKnown, Reject, PassUnreadable, marks
    <2> QED BY <1>2, <1>4, <1>6, <2>1, PassSteps
  <1>7. ASSUME NEW f \in Files, BlankGuarded(f) PROVE StackInv(stack)' /\ MarkInv'
    <2>1. StackInv(stack)' /\ Present' = Present /\ stack # << >>
      BY <1>4, <1>7, PassSteps
    <2> QED BY <1>1, <1>7, <2>1, MarkTaken DEF BlankGuarded
  <1>8. ASSUME NEW f \in Files, TooDeep(f) PROVE StackInv(stack)' /\ MarkInv'
    <2>1. StackInv(stack)' /\ Present' = Present /\ stack # << >>
      BY <1>4, <1>8, PassSteps
    <2> QED BY <1>1, <1>8, <2>1, MarkGrows DEF TooDeep, Taken
  <1>9. ASSUME NEW f \in Files, Reuse(f) PROVE StackInv(stack)' /\ MarkInv'
    <2>1. StackInv(stack)' /\ Present' = Present \cup {g \in {f} : Protected(g)} /\ stack # << >>
      BY <1>9, ReuseStack, ReuseShape
    <2> QED BY <1>1, <1>9, <2>1, MarkGrows DEF Reuse, Expandable, Taken
  <1>10. ASSUME NEW f \in Files, Enter(f) PROVE StackInv(stack)' /\ MarkInv'
    <2>1. StackInv(stack)' /\ Present' = Present \cup {g \in {f} : Protected(g)} /\ stack # << >>
      BY <1>10, EnterStack DEF Enter, IncludesNow, Reads
    <2> QED BY <1>1, <1>10, <2>1, MarkGrows DEF Enter, Expandable, Taken
  <1>11. CASE Leave
    <2>1. stack # << >>
      BY <1>11, LenProperties, EmptySeq DEF Leave, TypeInv
    <2> QED BY <1>2, <1>11, <2>1, LeaveStack DEF Leave, marks
  <1>12. CASE End
    <2>1. stack' = << >> /\ DOMAIN stack' = {} /\ UNCHANGED <<seen, guarded, cut>>
      BY <1>12 DEF End, marks
    <2>2. StackInv(stack') /\ PresentIn(stack') = {}
      BY <2>1 DEF StackInv, PresentIn
    <2>3. StackInv(stack)' /\ Present' = {}
      BY <1>1, <2>2, PrimedStack
    <2> QED BY <1>1, <2>1, <2>3, PrimedGuards DEF MarkInv
  <1>13. CASE UNCHANGED vars
    <2>1. StackInv(stack') /\ PresentIn(stack') = Present /\ UNCHANGED <<stack, seen, guarded, cut>>
      BY <1>13 DEF vars, marks, Present
    <2> QED BY <1>1, <1>2, <2>1, PrimedStack
  <1> QED BY <1>3, <1>5, <1>6, <1>7, <1>8, <1>9, <1>10, <1>11, <1>12, <1>13
      DEF Next, IncludeStep, Finished

LEMMA OutStep == TypeInv /\ StackInv(stack) /\ MarkInv /\ OutInv /\ [Next]_vars => OutInv'
  <1> SUFFICES ASSUME TypeInv, StackInv(stack), MarkInv, OutInv, [Next]_vars PROVE OutInv'
    OBVIOUS
  <1>1. UNCHANGED <<body, kind>>
    BY DEF Next, Begin, CopyText, PassInactive, Skip, Conditional, IncludeStep,
           PassRejected, BlankKnown, Reject, PassUnreadable, BlankGuarded, TooDeep, Reuse, Enter,
           Leave, End, Finished, vars, input
  <1>3. CASE outs' = outs
    BY <1>1, <1>3, PrimedGuards DEF OutInv, Distinct, OneOfAGuard
  <1>4. CASE End
    <2>1. stack # << >> /\ Len(stack) = 1
      <3>1. Len(stack) = 1
        BY <1>4 DEF End
      <3>2. CASE stack = << >>
        BY <3>1, <3>2
      <3> QED BY <3>1, <3>2
    <2>2. Top \in Frames /\ Distinct(Top.out) /\ DOMAIN stack = {1} /\ Top = stack[1]
      BY <2>1, TopIsWhole, TopIsFrame DEF FrameInv
    <2>3. OneOfAGuard(Top.out)
      <3> SUFFICES ASSUME NEW m \in DOMAIN Top.out, NEW n \in DOMAIN Top.out,
                          Guard(Top.out[m].from) \cap Guard(Top.out[n].from) # {}
                   PROVE  Top.out[m].from = Top.out[n].from
        BY DEF OneOfAGuard
      <3>1. Top.out[m] \in OutLines /\ Top.out[n] \in OutLines
        BY <2>2, LenProperties, ElementOfSeq DEF Frames
      <3>2. Top.out[m].from \in Present /\ Top.out[n].from \in Present
        BY <2>2, <3>1, GuardProtects DEF OutLines, Present, PresentIn, Shows
      <3> QED BY <3>2 DEF MarkInv
    <2>4. outs' = Append(outs, Top.out) /\ outs \in Seq(Seq(OutLines)) /\ Top.out \in Seq(OutLines)
      BY <1>4, <2>2 DEF End, TypeInv, Frames
    <2>5. \A k \in DOMAIN outs' : (k \in DOMAIN outs /\ outs'[k] = outs[k]) \/ outs'[k] = Top.out
      BY <2>4
    <2>6. \A k \in DOMAIN outs' : Distinct(outs'[k]) /\ OneOfAGuard(outs'[k])
      BY <2>2, <2>3, <2>5 DEF OutInv
    <2> QED BY <1>1, <2>6, PrimedGuards DEF OutInv, Distinct, OneOfAGuard
  <1> QED BY <1>3, <1>4
      DEF Next, Begin, CopyText, PassInactive, Skip, Conditional, IncludeStep,
          PassRejected, BlankKnown, Reject, PassUnreadable, BlankGuarded, TooDeep, Reuse, Enter,
          Leave, Finished, vars

GuardInv == TypeInv /\ StackInv(stack) /\ CacheInv /\ MarkInv /\ OutInv

LEMMA GuardInvariant == Spec => []GuardInv
  <1>1. Init => GuardInv
    <2> SUFFICES ASSUME Init PROVE GuardInv
      OBVIOUS
    <2>1. /\ stack = << >> /\ outs = << >> /\ DOMAIN stack = {} /\ DOMAIN outs = {} /\ DOMAIN cache = {}
          /\ guarded = {}
      BY DEF Init, NoCache
    <2> QED BY <2>1, TypeInit DEF GuardInv, StackInv, CacheInv, MarkInv, Present, PresentIn, OutInv
  <1>2. GuardInv /\ [Next]_vars => GuardInv'
    BY TypeStep, CacheStep, MarkStep, OutStep DEF GuardInv
  <1> QED BY <1>1, <1>2, PTL DEF Spec

LEMMA AtMostOne ==
  ASSUME NEW S, \A x, y \in S : x = y
  PROVE  Cardinality(S) <= 1
  <1>1. CASE S = {}
    BY <1>1, FS_EmptySet
  <1>2. CASE S # {}
    <2>1. PICK x : S = {x}
      BY <1>2
    <2>2. Cardinality({x}) = 1
      BY FS_Singleton
    <2> QED BY <2>1, <2>2
  <1> QED BY <1>1, <1>2

LEMMA GuardInvOnce == GuardInv => ExactlyOnce
  <1> SUFFICES ASSUME GuardInv PROVE IncludedOnce /\ BlankedIsThere
    BY DEF ExactlyOnce
  <1> USE DEF GuardInv
  <1>1. ASSUME NEW k \in DOMAIN outs PROVE ProtectedOnce(outs[k])
    <2> SUFFICES ASSUME NEW f \in Files, Protected(f), NEW n \in DOMAIN body[f]
                 PROVE  Copies(outs[k], f, n) <= 1
      BY DEF ProtectedOnce
    <2> DEFINE S == {i \in DOMAIN outs[k] : outs[k][i].from = f /\ outs[k][i].line = n}
    <2>1. \A x, y \in S : x = y
      BY DEF OutInv, Distinct
    <2>2. Cardinality(S) <= 1
      <3> HIDE DEF S
      <3> QED BY <2>1, AtMostOne
    <2> QED BY <2>2 DEF Copies
  <1>2. IncludedOnce
    BY <1>1 DEF IncludedOnce, OutInv
  <1>3. BlankedIsThere
    <2> SUFFICES ASSUME stack # << >>, NEW f \in guarded
                 PROVE  \/ SameGuard(f) \cap (cut \cup Opened) # {}
                        \/ \E k \in DOMAIN stack : \E n \in DOMAIN stack[k].out :
                             stack[k].out[n].from \in SameGuard(f)
      BY DEF BlankedIsThere
    <2>1. PICK g \in SameGuard(f) : g \in cut \cup Present
      BY DEF MarkInv
    <2>2. CASE g \in Present
      <3>1. PICK k \in DOMAIN stack : stack[k].file = g \/ Shows(stack[k], g)
        BY <2>2 DEF Present, PresentIn
      <3> QED BY <2>1, <3>1 DEF Opened, Shows
    <2> QED BY <2>1, <2>2
  <1> QED BY <1>2, <1>3

\* A protected header that is included repeatedly, directly or through others, from
\* the cache or not, under its own guard or one it shares, is in the unit neither
\* twice nor not at all.
THEOREM GuardedExactlyOnce == Spec => []ExactlyOnce
  BY GuardInvariant, GuardInvOnce, PTL

-----------------------------------------------------------------------------
(* The groups of conditionals before and after a line.                     *)

LEMMA CountStep ==
  ASSUME NEW S, NEW i \in Nat, NEW n \in Nat, i < n
  PROVE  /\ Cardinality({m \in i + 1..n - 1 : m \in S}) \in Nat
         /\ Cardinality({m \in i + 1..n : m \in S})
              = Cardinality({m \in i + 1..n - 1 : m \in S}) + (IF n \in S THEN 1 ELSE 0)
  <1> DEFINE T == {m \in i + 1..n - 1 : m \in S}
             U == {m \in i + 1..n : m \in S}
  <1>1. IsFiniteSet(T) /\ Cardinality(T) \in Nat
    <2>1. IsFiniteSet(i + 1..n - 1) /\ T \in SUBSET (i + 1..n - 1)
      BY FS_Interval
    <2> QED BY <2>1, FS_Subset, FS_CardinalityType
  <1>2. n \notin T /\ (n \in S => U = T \cup {n}) /\ (n \notin S => U = T)
    OBVIOUS
  <1>3. Cardinality(T \cup {n}) = Cardinality(T) + 1
    BY <1>1, <1>2, FS_AddElement
  <1> HIDE DEF T, U
  <1>4. Cardinality(T) \in Nat /\ Cardinality(U) = Cardinality(T) + (IF n \in S THEN 1 ELSE 0)
    BY <1>1, <1>2, <1>3
  <1> QED BY <1>4 DEF T, U

LEMMA BalanceNow ==
  ASSUME NEW f, NEW i \in Nat
  PROVE  Balance(f, i, i) = 0
  <1>1. i + 1..i = {} /\ Cardinality({}) = 0
    BY FS_EmptySet
  <1>2. /\ {m \in i + 1..i : body[f][m].is = "if"} = {}
        /\ {m \in i + 1..i : body[f][m].is = "endif"} = {}
    BY <1>1
  <1>3. Balance(f, i, i) = Cardinality({}) - Cardinality({})
    BY <1>2 DEF Balance
  <1> QED BY <1>1, <1>3

LEMMA BalanceStep ==
  ASSUME NEW f, NEW i \in Nat, NEW n \in Nat, i < n
  PROVE  /\ Balance(f, i, n - 1) \in Int
         /\ Balance(f, i, n) = Balance(f, i, n - 1)
              + (CASE body[f][n].is = "if" -> 1 [] body[f][n].is = "endif" -> -1 [] OTHER -> 0)
  <1> DEFINE Of(what) == {m \in Nat : body[f][m].is = what}
             Count(what, k) == Cardinality({m \in i + 1..k : m \in Of(what)})
  <1>1. ASSUME NEW what, NEW k \in {n - 1, n}
        PROVE  Count(what, k) = Cardinality({m \in i + 1..k : body[f][m].is = what})
    <2>1. {m \in i + 1..k : m \in Of(what)} = {m \in i + 1..k : body[f][m].is = what}
      OBVIOUS
    <2> QED BY <2>1
  <1>2. ASSUME NEW what
        PROVE  /\ Count(what, n - 1) \in Nat
               /\ Count(what, n) = Count(what, n - 1) + (IF body[f][n].is = what THEN 1 ELSE 0)
    <2> DEFINE S == Of(what)
    <2>1. n \in S <=> body[f][n].is = what
      OBVIOUS
    <2> HIDE DEF S
    <2>2. /\ Cardinality({m \in i + 1..n - 1 : m \in S}) \in Nat
          /\ Cardinality({m \in i + 1..n : m \in S})
               = Cardinality({m \in i + 1..n - 1 : m \in S}) + (IF n \in S THEN 1 ELSE 0)
      BY CountStep
    <2> QED BY <2>1, <2>2 DEF S
  <1> HIDE DEF Count
  <1>3. /\ Balance(f, i, n - 1) = Count("if", n - 1) - Count("endif", n - 1)
        /\ Balance(f, i, n) = Count("if", n) - Count("endif", n)
    BY <1>1 DEF Balance
  <1>4. /\ Count("if", n - 1) \in Nat /\ Count("endif", n - 1) \in Nat
        /\ Count("if", n) = Count("if", n - 1) + (IF body[f][n].is = "if" THEN 1 ELSE 0)
        /\ Count("endif", n) = Count("endif", n - 1) + (IF body[f][n].is = "endif" THEN 1 ELSE 0)
    BY <1>2
  <1> QED BY <1>3, <1>4

\* What is open after line n.
LEMMA OpenStep ==
  ASSUME NEW f, NEW n \in Nat \ {0}
  PROVE  LET is == body[f][n].is
         IN  /\ is = "if" => Open(f, n + 1) = Open(f, n) \cup {n}
             /\ is = "endif" => Open(f, n + 1) = {i \in Open(f, n) : Balance(f, i, n - 1) > 0}
             /\ is \notin {"if", "endif"} => Open(f, n + 1) = Open(f, n)
             /\ is \notin {"if", "endif"} => Around(f, n) = Open(f, n)
  <1>1. Open(f, n) \subseteq 1..n - 1 /\ Open(f, n + 1) \subseteq 1..n
    BY DEF Open
  <1>2. ASSUME NEW i \in 1..n - 1
        PROVE  /\ i \in Open(f, n + 1) <=> i \in Open(f, n) /\ Balance(f, i, n) >= 0
               /\ i \in Around(f, n) <=> i \in Open(f, n) /\ Balance(f, i, n) >= 0
    <2>1. i..n = i..n - 1 \cup {n} /\ n + 1 - 1 = n /\ i \in 1..n
      OBVIOUS
    <2>2. (\A m \in i..n : Balance(f, i, m) >= 0)
            <=> (\A m \in i..n - 1 : Balance(f, i, m) >= 0) /\ Balance(f, i, n) >= 0
      BY <2>1
    <2> QED BY <2>1, <2>2 DEF Open, Around
  <1>3. n \in Open(f, n + 1) <=> body[f][n].is = "if"
    <2>1. \A m \in n..n : Balance(f, n, m) >= 0
      BY BalanceNow
    <2>2. n + 1 - 1 = n
      OBVIOUS
    <2> QED BY <2>1, <2>2 DEF Open
  <1>4. ASSUME NEW i \in Open(f, n)
        PROVE  /\ Balance(f, i, n - 1) \in Int /\ Balance(f, i, n - 1) >= 0
               /\ Balance(f, i, n) = Balance(f, i, n - 1)
                    + (CASE body[f][n].is = "if" -> 1 [] body[f][n].is = "endif" -> -1 [] OTHER -> 0)
    <2>1. i \in 1..n - 1 /\ n - 1 \in i..n - 1
      BY <1>1
    <2> QED BY <2>1, BalanceStep DEF Open
  <1>5. Around(f, n) \subseteq 1..n - 1
    BY DEF Around
  <1>6. 1..n = 1..n - 1 \cup {n} /\ n \notin 1..n - 1
    OBVIOUS
  <1>7. CASE body[f][n].is = "if"
    <2>1. \A i \in Open(f, n) : Balance(f, i, n) >= 0
      BY <1>4, <1>7
    <2> QED BY <1>1, <1>2, <1>3, <1>6, <1>7, <2>1
  <1>8. CASE body[f][n].is = "endif"
    <2>1. \A i \in Open(f, n) : Balance(f, i, n) >= 0 <=> Balance(f, i, n - 1) > 0
      BY <1>4, <1>8
    <2> QED BY <1>1, <1>2, <1>3, <1>6, <1>8, <2>1
  <1>9. CASE body[f][n].is \notin {"if", "endif"}
    <2>1. \A i \in Open(f, n) : Balance(f, i, n) >= 0
      BY <1>4, <1>9
    <2> QED BY <1>1, <1>2, <1>3, <1>5, <1>6, <1>9, <2>1
  <1> QED BY <1>7, <1>8, <1>9

LEMMA MaxIs ==
  ASSUME NEW S, S \subseteq Nat, NEW x \in S, \A y \in S : x >= y
  PROVE  Max(S) = x
  <1>1. \A y \in S : (\A z \in S : y >= z) => y = x
    OBVIOUS
  <1> QED BY <1>1 DEF Max

\* A part of the group at i.
IsPart(f, i, n) == body[f][n].is \in {"elif", "else"} /\ Balance(f, i, n - 1) = 0

LEMMA PartsStep ==
  ASSUME NEW f, NEW n \in Nat \ {0}, NEW i \in 1..n - 1
  PROVE  /\ Parts(f, i, n) \subseteq 1..n - 1
         /\ IsPart(f, i, n) => Parts(f, i, n + 1) = Parts(f, i, n) \cup {n}
         /\ ~IsPart(f, i, n) => Parts(f, i, n + 1) = Parts(f, i, n)
  <1>1. Parts(f, i, n) \subseteq 1..n - 1
    BY DEF Parts
  <1>2. body[f][n].is \in {"elif", "else"} => Balance(f, i, n) = Balance(f, i, n - 1)
    BY BalanceStep
  <1>3. /\ i + 1..(n + 1) - 1 = i + 1..n - 1 \cup {n}
        /\ n \notin i + 1..n - 1
    OBVIOUS
  <1> QED BY <1>1, <1>2, <1>3 DEF Parts, IsPart

LEMMA FirstStep ==
  ASSUME NEW f, NEW n \in Nat \ {0}, NEW i \in 1..n - 1
  PROVE  /\ ~IsPart(f, i, n) => (FirstThatHolds(f, i, n + 1) <=> FirstThatHolds(f, i, n))
         /\ IsPart(f, i, n) =>
              (FirstThatHolds(f, i, n + 1) <=> Holds(f, n) /\ \A j \in Parts(f, i, n) : ~Holds(f, j))
  <1>1. CASE ~IsPart(f, i, n)
    <2>1. Parts(f, i, n + 1) = Parts(f, i, n)
      BY <1>1, PartsStep
    <2> QED BY <1>1, <2>1 DEF FirstThatHolds
  <1>2. CASE IsPart(f, i, n)
    <2> DEFINE S == Parts(f, i, n)
               T == Parts(f, i, n + 1)
    <2>1. S \subseteq 1..n - 1 /\ T = S \cup {n}
      BY <1>2, PartsStep
    <2> HIDE DEF S, T
    <2>2. Max(T) = n
      <3>1. T \subseteq Nat /\ n \in T /\ \A y \in T : n >= y
        BY <2>1
      <3> QED BY <3>1, MaxIs
    <2>3. n \notin S
      BY <2>1
    <2>4. (\A j \in T : Holds(f, j) <=> j = n) <=> Holds(f, n) /\ \A j \in S : ~Holds(f, j)
      BY <2>1, <2>3
    <2> QED BY <1>2, <2>2, <2>4 DEF FirstThatHolds, S, T
  <1> QED BY <1>1, <1>2

\* A group that begins at line n.
LEMMA FirstBegins ==
  ASSUME NEW f, NEW n \in Nat \ {0}
  PROVE  Parts(f, n, n + 1) = {n} /\ (FirstThatHolds(f, n, n + 1) <=> Holds(f, n))
  <1>1. Parts(f, n, n + 1) = {n}
    BY DEF Parts
  <1>2. Max({n}) = n
    BY MaxIs
  <1> QED BY <1>1, <1>2 DEF FirstThatHolds

-----------------------------------------------------------------------------
(* The conditions of a frame.                                              *)

\* What line n does to the group at i.
LEMMA GroupStep ==
  ASSUME NEW f, NEW n \in Nat \ {0}, NEW i \in Open(f, n)
  PROVE  LET is == body[f][n].is
         IN  /\ i \in 1..n - 1 /\ Balance(f, i, n - 1) \in Int
             /\ is = "if" => Balance(f, i, (n + 1) - 1) = Balance(f, i, n - 1) + 1
             /\ is = "endif" => Balance(f, i, (n + 1) - 1) = Balance(f, i, n - 1) - 1
             /\ is \notin {"if", "endif"} => Balance(f, i, (n + 1) - 1) = Balance(f, i, n - 1)
             /\ is \notin {"elif", "else"} \/ Balance(f, i, n - 1) # 0 =>
                  /\ Parts(f, i, n + 1) = Parts(f, i, n)
                  /\ FirstThatHolds(f, i, n + 1) <=> FirstThatHolds(f, i, n)
             /\ is \in {"elif", "else"} /\ Balance(f, i, n - 1) = 0 =>
                  /\ Parts(f, i, n + 1) = Parts(f, i, n) \cup {n}
                  /\ FirstThatHolds(f, i, n + 1)
                       <=> Holds(f, n) /\ \A j \in Parts(f, i, n) : ~Holds(f, j)
  <1>1. i \in 1..n - 1 /\ (n + 1) - 1 = n
    BY DEF Open
  <1>2. /\ Balance(f, i, n - 1) \in Int
        /\ body[f][n].is = "if" => Balance(f, i, n) = Balance(f, i, n - 1) + 1
        /\ body[f][n].is = "endif" => Balance(f, i, n) = Balance(f, i, n - 1) - 1
        /\ body[f][n].is \notin {"if", "endif"} => Balance(f, i, n) = Balance(f, i, n - 1)
    BY <1>1, BalanceStep
  <1> QED BY <1>1, <1>2, PartsStep, FirstStep DEF IsPart

LEMMA LineMatches ==
  ASSUME NEW f, NEW n \in Nat \ {0}, NEW conds \in Seq(Conds), MatchesSome(f, n, conds),
         body[f][n].is \notin {"if", "elif", "else", "endif"}
  PROVE  MatchesSome(f, n + 1, conds)
  <1>1. PICK at \in [1..Len(conds) -> Nat] : Matches(f, n, conds, at)
    BY DEF MatchesSome
  <1>2. Open(f, n + 1) = Open(f, n)
    BY OpenStep
  <1>3. ASSUME NEW d \in 1..Len(conds)
        PROVE  /\ at[d] \in Open(f, n) /\ Parts(f, at[d], n + 1) = Parts(f, at[d], n)
               /\ FirstThatHolds(f, at[d], n + 1) <=> FirstThatHolds(f, at[d], n)
               /\ Balance(f, at[d], (n + 1) - 1) = Balance(f, at[d], n - 1)
    <2>1. at[d] \in Open(f, n)
      BY <1>1 DEF Matches
    <2> QED BY <2>1, GroupStep
  <1>4. Len(conds) \in Nat
    BY LenProperties
  <1>5. \A d \in 1..Len(conds) : \A e \in 1..d - 1 : e \in 1..Len(conds)
    BY <1>4
  <1>6. Matches(f, n + 1, conds, at)
    BY <1>1, <1>2, <1>3, <1>5 DEF Matches
  <1> QED BY <1>6 DEF MatchesSome

LEMMA StrayMatches ==
  ASSUME NEW f, NEW n \in Nat \ {0}, MatchesSome(f, n, << >>), body[f][n].is # "if"
  PROVE  MatchesSome(f, n + 1, << >>)
  <1>1. PICK at \in [1..Len(<< >>) -> Nat] : Matches(f, n, << >>, at)
    BY DEF MatchesSome
  <1>2. Len(<< >>) = 0 /\ 1..Len(<< >>) = {}
    OBVIOUS
  <1>3. Open(f, n + 1) = {}
    <2>1. Open(f, n) = {}
      BY <1>1, <1>2 DEF Matches
    <2> QED BY <2>1, OpenStep
  <1>4. Matches(f, n + 1, << >>, at)
    BY <1>2, <1>3 DEF Matches
  <1> QED BY <1>1, <1>4 DEF MatchesSome

\* A group begins.
LEMMA IfMatches ==
  ASSUME NEW f, NEW n \in Nat \ {0}, NEW conds \in Seq(Conds), MatchesSome(f, n, conds),
         body[f][n].is = "if", NEW c \in Conds,
         c.parent <=> \A i \in Open(f, n) : FirstThatHolds(f, i, n),
         c.taken <=> c.parent /\ Holds(f, n), c.done <=> c.parent /\ Holds(f, n)
  PROVE  MatchesSome(f, n + 1, Append(conds, c))
  <1>1. PICK at \in [1..Len(conds) -> Nat] : Matches(f, n, conds, at)
    BY DEF MatchesSome
  <1> DEFINE L == Len(conds)
             next == Append(conds, c)
             to == [d \in 1..L + 1 |-> IF d = L + 1 THEN n ELSE at[d]]
  <1>2. /\ L \in Nat /\ Len(next) = L + 1 /\ next[L + 1] = c
        /\ \A d \in 1..L : next[d] = conds[d]
    BY LenProperties, AppendProperties
  <1>3. Open(f, n + 1) = Open(f, n) \cup {n}
    BY OpenStep
  <1>4. ASSUME NEW d \in 1..L
        PROVE  /\ at[d] \in Open(f, n) /\ Parts(f, at[d], n + 1) = Parts(f, at[d], n)
               /\ FirstThatHolds(f, at[d], n + 1) <=> FirstThatHolds(f, at[d], n)
               /\ Balance(f, at[d], (n + 1) - 1) = (L + 1) - d
    <2>1. at[d] \in Open(f, n) /\ Balance(f, at[d], n - 1) = L - d
      BY <1>1 DEF Matches
    <2> QED BY <1>2, <2>1, GroupStep
  <1>5. /\ Parts(f, n, n + 1) = {n} /\ (FirstThatHolds(f, n, n + 1) <=> Holds(f, n))
        /\ Balance(f, n, (n + 1) - 1) = 0
    BY FirstBegins, BalanceNow
  <1>6. to \in [1..L + 1 -> Nat] /\ to[L + 1] = n /\ \A d \in 1..L : to[d] = at[d]
    BY <1>2
  <1>7. 1..L + 1 = 1..L \cup {L + 1} /\ L + 1 \notin 1..L /\ (L + 1) - 1 = L
        /\ \A d \in 1..L : \A e \in 1..d - 1 : e \in 1..L
    BY <1>2
  <1>8. \A i \in Open(f, n) : \E d \in 1..L : at[d] = i
    BY <1>1 DEF Matches
  <1>9. \A d \in 1..L :
          /\ conds[d].parent <=> \A e \in 1..d - 1 : FirstThatHolds(f, at[e], n)
          /\ conds[d].taken <=> conds[d].parent /\ FirstThatHolds(f, at[d], n)
          /\ conds[d].parent => (conds[d].done <=> \E j \in Parts(f, at[d], n) : Holds(f, j))
    BY <1>1 DEF Matches
  <1> HIDE DEF L, next, to
  <1>10. \A d \in 1..L + 1 : to[d] \in Open(f, n + 1)
    BY <1>3, <1>4, <1>6, <1>7
  <1>11. \A i \in Open(f, n + 1) : \E d \in 1..L + 1 : to[d] = i
    BY <1>3, <1>6, <1>7, <1>8
  <1>12. ASSUME NEW d \in 1..L
         PROVE  /\ Balance(f, to[d], (n + 1) - 1) = (L + 1) - d
                /\ next[d].parent <=> \A e \in 1..d - 1 : FirstThatHolds(f, to[e], n + 1)
                /\ next[d].taken <=> next[d].parent /\ FirstThatHolds(f, to[d], n + 1)
                /\ next[d].parent => (next[d].done <=> \E j \in Parts(f, to[d], n + 1) : Holds(f, j))
    BY <1>2, <1>4, <1>6, <1>7, <1>9
  <1>13. /\ Balance(f, to[L + 1], (n + 1) - 1) = (L + 1) - (L + 1)
         /\ next[L + 1].parent <=> \A e \in 1..(L + 1) - 1 : FirstThatHolds(f, to[e], n + 1)
         /\ next[L + 1].taken <=> next[L + 1].parent /\ FirstThatHolds(f, to[L + 1], n + 1)
         /\ next[L + 1].parent =>
              (next[L + 1].done <=> \E j \in Parts(f, to[L + 1], n + 1) : Holds(f, j))
    <2>1. c.parent <=> \A e \in 1..L : FirstThatHolds(f, at[e], n)
      BY <1>4, <1>8
    <2>2. c.parent <=> \A e \in 1..L : FirstThatHolds(f, to[e], n + 1)
      BY <1>4, <1>6, <2>1
    <2> QED BY <1>2, <1>5, <1>6, <1>7, <2>2
  <1>14. \A d \in 1..L + 1 :
           /\ Balance(f, to[d], (n + 1) - 1) = (L + 1) - d
           /\ next[d].parent <=> \A e \in 1..d - 1 : FirstThatHolds(f, to[e], n + 1)
           /\ next[d].taken <=> next[d].parent /\ FirstThatHolds(f, to[d], n + 1)
           /\ next[d].parent => (next[d].done <=> \E j \in Parts(f, to[d], n + 1) : Holds(f, j))
    <2> TAKE d \in 1..L + 1
    <2>1. CASE d \in 1..L
      BY <1>12, <2>1
    <2>2. CASE d = L + 1
      BY <1>13, <2>2
    <2> QED BY <1>7, <2>1, <2>2
  <1>15. 1..Len(next) = 1..L + 1
    BY <1>2
  <1>16. Matches(f, n + 1, next, to)
    <2>1. \A d \in 1..Len(next) :
            /\ to[d] \in Open(f, n + 1)
            /\ Balance(f, to[d], (n + 1) - 1) = Len(next) - d
      BY <1>2, <1>10, <1>14, <1>15
    <2>2. \A i \in Open(f, n + 1) : \E d \in 1..Len(next) : to[d] = i
      BY <1>11, <1>15
    <2>3. \A d \in 1..Len(next) :
            /\ next[d].parent <=> \A e \in 1..d - 1 : FirstThatHolds(f, to[e], n + 1)
            /\ next[d].taken <=> next[d].parent /\ FirstThatHolds(f, to[d], n + 1)
            /\ next[d].parent => (next[d].done <=> \E j \in Parts(f, to[d], n + 1) : Holds(f, j))
      BY <1>14, <1>15
    <2> QED BY <2>1, <2>2, <2>3 DEF Matches
  <1> QED BY <1>2, <1>6, <1>16 DEF MatchesSome, next

\* The innermost group has another part, or its last.
LEMMA PartMatches ==
  ASSUME NEW f, NEW n \in Nat \ {0}, NEW conds \in Seq(Conds), MatchesSome(f, n, conds),
         conds # << >>, body[f][n].is \in {"elif", "else"}, NEW c \in Conds,
         c.parent = Last(conds).parent,
         c.taken <=> ~Last(conds).done /\ c.parent /\ Holds(f, n),
         c.parent => (c.done <=> Last(conds).done \/ Holds(f, n))
  PROVE  MatchesSome(f, n + 1, Append(Front(conds), c))
  <1>1. PICK at \in [1..Len(conds) -> Nat] : Matches(f, n, conds, at)
    BY DEF MatchesSome
  <1> DEFINE L == Len(conds)
             next == Append(Front(conds), c)
  <1>2. /\ L \in Nat \ {0} /\ Len(next) = L /\ next[L] = c /\ Last(conds) = conds[L]
        /\ \A d \in 1..L : d # L => next[d] = conds[d]
    <2>1. L \in Nat \ {0} /\ Last(conds) = conds[L]
      BY FrontProperties
    <2>2. Len(next) = L /\ \A d \in 1..L : next[d] = IF d = L THEN c ELSE conds[d]
      BY TopReplaced
    <2> QED BY <2>1, <2>2
  <1>3. Open(f, n + 1) = Open(f, n)
    BY OpenStep
  <1>4. ASSUME NEW d \in 1..L
        PROVE  /\ at[d] \in Open(f, n)
               /\ Balance(f, at[d], n - 1) = L - d /\ Balance(f, at[d], (n + 1) - 1) = L - d
    <2>1. at[d] \in Open(f, n) /\ Balance(f, at[d], n - 1) = L - d
      BY <1>1 DEF Matches
    <2> QED BY <2>1, GroupStep
  <1>5. ASSUME NEW d \in 1..L, d # L
        PROVE  /\ Parts(f, at[d], n + 1) = Parts(f, at[d], n)
               /\ FirstThatHolds(f, at[d], n + 1) <=> FirstThatHolds(f, at[d], n)
    <2>1. L - d # 0
      BY <1>2, <1>5
    <2> QED BY <1>4, <2>1, GroupStep
  <1>6. /\ Parts(f, at[L], n + 1) = Parts(f, at[L], n) \cup {n}
        /\ FirstThatHolds(f, at[L], n + 1)
             <=> Holds(f, n) /\ \A j \in Parts(f, at[L], n) : ~Holds(f, j)
    <2>1. L \in 1..L /\ L - L = 0
      BY <1>2
    <2> QED BY <1>4, <2>1, GroupStep
  <1>7. /\ \A d \in 1..L : at[d] \in Open(f, n)
        /\ \A i \in Open(f, n) : \E d \in 1..L : at[d] = i
        /\ \A d \in 1..L :
             /\ conds[d].parent <=> \A e \in 1..d - 1 : FirstThatHolds(f, at[e], n)
             /\ conds[d].taken <=> conds[d].parent /\ FirstThatHolds(f, at[d], n)
             /\ conds[d].parent => (conds[d].done <=> \E j \in Parts(f, at[d], n) : Holds(f, j))
    BY <1>1 DEF Matches
  <1> HIDE DEF L, next
  <1>8. \A d \in 1..L : \A e \in 1..d - 1 : e \in 1..L /\ e # L
    BY <1>2
  <1>9. ASSUME NEW d \in 1..L, d # L
        PROVE  /\ next[d].parent <=> \A e \in 1..d - 1 : FirstThatHolds(f, at[e], n + 1)
               /\ next[d].taken <=> next[d].parent /\ FirstThatHolds(f, at[d], n + 1)
               /\ next[d].parent => (next[d].done <=> \E j \in Parts(f, at[d], n + 1) : Holds(f, j))
    BY <1>2, <1>5, <1>7, <1>8, <1>9
  <1>10. /\ next[L].parent <=> \A e \in 1..L - 1 : FirstThatHolds(f, at[e], n + 1)
         /\ next[L].taken <=> next[L].parent /\ FirstThatHolds(f, at[L], n + 1)
         /\ next[L].parent => (next[L].done <=> \E j \in Parts(f, at[L], n + 1) : Holds(f, j))
    <2>1. L \in 1..L
      BY <1>2
    <2>2. next[L].parent <=> \A e \in 1..L - 1 : FirstThatHolds(f, at[e], n + 1)
      BY <1>2, <1>5, <1>7, <1>8, <2>1
    <2>3. c.parent => (Last(conds).done <=> \E j \in Parts(f, at[L], n) : Holds(f, j))
      BY <1>2, <1>7, <2>1
    <2> QED BY <1>2, <1>6, <2>2, <2>3
  <1>11. Matches(f, n + 1, next, at)
    BY <1>2, <1>3, <1>4, <1>7, <1>9, <1>10 DEF Matches
  <1> QED BY <1>1, <1>2, <1>11 DEF MatchesSome, next, L

\* The innermost group ends.
LEMMA EndifMatches ==
  ASSUME NEW f, NEW n \in Nat \ {0}, NEW conds \in Seq(Conds), MatchesSome(f, n, conds),
         conds # << >>, body[f][n].is = "endif"
  PROVE  MatchesSome(f, n + 1, Front(conds))
  <1>1. PICK at \in [1..Len(conds) -> Nat] : Matches(f, n, conds, at)
    BY DEF MatchesSome
  <1> DEFINE L == Len(conds)
             next == Front(conds)
             to == [d \in 1..L - 1 |-> at[d]]
  <1>2. /\ L \in Nat \ {0} /\ Len(next) = L - 1
        /\ \A d \in 1..L - 1 : next[d] = conds[d]
    BY FrontProperties
  <1>3. Open(f, n + 1) = {i \in Open(f, n) : Balance(f, i, n - 1) > 0}
    BY OpenStep
  <1>4. ASSUME NEW d \in 1..L
        PROVE  /\ at[d] \in Open(f, n) /\ Balance(f, at[d], n - 1) = L - d
               /\ Balance(f, at[d], (n + 1) - 1) = (L - d) - 1
               /\ Parts(f, at[d], n + 1) = Parts(f, at[d], n)
               /\ FirstThatHolds(f, at[d], n + 1) <=> FirstThatHolds(f, at[d], n)
    <2>1. at[d] \in Open(f, n) /\ Balance(f, at[d], n - 1) = L - d
      BY <1>1 DEF Matches
    <2> QED BY <2>1, GroupStep
  <1>5. to \in [1..L - 1 -> Nat] /\ \A d \in 1..L - 1 : to[d] = at[d]
    BY <1>2
  <1>6. /\ \A i \in Open(f, n) : \E d \in 1..L : at[d] = i
        /\ \A d \in 1..L :
             /\ conds[d].parent <=> \A e \in 1..d - 1 : FirstThatHolds(f, at[e], n)
             /\ conds[d].taken <=> conds[d].parent /\ FirstThatHolds(f, at[d], n)
             /\ conds[d].parent => (conds[d].done <=> \E j \in Parts(f, at[d], n) : Holds(f, j))
    BY <1>1 DEF Matches
  <1> HIDE DEF L, next, to
  <1>7. /\ \A d \in 1..L - 1 : d \in 1..L /\ L - d > 0 /\ (L - d) - 1 = (L - 1) - d
        /\ \A d \in 1..L : L - d > 0 => d \in 1..L - 1
        /\ \A d \in 1..L - 1 : \A e \in 1..d - 1 : e \in 1..L - 1
    BY <1>2
  <1>8. \A d \in 1..L - 1 : to[d] \in Open(f, n + 1)
    BY <1>3, <1>4, <1>5, <1>7
  <1>9. \A i \in Open(f, n + 1) : \E d \in 1..L - 1 : to[d] = i
    BY <1>3, <1>4, <1>5, <1>6, <1>7
  <1>10. ASSUME NEW d \in 1..L - 1
         PROVE  /\ Balance(f, to[d], (n + 1) - 1) = (L - 1) - d
                /\ next[d].parent <=> \A e \in 1..d - 1 : FirstThatHolds(f, to[e], n + 1)
                /\ next[d].taken <=> next[d].parent /\ FirstThatHolds(f, to[d], n + 1)
                /\ next[d].parent => (next[d].done <=> \E j \in Parts(f, to[d], n + 1) : Holds(f, j))
    <2>1. d \in 1..L /\ to[d] = at[d] /\ next[d] = conds[d] /\ (L - d) - 1 = (L - 1) - d
      BY <1>2, <1>5, <1>7
    <2>2. \A e \in 1..d - 1 : e \in 1..L /\ to[e] = at[e]
      BY <1>5, <1>7
    <2>3. Balance(f, to[d], (n + 1) - 1) = (L - 1) - d
      BY <1>4, <2>1
    <2>4. \A e \in 1..d - 1 : FirstThatHolds(f, to[e], n + 1) <=> FirstThatHolds(f, at[e], n)
      BY <1>4, <2>2
    <2>5. next[d].parent <=> \A e \in 1..d - 1 : FirstThatHolds(f, to[e], n + 1)
      BY <1>6, <2>1, <2>4
    <2>6. FirstThatHolds(f, to[d], n + 1) <=> FirstThatHolds(f, at[d], n)
      BY <1>4, <2>1
    <2>7. Parts(f, to[d], n + 1) = Parts(f, at[d], n)
      BY <1>4, <2>1
    <2> QED BY <1>6, <2>1, <2>3, <2>5, <2>6, <2>7
  <1>11. Matches(f, n + 1, next, to)
    BY <1>2, <1>8, <1>9, <1>10 DEF Matches
  <1> QED BY <1>2, <1>5, <1>11 DEF MatchesSome, next

LEMMA ActiveOpen ==
  ASSUME TypeInv, stack # << >>, CondsIn(stack)
  PROVE  /\ Top \in Frames /\ MatchesSome(Top.file, Top.next, Top.conds)
         /\ Active(Top) <=>
              \A i \in Open(Top.file, Top.next) : FirstThatHolds(Top.file, i, Top.next)
  <1> DEFINE f == Top.file
             n == Top.next
             conds == Top.conds
             L == Len(conds)
  <1>1. Top \in Frames /\ MatchesSome(f, n, conds)
    BY TopIsFrame DEF CondsIn
  <1>2. PICK at \in [1..L -> Nat] : Matches(f, n, conds, at)
    BY <1>1 DEF MatchesSome
  <1>3. conds \in Seq(Conds)
    BY <1>1 DEF Frames
  <1>4. (\A i \in Open(f, n) : FirstThatHolds(f, i, n)) <=> \A d \in 1..L : FirstThatHolds(f, at[d], n)
    BY <1>2 DEF Matches
  <1>5. CASE conds = << >>
    <2>1. 1..L = {}
      BY <1>5
    <2> QED BY <1>1, <1>4, <1>5, <2>1 DEF Active
  <1>6. CASE conds # << >>
    <2>1. L \in Nat \ {0} /\ Last(conds) = conds[L]
      BY <1>3, <1>6, FrontProperties
    <2>2. /\ conds[L].parent <=> \A e \in 1..L - 1 : FirstThatHolds(f, at[e], n)
          /\ conds[L].taken <=> conds[L].parent /\ FirstThatHolds(f, at[L], n)
      BY <1>2, <2>1 DEF Matches
    <2>3. 1..L = 1..L - 1 \cup {L}
      BY <2>1
    <2>4. conds[L].parent /\ conds[L].taken <=> \A d \in 1..L : FirstThatHolds(f, at[d], n)
      BY <2>2, <2>3
    <2>5. Active(Top) <=> conds[L].parent /\ conds[L].taken
      BY <1>6, <2>1 DEF Active
    <2> QED BY <1>1, <1>4, <2>4, <2>5
  <1> QED BY <1>5, <1>6

\* A directive changes the conditions as the groups change.
LEMMA DirectiveMatches ==
  ASSUME TypeInv, CondsIn(stack), NEW what \in {"if", "elif", "else", "endif"}, Reads(what)
  PROVE  MatchesSome(Top.file, Top.next + 1, NextConds(Line, Top.conds, Active(Top)))
  <1> DEFINE f == Top.file
             n == Top.next
             conds == Top.conds
             act == Active(Top)
             after == NextConds(Line, conds, act)
  <1>1. /\ stack # << >> /\ Top \in Frames /\ Line = body[f][n] /\ Line \in Lines /\ Line.is = what
        /\ what \in {"if", "elif"} => Line.holds \in BOOLEAN
    BY ReadsLine, LineKinds DEF Line
  <1>2. /\ MatchesSome(f, n, conds)
        /\ act <=> \A i \in Open(f, n) : FirstThatHolds(f, i, n)
    BY <1>1, ActiveOpen
  <1>3. n \in Nat \ {0} /\ conds \in Seq(Conds) /\ act \in BOOLEAN
    BY <1>1 DEF Frames, Active
  <1>4. /\ what \in {"if", "elif"} => (Holds(f, n) <=> Line.holds)
        /\ what = "else" => Holds(f, n)
    BY <1>1 DEF Holds
  <1> HIDE DEF f, n, conds, act
  <1>5. CASE what = "if"
    <2> DEFINE c == [done |-> act /\ Line.holds, taken |-> act /\ Line.holds, parent |-> act]
    <2>1. c \in Conds
      BY <1>1, <1>3, <1>5 DEF Conds
    <2>2. after = Append(conds, c)
      BY <1>1, <1>5 DEF NextConds
    <2>3. /\ c.parent <=> act
          /\ c.taken <=> c.parent /\ Holds(f, n)
          /\ c.done <=> c.parent /\ Holds(f, n)
      BY <1>1, <1>3, <1>4, <1>5
    <2> HIDE DEF c
    <2> QED BY <1>1, <1>2, <1>3, <1>5, <2>1, <2>2, <2>3, IfMatches DEF f, n, conds, act
  <1>6. CASE what # "if" /\ conds = << >>
    <2>1. after = << >>
      BY <1>1, <1>6 DEF NextConds
    <2> QED BY <1>1, <1>2, <1>3, <1>6, <2>1, StrayMatches DEF f, n, conds, act
  <1>7. CASE what \in {"elif", "else"} /\ conds # << >>
    <2> DEFINE l == Last(conds)
               c == IF what = "elif" THEN Part(l, l.parent /\ Line.holds)
                                     ELSE [Part(l, l.parent) EXCEPT !.done = TRUE]
    <2>1. l \in Conds
      BY <1>3, <1>7, FrontProperties
    <2>2. after = Append(Front(conds), c)
      BY <1>1, <1>7 DEF NextConds
    <2>3. /\ c \in Conds /\ c.parent = l.parent
          /\ c.taken <=> ~l.done /\ c.parent /\ Holds(f, n)
          /\ c.parent => (c.done <=> l.done \/ Holds(f, n))
      <3> HIDE DEF l
      <3>1. CASE what = "elif"
        BY <1>1, <1>4, <2>1, <3>1 DEF Part, Conds
      <3>2. CASE what = "else"
        BY <1>4, <2>1, <3>2 DEF Part, Conds
      <3> QED BY <1>7, <3>1, <3>2
    <2> HIDE DEF c, after
    <2>4. body[f][n].is \in {"elif", "else"}
      BY <1>1, <1>7
    <2>5. MatchesSome(f, n + 1, Append(Front(conds), c))
      BY <1>2, <1>3, <1>7, <2>3, <2>4, PartMatches
    <2> QED BY <2>2, <2>5 DEF f, n, conds, act, after
  <1>8. CASE what = "endif" /\ conds # << >>
    <2>1. after = Front(conds)
      BY <1>1, <1>8 DEF NextConds
    <2> QED BY <1>1, <1>2, <1>3, <1>8, <2>1, EndifMatches DEF f, n, conds, act
  <1> QED BY <1>5, <1>6, <1>7, <1>8

LEMMA PrimedConds ==
  ASSUME UNCHANGED body
  PROVE  CondsIn(stack') => CondsIn(stack)'
  <1>1. \A f, i, n : Balance(f, i, n)' = Balance(f, i, n)
    BY DEF Balance
  <1>2. \A f, i, n : Parts(f, i, n)' = Parts(f, i, n)
    BY <1>1 DEF Parts
  <1>3. \A f, j : Holds(f, j)' <=> Holds(f, j)
    BY DEF Holds
  <1>4. \A f, i, n : FirstThatHolds(f, i, n)' <=> FirstThatHolds(f, i, n)
    BY <1>2, <1>3 DEF FirstThatHolds
  <1>5. \A f, n : Open(f, n)' = Open(f, n)
    BY <1>1 DEF Open
  <1>6. \A f, n, conds, at : Matches(f, n, conds, at)' <=> Matches(f, n, conds, at)
    BY <1>1, <1>2, <1>3, <1>4, <1>5 DEF Matches
  <1>7. \A f, n, conds : MatchesSome(f, n, conds)' <=> MatchesSome(f, n, conds)
    BY <1>6 DEF MatchesSome
  <1> QED BY <1>7 DEF CondsIn

LEMMA PassConds ==
  ASSUME TypeInv, CondsIn(stack), UNCHANGED body, NEW frame, Passes(frame),
         MatchesSome(Top.file, Top.next + 1, frame.conds)
  PROVE  CondsIn(stack)'
  <1>1. PICK line \in OutLines :
          \A k \in DOMAIN stack : stack'[k] = IF k = Len(stack) THEN Advanced(frame, <<line>>) ELSE stack[k]
    BY PassShape
  <1>2. DOMAIN stack' = DOMAIN stack
    BY PassShape
  <1>3. <<line>> \in Seq(OutLines)
    BY <1>1
  <1>4. /\ Advanced(frame, <<line>>).file = Top.file /\ Advanced(frame, <<line>>).next = Top.next + 1
        /\ Advanced(frame, <<line>>).conds = frame.conds
    <2>1. frame \in Frames /\ frame.file = Top.file /\ frame.next = Top.next
      BY DEF Passes, SameText
    <2> DEFINE w == <<line>>
    <2>2. w \in Seq(OutLines)
      BY <1>3
    <2> HIDE DEF w
    <2>3. /\ Advanced(frame, w).file = frame.file /\ Advanced(frame, w).next = frame.next + 1
          /\ Advanced(frame, w).conds = frame.conds
      BY <2>1, <2>2, AdvancedType
    <2> QED BY <2>1, <2>3 DEF w
  <1>5. CondsIn(stack')
    BY <1>1, <1>2, <1>4 DEF CondsIn
  <1> QED BY <1>5, PrimedConds

LEMMA CondsStep ==
  TypeInv /\ StackInv(stack) /\ CondsIn(stack) /\ [Next]_vars => CondsIn(stack)'
  <1> SUFFICES ASSUME TypeInv, StackInv(stack), CondsIn(stack), [Next]_vars
               PROVE  CondsIn(stack)'
    OBVIOUS
  <1>1. UNCHANGED body
    BY DEF Next, Begin, CopyText, PassInactive, Skip, Conditional, IncludeStep,
           PassRejected, BlankKnown, Reject, PassUnreadable, BlankGuarded, TooDeep, Reuse, Enter,
           Leave, End, Finished, vars, input
  <1>2. ASSUME NEW f PROVE MatchesSome(f, 1, << >>)
    <2>1. Open(f, 1) = {}
      BY DEF Open
    <2>2. Len(<< >>) = 0 /\ 1..Len(<< >>) = {}
      OBVIOUS
    <2> DEFINE at == [d \in 1..Len(<< >>) |-> 0]
    <2>3. at \in [1..Len(<< >>) -> Nat] /\ Matches(f, 1, << >>, at)
      BY <2>1, <2>2 DEF Matches
    <2> QED BY <2>3 DEF MatchesSome
  <1>3. ASSUME NEW what \in {"text", "include"}, Reads(what)
        PROVE  MatchesSome(Top.file, Top.next + 1, Top.conds)
    <2>1. /\ stack # << >> /\ Top \in Frames
          /\ body[Top.file][Top.next].is \notin {"if", "elif", "else", "endif"}
      BY <1>3, ReadsLine DEF Line
    <2>2. MatchesSome(Top.file, Top.next, Top.conds) /\ Top.next \in Nat \ {0} /\ Top.conds \in Seq(Conds)
      BY <2>1, ActiveOpen DEF Frames
    <2> QED BY <2>1, <2>2, LineMatches
  <1>4. CASE Begin
    <2>1. /\ stack' = <<Frame(Unit)>> /\ DOMAIN <<Frame(Unit)>> = {1} /\ <<Frame(Unit)>>[1] = Frame(Unit)
          /\ Frame(Unit).file = Unit /\ Frame(Unit).next = 1 /\ Frame(Unit).conds = << >>
      BY <1>4 DEF Begin, Frame
    <2>2. CondsIn(stack')
      BY <1>2, <2>1 DEF CondsIn
    <2> QED BY <1>1, <2>2, PrimedConds
  <1>5. CASE CopyText \/ PassInactive
    <2>1. Passes(Top) /\ MatchesSome(Top.file, Top.next + 1, Top.conds)
      BY <1>3, <1>5, PassSteps DEF CopyText, PassInactive
    <2> QED BY <1>1, <2>1, PassConds
  <1>6. CASE Conditional
    <2> DEFINE after == NextConds(Line, Top.conds, Active(Top))
               frame == [Top EXCEPT !.conds = after]
    <2>1. Passes(frame) /\ MatchesSome(Top.file, Top.next + 1, after)
      BY <1>6, PassSteps, DirectiveMatches DEF Conditional
    <2>2. frame.conds = after
      <3>1. Top \in Frames
        BY <1>6, TopIsFrame DEF Conditional, Reads
      <3> HIDE DEF after
      <3> QED BY <3>1 DEF Frames
    <2> HIDE DEF after, frame
    <2> QED BY <1>1, <2>1, <2>2, PassConds
  <1>7. ASSUME NEW f \in Files,
               PassRejected(f) \/ BlankKnown(f) \/ Reject(f) \/ PassUnreadable(f) \/ BlankGuarded(f) \/ TooDeep(f)
        PROVE  CondsIn(stack)'
    <2>1. Passes(Noted(f)) /\ Noted(f).conds = Top.conds
      BY <1>7, PassSteps
    <2>2. MatchesSome(Top.file, Top.next + 1, Top.conds)
      BY <1>3, <1>7 DEF PassRejected, BlankKnown, Reject, PassUnreadable, BlankGuarded, TooDeep, IncludesNow
    <2> QED BY <1>1, <2>1, <2>2, PassConds
  <1>8. ASSUME NEW f \in Files, Reuse(f) PROVE CondsIn(stack)'
    <2>1. MatchesSome(Top.file, Top.next + 1, Top.conds)
      BY <1>3, <1>8 DEF Reuse, IncludesNow
    <2>2. /\ DOMAIN stack' = DOMAIN stack /\ SameText(Noted(f)) /\ Noted(f).conds = Top.conds
          /\ cache[f] \in Seq(OutLines)
          /\ \A k \in DOMAIN stack :
               stack'[k] = IF k = Len(stack) THEN Advanced(Noted(f), cache[f]) ELSE stack[k]
      BY <1>8, ReuseShape
    <2>3. /\ Advanced(Noted(f), cache[f]).file = Top.file
          /\ Advanced(Noted(f), cache[f]).next = Top.next + 1
          /\ Advanced(Noted(f), cache[f]).conds = Top.conds
      BY <2>2, AdvancedType DEF SameText
    <2>4. CondsIn(stack')
      BY <2>1, <2>2, <2>3 DEF CondsIn
    <2> QED BY <1>1, <2>4, PrimedConds
  <1>9. ASSUME NEW f \in Files, Enter(f) PROVE CondsIn(stack)'
    <2>1. /\ Len(stack) \in Nat \ {0} /\ DOMAIN stack = 1..Len(stack) /\ DOMAIN stack' = 1..Len(stack) + 1
          /\ \A k \in 1..Len(stack) + 1 : stack'[k] = IF k = Len(stack) + 1 THEN Frame(f)
                                                      ELSE IF k = Len(stack) THEN Noted(f) ELSE stack[k]
          /\ Top = stack[Len(stack)] /\ SameText(Noted(f)) /\ Noted(f).conds = Top.conds
      BY <1>9, EnterShape
    <2>2. \A k \in 1..Len(stack) : MatchesSome(stack[k].file, stack[k].next, stack[k].conds)
      BY <2>1 DEF CondsIn
    <2>3. Frame(f).file = f /\ Frame(f).next = 1 /\ Frame(f).conds = << >>
      BY DEF Frame
    <2>4. \A k \in 1..Len(stack) + 1 : k = Len(stack) + 1 \/ k \in 1..Len(stack)
      <3>1. Len(stack) \in Nat
        BY <2>1
      <3> QED BY <3>1
    <2>5. CondsIn(stack')
      BY <1>2, <2>1, <2>2, <2>3, <2>4 DEF CondsIn, SameText
    <2> QED BY <1>1, <2>5, PrimedConds
  <1>10. CASE Leave
    <2> DEFINE n == Len(stack)
               under == stack[n - 1]
    <2>1. /\ n \in Nat /\ n > 1 /\ DOMAIN stack = 1..n /\ DOMAIN stack' = 1..n - 1
          /\ \A k \in 1..n - 1 : stack'[k] = IF k = n - 1 THEN Merged(stack[k], Top) ELSE stack[k]
          /\ Top \in Frames /\ under \in Frames
      BY <1>10, LeaveShape
    <2>2. /\ n - 1 \in DOMAIN stack /\ (n - 1) + 1 \in DOMAIN stack
          /\ \A k \in 1..n - 1 : k \in DOMAIN stack
      <3>1. n \in Nat /\ n > 1 /\ DOMAIN stack = 1..n
        BY <2>1
      <3> HIDE DEF n
      <3> QED BY <3>1
    <2>3. body[under.file][under.next].is = "include" /\ MatchesSome(under.file, under.next, under.conds)
      BY <2>2 DEF StackInv, CondsIn
    <2>4. MatchesSome(under.file, under.next + 1, under.conds)
      <3>1. under.next \in Nat \ {0} /\ under.conds \in Seq(Conds)
        BY <2>1 DEF Frames
      <3> HIDE DEF under
      <3> QED BY <2>3, <3>1, LineMatches
    <2>5. /\ Merged(under, Top).file = under.file /\ Merged(under, Top).next = under.next + 1
          /\ Merged(under, Top).conds = under.conds
      <3>1. under \in Frames /\ Top \in Frames
        BY <2>1
      <3> HIDE DEF under
      <3> QED BY <3>1, MergedType
    <2>6. CondsIn(stack')
      BY <2>1, <2>2, <2>4, <2>5 DEF CondsIn
    <2> QED BY <1>1, <2>6, PrimedConds
  <1>11. CASE End
    <2>1. stack' = << >> /\ DOMAIN stack' = {}
      BY <1>11 DEF End
    <2>2. CondsIn(stack')
      BY <2>1 DEF CondsIn
    <2> QED BY <1>1, <2>2, PrimedConds
  <1>12. CASE UNCHANGED vars
    <2>1. CondsIn(stack')
      BY <1>12 DEF vars
    <2> QED BY <1>1, <2>1, PrimedConds
  <1> QED BY <1>4, <1>5, <1>6, <1>7, <1>8, <1>9, <1>10, <1>11, <1>12 DEF Next, IncludeStep, Finished

\* The expander follows exactly the includes that are active in C, however
\* conditionals are nested, and with stray directives: the stack of conditions of
\* a file is that of the groups that are open.
THEOREM IncludesAreActive == Spec => []ConditionalsAgree
  <1>1. Init => CondsIn(stack)
    <2> SUFFICES ASSUME Init PROVE CondsIn(stack)
      OBVIOUS
    <2>1. stack = << >> /\ DOMAIN stack = {}
      BY DEF Init
    <2> QED BY <2>1 DEF CondsIn
  <1>2. GuardInv /\ CondsIn(stack) /\ [Next]_vars => CondsIn(stack)'
    BY CondsStep DEF GuardInv
  <1>3. GuardInv /\ CondsIn(stack) => ConditionalsAgree
    <2> SUFFICES ASSUME TypeInv, CondsIn(stack), stack # << >>, Reads("include")
                 PROVE  Active(Top) <=> ActiveInC(Top.file, Top.next)
      BY DEF GuardInv, ConditionalsAgree
    <2>1. /\ Top \in Frames /\ body[Top.file][Top.next].is = "include"
          /\ Active(Top) <=>
               \A i \in Open(Top.file, Top.next) : FirstThatHolds(Top.file, i, Top.next)
      BY ActiveOpen DEF Reads
    <2>2. Around(Top.file, Top.next) = Open(Top.file, Top.next)
      <3>1. Top.next \in Nat \ {0}
        BY <2>1 DEF Frames
      <3> QED BY <2>1, <3>1, OpenStep
    <2> QED BY <2>1, <2>2 DEF ActiveInC, FirstThatHolds
  <1> QED BY <1>1, <1>2, <1>3, GuardInvariant, PTL DEF Spec
-----------------------------------------------------------------------------
(* The expander without a cache, as a function from each state of a unit's *)
(* expansion to the next one.                                              *)

Now == [stack |-> stack, seen |-> seen, guarded |-> guarded, total |-> total, rejected |-> rejected, cut |-> cut]

States ==
  [stack : Seq(Frames), seen : SUBSET (UNION {Guard(f) : f \in Files}), guarded : SUBSET Files, total : Nat,
   rejected : SUBSET Files, cut : SUBSET Files]

Start(f) == [stack |-> <<Frame(f)>>, seen |-> Guard(f), guarded |-> {g \in {f} : Protected(g)}, total |-> 1,
             rejected |-> {}, cut |-> {}]

Ends(frame) == frame.next > Len(body[frame.file])
LineOf(frame) == body[frame.file][frame.next]
WithFile(frame, f) == [frame EXCEPT !.included = @ \cup {f}]

\* The frame when a line that is not an active include was passed.
Passed(frame) ==
  Advanced(IF LineOf(frame).is \in {"text", "include"} THEN frame
           ELSE [frame EXCEPT !.conds = NextConds(LineOf(frame), @, Active(frame))], <<Copied(frame)>>)

\* At an include of f that is blanked, or left as it is.
BlankedAt(frame, f) == Advanced(WithFile(frame, f), <<Blanked(frame)>>)
LeftAt(frame, f) == Advanced(WithFile(frame, f), <<Copied(frame)>>)

\* The state with another top frame, and with f marked.
OnTop(c, frame) == [c EXCEPT !.stack = Append(Front(@), frame)]
MarkedIn(c, f) == [c EXCEPT !.seen = @ \cup Guard(f), !.guarded = @ \cup {g \in {f} : Protected(g)}]
CutIn(c, f) == [c EXCEPT !.cut = @ \cup {g \in {f} : Protected(g)}]
EnteredIn(c, f) ==
  [c EXCEPT !.stack = Append(Append(Front(@), WithFile(Last(@), f)), Frame(f)), !.total = @ + 1]

\* An active include of f.
Included(c, f) ==
  LET top == Last(c.stack)
  IN  IF f \in c.rejected THEN OnTop(c, LeftAt(top, f))
      ELSE IF f \in {c.stack[k].file : k \in DOMAIN c.stack} \/ f \in c.guarded THEN OnTop(c, BlankedAt(top, f))
      ELSE IF ~(c.total + 1 <= budget) THEN [OnTop(c, LeftAt(top, f)) EXCEPT !.rejected = @ \cup {f}]
      ELSE IF kind[f] = "unreadable" THEN OnTop(c, LeftAt(top, f))
      ELSE IF Guard(f) \cap c.seen # {} THEN [OnTop(c, BlankedAt(top, f)) EXCEPT !.guarded = @ \cup {f}]
      ELSE IF Len(c.stack) >= depth
           THEN CutIn(MarkedIn(OnTop(c, LeftAt(top, f)), f), f)
      ELSE EnteredIn(MarkedIn(c, f), f)

\* The end of a header.
Left(c) == [c EXCEPT !.stack = Append(Front(Front(@)), Merged(@[Len(@) - 1], Last(@)))]

\* A state whose unit has ended is followed by itself.
Step(c) ==
  LET top == Last(c.stack)
  IN  IF c.stack = << >> \/ (Ends(top) /\ Len(c.stack) = 1) THEN c
      ELSE IF Ends(top) THEN Left(c)
      ELSE IF LineOf(top).is = "include" /\ Active(top) THEN Included(c, LineOf(top).of)
      ELSE OnTop(c, Passed(top))

\* The states that follow c: the least set with c that is closed under Step.
After(c) ==
  {d \in States : \A S \in SUBSET States : c \in S /\ (\A x \in S : Step(x) \in S) => d \in S}

\* A header that includes at most itself, in the same way.
LeafStep(frame) ==
  IF Ends(frame) THEN frame
  ELSE IF LineOf(frame).is = "include" /\ Active(frame)
       THEN IF LineOf(frame).of = frame.file THEN BlankedAt(frame, frame.file) ELSE frame
  ELSE Passed(frame)

LeafFrames(f) ==
  {r \in Frames : \A S \in SUBSET Frames : Frame(f) \in S /\ (\A x \in S : LeafStep(x) \in S) => r \in S}

LEMMA AfterIsReached ==
  ASSUME NEW c \in States, \A x \in States : Step(x) \in States
  PROVE  /\ After(c) \subseteq States /\ c \in After(c)
         /\ \A d \in After(c) : Step(d) \in After(c)
  <1>1. ASSUME NEW d \in After(c) PROVE Step(d) \in After(c)
    <2>1. d \in States /\ Step(d) \in States
      BY DEF After
    <2>2. ASSUME NEW S \in SUBSET States, c \in S, \A x \in S : Step(x) \in S PROVE Step(d) \in S
      BY <2>2 DEF After
    <2> QED BY <2>1, <2>2 DEF After
  <1> QED BY <1>1 DEF After

\* What is closed under Step and has c has all that follows.
LEMMA AfterIsLeast ==
  ASSUME NEW c, NEW S \in SUBSET States, c \in S, \A x \in S : Step(x) \in S
  PROVE  After(c) \subseteq S
  BY DEF After

\* A unit ends in one way only.
LEMMA OneEnd ==
  ASSUME NEW c \in States, \A x \in States : Step(x) \in States,
         NEW d \in After(c), NEW e \in After(c), Step(d) = d, Step(e) = e
  PROVE  d = e
  <1> DEFINE S == {x \in States : d \in After(x)}
  <1>1. ASSUME NEW x \in S PROVE Step(x) \in S
    <2> DEFINE y == Step(x)
               T == {x} \cup After(y)
    <2>1. x \in States /\ y \in States /\ d \in After(x)
      OBVIOUS
    <2>2. After(y) \subseteq States /\ y \in After(y) /\ \A z \in After(y) : Step(z) \in After(y)
      BY <2>1, AfterIsReached
    <2>3. After(x) \subseteq T
      <3>1. T \in SUBSET States /\ x \in T /\ \A z \in T : Step(z) \in T
        BY <2>1, <2>2
      <3> HIDE DEF T
      <3> QED BY <3>1, AfterIsLeast
    <2>4. d \in After(y)
      BY <2>1, <2>2, <2>3
    <2> QED BY <2>1, <2>4
  <1>2. e \in S
    <2>1. S \in SUBSET States /\ c \in S
      OBVIOUS
    <2> HIDE DEF S
    <2> QED BY <1>1, <2>1, AfterIsLeast
  <1>3. After(e) \subseteq {e}
    <2>1. {e} \in SUBSET States /\ \A x \in {e} : Step(x) \in {e}
      BY DEF After
    <2> QED BY <2>1, AfterIsLeast
  <1> QED BY <1>2, <1>3

LEMMA LeafFramesReached ==
  ASSUME NEW f \in Files, \A x \in Frames : LeafStep(x) \in Frames
  PROVE  /\ LeafFrames(f) \subseteq Frames /\ Frame(f) \in LeafFrames(f)
         /\ \A r \in LeafFrames(f) : LeafStep(r) \in LeafFrames(f)
  <1>1. Frame(f) \in Frames
    BY DEF Frame, Frames
  <1>2. ASSUME NEW r \in LeafFrames(f) PROVE LeafStep(r) \in LeafFrames(f)
    <2>1. r \in Frames /\ LeafStep(r) \in Frames
      BY DEF LeafFrames
    <2>2. ASSUME NEW S \in SUBSET Frames, Frame(f) \in S, \A x \in S : LeafStep(x) \in S PROVE LeafStep(r) \in S
      BY <2>2 DEF LeafFrames
    <2> QED BY <2>1, <2>2 DEF LeafFrames
  <1> QED BY <1>1, <1>2 DEF LeafFrames

LEMMA LeafFramesLeast ==
  ASSUME NEW f, NEW S \in SUBSET Frames, Frame(f) \in S, \A x \in S : LeafStep(x) \in S
  PROVE  LeafFrames(f) \subseteq S
  BY DEF LeafFrames

-----------------------------------------------------------------------------
(* The types of states.                                                    *)

LEMMA CondsAfterType ==
  ASSUME NEW line \in Lines, NEW conds \in Seq(Conds), NEW parent \in BOOLEAN,
         line.is \in {"if", "elif", "else", "endif"}
  PROVE  NextConds(line, conds, parent) \in Seq(Conds)
  <1>1. line.is \in {"if", "elif"} => line.holds \in BOOLEAN
    BY LineKinds
  <1>2. CASE line.is = "if"
    <2>1. [done |-> parent /\ line.holds, taken |-> parent /\ line.holds, parent |-> parent] \in Conds
      BY <1>1, <1>2 DEF Conds
    <2> QED BY <1>2, <2>1, AppendProperties DEF NextConds
  <1>3. CASE line.is # "if" /\ conds = << >>
    BY <1>3 DEF NextConds
  <1>4. CASE line.is # "if" /\ conds # << >>
    <2>1. Last(conds) \in Conds /\ Front(conds) \in Seq(Conds)
      BY <1>4, FrontProperties
    <2>2. /\ line.is = "elif" => Part(Last(conds), Last(conds).parent /\ line.holds) \in Conds
          /\ [Part(Last(conds), Last(conds).parent) EXCEPT !.done = TRUE] \in Conds
      BY <1>1, <2>1 DEF Part, Conds
    <2> QED BY <1>4, <2>1, <2>2, AppendProperties DEF NextConds
  <1> QED BY <1>2, <1>3, <1>4

\* The line at which a frame stands, if it stands at one.
LEMMA FrameLine ==
  ASSUME TypeInv, NEW r \in Frames, ~Ends(r)
  PROVE  /\ LineOf(r) \in Lines
         /\ LineOf(r).is \in {"text", "include", "if", "elif", "else", "endif"}
         /\ LineOf(r).is = "include" => LineOf(r).of \in Files
  <1>1. body[r.file] \in Seq(Lines) /\ r.next \in Nat \ {0}
    BY DEF TypeInv, InputInv, Frames
  <1>2. r.next \in 1..Len(body[r.file])
    BY <1>1, LenProperties DEF Ends
  <1>3. LineOf(r) \in Lines
    BY <1>1, <1>2, ElementOfSeq DEF LineOf
  <1> QED BY <1>3, LineKinds DEF Lines, Text, Include, If, Elif, Else, Endif

LEMMA PassedType ==
  ASSUME TypeInv, NEW r \in Frames, ~Ends(r)
  PROVE  Passed(r) \in Frames /\ Passed(r).file = r.file /\ Passed(r).included = r.included
  <1>1. <<Copied(r)>> \in Seq(OutLines)
    BY CopiedType
  <1>2. CASE LineOf(r).is \in {"text", "include"}
    BY <1>1, <1>2, AdvancedType DEF Passed
  <1>3. CASE LineOf(r).is \notin {"text", "include"}
    <2> DEFINE after == NextConds(LineOf(r), r.conds, Active(r))
               to == [r EXCEPT !.conds = after]
               w == <<Copied(r)>>
    <2>1. after \in Seq(Conds)
      <3>1. r.conds \in Seq(Conds) /\ Active(r) \in BOOLEAN
        BY DEF Frames, Active
      <3> QED BY <1>3, <3>1, FrameLine, CondsAfterType
    <2>2. to \in Frames /\ to.file = r.file /\ to.included = r.included
      <3> HIDE DEF after
      <3> QED BY <2>1 DEF Frames
    <2>3. Passed(r) = Advanced(to, w) /\ w \in Seq(OutLines)
      BY <1>1, <1>3 DEF Passed
    <2> HIDE DEF to, w
    <2> QED BY <1>1, <2>2, <2>3, AdvancedType
  <1> QED BY <1>2, <1>3

LEMMA NotedType ==
  ASSUME NEW r \in Frames, NEW f \in Files
  PROVE  /\ WithFile(r, f) \in Frames /\ WithFile(r, f).file = r.file
         /\ WithFile(r, f).included = r.included \cup {f}
         /\ BlankedAt(r, f) \in Frames /\ BlankedAt(r, f).file = r.file
         /\ BlankedAt(r, f).included = r.included \cup {f}
         /\ LeftAt(r, f) \in Frames /\ LeftAt(r, f).file = r.file
         /\ LeftAt(r, f).included = r.included \cup {f}
  <1>1. WithFile(r, f) \in Frames /\ WithFile(r, f).file = r.file /\ WithFile(r, f).included = r.included \cup {f}
    BY DEF WithFile, Frames
  <1>2. <<Copied(r)>> \in Seq(OutLines) /\ <<Blanked(r)>> \in Seq(OutLines)
    BY CopiedType
  <1> QED BY <1>1, <1>2, AdvancedType DEF BlankedAt, LeftAt

LEMMA LeafStepType ==
  ASSUME TypeInv, NEW r \in Frames
  PROVE  LeafStep(r) \in Frames /\ LeafStep(r).file = r.file
         /\ LeafStep(r).included \subseteq r.included \cup {r.file}
  <1>1. r.file \in Files
    BY DEF Frames
  <1> QED BY <1>1, PassedType, NotedType DEF LeafStep

LEMMA StepType ==
  ASSUME TypeInv, NEW c \in States
  PROVE  Step(c) \in States
  <1> DEFINE top == Last(c.stack)
  <1>1. c.stack \in Seq(Frames)
    BY DEF States
  <1>2. CASE c.stack = << >> \/ (Ends(top) /\ Len(c.stack) = 1)
    BY <1>2 DEF Step
  <1>3. CASE c.stack # << >> /\ Ends(top) /\ Len(c.stack) # 1
    <2>1. Len(c.stack) > 1 /\ Len(c.stack) - 1 \in 1..Len(c.stack) /\ top \in Frames
      <3>1. Len(c.stack) \in Nat \ {0} /\ top \in Frames
        BY <1>1, <1>3, FrontProperties
      <3>2. \A n \in Nat \ {0} : n # 1 => n > 1 /\ n - 1 \in 1..n
        OBVIOUS
      <3> QED BY <1>3, <3>1, <3>2
    <2>2. c.stack[Len(c.stack) - 1] \in Frames
      BY <1>1, <2>1, ElementOfSeq
    <2> DEFINE frame == Merged(c.stack[Len(c.stack) - 1], top)
               below == Append(Front(Front(c.stack)), frame)
    <2>3. frame \in Frames
      BY <2>1, <2>2, MergedType
    <2> HIDE DEF frame
    <2>4. below \in Seq(Frames)
      BY <1>1, <2>1, <2>3, TopMerged
    <2>5. Step(c) = [c EXCEPT !.stack = below]
      BY <1>3 DEF Step, Left, frame
    <2> HIDE DEF below
    <2> QED BY <2>4, <2>5 DEF States
  <1>4. CASE c.stack # << >> /\ ~Ends(top)
    <2>1. top \in Frames
      BY <1>1, <1>4, FrontProperties
    <2>2. \A frame \in Frames : OnTop(c, frame) \in States
      <3> TAKE frame \in Frames
      <3>1. Append(Front(c.stack), frame) \in Seq(Frames)
        BY <1>1, <1>4, TopReplaced
      <3> QED BY <3>1 DEF OnTop, States
    <2>3. ASSUME NEW d \in States, NEW f \in Files, Guard(f) \in SUBSET (UNION {Guard(g) : g \in Files})
          PROVE  /\ [d EXCEPT !.rejected = @ \cup {f}] \in States
                 /\ [d EXCEPT !.guarded = @ \cup {f}] \in States
                 /\ CutIn(d, f) \in States
                 /\ MarkedIn(d, f) \in States /\ MarkedIn(d, f).stack = d.stack
                 /\ MarkedIn(d, f).total = d.total
      <3> DEFINE p == {g \in {f} : Protected(g)}
      <3>1. p \in SUBSET Files
        OBVIOUS
      <3> HIDE DEF p
      <3>2. /\ [d EXCEPT !.rejected = @ \cup {f}] \in States /\ [d EXCEPT !.guarded = @ \cup {f}] \in States
            /\ [d EXCEPT !.cut = @ \cup p] \in States
        BY <3>1 DEF States
      <3>3. [d EXCEPT !.seen = @ \cup Guard(f), !.guarded = @ \cup p] \in States
        BY <2>3, <3>1 DEF States
      <3> QED BY <3>2, <3>3 DEF MarkedIn, CutIn, p, States
    <2>4. ASSUME NEW f \in Files PROVE Included(c, f) \in States
      <3>1. Guard(f) \in SUBSET (UNION {Guard(g) : g \in Files})
        OBVIOUS
      <3>2. LeftAt(top, f) \in Frames /\ BlankedAt(top, f) \in Frames /\ WithFile(top, f) \in Frames
            /\ Frame(f) \in Frames
        BY <2>1, NotedType DEF Frame, Frames
      <3> DEFINE marked == MarkedIn(c, f)
                 entered == Append(Append(Front(c.stack), WithFile(top, f)), Frame(f))
                 to == [marked EXCEPT !.stack = entered, !.total = @ + 1]
      <3>3. marked \in States /\ marked.stack = c.stack
        BY <2>3, <3>1
      <3>4. entered \in Seq(Frames)
        BY <1>1, <1>4, <3>2, TopPushed
      <3>5. to \in States
        <4>1. marked.total + 1 \in Nat
          BY <3>3 DEF States
        <4> DEFINE n == marked.total + 1
        <4>2. to = [marked EXCEPT !.stack = entered, !.total = n]
          OBVIOUS
        <4> HIDE DEF marked, entered, n
        <4>3. [marked EXCEPT !.stack = entered, !.total = n] \in States
          BY <3>3, <3>4, <4>1 DEF States, n
        <4> HIDE DEF to
        <4> QED BY <4>2, <4>3
      <3>6. EnteredIn(MarkedIn(c, f), f) = to
        <4> HIDE DEF marked
        <4>1. EnteredIn(marked, f) = to
          BY <3>3 DEF EnteredIn
        <4> QED BY <4>1 DEF marked
      <3>7. /\ OnTop(c, LeftAt(top, f)) \in States /\ OnTop(c, BlankedAt(top, f)) \in States
        BY <2>2, <3>2
      <3>8. /\ [OnTop(c, LeftAt(top, f)) EXCEPT !.rejected = @ \cup {f}] \in States
            /\ [OnTop(c, BlankedAt(top, f)) EXCEPT !.guarded = @ \cup {f}] \in States
        BY <2>3, <3>1, <3>7
      <3>9. CutIn(MarkedIn(OnTop(c, LeftAt(top, f)), f), f) \in States
        BY <2>3, <3>1, <3>7
      <3> HIDE DEF to
      <3> QED BY <3>5, <3>6, <3>7, <3>8, <3>9 DEF Included
    <2>5. LineOf(top).is = "include" => LineOf(top).of \in Files
      BY <1>4, <2>1, FrameLine
    <2>6. Passed(top) \in Frames
      BY <1>4, <2>1, PassedType
    <2> HIDE DEF top
    <2>7. Step(c) \in {Included(c, LineOf(top).of), OnTop(c, Passed(top))}
          /\ (Step(c) = Included(c, LineOf(top).of) => Step(c) \in States)
      <3>1. CASE LineOf(top).is = "include" /\ Active(top)
        BY <1>4, <2>4, <2>5, <3>1 DEF Step, top
      <3>2. CASE ~(LineOf(top).is = "include" /\ Active(top))
        BY <1>4, <2>2, <2>6, <3>2 DEF Step, top
      <3> QED BY <3>1, <3>2
    <2> QED BY <2>2, <2>6, <2>7
  <1> QED BY <1>2, <1>3, <1>4

-----------------------------------------------------------------------------
(* The steps of the expander but those that use the cache are Step.        *)

LEMMA OnTopRecord ==
  ASSUME NEW s, NEW x, NEW a, NEW b, NEW n, NEW r, NEW d
  PROVE  OnTop([stack |-> s, seen |-> a, guarded |-> b, total |-> n, rejected |-> r, cut |-> d], x)
           = [stack |-> Append(Front(s), x), seen |-> a, guarded |-> b, total |-> n, rejected |-> r, cut |-> d]
  <1> DEFINE t == Append(Front(s), x)
             c == [stack |-> s, seen |-> a, guarded |-> b, total |-> n, rejected |-> r, cut |-> d]
  <1>1. OnTop(c, x) = [c EXCEPT !.stack = Append(Front(c.stack), x)] /\ c.stack = s
    BY DEF OnTop
  <1> HIDE DEF t
  <1>2. [c EXCEPT !.stack = t] = [stack |-> t, seen |-> a, guarded |-> b, total |-> n, rejected |-> r, cut |-> d]
    OBVIOUS
  <1>3. OnTop(c, x) = [c EXCEPT !.stack = t]
    <2> HIDE DEF c
    <2> QED BY <1>1 DEF t
  <1> QED BY <1>2, <1>3 DEF t

LEMMA NowOnTop ==
  ASSUME NEW frame
  PROVE  OnTop(Now, frame) = [stack |-> Append(Front(stack), frame), seen |-> seen, guarded |-> guarded,
                              total |-> total, rejected |-> rejected, cut |-> cut]
  BY OnTopRecord DEF Now

LEMMA NowReads ==
  ASSUME TypeInv, NEW what, Reads(what)
  PROVE  /\ stack # << >> /\ ~Ends(Top) /\ LineOf(Top) = Line /\ Line.is = what
         /\ Step(Now) = IF what = "include" /\ Active(Top) THEN Included(Now, Line.of) ELSE OnTop(Now, Passed(Top))
  <1>1. stack # << >> /\ LineOf(Top) = Line /\ Line.is = what
    BY DEF Reads, Line, LineOf
  <1>2. ~Ends(Top)
    <2>1. Top.next \in 1..Len(body[Top.file]) /\ Len(body[Top.file]) \in Nat
      BY ReadsLine
    <2> QED BY <2>1 DEF Ends
  <1>3. Now.stack = stack /\ Last(Now.stack) = Top
    BY DEF Now, Top
  <1> QED BY <1>1, <1>2, <1>3 DEF Step

LEMMA NowPasses == TypeInv /\ (CopyText \/ PassInactive \/ Conditional) => Now' = Step(Now)
  <1> SUFFICES ASSUME TypeInv, CopyText \/ PassInactive \/ Conditional PROVE Now' = Step(Now)
    OBVIOUS
  <1>1. UNCHANGED marks /\ Step(Now) = OnTop(Now, Passed(Top))
        /\ stack' = Append(Front(stack), Passed(Top))
    <2>1. CASE CopyText \/ PassInactive
      <3>1. PICK what \in {"text", "include"} : Reads(what) /\ (what = "include" => ~Active(Top)) /\ Skip
        BY <2>1 DEF CopyText, PassInactive
      <3>2. Line.is = what /\ LineOf(Top) = Line /\ Step(Now) = OnTop(Now, Passed(Top))
        BY <3>1, NowReads
      <3>3. Passed(Top) = Advanced(Top, <<Copied(Top)>>)
        BY <3>2 DEF Passed
      <3> QED BY <3>1, <3>2, <3>3 DEF Skip, Continue, Advanced
    <2>2. CASE Conditional
      <3>1. PICK what \in {"if", "elif", "else", "endif"} : Reads(what)
        BY <2>2 DEF Conditional
      <3>2. Line.is = what /\ LineOf(Top) = Line /\ Step(Now) = OnTop(Now, Passed(Top))
        BY <3>1, NowReads
      <3>3. Passed(Top) = Advanced([Top EXCEPT !.conds = NextConds(Line, @, Active(Top))], <<Copied(Top)>>)
        BY <3>2 DEF Passed
      <3> QED BY <2>2, <3>2, <3>3 DEF Conditional, Continue, Advanced
    <2> QED BY <2>1, <2>2
  <1> QED BY <1>1, NowOnTop DEF Now, marks

LEMMA NowIncludes ==
  ASSUME TypeInv, NEW f \in Files, IncludesNow(f)
  PROVE  /\ Step(Now) = Included(Now, f) /\ stack # << >>
         /\ Now.stack = stack /\ Last(Now.stack) = Top /\ Noted(f) = WithFile(Top, f)
         /\ {Now.stack[k].file : k \in DOMAIN Now.stack} = Opened
         /\ Continue(Noted(f), <<Copied(Top)>>) => stack' = Append(Front(stack), LeftAt(Top, f))
         /\ Continue(Noted(f), <<Blanked(Top)>>) => stack' = Append(Front(stack), BlankedAt(Top, f))
  <1>1. Reads("include") /\ Active(Top) /\ Line.of = f
    BY DEF IncludesNow
  <1>2. Step(Now) = Included(Now, f) /\ stack # << >>
    BY <1>1, NowReads
  <1>3. Now.stack = stack /\ Last(Now.stack) = Top
    BY DEF Now, Top
  <1> QED BY <1>2, <1>3 DEF Opened, Noted, WithFile, Continue, Advanced, LeftAt, BlankedAt

LEMMA NowEnters ==
  ASSUME TypeInv, NEW f \in Files, IncludesNow(f), Expandable(f)
  PROVE  Step(Now) = [stack |-> Append(Append(Front(stack), Noted(f)), Frame(f)),
                      seen |-> seen \cup Guard(f), guarded |-> guarded \cup {g \in {f} : Protected(g)},
                      total |-> total + 1, rejected |-> rejected, cut |-> cut]
  <1>1. /\ Step(Now) = Included(Now, f) /\ Now.stack = stack /\ Last(Now.stack) = Top
        /\ Noted(f) = WithFile(Top, f) /\ {Now.stack[k].file : k \in DOMAIN Now.stack} = Opened
    BY NowIncludes
  <1>2. ~(Len(stack) >= depth)
    <2>1. Len(stack) \in Nat /\ depth \in Nat
      BY LenProperties DEF TypeInv, InputInv
    <2> QED BY <2>1 DEF Expandable
  <1>3. /\ Now.rejected = rejected /\ Now.guarded = guarded /\ Now.total = total /\ Now.seen = seen
    BY DEF Now
  <1>4. Step(Now) = EnteredIn(MarkedIn(Now, f), f)
    BY <1>1, <1>2, <1>3 DEF Included, Expandable, Enterable, Known, Room, Taken
  <1> QED BY <1>1, <1>4 DEF MarkedIn, EnteredIn, Now

LEMMA NowIncluded ==
  ASSUME TypeInv, NEW f \in Files,
         \/ PassRejected(f) \/ BlankKnown(f) \/ Reject(f) \/ PassUnreadable(f)
         \/ BlankGuarded(f) \/ TooDeep(f) \/ Enter(f)
  PROVE  Now' = Step(Now)
  <1>1. IncludesNow(f)
    BY DEF PassRejected, BlankKnown, Reject, PassUnreadable, BlankGuarded, TooDeep, Enter
  <1>2. /\ Step(Now) = Included(Now, f) /\ Now.stack = stack /\ Last(Now.stack) = Top
        /\ Noted(f) = WithFile(Top, f) /\ {Now.stack[k].file : k \in DOMAIN Now.stack} = Opened
        /\ Continue(Noted(f), <<Copied(Top)>>) => stack' = Append(Front(stack), LeftAt(Top, f))
        /\ Continue(Noted(f), <<Blanked(Top)>>) => stack' = Append(Front(stack), BlankedAt(Top, f))
    BY <1>1, NowIncludes
  <1>3. /\ Now.rejected = rejected /\ Now.guarded = guarded /\ Now.total = total /\ Now.seen = seen
    BY DEF Now
  <1> DEFINE known == f \in Opened \/ f \in guarded
             left == OnTop(Now, LeftAt(Top, f))
             blanked == OnTop(Now, BlankedAt(Top, f))
  <1>4. Included(Now, f) =
          IF f \in rejected THEN left
          ELSE IF known THEN blanked
          ELSE IF ~Room(f) THEN [left EXCEPT !.rejected = @ \cup {f}]
          ELSE IF kind[f] = "unreadable" THEN left
          ELSE IF Taken(f) THEN [blanked EXCEPT !.guarded = @ \cup {f}]
          ELSE IF Len(stack) >= depth THEN CutIn(MarkedIn(left, f), f)
          ELSE EnteredIn(MarkedIn(Now, f), f)
    BY <1>2, <1>3 DEF Included, Room, Taken
  <1> HIDE DEF left, blanked
  <1>5. CASE PassRejected(f)
    <2>1. Step(Now) = left
      BY <1>2, <1>4, <1>5 DEF PassRejected
    <2> QED BY <1>2, <1>5, <2>1, NowOnTop DEF PassRejected, left, Now, marks
  <1>6. CASE BlankKnown(f)
    <2>1. Step(Now) = blanked
      BY <1>2, <1>4, <1>6 DEF BlankKnown, Known
    <2> QED BY <1>2, <1>6, <2>1, NowOnTop DEF BlankKnown, blanked, Now, marks
  <1>7. CASE Reject(f)
    <2>1. Step(Now) = [left EXCEPT !.rejected = @ \cup {f}]
      BY <1>2, <1>4, <1>7 DEF Reject, Known
    <2>2. left = [stack |-> stack', seen |-> seen, guarded |-> guarded, total |-> total,
                  rejected |-> rejected, cut |-> cut]
      BY <1>2, <1>7, NowOnTop DEF Reject, left
    <2> QED BY <1>7, <2>1, <2>2 DEF Reject, Now
  <1>8. CASE PassUnreadable(f)
    <2>1. Step(Now) = left
      BY <1>2, <1>4, <1>8 DEF PassUnreadable, Known
    <2> QED BY <1>2, <1>8, <2>1, NowOnTop DEF PassUnreadable, left, Now, marks
  <1>9. CASE BlankGuarded(f)
    <2>1. Step(Now) = [blanked EXCEPT !.guarded = @ \cup {f}]
      BY <1>2, <1>4, <1>9 DEF BlankGuarded, Enterable, Known
    <2>2. blanked = [stack |-> stack', seen |-> seen, guarded |-> guarded, total |-> total,
                     rejected |-> rejected, cut |-> cut]
      BY <1>2, <1>9, NowOnTop DEF BlankGuarded, blanked
    <2> QED BY <1>9, <2>1, <2>2 DEF BlankGuarded, Now
  <1>10. CASE TooDeep(f)
    <2>1. Step(Now) = CutIn(MarkedIn(left, f), f)
      BY <1>2, <1>4, <1>10 DEF TooDeep, Enterable, Known
    <2>2. left = [stack |-> stack', seen |-> seen, guarded |-> guarded, total |-> total,
                  rejected |-> rejected, cut |-> cut]
      BY <1>2, <1>10, NowOnTop DEF TooDeep, left
    <2> QED BY <1>10, <2>1, <2>2 DEF TooDeep, Mark, MarkedIn, CutIn, Now
  <1>11. CASE Enter(f)
    BY <1>11, NowEnters DEF Enter, Mark, Now
  <1> QED BY <1>5, <1>6, <1>7, <1>8, <1>9, <1>10, <1>11

LEMMA NowLeaves == TypeInv /\ Leave => Now' = Step(Now)
  <1> SUFFICES ASSUME TypeInv, Leave PROVE Now' = Step(Now)
    OBVIOUS
  <1>1. stack # << >> /\ Len(stack) # 1 /\ Ends(Top)
    <2>1. Len(stack) > 1 /\ Len(<< >>) = 0 /\ ~(0 > 1) /\ ~(1 > 1)
      BY DEF Leave
    <2>2. stack # << >> /\ Len(stack) # 1
      BY <2>1
    <2> QED BY <2>2 DEF Leave, Ends
  <1>2. Now.stack = stack /\ Last(Now.stack) = Top
    BY DEF Now, Top
  <1>3. Step(Now) = Left(Now)
    BY <1>1, <1>2 DEF Step
  <1>4. stack' = Append(Front(Front(stack)), Merged(stack[Len(stack) - 1], Top)) /\ UNCHANGED marks
    BY DEF Leave, Merged
  <1> QED BY <1>3, <1>4 DEF Left, Now, Top, marks

-----------------------------------------------------------------------------
(* A leaf header is expanded in the same way wherever it is included.      *)

LEMMA LeafIsLeaf ==
  ASSUME TypeInv, NEW f \in Files
  PROVE  \A r \in LeafFrames(f) : r \in Frames /\ r.file = f /\ r.included \subseteq {f}
  <1> DEFINE S == {r \in Frames : r.file = f /\ r.included \subseteq {f}}
  <1>1. S \in SUBSET Frames
    OBVIOUS
  <1>2. Frame(f) \in S
    BY DEF Frame, Frames
  <1>3. \A x \in S : LeafStep(x) \in S
    BY LeafStepType
  <1>4. LeafFrames(f) \subseteq S
    <2> HIDE DEF S
    <2> QED BY <1>1, <1>2, <1>3, LeafFramesLeast
  <1> QED BY <1>4

\* The state with the frames s below the top frame r.
Atop(c, s, r) == [c EXCEPT !.stack = Append(s, r)]

LEMMA AppendedTop ==
  ASSUME NEW S, NEW s \in Seq(S), NEW x \in S
  PROVE  /\ Append(s, x) \in Seq(S) /\ Append(s, x) # << >> /\ Len(Append(s, x)) = Len(s) + 1
         /\ Len(s) \in Nat /\ DOMAIN Append(s, x) = 1..Len(s) + 1
         /\ Last(Append(s, x)) = x /\ Front(Append(s, x)) = s
         /\ Append(s, x)[Len(s) + 1] = x /\ \A i \in 1..Len(s) : Append(s, x)[i] = s[i]
  <1> DEFINE t == Append(s, x)
             n == Len(s)
  <1>1. n \in Nat
    BY LenProperties
  <1>2. /\ t \in Seq(S) /\ Len(t) = n + 1 /\ t[n + 1] = x
        /\ \A i \in 1..n : t[i] = s[i]
    BY AppendProperties
  <1>3. t # << >>
    BY <1>1, <1>2, EmptySeq
  <1>4. DOMAIN t = 1..n + 1
    BY <1>2, LenProperties
  <1>5. /\ Front(t) \in Seq(S) /\ Len(Front(t)) = Len(t) - 1 /\ Last(t) = t[Len(t)]
        /\ \A i \in 1..Len(t) - 1 : Front(t)[i] = t[i]
    BY <1>2, <1>3, FrontProperties
  <1>6. Len(t) - 1 = n
    BY <1>1, <1>2
  <1>7. Len(Front(t)) = n /\ \A i \in 1..n : Front(t)[i] = s[i]
    BY <1>2, <1>5, <1>6
  <1> HIDE DEF t
  <1>8. Front(t) = s
    BY <1>5, <1>7, SeqEqual
  <1> QED BY <1>1, <1>2, <1>3, <1>4, <1>5, <1>8 DEF t

LEMMA AtopIs ==
  ASSUME NEW c \in States, NEW s \in Seq(Frames), NEW r \in Frames
  PROVE  /\ Atop(c, s, r) \in States /\ Atop(c, s, r).stack = Append(s, r)
         /\ Atop(c, s, r).rejected = c.rejected
         /\ \A x : OnTop(Atop(c, s, r), x) = Atop(c, s, x)
  <1> DEFINE t == Append(s, r)
             d == Atop(c, s, r)
  <1>1. t \in Seq(Frames) /\ Front(t) = s
    BY AppendedTop
  <1>2. d = [c EXCEPT !.stack = t]
    BY DEF Atop
  <1> HIDE DEF t, d
  <1>3. d \in States /\ d.stack = t /\ d.rejected = c.rejected
    BY <1>1, <1>2 DEF States
  <1>4. ASSUME NEW x PROVE OnTop(d, x) = Atop(c, s, x)
    <2>1. OnTop(d, x) = [d EXCEPT !.stack = Append(s, x)]
      BY <1>1, <1>3 DEF OnTop, States
    <2> QED BY <1>2, <2>1 DEF Atop, States
  <1> QED BY <1>3, <1>4 DEF t, d

\* An included leaf header takes the steps that it takes by itself.
LEMMA LeafStepLifts ==
  ASSUME TypeInv, NEW c \in States, NEW s \in Seq(Frames),
         NEW r \in Frames, r.file \notin c.rejected,
         LeafStep(r) # r
  PROVE  Step(Atop(c, s, r)) = Atop(c, s, LeafStep(r))
  <1> DEFINE d == Atop(c, s, r)
  <1>1. /\ d.stack # << >> /\ Last(d.stack) = r /\ d.rejected = c.rejected
        /\ d.stack[Len(s) + 1] = r /\ Len(s) + 1 \in DOMAIN d.stack
        /\ \A x : OnTop(d, x) = Atop(c, s, x)
    <2>1. d.stack = Append(s, r) /\ d.rejected = c.rejected /\ \A x : OnTop(d, x) = Atop(c, s, x)
      BY AtopIs
    <2>2. Append(s, r) # << >> /\ Last(Append(s, r)) = r /\ Append(s, r)[Len(s) + 1] = r
          /\ DOMAIN Append(s, r) = 1..Len(s) + 1 /\ Len(s) \in Nat
      BY AppendedTop
    <2>3. Len(s) + 1 \in 1..Len(s) + 1
      BY <2>2
    <2> QED BY <2>1, <2>2, <2>3
  <1>2. ~Ends(r)
    BY DEF LeafStep
  <1> HIDE DEF d
  <1>3. CASE LineOf(r).is = "include" /\ Active(r)
    <2>1. LineOf(r).of = r.file /\ LeafStep(r) = BlankedAt(r, r.file)
      BY <1>2, <1>3 DEF LeafStep
    <2>2. Step(d) = Included(d, r.file)
      BY <1>1, <1>2, <1>3, <2>1 DEF Step
    <2>3. r.file \in {d.stack[k].file : k \in DOMAIN d.stack}
      BY <1>1
    <2>4. Included(d, r.file) = OnTop(d, BlankedAt(r, r.file))
      BY <1>1, <2>3 DEF Included
    <2> QED BY <1>1, <2>1, <2>2, <2>4 DEF d
  <1>4. CASE ~(LineOf(r).is = "include" /\ Active(r))
    <2>1. LeafStep(r) = Passed(r)
      BY <1>2, <1>4 DEF LeafStep
    <2>2. Step(d) = OnTop(d, Passed(r))
      BY <1>1, <1>2, <1>4 DEF Step
    <2> QED BY <1>1, <2>1, <2>2 DEF d
  <1> QED BY <1>3, <1>4

\* From where a leaf header is entered, all its frames follow.
LEMMA LeafFollows ==
  ASSUME TypeInv, NEW start \in States, NEW c \in States, NEW s \in Seq(Frames), NEW f \in Files,
         f \notin c.rejected, Atop(c, s, Frame(f)) \in After(start)
  PROVE  \A r \in LeafFrames(f) : Atop(c, s, r) \in After(start)
  <1> DEFINE S == {r \in Frames : r.file = f /\ Atop(c, s, r) \in After(start)}
  <1>1. S \in SUBSET Frames
    OBVIOUS
  <1>2. Frame(f) \in S
    BY DEF Frame, Frames
  <1>3. ASSUME NEW r \in S PROVE LeafStep(r) \in S
    <2>1. CASE LeafStep(r) = r
      BY <2>1
    <2>2. CASE LeafStep(r) # r
      <3>1. Step(Atop(c, s, r)) = Atop(c, s, LeafStep(r))
        BY <2>2, LeafStepLifts
      <3>2. Step(Atop(c, s, r)) \in After(start)
        BY StepType, AfterIsReached
      <3> QED BY <3>1, <3>2, LeafStepType
    <2> QED BY <2>1, <2>2
  <1>4. LeafFrames(f) \subseteq S
    <2> HIDE DEF S
    <2> QED BY <1>1, <1>2, <1>3, LeafFramesLeast
  <1> QED BY <1>4

-----------------------------------------------------------------------------
(* Units that are expanded again.                                          *)

\* The unit at hand is one that the expander without a cache gets to.
RunsOn == stack # << >> => Now \in After(Start(Unit))

\* It is one of those that are asked for.
ScanInv == Len(outs) <= Len(scan) /\ (stack # << >> => Len(outs) < Len(scan))

\* What is being expanded was not rejected.
OpenedInv == Opened \cap rejected = {}

\* Headers that included at most themselves so far.
LeavesIn(s) == \A k \in DOMAIN s : IsLeaf(s[k]) => s[k] \in LeafFrames(s[k].file)
LeavesInv == LeavesIn(stack)

\* The cache has what leaf headers expand to.
WholeLeavesInv == \A f \in DOMAIN cache : \E r \in LeafFrames(f) : Ends(r) /\ r.out = cache[f]

\* The expanded units are those of the expander without a cache.
OutsInv ==
  \A k \in DOMAIN outs : \E d \in After(Start(scan[k].unit)) :
    Len(d.stack) = 1 /\ Ends(Last(d.stack)) /\ Last(d.stack).out = outs[k]

RepeatInv == RunsOn /\ ScanInv /\ OpenedInv /\ LeavesInv /\ WholeLeavesInv /\ OutsInv

LEMMA InputStays == [Next]_vars => UNCHANGED <<input, body, kind, depth, budget, scan>>
  BY DEF Next, Begin, CopyText, PassInactive, Skip, Conditional, IncludeStep,
         PassRejected, BlankKnown, Reject, PassUnreadable, BlankGuarded, TooDeep, Reuse, Enter,
         Leave, End, Finished, vars, input

LEMMA PrimedExpander ==
  ASSUME UNCHANGED <<body, kind, depth, budget>>
  PROVE  /\ \A c : After(c)' = After(c)
         /\ \A f : Start(f)' = Start(f) /\ LeafFrames(f)' = LeafFrames(f)
         /\ \A r : Ends(r)' <=> Ends(r)
  <1>1. \A f : (Guard(f)' = Guard(f)) /\ (Protected(f)' <=> Protected(f))
    BY DEF Guard, Protected
  <1>2. \A f : Start(f)' = Start(f)
    BY <1>1 DEF Start
  <1>3. States' = States
    BY <1>1 DEF States
  <1>4. \A r : Ends(r)' <=> Ends(r)
    BY DEF Ends
  <1>5. \A r : LineOf(r)' = LineOf(r)
    BY DEF LineOf
  <1>6. \A r : Passed(r)' = Passed(r)
    BY <1>5 DEF Passed
  <1>7. \A r : LeafStep(r)' = LeafStep(r)
    BY <1>4, <1>5, <1>6 DEF LeafStep
  <1>8. \A f : LeafFrames(f)' = LeafFrames(f)
    BY <1>7 DEF LeafFrames
  <1>9. \A c, f : MarkedIn(c, f)' = MarkedIn(c, f)
    BY <1>1 DEF MarkedIn
  <1>10. \A c, f : Included(c, f)' = Included(c, f)
    <2>1. \A c, f : CutIn(c, f)' = CutIn(c, f) /\ EnteredIn(c, f)' = EnteredIn(c, f)
      BY <1>1 DEF CutIn, EnteredIn
    <2> QED BY <1>1, <1>9, <2>1 DEF Included
  <1>11. \A c : Step(c)' = Step(c)
    BY <1>4, <1>5, <1>6, <1>10 DEF Step
  <1>12. \A c : After(c)' = After(c)
    BY <1>3, <1>11 DEF After
  <1> QED BY <1>2, <1>4, <1>8, <1>12

LEMMA StartType ==
  ASSUME TypeInv, NEW f \in Files
  PROVE  Start(f) \in States
  <1>1. Frame(f) \in Frames
    BY DEF Frame, Frames
  <1>2. <<Frame(f)>> \in Seq(Frames) /\ Guard(f) \in SUBSET (UNION {Guard(g) : g \in Files})
    BY <1>1
  <1> QED BY <1>2 DEF Start, States

LEMMA UnitInFiles ==
  ASSUME TypeInv, ScanInv
  PROVE  /\ \A k \in DOMAIN outs : scan[k].unit \in Files
         /\ stack # << >> => Unit \in Files
         /\ DOMAIN outs = 1..Len(outs) /\ Len(outs) \in Nat
  <1>1. scan \in Seq([unit : Files, fresh : BOOLEAN]) /\ Len(scan) \in Nat
    BY LenProperties DEF TypeInv, InputInv
  <1>2. Len(outs) \in Nat /\ DOMAIN outs = 1..Len(outs)
    BY LenProperties DEF TypeInv
  <1>3. \A k \in 1..Len(scan) : scan[k].unit \in Files
    <2>1. \A k \in 1..Len(scan) : scan[k] \in [unit : Files, fresh : BOOLEAN]
      BY <1>1, ElementOfSeq
    <2> QED BY <2>1
  <1>4. \A k \in 1..Len(outs) : k \in 1..Len(scan)
    BY <1>1, <1>2 DEF ScanInv
  <1>5. stack # << >> => Len(outs) + 1 \in 1..Len(scan)
    BY <1>1, <1>2 DEF ScanInv
  <1> QED BY <1>2, <1>3, <1>4, <1>5 DEF Unit

LEMMA AtopRecord ==
  ASSUME NEW t, NEW s, NEW x, NEW a, NEW b, NEW n, NEW r, NEW d
  PROVE  Atop([stack |-> t, seen |-> a, guarded |-> b, total |-> n, rejected |-> r, cut |-> d], s, x)
           = [stack |-> Append(s, x), seen |-> a, guarded |-> b, total |-> n, rejected |-> r, cut |-> d]
  BY DEF Atop

LEMMA SameFields ==
  ASSUME NEW q \in Frames, NEW r \in Frames, q.file = r.file, q.next = r.next, q.conds = r.conds,
         q.out = r.out, q.included = r.included
  PROVE  q = r
  BY DEF Frames

\* A header that is taken from the cache: the expander without a cache gets to the
\* same state by expanding it.
LEMMA ReuseFollows ==
  ASSUME TypeInv, WholeLeavesInv, NEW start \in States, Now \in After(start),
         NEW f \in Files, Reuse(f)
  PROVE  Now' \in After(start)
  <1> DEFINE s == Append(Front(stack), Noted(f))
             c == Step(Now)
  <1>1. /\ stack \in Seq(Frames) /\ stack # << >> /\ Top \in Frames /\ Noted(f) \in Frames
        /\ f \in Noted(f).included
    <2>1. stack \in Seq(Frames) /\ stack # << >>
      BY DEF Reuse, IncludesNow, Reads, TypeInv
    <2> QED BY <2>1, TopIsFrame, ReuseShape DEF SameText
  <1>2. Front(stack) \in Seq(Frames)
    BY <1>1, FrontProperties
  <1>3. s \in Seq(Frames) /\ Front(s) = Front(stack) /\ Last(s) = Noted(f) /\ Last(s) = s[Len(s)]
        /\ Len(s) \in Nat \ {0}
    <2>1. s \in Seq(Frames) /\ s # << >> /\ Front(s) = Front(stack) /\ Last(s) = Noted(f)
      BY <1>1, <1>2, AppendedTop
    <2> HIDE DEF s
    <2> QED BY <2>1, FrontProperties
  <1>4. c = [stack |-> Append(s, Frame(f)), seen |-> seen', guarded |-> guarded', total |-> total',
             rejected |-> rejected, cut |-> cut]
    BY NowEnters DEF Reuse, Mark
  <1>5. \A x \in States : Step(x) \in States
    BY StepType
  <1>6. c \in States /\ c \in After(start)
    BY <1>5, AfterIsReached
  <1>7. f \notin c.rejected
    BY <1>4 DEF Reuse, Expandable, Enterable
  <1> HIDE DEF s, c
  <1>8. \A x : Atop(c, s, x) = [stack |-> Append(s, x), seen |-> seen', guarded |-> guarded', total |-> total',
                                rejected |-> rejected, cut |-> cut]
    <2> TAKE x
    <2>1. Atop([stack |-> Append(s, Frame(f)), seen |-> seen', guarded |-> guarded', total |-> total',
                rejected |-> rejected, cut |-> cut], s, x)
            = [stack |-> Append(s, x), seen |-> seen', guarded |-> guarded', total |-> total',
               rejected |-> rejected, cut |-> cut]
      BY AtopRecord
    <2> QED BY <1>4, <2>1
  <1>9. PICK r \in LeafFrames(f) : Ends(r) /\ r.out = cache[f]
    BY DEF WholeLeavesInv, Reuse
  <1>10. r \in Frames /\ r.file = f /\ r.included \subseteq {f}
    BY LeafIsLeaf
  <1>11. Atop(c, s, r) \in After(start)
    BY <1>3, <1>4, <1>6, <1>7, <1>8, LeafFollows
  <1> DEFINE d == Atop(c, s, r)
             t == Append(s, r)
  <1>12. d \in States /\ d.stack = t
    BY <1>3, <1>6, <1>10, AtopIs
  <1>13. /\ t # << >> /\ Last(t) = r /\ Front(t) = s /\ t[Len(t) - 1] = Noted(f) /\ Len(t) # 1
    <2>1. /\ t # << >> /\ Last(t) = r /\ Front(t) = s /\ Len(t) = Len(s) + 1
          /\ \A i \in 1..Len(s) : t[i] = s[i]
      BY <1>3, <1>10, AppendedTop
    <2>2. Len(s) \in 1..Len(s) /\ Len(t) - 1 = Len(s) /\ Len(t) # 1
      BY <1>3, <2>1
    <2> QED BY <1>3, <2>1, <2>2
  <1>14. Step(d) = Left(d)
    BY <1>9, <1>12, <1>13 DEF Step
  <1> DEFINE frame == Merged(Noted(f), r)
  <1>15. Left(d) = [d EXCEPT !.stack = Append(Front(stack), frame)]
    BY <1>3, <1>12, <1>13 DEF Left
  <1>16. frame = Advanced(Noted(f), cache[f])
    <2>1. cache[f] \in Seq(OutLines)
      BY DEF TypeInv, Reuse
    <2>2. /\ frame \in Frames /\ frame.file = Noted(f).file /\ frame.next = Noted(f).next + 1
          /\ frame.conds = Noted(f).conds /\ frame.out = Noted(f).out \o cache[f]
          /\ frame.included = Noted(f).included
      <3>1. /\ frame \in Frames /\ frame.file = Noted(f).file /\ frame.next = Noted(f).next + 1
            /\ frame.conds = Noted(f).conds /\ frame.out = Noted(f).out \o r.out
            /\ frame.included = Noted(f).included \cup r.included \cup {r.file}
        BY <1>1, <1>10, MergedType
      <3>2. Noted(f).included \cup r.included \cup {r.file} = Noted(f).included
        BY <1>1, <1>10
      <3> QED BY <1>9, <3>1, <3>2
    <2> DEFINE after == Advanced(Noted(f), cache[f])
    <2>3. /\ after \in Frames /\ after.file = Noted(f).file /\ after.next = Noted(f).next + 1
          /\ after.conds = Noted(f).conds /\ after.out = Noted(f).out \o cache[f]
          /\ after.included = Noted(f).included
      BY <1>1, <2>1, AdvancedType
    <2> HIDE DEF frame, after
    <2>4. frame = after
      BY <2>2, <2>3, SameFields
    <2> QED BY <2>4 DEF after
  <1>17. stack' = Append(Front(stack), frame)
    BY <1>16 DEF Reuse, Continue, Advanced
  <1> HIDE DEF frame
  <1>18. Left(d) = Now'
    <2>1. d = [stack |-> t, seen |-> seen', guarded |-> guarded', total |-> total',
               rejected |-> rejected, cut |-> cut]
      BY <1>8
    <2>2. rejected' = rejected /\ cut' = cut
      BY DEF Reuse
    <2> HIDE DEF d
    <2> QED BY <1>15, <1>17, <2>1, <2>2 DEF Now
  <1>19. Step(d) \in After(start)
    BY <1>5, <1>11, AfterIsReached
  <1> QED BY <1>14, <1>18, <1>19

\* A file that is not blanked as one that is known is not the one that includes it.
LEMMA AnotherFile ==
  ASSUME TypeInv, OpenedInv, stack # << >>, NEW f \in Files, f \in rejected \/ ~Known(f)
  PROVE  f # Top.file /\ (f \notin rejected => f \notin Opened)
  <1>1. Top.file \in Opened
    BY TopIsFrame DEF Opened
  <1> QED BY <1>1 DEF OpenedInv, Known

LEMMA LeavesReplaced ==
  ASSUME TypeInv, LeavesInv, stack # << >>, NEW x \in Frames, IsLeaf(x) => x \in LeafFrames(x.file),
         stack' = Append(Front(stack), x)
  PROVE  LeavesIn(stack')
  <1>1. /\ stack' \in Seq(Frames) /\ Len(stack') = Len(stack)
        /\ \A i \in 1..Len(stack) : stack'[i] = IF i = Len(stack) THEN x ELSE stack[i]
    BY TopReplaced DEF TypeInv
  <1>2. DOMAIN stack' = 1..Len(stack) /\ DOMAIN stack = 1..Len(stack)
    BY <1>1, LenProperties, TopIsFrame
  <1> QED BY <1>1, <1>2 DEF LeavesInv, LeavesIn

LEMMA LeavesStep ==
  ASSUME TypeInv, StackInv(stack), OpenedInv, LeavesInv, [Next]_vars
  PROVE  LeavesIn(stack')
  <1>1. \A x \in Frames : LeafStep(x) \in Frames
    BY LeafStepType
  <1>2. CASE Begin
    <2>1. Unit \in Files /\ stack' = <<Frame(Unit)>>
      BY <1>2, UnitIsFile DEF Begin
    <2>2. /\ DOMAIN <<Frame(Unit)>> = {1} /\ <<Frame(Unit)>>[1] = Frame(Unit)
          /\ Frame(Unit).file = Unit /\ Frame(Unit) \in LeafFrames(Unit)
      BY <1>1, <2>1, LeafFramesReached DEF Frame
    <2> QED BY <2>1, <2>2 DEF LeavesIn
  <1>3. CASE CopyText \/ PassInactive \/ Conditional
    <2>1. PICK what \in {"text", "include", "if", "elif", "else", "endif"} :
            Reads(what) /\ (what = "include" => ~Active(Top))
      BY <1>3 DEF CopyText, PassInactive, Conditional
    <2>2. stack # << >> /\ ~Ends(Top) /\ LineOf(Top).is = what /\ Step(Now) = OnTop(Now, Passed(Top))
      BY <2>1, NowReads
    <2>3. Top \in Frames /\ Len(stack) \in DOMAIN stack /\ Top = stack[Len(stack)]
      BY <2>2, TopIsFrame
    <2>4. Passed(Top) = LeafStep(Top)
      BY <2>1, <2>2 DEF LeafStep
    <2>5. Passed(Top) \in Frames /\ Passed(Top).file = Top.file /\ Passed(Top).included = Top.included
      BY <2>2, <2>3, PassedType
    <2>6. IsLeaf(Passed(Top)) => Passed(Top) \in LeafFrames(Top.file)
      <3>1. Top.file \in Files
        BY <2>3 DEF Frames
      <3>2. IsLeaf(Top) => Top \in LeafFrames(Top.file)
        BY <2>3 DEF LeavesInv, LeavesIn
      <3> QED BY <1>1, <2>4, <2>5, <3>1, <3>2, LeafFramesReached DEF IsLeaf
    <2>7. stack' = Append(Front(stack), Passed(Top))
      <3>1. Now' = OnTop(Now, Passed(Top))
        BY <1>3, <2>2, NowPasses
      <3>2. Now'.stack = stack'
        BY DEF Now
      <3>3. OnTop(Now, Passed(Top)).stack = Append(Front(stack), Passed(Top))
        BY NowOnTop
      <3> QED BY <3>1, <3>2, <3>3
    <2> QED BY <2>2, <2>5, <2>6, <2>7, LeavesReplaced
  <1>4. ASSUME NEW f \in Files,
               PassRejected(f) \/ BlankKnown(f) \/ Reject(f) \/ PassUnreadable(f) \/ BlankGuarded(f) \/ TooDeep(f)
        PROVE  LeavesIn(stack')
    <2>1. IncludesNow(f) /\ Reads("include") /\ Active(Top) /\ Line.of = f
      BY <1>4 DEF PassRejected, BlankKnown, Reject, PassUnreadable, BlankGuarded, TooDeep, IncludesNow
    <2>2. stack # << >> /\ ~Ends(Top) /\ LineOf(Top) = Line /\ Line.is = "include"
      BY <2>1, NowReads
    <2>3. Top \in Frames /\ Len(stack) \in DOMAIN stack /\ Top = stack[Len(stack)] /\ Top.file \in Files
      BY <2>2, TopIsFrame DEF Frames
    <2>4. CASE BlankKnown(f)
      <3>1. stack' = Append(Front(stack), BlankedAt(Top, f))
        BY <2>1, <2>4, NowIncludes DEF BlankKnown
      <3>2. /\ BlankedAt(Top, f) \in Frames /\ BlankedAt(Top, f).file = Top.file
            /\ BlankedAt(Top, f).included = Top.included \cup {f}
        BY <2>3, NotedType
      <3>3. ASSUME IsLeaf(BlankedAt(Top, f)) PROVE BlankedAt(Top, f) \in LeafFrames(Top.file)
        <4>1. f = Top.file /\ IsLeaf(Top)
          BY <3>2, <3>3 DEF IsLeaf
        <4>2. Top \in LeafFrames(Top.file)
          BY <2>3, <4>1 DEF LeavesInv, LeavesIn
        <4>3. BlankedAt(Top, f) = LeafStep(Top)
          BY <2>1, <2>2, <4>1 DEF LeafStep
        <4> QED BY <1>1, <2>3, <4>2, <4>3, LeafFramesReached
      <3> QED BY <2>2, <3>1, <3>2, <3>3, LeavesReplaced
    <2>5. CASE ~BlankKnown(f)
      <3>1. f # Top.file
        BY <1>4, <2>2, <2>5, AnotherFile DEF PassRejected, Reject, PassUnreadable, BlankGuarded, TooDeep, Enterable
      <3>2. PICK x \in {LeftAt(Top, f), BlankedAt(Top, f)} : stack' = Append(Front(stack), x)
        BY <1>4, <2>1, <2>5, NowIncludes DEF PassRejected, Reject, PassUnreadable, BlankGuarded, TooDeep
      <3>3. x \in Frames /\ x.file = Top.file /\ x.included = Top.included \cup {f}
        <4>1. CASE x = LeftAt(Top, f)
          BY <2>3, <4>1, NotedType
        <4>2. CASE x = BlankedAt(Top, f)
          BY <2>3, <4>2, NotedType
        <4> QED BY <3>2, <4>1, <4>2
      <3>4. ~IsLeaf(x)
        BY <3>1, <3>3 DEF IsLeaf
      <3> QED BY <2>2, <3>2, <3>3, <3>4, LeavesReplaced
    <2> QED BY <2>4, <2>5
  <1>5. ASSUME NEW f \in Files, Reuse(f) PROVE LeavesIn(stack')
    <2>1. stack # << >> /\ f # Top.file
      <3>1. stack # << >>
        BY <1>5 DEF Reuse, IncludesNow, Reads
      <3> QED BY <1>5, <3>1, AnotherFile DEF Reuse, Expandable, Enterable
    <2>2. /\ Noted(f) \in Frames /\ Noted(f).file = Top.file /\ Noted(f).included = Top.included \cup {f}
          /\ cache[f] \in Seq(OutLines)
      BY <1>5, ReuseShape DEF SameText
    <2> DEFINE x == Advanced(Noted(f), cache[f])
    <2>3. x \in Frames /\ x.file = Top.file /\ x.included = Top.included \cup {f}
      BY <2>2, AdvancedType
    <2>4. stack' = Append(Front(stack), x)
      BY <1>5 DEF Reuse, Continue, Advanced
    <2> HIDE DEF x
    <2>5. ~IsLeaf(x)
      BY <2>1, <2>3 DEF IsLeaf
    <2> QED BY <2>1, <2>3, <2>4, <2>5, LeavesReplaced
  <1>6. ASSUME NEW f \in Files, Enter(f) PROVE LeavesIn(stack')
    <2>1. stack # << >> /\ f # Top.file
      <3>1. stack # << >>
        BY <1>6 DEF Enter, IncludesNow, Reads
      <3> QED BY <1>6, <3>1, AnotherFile DEF Enter, Expandable, Enterable
    <2> DEFINE n == Len(stack)
    <2>2. /\ n \in Nat \ {0} /\ DOMAIN stack = 1..n /\ DOMAIN stack' = 1..n + 1
          /\ \A k \in 1..n + 1 : stack'[k] = IF k = n + 1 THEN Frame(f)
                                             ELSE IF k = n THEN Noted(f) ELSE stack[k]
          /\ Noted(f).file = Top.file /\ Noted(f).included = Top.included \cup {f}
      BY <1>6, EnterShape DEF SameText
    <2>3. Frame(f) \in LeafFrames(f) /\ Frame(f).file = f
      BY <1>1, LeafFramesReached DEF Frame
    <2>4. ~IsLeaf(Noted(f))
      BY <2>1, <2>2 DEF IsLeaf
    <2> HIDE DEF n
    <2>5. \A k \in 1..n + 1 : k = n + 1 \/ k \in 1..n
      BY <2>2
    <2> QED BY <2>2, <2>3, <2>4, <2>5 DEF LeavesInv, LeavesIn
  <1>7. CASE Leave
    <2> DEFINE n == Len(stack)
               frame == Merged(stack[n - 1], Top)
    <2>1. /\ n \in Nat /\ n > 1 /\ DOMAIN stack = 1..n /\ DOMAIN stack' = 1..n - 1
          /\ \A k \in 1..n - 1 : stack'[k] = IF k = n - 1 THEN Merged(stack[k], Top) ELSE stack[k]
          /\ Top = stack[n] /\ Top \in Frames /\ stack[n - 1] \in Frames
      BY <1>7, LeaveShape
    <2>2. /\ n \in 1..n /\ n - 1 \in 1..n /\ n # n - 1 /\ \A k \in 1..n - 1 : k \in 1..n
      <3>1. n \in Nat /\ n > 1
        BY <2>1
      <3> HIDE DEF n
      <3> QED BY <3>1
    <2>3. stack[n - 1].file # Top.file
      BY <2>1, <2>2 DEF StackInv
    <2>4. frame.file = stack[n - 1].file /\ Top.file \in frame.included
      <3> DEFINE under == stack[n - 1]
      <3>1. under \in Frames /\ Top \in Frames /\ frame = Merged(under, Top)
        BY <2>1
      <3> HIDE DEF under, frame
      <3>2. /\ frame.file = under.file
            /\ frame.included = under.included \cup Top.included \cup {Top.file}
        BY <3>1, MergedType
      <3> QED BY <3>2 DEF under
    <2>5. ~IsLeaf(frame)
      BY <2>3, <2>4 DEF IsLeaf
    <2> HIDE DEF n
    <2>6. \A k \in 1..n - 1 : IsLeaf(stack'[k]) => stack'[k] \in LeafFrames(stack'[k].file)
      BY <2>1, <2>2, <2>5 DEF LeavesInv, LeavesIn
    <2> QED BY <2>1, <2>6 DEF LeavesIn
  <1>8. CASE End
    <2>1. stack' = << >> /\ DOMAIN << >> = {}
      BY <1>8 DEF End
    <2> QED BY <2>1 DEF LeavesIn
  <1>9. CASE UNCHANGED vars
    BY <1>9 DEF vars, LeavesInv, LeavesIn
  <1> QED BY <1>2, <1>3, <1>4, <1>5, <1>6, <1>7, <1>8, <1>9 DEF Next, IncludeStep, Finished

LEMMA OpenedStep ==
  ASSUME TypeInv, StackInv(stack), OpenedInv, [Next]_vars
  PROVE  OpenedInv'
  <1> DEFINE FilesOf(s) == {s[k].file : k \in DOMAIN s}
  <1>1. Opened = FilesOf(stack) /\ Opened' = FilesOf(stack')
    BY DEF Opened
  <1> HIDE DEF FilesOf
  <1>2. CASE Begin \/ End
    <2>1. CASE Begin
      <3>1. rejected' = {}
        BY <2>1 DEF Begin
      <3> QED BY <3>1 DEF OpenedInv
    <2>2. CASE End
      <3>1. stack' = << >> /\ DOMAIN << >> = {}
        BY <2>2 DEF End
      <3> QED BY <3>1 DEF OpenedInv, Opened
    <2> QED BY <1>2, <2>1, <2>2
  <1>3. ASSUME NEW frame, Passes(frame) PROVE Opened' = Opened
    <2>1. PICK line \in OutLines : \A k \in DOMAIN stack :
            stack'[k] = IF k = Len(stack) THEN Advanced(frame, <<line>>) ELSE stack[k]
      BY <1>3, PassShape
    <2>2. DOMAIN stack' = DOMAIN stack /\ stack[Len(stack)] = Top /\ frame \in Frames /\ frame.file = Top.file
      BY <1>3, PassShape, TopIsFrame DEF Passes, SameText
    <2> DEFINE w == <<line>>
    <2>3. w \in Seq(OutLines)
      OBVIOUS
    <2> HIDE DEF w
    <2>4. Advanced(frame, w).file = Top.file
      BY <2>2, <2>3, AdvancedType
    <2>5. \A k \in DOMAIN stack : stack'[k].file = stack[k].file
      BY <2>1, <2>2, <2>4 DEF w
    <2> QED BY <1>1, <2>2, <2>5 DEF FilesOf
  <1>4. CASE CopyText \/ PassInactive \/ Conditional
    <2>1. Opened' = Opened
      BY <1>3, <1>4, PassSteps
    <2> QED BY <1>4, <2>1 DEF OpenedInv, CopyText, PassInactive, Conditional, Skip, marks
  <1>5. ASSUME NEW f \in Files,
               PassRejected(f) \/ BlankKnown(f) \/ Reject(f) \/ PassUnreadable(f) \/ BlankGuarded(f) \/ TooDeep(f)
        PROVE  OpenedInv'
    <2>1. Opened' = Opened
      BY <1>3, <1>5, PassSteps
    <2>2. rejected' = rejected \/ (rejected' = rejected \cup {f} /\ f \notin Opened)
      BY <1>5 DEF PassRejected, BlankKnown, Reject, PassUnreadable, BlankGuarded, TooDeep, Known, marks
    <2> QED BY <2>1, <2>2 DEF OpenedInv
  <1>6. ASSUME NEW f \in Files, Reuse(f) PROVE OpenedInv'
    <2>1. /\ DOMAIN stack' = DOMAIN stack /\ Noted(f) \in Frames /\ Noted(f).file = Top.file
          /\ cache[f] \in Seq(OutLines) /\ stack # << >>
          /\ \A k \in DOMAIN stack :
               stack'[k] = IF k = Len(stack) THEN Advanced(Noted(f), cache[f]) ELSE stack[k]
      BY <1>6, ReuseShape DEF SameText
    <2>2. Advanced(Noted(f), cache[f]).file = Top.file /\ Top = stack[Len(stack)]
      BY <2>1, AdvancedType, TopIsFrame
    <2>3. \A k \in DOMAIN stack : stack'[k].file = stack[k].file
      BY <2>1, <2>2
    <2>4. Opened' = Opened
      BY <1>1, <2>1, <2>3 DEF FilesOf
    <2> QED BY <1>6, <2>4 DEF Reuse, OpenedInv
  <1>7. ASSUME NEW f \in Files, Enter(f) PROVE OpenedInv'
    <2> DEFINE n == Len(stack)
    <2>1. /\ n \in Nat \ {0} /\ DOMAIN stack = 1..n /\ DOMAIN stack' = 1..n + 1
          /\ \A k \in 1..n + 1 : stack'[k] = IF k = n + 1 THEN Frame(f)
                                             ELSE IF k = n THEN Noted(f) ELSE stack[k]
          /\ Noted(f).file = Top.file /\ Top = stack[n] /\ Frame(f).file = f
      BY <1>7, EnterShape DEF SameText, Frame
    <2> HIDE DEF n
    <2>2. \A k \in 1..n + 1 : k = n + 1 \/ k \in 1..n
      BY <2>1
    <2>3. \A k \in 1..n + 1 : stack'[k].file = f \/ (k \in 1..n /\ stack'[k].file = stack[k].file)
      BY <2>1, <2>2
    <2>4. Opened' \subseteq Opened \cup {f}
      BY <1>1, <2>1, <2>3 DEF FilesOf
    <2>5. rejected' = rejected /\ f \notin rejected
      BY <1>7 DEF Enter, Expandable, Enterable
    <2> QED BY <2>4, <2>5 DEF OpenedInv
  <1>8. CASE Leave
    <2> DEFINE n == Len(stack)
    <2>1. /\ n \in Nat /\ n > 1 /\ DOMAIN stack = 1..n /\ DOMAIN stack' = 1..n - 1
          /\ \A k \in 1..n - 1 : stack'[k] = IF k = n - 1 THEN Merged(stack[k], Top) ELSE stack[k]
          /\ Top \in Frames /\ stack[n - 1] \in Frames
      BY <1>8, LeaveShape
    <2>2. Merged(stack[n - 1], Top).file = stack[n - 1].file
      BY <2>1, MergedType
    <2> HIDE DEF n
    <2>3. \A k \in 1..n - 1 : k \in 1..n /\ stack'[k].file = stack[k].file
      BY <2>1, <2>2
    <2>4. Opened' \subseteq Opened
      BY <1>1, <2>1, <2>3 DEF FilesOf
    <2> QED BY <1>8, <2>4 DEF Leave, marks, OpenedInv
  <1>9. CASE UNCHANGED vars
    BY <1>9 DEF vars, marks, OpenedInv, Opened
  <1> QED BY <1>2, <1>4, <1>5, <1>6, <1>7, <1>8, <1>9 DEF Next, IncludeStep, Finished

LEMMA WholeLeavesStep ==
  ASSUME TypeInv, LeavesInv, WholeLeavesInv, [Next]_vars
  PROVE  \A f \in DOMAIN cache' : \E r \in LeafFrames(f) : Ends(r) /\ r.out = cache'[f]
  <1>1. CASE cache' = cache
    BY <1>1 DEF WholeLeavesInv
  <1>2. CASE Begin
    <2>1. cache' = cache \/ DOMAIN cache' = {}
      BY <1>2 DEF Begin, NoCache
    <2> QED BY <1>1, <2>1
  <1>3. CASE Leave
    <2>1. /\ Top \in Frames /\ Len(stack) \in DOMAIN stack /\ Top = stack[Len(stack)]
      <3>1. stack # << >>
        BY <1>3, LenProperties, EmptySeq DEF Leave, TypeInv
      <3> QED BY <3>1, TopIsFrame
    <2>2. Ends(Top)
      BY <1>3 DEF Leave, Ends
    <2>3. IsLeaf(Top) => Top \in LeafFrames(Top.file)
      BY <2>1 DEF LeavesInv, LeavesIn
    <2>4. CASE /\ IsLeaf(Top) /\ DOMAIN cache' = DOMAIN cache \cup {Top.file} /\ cache'[Top.file] = Top.out
               /\ \A f \in DOMAIN cache : f # Top.file => cache'[f] = cache[f]
      BY <2>2, <2>3, <2>4 DEF WholeLeavesInv
    <2> QED BY <1>1, <1>3, <2>4, CachedByLeave
  <1> QED BY <1>1, <1>2, <1>3
      DEF Next, CopyText, PassInactive, Skip, Conditional, IncludeStep,
          PassRejected, BlankKnown, Reject, PassUnreadable, BlankGuarded, TooDeep, Reuse, Enter,
          End, Finished, vars

\* The next state of the unit at hand, and where it ends.
LEMMA RunsOnStep ==
  ASSUME TypeInv, RunsOn, ScanInv, WholeLeavesInv, [Next]_vars
  PROVE  /\ stack' # << >> => Now' \in After(Start(Unit'))
         /\ ScanInv'
  <1>1. stack # << >> => Start(Unit) \in States
    BY UnitInFiles, StartType
  <1>2. \A x \in States : Step(x) \in States
    BY StepType
  <1>3. stack # << >> /\ Now' = Step(Now) => Now' \in After(Start(Unit))
    BY <1>1, <1>2, AfterIsReached DEF RunsOn
  <1>4. ASSUME UNCHANGED <<outs, scan>>, stack # << >>, Now' \in After(Start(Unit))
        PROVE  (stack' # << >> => Now' \in After(Start(Unit'))) /\ ScanInv'
    BY <1>4 DEF ScanInv, Unit
  <1>5. CASE Begin
    <2>1. /\ stack' = <<Frame(Unit)>> /\ Unit' = Unit /\ UNCHANGED <<outs, scan>>
      BY <1>5 DEF Begin, Unit, input
    <2>2. Now' = Start(Unit)
      BY <1>5, <2>1 DEF Begin, Now, Start
    <2>3. Start(Unit) \in After(Start(Unit))
      BY <1>2, <1>5, UnitIsFile, StartType, AfterIsReached
    <2>4. ScanInv'
      BY <1>5, <2>1 DEF Begin, ScanInv
    <2> QED BY <2>1, <2>2, <2>3, <2>4
  <1>6. CASE CopyText \/ PassInactive \/ Conditional
    <2>1. stack # << >> /\ UNCHANGED <<outs, scan>>
      BY <1>6 DEF CopyText, PassInactive, Conditional, Reads, Skip, input
    <2> QED BY <1>3, <1>4, <1>6, <2>1, NowPasses
  <1>7. ASSUME NEW f \in Files,
               \/ PassRejected(f) \/ BlankKnown(f) \/ Reject(f) \/ PassUnreadable(f)
               \/ BlankGuarded(f) \/ TooDeep(f) \/ Enter(f)
        PROVE  (stack' # << >> => Now' \in After(Start(Unit'))) /\ ScanInv'
    <2>1. stack # << >> /\ UNCHANGED <<outs, scan>>
      BY <1>7 DEF PassRejected, BlankKnown, Reject, PassUnreadable, BlankGuarded, TooDeep, Enter,
                  IncludesNow, Reads, input
    <2> QED BY <1>3, <1>4, <1>7, <2>1, NowIncluded
  <1>8. ASSUME NEW f \in Files, Reuse(f)
        PROVE  (stack' # << >> => Now' \in After(Start(Unit'))) /\ ScanInv'
    <2>1. stack # << >> /\ UNCHANGED <<outs, scan>>
      BY <1>8 DEF Reuse, IncludesNow, Reads, input
    <2>2. Now' \in After(Start(Unit))
      BY <1>1, <1>8, <2>1, ReuseFollows DEF RunsOn
    <2> QED BY <1>4, <2>1, <2>2
  <1>9. CASE Leave
    <2>1. stack # << >> /\ UNCHANGED <<outs, scan>>
      <3>1. stack # << >>
        BY <1>9, LenProperties, EmptySeq DEF Leave, TypeInv
      <3> QED BY <1>9, <3>1 DEF Leave, input
    <2> QED BY <1>3, <1>4, <1>9, <2>1, NowLeaves
  <1>10. CASE End
    <2>1. stack' = << >> /\ outs' = Append(outs, Top.out) /\ scan' = scan /\ stack # << >>
      <3>1. Len(stack) = 1 /\ Len(<< >>) = 0
        BY <1>10 DEF End
      <3>2. stack # << >>
        BY <3>1
      <3> QED BY <1>10, <3>2 DEF End, input
    <2>2. Len(outs') = Len(outs) + 1 /\ Len(outs) \in Nat /\ Len(scan) \in Nat
      <3>1. Top.out \in Seq(OutLines)
        BY <2>1, TopIsFrame DEF Frames
      <3> QED BY <2>1, <3>1, AppendProperties, LenProperties DEF TypeInv, InputInv
    <2> QED BY <2>1, <2>2 DEF ScanInv
  <1>11. CASE UNCHANGED vars
    BY <1>11 DEF vars, marks, input, Now, RunsOn, ScanInv, Unit
  <1> QED BY <1>5, <1>6, <1>7, <1>8, <1>9, <1>10, <1>11 DEF Next, IncludeStep, Finished

LEMMA OutsStep ==
  ASSUME TypeInv, RunsOn, ScanInv, OutsInv, [Next]_vars
  PROVE  \A k \in DOMAIN outs' : \E d \in After(Start(scan[k].unit)) :
           Len(d.stack) = 1 /\ Ends(Last(d.stack)) /\ Last(d.stack).out = outs'[k]
  <1>1. CASE outs' = outs
    BY <1>1 DEF OutsInv
  <1>2. CASE End
    <2>1. stack # << >> /\ outs' = Append(outs, Top.out) /\ Len(stack) = 1 /\ Ends(Top)
      <3>1. Len(stack) = 1 /\ Len(<< >>) = 0
        BY <1>2 DEF End
      <3>2. stack # << >>
        BY <3>1
      <3> QED BY <1>2, <3>1, <3>2 DEF End, Ends
    <2>2. outs \in Seq(Seq(OutLines)) /\ Top.out \in Seq(OutLines)
      BY <2>1, TopIsFrame DEF TypeInv, Frames
    <2>3. /\ DOMAIN outs' = 1..Len(outs) + 1 /\ outs'[Len(outs) + 1] = Top.out /\ Len(outs) \in Nat
          /\ DOMAIN outs = 1..Len(outs) /\ \A k \in 1..Len(outs) : outs'[k] = outs[k]
      BY <2>1, <2>2, AppendedTop, LenProperties
    <2>4. Now \in After(Start(scan[Len(outs) + 1].unit)) /\ Now.stack = stack /\ Last(stack) = Top
      BY <2>1 DEF RunsOn, Unit, Now, Top
    <2>5. \A k \in 1..Len(outs) + 1 : k \in 1..Len(outs) \/ k = Len(outs) + 1
      BY <2>3
    <2> QED BY <2>1, <2>3, <2>4, <2>5 DEF OutsInv
  <1> QED BY <1>1, <1>2
      DEF Next, Begin, CopyText, PassInactive, Skip, Conditional, IncludeStep,
          PassRejected, BlankKnown, Reject, PassUnreadable, BlankGuarded, TooDeep, Reuse, Enter,
          Leave, Finished, vars

LEMMA RepeatStep == TypeInv /\ StackInv(stack) /\ RepeatInv /\ [Next]_vars => RepeatInv'
  <1> SUFFICES ASSUME TypeInv, StackInv(stack), RepeatInv, [Next]_vars PROVE RepeatInv'
    OBVIOUS
  <1>1. UNCHANGED <<body, kind, depth, budget, scan>>
    BY InputStays
  <1>2. /\ \A c : After(c)' = After(c)
        /\ \A f : Start(f)' = Start(f) /\ LeafFrames(f)' = LeafFrames(f)
        /\ \A r : Ends(r)' <=> Ends(r)
    BY <1>1, PrimedExpander
  <1>3. RunsOn' /\ ScanInv'
    BY <1>2, RunsOnStep DEF RepeatInv, RunsOn
  <1>4. OpenedInv'
    BY OpenedStep DEF RepeatInv
  <1>5. LeavesInv'
    BY <1>2, LeavesStep DEF RepeatInv, LeavesInv, LeavesIn, IsLeaf
  <1>6. WholeLeavesInv'
    BY <1>2, WholeLeavesStep DEF RepeatInv, WholeLeavesInv
  <1>7. OutsInv'
    BY <1>1, <1>2, OutsStep DEF RepeatInv, OutsInv
  <1> QED BY <1>3, <1>4, <1>5, <1>6, <1>7 DEF RepeatInv

LEMMA RepeatInvRepeats == TypeInv /\ RepeatInv => Repeatable
  <1> SUFFICES ASSUME TypeInv, RepeatInv, NEW j \in DOMAIN outs, NEW k \in DOMAIN outs,
                      scan[j].unit = scan[k].unit
               PROVE  outs[j] = outs[k]
    BY DEF Repeatable
  <1> DEFINE c == Start(scan[j].unit)
  <1>1. PICK d \in After(c) : Len(d.stack) = 1 /\ Ends(Last(d.stack)) /\ Last(d.stack).out = outs[j]
    BY DEF RepeatInv, OutsInv
  <1>2. PICK e \in After(c) : Len(e.stack) = 1 /\ Ends(Last(e.stack)) /\ Last(e.stack).out = outs[k]
    BY DEF RepeatInv, OutsInv
  <1>3. Step(d) = d /\ Step(e) = e
    BY <1>1, <1>2 DEF Step
  <1>4. c \in States /\ \A x \in States : Step(x) \in States
    BY UnitInFiles, StartType, StepType DEF RepeatInv
  <1> HIDE DEF c
  <1>5. d = e
    BY <1>3, <1>4, OneEnd
  <1> QED BY <1>1, <1>2, <1>5

\* A unit that is expanded again, in another scan or after others have filled the
\* cache of leaf headers, gives the same lines: with or without the cache each unit
\* is what the expander without one makes of it.
THEOREM UnitsRepeat == Spec => []Repeatable
  <1>1. Init => RepeatInv
    <2> SUFFICES ASSUME Init PROVE RepeatInv
      OBVIOUS
    <2>1. stack = << >> /\ outs = << >> /\ DOMAIN stack = {} /\ DOMAIN outs = {} /\ DOMAIN cache = {}
          /\ rejected = {} /\ Len(outs) = 0
      BY DEF Init, NoCache
    <2>2. Len(scan) \in Nat
      BY TypeInit, LenProperties DEF TypeInv, InputInv
    <2> QED BY <2>1, <2>2 DEF RepeatInv, RunsOn, ScanInv, OpenedInv, LeavesInv, LeavesIn, WholeLeavesInv, OutsInv
  <1>2. GuardInv /\ RepeatInv /\ [Next]_vars => RepeatInv'
    BY RepeatStep DEF GuardInv
  <1>3. GuardInv /\ RepeatInv => Repeatable
    BY RepeatInvRepeats DEF GuardInv
  <1> QED BY <1>1, <1>2, <1>3, GuardInvariant, PTL DEF Spec

=====
