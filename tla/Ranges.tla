-------------------------------- MODULE Ranges --------------------------------
(***************************************************************************)
(* IntegerRange and the conversions of C integers (cfg/integer_ranges.py,  *)
(* ast_analyzer/integer_types.py).  A range is a pair of inclusive bounds; *)
(* NoBound and -NoBound stand for None.  The types are narrow: int has     *)
(* Half values on either side of zero, unsigned as many in all, short half *)
(* as many.                                                                *)
(***************************************************************************)
EXTENDS Integers

CONSTANTS Half, NoBound
ASSUME BoundsAssumption == Half \in Nat \ {0} /\ Half % 2 = 0
                            /\ NoBound \in Nat /\ NoBound > 4 * Half

TypeRange(t) == CASE t = "int" -> <<-Half, Half - 1>>
                  [] t = "unsigned" -> <<0, 2 * Half - 1>>
                  [] t = "short" -> <<-(Half \div 2), Half \div 2 - 1>>

Ranges == {r \in (-NoBound..NoBound) \X (-NoBound..NoBound) : r[1] <= r[2]}

\* None instead of a range: nothing is known.
Unknown == <<>>

Lesser(x, y) == IF x < y THEN x ELSE y
Greater(x, y) == IF x < y THEN y ELSE x

In(x, r) == r = Unknown \/ (r[1] <= x /\ x <= r[2])
Singleton(r) == r # Unknown /\ r[1] = r[2]
Bounded(r) == -NoBound < r[1] /\ r[2] < NoBound

Intersect(r, s) == LET i == <<Greater(r[1], s[1]), Lesser(r[2], s[2])>>
                   IN IF i[1] > i[2] THEN Unknown ELSE i

Hull(r, s) == <<Lesser(r[1], s[1]), Greater(r[2], s[2])>>

FitsWithin(r, d) == Bounded(r) /\ d[1] <= r[1] /\ r[2] <= d[2]

\* A bound that moves is given up.
Widen(previous, current) ==
  <<IF current[1] < previous[1] THEN -NoBound ELSE current[1],
    IF current[2] > previous[2] THEN NoBound ELSE current[2]>>

Promoted(t) == IF t = "short" THEN "int" ELSE t
UsualType(t1, t2) == IF "unsigned" \in {t1, t2} THEN "unsigned" ELSE "int"

\* _clamp_to_type.
Clamp(r, t) == IF FitsWithin(r, TypeRange(t)) THEN r ELSE TypeRange(t)

-----------------------------------------------------------------------------
(* Operators of C on integers without conversions.                         *)

Compare(op, a, b) == CASE op = "<" -> a < b [] op = "<=" -> a <= b [] op = ">" -> a > b
                       [] op = ">=" -> a >= b [] op = "==" -> a = b [] op = "!=" -> a # b

Opposite(op) == CASE op = "<" -> ">=" [] op = "<=" -> ">" [] op = ">" -> "<="
                  [] op = ">=" -> "<" [] op = "==" -> "!=" [] op = "!=" -> "=="
Mirrored(op) == CASE op = "<" -> ">" [] op = "<=" -> ">=" [] op = ">" -> "<"
                  [] op = ">=" -> "<=" [] OTHER -> op

Bit(b) == IF b THEN 1 ELSE 0

\* _constant_predicate, of a comparison in the common type t; nothing if a
\* value does not fit it.
ComparedIn(t, op, a, b) ==
  IF t = "unsigned" THEN <<Bit(Compare(op, a % (2 * Half), b % (2 * Half)))>>
  ELSE IF In(a, TypeRange(t)) /\ In(b, TypeRange(t)) THEN <<Bit(Compare(op, a, b))>> ELSE Unknown

\* What a comparison with n says of its other side.
Bound(op, n) == CASE op = "<" -> <<-NoBound, n - 1>> [] op = "<=" -> <<-NoBound, n>>
                  [] op = ">" -> <<n + 1, NoBound>> [] op = ">=" -> <<n, NoBound>> [] op = "==" -> <<n, n>>

Sum(r, s) == <<r[1] + s[1], r[2] + s[2]>>
Difference(r, s) == <<r[1] - s[2], r[2] - s[1]>>
Negated(r) == <<-r[2], -r[1]>>
=============================================================================
