------------------------- MODULE Algorithms_proofs -------------------------
(***************************************************************************)
(* What two algorithms of the analyzer promise for inputs of every size:   *)
(*  - the operators on integer ranges, for types of every width: none of   *)
(*    them loses a value, comparisons are exact where they are decided,    *)
(*    and widening can change a range at most twice;                       *)
(*  - the finalisation of findings, for any number of files, profiles,     *)
(*    columns and messages: no finding is lost or reported twice, with     *)
(*    deduplication a precise site is one row, and what is found again by  *)
(*    another file or under another profile adds nothing.                  *)
(* The second goes over sequences, sorted and cut up and put together      *)
(* again, so it begins with what is needed of numbers and lists.           *)
(***************************************************************************)
EXTENDS FindingDedup, Ranges, FiniteSetTheorems, WellFoundedInduction, SequenceTheorems, TLAPS

-----------------------------------------------------------------------------
(* INTEGER RANGES                                                          *)

Types == {"int", "unsigned", "short"}

\* C's conversion of an integer to a type: modulo the number of its values.
Converted(x, t) ==
  LET d == TypeRange(t)  size == d[2] - d[1] + 1 IN d[1] + ((x - d[1]) % size)

\* How many bounds of a range have not been given up.
BoundsLeft(r) == (IF r[1] = -NoBound THEN 0 ELSE 1) + (IF r[2] = NoBound THEN 0 ELSE 1)

-----------------------------------------------------------------------------
(* The operators of the lattice.                                           *)

\* A condition that narrows a variable keeps every value that meets both
\* ranges (IntegerRange.intersect).
LEMMA IntersectKeeps ==
  ASSUME NEW r \in Ranges, NEW s \in Ranges, NEW x \in Int, In(x, r), In(x, s)
  PROVE  Intersect(r, s) # Unknown /\ In(x, Intersect(r, s))
<1>1. r # Unknown /\ s # Unknown  BY DEF Ranges, Unknown
<1>2. r[1] <= x /\ x <= r[2] /\ s[1] <= x /\ x <= s[2]  BY <1>1 DEF In
<1>3. Greater(r[1], s[1]) <= x /\ x <= Lesser(r[2], s[2])
  BY <1>2 DEF Greater, Lesser
<1>4. /\ r[1] \in Int /\ r[2] \in Int /\ s[1] \in Int /\ s[2] \in Int
  BY BoundsAssumption DEF Ranges
<1>5. Intersect(r, s) = <<Greater(r[1], s[1]), Lesser(r[2], s[2])>>
  BY <1>3, <1>4 DEF Intersect, Greater, Lesser
<1> QED  BY <1>3, <1>5 DEF In, Unknown

\* Where paths meet no value of either is lost (the hull of two ranges).
LEMMA HullCovers ==
  ASSUME NEW r \in Ranges, NEW s \in Ranges, NEW x \in Int, In(x, r) \/ In(x, s)
  PROVE  Hull(r, s) \in Ranges /\ In(x, Hull(r, s))
<1>1. r # Unknown /\ s # Unknown  BY DEF Ranges, Unknown
<1>2. /\ r[1] \in -NoBound..NoBound /\ r[2] \in -NoBound..NoBound /\ r[1] <= r[2]
      /\ s[1] \in -NoBound..NoBound /\ s[2] \in -NoBound..NoBound /\ s[1] <= s[2]
  BY DEF Ranges
<1>3. \/ r[1] <= x /\ x <= r[2]
      \/ s[1] <= x /\ x <= s[2]
  BY <1>1 DEF In
<1>4. Hull(r, s)[1] = Lesser(r[1], s[1]) /\ Hull(r, s)[2] = Greater(r[2], s[2])
  BY DEF Hull
<1>5. /\ Lesser(r[1], s[1]) <= x /\ x <= Greater(r[2], s[2])
      /\ Lesser(r[1], s[1]) \in -NoBound..NoBound /\ Greater(r[2], s[2]) \in -NoBound..NoBound
      /\ Lesser(r[1], s[1]) <= Greater(r[2], s[2])
  BY <1>2, <1>3, BoundsAssumption DEF Lesser, Greater
<1>6. Hull(r, s) \in Ranges  BY <1>5 DEF Ranges, Hull
<1> QED  BY <1>4, <1>5, <1>6 DEF In

\* Widening drops bounds, never values.
LEMMA WidenCovers ==
  ASSUME NEW p \in Ranges, NEW c \in Ranges, NEW x \in -NoBound..NoBound, In(x, c)
  PROVE  Widen(p, c) \in Ranges /\ In(x, Widen(p, c))
<1>1. c # Unknown  BY DEF Ranges, Unknown
<1>2. c[1] <= x /\ x <= c[2]  BY <1>1 DEF In
<1>3. /\ c[1] \in -NoBound..NoBound /\ c[2] \in -NoBound..NoBound /\ c[1] <= c[2]
      /\ p[1] \in -NoBound..NoBound /\ p[2] \in -NoBound..NoBound
  BY DEF Ranges
<1> DEFINE lo == IF c[1] < p[1] THEN -NoBound ELSE c[1]
           hi == IF c[2] > p[2] THEN NoBound ELSE c[2]
<1>4. Widen(p, c) = <<lo, hi>>  BY DEF Widen
<1>5. lo \in -NoBound..NoBound /\ hi \in -NoBound..NoBound /\ lo <= x /\ x <= hi /\ lo <= hi
  BY <1>2, <1>3, BoundsAssumption
<1> HIDE DEF lo, hi
<1> QED  BY <1>4, <1>5 DEF Ranges, In

\* A node whose facts are joined and widened either keeps its range or gives
\* up a bound of it for good: no range changes more than twice, and the
\* worklist of the analysis runs dry (_widen).
THEOREM WideningSpendsBounds ==
  ASSUME NEW p \in Ranges, NEW s \in Ranges
  PROVE  LET w == Widen(p, Hull(p, s)) IN w = p \/ BoundsLeft(w) < BoundsLeft(p)
<1>1. /\ p[1] \in -NoBound..NoBound /\ p[2] \in -NoBound..NoBound
      /\ s[1] \in -NoBound..NoBound /\ s[2] \in -NoBound..NoBound
      /\ p = <<p[1], p[2]>>
  BY DEF Ranges
<1>2. Hull(p, s)[1] = Lesser(p[1], s[1]) /\ Hull(p, s)[2] = Greater(p[2], s[2])
  BY DEF Hull
<1> DEFINE w == Widen(p, Hull(p, s))
<1>3. /\ w[1] = IF s[1] < p[1] THEN -NoBound ELSE p[1]
      /\ w[2] = IF s[2] > p[2] THEN NoBound ELSE p[2]
      /\ w = <<w[1], w[2]>>
  BY <1>1, <1>2, BoundsAssumption DEF Widen, Lesser, Greater
<1>4. CASE s[1] >= p[1] /\ s[2] <= p[2]
  <2>1. w[1] = p[1] /\ w[2] = p[2]  BY <1>1, <1>3, <1>4, BoundsAssumption
  <2> QED  BY <1>1, <1>3, <2>1
<1>5. CASE s[1] < p[1]
  <2>1. w[1] = -NoBound /\ p[1] # -NoBound /\ (w[2] = p[2] \/ w[2] = NoBound)
    BY <1>1, <1>3, <1>5, BoundsAssumption
  <2> QED  BY <2>1 DEF BoundsLeft
<1>6. CASE s[2] > p[2]
  <2>1. w[2] = NoBound /\ p[2] # NoBound /\ (w[1] = p[1] \/ w[1] = -NoBound)
    BY <1>1, <1>3, <1>6, BoundsAssumption
  <2> QED  BY <2>1 DEF BoundsLeft
<1> QED  BY <1>1, <1>4, <1>5, <1>6, BoundsAssumption

-----------------------------------------------------------------------------
(* Conversions.                                                            *)

\* The types have values.
LEMMA HalvesArePositive == Half \in Nat \ {0} /\ Half \div 2 \in Nat \ {0}
BY BoundsAssumption

\* The bounds of each type are integers in order.
LEMMA TypeRangeBounds ==
  ASSUME NEW t \in Types
  PROVE  /\ TypeRange(t)[1] \in Int /\ TypeRange(t)[2] \in Int
         /\ TypeRange(t)[1] <= TypeRange(t)[2]
         /\ TypeRange(t) = <<TypeRange(t)[1], TypeRange(t)[2]>>
BY HalvesArePositive DEF Types, TypeRange

\* A value that crosses a call or an assignment is still in its range: either
\* the range fits the type and the value is unchanged, or every value of the
\* type is allowed for (_clamp_to_type).
THEOREM ClampCoversConversion ==
  ASSUME NEW r \in Ranges, NEW t \in Types, NEW x \in Int, In(x, r)
  PROVE  In(Converted(x, t), Clamp(r, t))
<1> DEFINE lo == TypeRange(t)[1]
           hi == TypeRange(t)[2]
           size == hi - lo + 1
<1>1. lo \in Int /\ hi \in Int /\ lo <= hi  BY TypeRangeBounds
<1>2. size \in Int /\ size > 0  BY <1>1
<1>3. Converted(x, t) = lo + ((x - lo) % size)  BY DEF Converted
<1>4. r # Unknown /\ TypeRange(t) # Unknown
  BY TypeRangeBounds DEF Ranges, Unknown
<1> HIDE DEF lo, hi, size
<1>5. CASE FitsWithin(r, TypeRange(t))
  <2>1. lo <= r[1] /\ r[2] <= hi  BY <1>5 DEF FitsWithin, lo, hi
  <2>2. r[1] <= x /\ x <= r[2] /\ r[1] \in Int /\ r[2] \in Int
    BY <1>4, BoundsAssumption DEF In, Ranges
  <2>3. x - lo \in Int /\ 0 <= x - lo /\ x - lo < size
    BY <1>1, <2>1, <2>2 DEF size
  <2>4. \A n, m \in Int : m > 0 /\ 0 <= n /\ n < m => n % m = n  BY SMT
  <2>5. Converted(x, t) = x  BY <1>1, <1>2, <1>3, <2>3, <2>4
  <2> QED  BY <1>5, <2>5 DEF Clamp
<1>6. CASE ~FitsWithin(r, TypeRange(t))
  <2>1. \A n, m \in Int : m > 0 => n % m \in 0..(m - 1)  BY SMT
  <2>2. (x - lo) % size \in 0..(size - 1)  BY <1>1, <1>2, <2>1
  <2>3. lo <= Converted(x, t) /\ Converted(x, t) <= hi
    BY <1>1, <1>3, <2>2 DEF size
  <2> QED  BY <1>4, <1>6, <2>3 DEF Clamp, In, lo, hi
<1> QED  BY <1>5, <1>6

\* A value that a type represents is the same after conversion to it.
LEMMA FittingIsUnchanged ==
  ASSUME NEW t \in Types, NEW x \in Int, In(x, TypeRange(t))
  PROVE  Converted(x, t) = x
<1> DEFINE lo == TypeRange(t)[1]
           hi == TypeRange(t)[2]
<1>1. lo \in Int /\ hi \in Int /\ TypeRange(t) # Unknown  BY TypeRangeBounds DEF Unknown
<1>2. lo <= x /\ x <= hi  BY <1>1 DEF In
<1> HIDE DEF lo, hi
<1>3. x - lo \in Int /\ 0 <= x - lo /\ x - lo < hi - lo + 1 /\ hi - lo + 1 \in Int  BY <1>1, <1>2
<1>4. \A n, m \in Int : m > 0 /\ 0 <= n /\ n < m => n % m = n  BY SMT
<1>5. (x - lo) % (hi - lo + 1) = x - lo  BY <1>3, <1>4
<1>6. Converted(x, t) = lo + ((x - lo) % (hi - lo + 1))  BY DEF Converted, lo, hi
<1> QED  BY <1>1, <1>5, <1>6

-----------------------------------------------------------------------------
(* Comparisons: what is folded, and the bounds that a branch gives.        *)

Comparisons == {"<", "<=", ">", ">=", "==", "!="}

LEMMA OppositeNegates ==
  ASSUME NEW op \in Comparisons, NEW a \in Int, NEW b \in Int
  PROVE  Opposite(op) \in Comparisons /\ (Compare(Opposite(op), a, b) <=> ~Compare(op, a, b))
<1>1. CASE op = "<"   BY <1>1 DEF Comparisons, Opposite, Compare
<1>2. CASE op = "<="  BY <1>2 DEF Comparisons, Opposite, Compare
<1>3. CASE op = ">"   BY <1>3 DEF Comparisons, Opposite, Compare
<1>4. CASE op = ">="  BY <1>4 DEF Comparisons, Opposite, Compare
<1>5. CASE op = "=="  BY <1>5 DEF Comparisons, Opposite, Compare
<1>6. CASE op = "!="  BY <1>6 DEF Comparisons, Opposite, Compare
<1> QED  BY <1>1, <1>2, <1>3, <1>4, <1>5, <1>6 DEF Comparisons

LEMMA MirroredSwaps ==
  ASSUME NEW op \in Comparisons, NEW a \in Int, NEW b \in Int
  PROVE  Mirrored(op) \in Comparisons /\ (Compare(Mirrored(op), a, b) <=> Compare(op, b, a))
<1>1. CASE op = "<"   BY <1>1 DEF Comparisons, Mirrored, Compare
<1>2. CASE op = "<="  BY <1>2 DEF Comparisons, Mirrored, Compare
<1>3. CASE op = ">"   BY <1>3 DEF Comparisons, Mirrored, Compare
<1>4. CASE op = ">="  BY <1>4 DEF Comparisons, Mirrored, Compare
<1>5. CASE op = "=="  BY <1>5 DEF Comparisons, Mirrored, Compare
<1>6. CASE op = "!="  BY <1>6 DEF Comparisons, Mirrored, Compare
<1> QED  BY <1>1, <1>2, <1>3, <1>4, <1>5, <1>6 DEF Comparisons

\* A comparison of two constants is folded to what C makes of it, or not at
\* all: whatever the types of its sides, the answer is the one for both values
\* converted to the common type (_constant_predicate).
THEOREM FoldedComparisonsAreRight ==
  ASSUME NEW t1 \in Types, NEW t2 \in Types, NEW op \in Comparisons, NEW a \in Int, NEW b \in Int
  PROVE  LET t == UsualType(t1, t2)
         IN ComparedIn(t, op, a, b) \in {Unknown, <<Bit(Compare(op, Converted(a, t), Converted(b, t)))>>}
<1> DEFINE t == UsualType(t1, t2)
<1>1. CASE t = "unsigned"
  <2>1. TypeRange("unsigned")[1] = 0 /\ TypeRange("unsigned")[2] = 2 * Half - 1  BY DEF TypeRange
  <2>2. 2 * Half - 1 - 0 + 1 = 2 * Half /\ 2 * Half \in Int /\ 2 * Half > 0  BY HalvesArePositive
  <2>3. \A x, m \in Int : m > 0 => 0 + ((x - 0) % m) = x % m  BY SMT
  <2>4. ASSUME NEW x \in Int  PROVE Converted(x, "unsigned") = x % (2 * Half)
    <3>1. Converted(x, "unsigned") = 0 + ((x - 0) % (2 * Half - 1 - 0 + 1))  BY <2>1 DEF Converted
    <3> QED  BY <2>2, <2>3, <3>1
  <2>5. ComparedIn(t, op, a, b) = <<Bit(Compare(op, a % (2 * Half), b % (2 * Half)))>>
    BY <1>1 DEF ComparedIn
  <2>6. Converted(a, t) = a % (2 * Half) /\ Converted(b, t) = b % (2 * Half)  BY <1>1, <2>4
  <2> QED  BY <2>5, <2>6
<1>2. CASE t # "unsigned"
  <2>1. t \in Types  BY DEF UsualType, Types
  <2>2. CASE In(a, TypeRange(t)) /\ In(b, TypeRange(t))
    <3>1. Converted(a, t) = a /\ Converted(b, t) = b  BY <2>1, <2>2, FittingIsUnchanged
    <3>2. ComparedIn(t, op, a, b) = <<Bit(Compare(op, a, b))>>  BY <1>2, <2>2 DEF ComparedIn
    <3> QED  BY <3>1, <3>2
  <2>3. CASE ~(In(a, TypeRange(t)) /\ In(b, TypeRange(t)))
    <3>1. ComparedIn(t, op, a, b) = Unknown  BY <1>2, <2>3 DEF ComparedIn
    <3> QED  BY <3>1
  <2> QED  BY <2>2, <2>3
<1> QED  BY <1>1, <1>2

\* The operator of the bound that the side `truth` of a comparison gives.
Sided(op, truth) == IF truth THEN op ELSE Opposite(op)

\* A bound is neither too narrow nor too wide: the values within it are those
\* for which the comparison has the outcome of that branch.
LEMMA BoundsAreExact ==
  ASSUME NEW op \in Comparisons, NEW truth \in BOOLEAN, Sided(op, truth) # "!=",
         NEW n \in (-NoBound + 1)..(NoBound - 1), NEW x \in -NoBound..NoBound
  PROVE  /\ Bound(Sided(op, truth), n) \in Ranges
         /\ In(x, Bound(Sided(op, truth), n)) <=> (Compare(op, x, n) <=> truth)
<1> DEFINE o == Sided(op, truth)
<1>1. o \in Comparisons /\ (Compare(o, x, n) <=> (Compare(op, x, n) <=> truth))
  <2>1. x \in Int /\ n \in Int  BY BoundsAssumption
  <2>2. CASE truth   BY <2>2 DEF Sided
  <2>3. CASE ~truth  BY <2>1, <2>3, OppositeNegates DEF Sided
  <2> QED  BY <2>2, <2>3
<1>2. o # "!="  OBVIOUS
<1> HIDE DEF o
<1>3. Bound(o, n) \in Ranges /\ (In(x, Bound(o, n)) <=> Compare(o, x, n))
  <2> DEFINE lo == IF o \in {"<", "<="} THEN -NoBound ELSE IF o = ">" THEN n + 1 ELSE n
             hi == IF o \in {">", ">="} THEN NoBound ELSE IF o = "<" THEN n - 1 ELSE n
  <2>1. Bound(o, n) = <<lo, hi>>
    <3>1. CASE o = "<"   BY <3>1 DEF Bound
    <3>2. CASE o = "<="  BY <3>2 DEF Bound
    <3>3. CASE o = ">"   BY <3>3 DEF Bound
    <3>4. CASE o = ">="  BY <3>4 DEF Bound
    <3>5. CASE o = "=="  BY <3>5 DEF Bound
    <3> QED  BY <1>1, <1>2, <3>1, <3>2, <3>3, <3>4, <3>5 DEF Comparisons
  <2>2. lo \in -NoBound..NoBound /\ hi \in -NoBound..NoBound /\ lo <= hi  BY BoundsAssumption
  <2>3. lo <= x /\ x <= hi <=> Compare(o, x, n)
    <3>1. CASE o = "<"   BY <3>1, BoundsAssumption DEF Compare
    <3>2. CASE o = "<="  BY <3>2, BoundsAssumption DEF Compare
    <3>3. CASE o = ">"   BY <3>3, BoundsAssumption DEF Compare
    <3>4. CASE o = ">="  BY <3>4, BoundsAssumption DEF Compare
    <3>5. CASE o = "=="  BY <3>5, BoundsAssumption DEF Compare
    <3> QED  BY <1>1, <1>2, <3>1, <3>2, <3>3, <3>4, <3>5 DEF Comparisons
  <2> HIDE DEF lo, hi
  <2> QED  BY <2>1, <2>2, <2>3 DEF Ranges, In, Unknown
<1> QED  BY <1>1, <1>3 DEF o

\* The ranges of the types do not reach the bounds given up.
LEMMA TypesAreNarrow ==
  ASSUME NEW t \in Types, NEW x \in Int, In(x, TypeRange(t))
  PROVE  x \in (-NoBound + 1)..(NoBound - 1)
<1>1. /\ TypeRange(t) # Unknown
      /\ TypeRange(t)[1] >= -(2 * Half) /\ TypeRange(t)[2] <= 2 * Half
      /\ TypeRange(t)[1] \in Int /\ TypeRange(t)[2] \in Int
  <2>1. Half \in Nat \ {0} /\ Half \div 2 \in Nat /\ Half \div 2 <= Half  BY BoundsAssumption
  <2>2. CASE t = "int"  BY <2>1, <2>2 DEF TypeRange, Unknown
  <2>3. CASE t = "unsigned"  BY <2>1, <2>3 DEF TypeRange, Unknown
  <2>4. CASE t = "short"
    <3>1. TypeRange(t) = <<-(Half \div 2), Half \div 2 - 1>>  BY <2>4 DEF TypeRange
    <3> HIDE DEF TypeRange
    <3> QED  BY <2>1, <3>1 DEF Unknown
  <2> QED  BY <2>2, <2>3, <2>4 DEF Types
<1>2. -(2 * Half) <= x /\ x <= 2 * Half  BY <1>1, BoundsAssumption DEF In
<1> QED  BY <1>2, BoundsAssumption

\* A branch that a run can take is not lost to a comparison of a variable with
\* a constant, on whichever side the variable is: as long as the common type
\* of the comparison represents both, a value that has the outcome of the
\* branch and is in the range the variable had is in the range that is left,
\* so _comparison and _apply never find the edge infeasible.
THEOREM LiveEdgesAreKept ==
  ASSUME NEW t \in Types, NEW op \in Comparisons, NEW truth \in BOOLEAN, NEW r \in Ranges,
         NEW x \in Int, In(x, TypeRange(t)), In(x, r), NEW n \in Int, In(n, TypeRange(t))
  PROVE  /\ (Compare(op, Converted(x, t), Converted(n, t)) <=> truth) /\ Sided(op, truth) # "!="
              => LET s == Intersect(r, Bound(Sided(op, truth), n)) IN s # Unknown /\ In(x, s)
         /\ (Compare(op, Converted(n, t), Converted(x, t)) <=> truth) /\ Sided(Mirrored(op), truth) # "!="
              => LET s == Intersect(r, Bound(Sided(Mirrored(op), truth), n)) IN s # Unknown /\ In(x, s)
<1>1. Converted(x, t) = x /\ Converted(n, t) = n  BY FittingIsUnchanged
<1>2. x \in -NoBound..NoBound /\ n \in (-NoBound + 1)..(NoBound - 1)
  <2>1. x \in (-NoBound + 1)..(NoBound - 1) /\ n \in (-NoBound + 1)..(NoBound - 1)  BY TypesAreNarrow
  <2> QED  BY <2>1, BoundsAssumption
<1>3. ASSUME NEW o \in Comparisons, Sided(o, truth) # "!=", Compare(o, x, n) <=> truth
      PROVE  /\ Intersect(r, Bound(Sided(o, truth), n)) # Unknown
             /\ In(x, Intersect(r, Bound(Sided(o, truth), n)))
  <2>1. Bound(Sided(o, truth), n) \in Ranges /\ In(x, Bound(Sided(o, truth), n))
    BY <1>2, <1>3, BoundsAreExact
  <2> QED  BY <2>1, IntersectKeeps
<1>4. Mirrored(op) \in Comparisons /\ (Compare(Mirrored(op), x, n) <=> Compare(op, n, x))
  BY MirroredSwaps
<1> QED  BY <1>1, <1>3, <1>4

\* The hypothesis on the constant is not idle: an unsigned variable compared
\* with -1 equals it in C when it has the largest value, and the bound drawn
\* from the comparison leaves nothing of the variable's type (_comparison has
\* no guard for this side), at every width.
THEOREM UnsignedEqualsMinusOneIsLost ==
  LET u == 2 * Half - 1
  IN /\ In(u, TypeRange("unsigned"))
     /\ Compare("==", Converted(u, "unsigned"), Converted(-1, "unsigned"))
     /\ Intersect(TypeRange("unsigned"), Bound(Sided("==", TRUE), -1)) = Unknown
<1> DEFINE u == 2 * Half - 1
<1>1. TypeRange("unsigned") = <<0, u>> /\ u \in Int /\ u >= 0
  BY HalvesArePositive DEF TypeRange
<1>2. In(u, TypeRange("unsigned"))  BY <1>1 DEF In
<1>3. Converted(u, "unsigned") = u
  <2>1. "unsigned" \in Types  BY DEF Types
  <2> HIDE DEF u
  <2> QED  BY <1>1, <1>2, <2>1, FittingIsUnchanged
<1>4. Converted(-1, "unsigned") = u
  <2>1. \A m \in Int : m > 0 => 0 + ((-1 - 0) % m) = m - 1  BY SMT
  <2>2. u - 0 + 1 \in Int /\ u - 0 + 1 > 0 /\ (u - 0 + 1) - 1 = u  BY <1>1
  <2>3. Converted(-1, "unsigned") = 0 + ((-1 - 0) % (u - 0 + 1))  BY <1>1 DEF Converted
  <2> HIDE DEF u
  <2> QED  BY <2>1, <2>2, <2>3
<1>5. Compare("==", Converted(u, "unsigned"), Converted(-1, "unsigned"))
  BY <1>3, <1>4 DEF Compare
<1>6. Intersect(TypeRange("unsigned"), Bound(Sided("==", TRUE), -1)) = Unknown
  <2>1. Bound(Sided("==", TRUE), -1) = <<-1, -1>>  BY DEF Sided, Bound
  <2> HIDE DEF u
  <2>2. Greater(0, -1) = 0 /\ Lesser(u, -1) = -1  BY <1>1 DEF Greater, Lesser
  <2>3. Intersect(<<0, u>>, <<-1, -1>>) = IF 0 > -1 THEN Unknown ELSE <<0, -1>>
    BY <2>2 DEF Intersect
  <2>4. 0 > -1  OBVIOUS
  <2>5. Intersect(<<0, u>>, <<-1, -1>>) = Unknown  BY <2>3, <2>4
  <2> QED  BY <1>1, <2>1, <2>5
<1> QED  BY <1>2, <1>5, <1>6

-----------------------------------------------------------------------------
(* Arithmetic.                                                             *)

\* The range of a sum, a difference or a negation holds the result for every
\* pair of values of the operands' ranges (_expr_range).
THEOREM ArithmeticCovers ==
  ASSUME NEW r \in Ranges, NEW s \in Ranges, NEW x \in Int, NEW y \in Int, In(x, r), In(y, s)
  PROVE  /\ Bounded(r) /\ Bounded(s) => In(x + y, Sum(r, s)) /\ In(x - y, Difference(r, s))
         /\ Negated(r) \in Ranges /\ In(-x, Negated(r))
<1>1. r # Unknown /\ s # Unknown  BY DEF Ranges, Unknown
<1>2. /\ r[1] \in -NoBound..NoBound /\ r[2] \in -NoBound..NoBound /\ r[1] <= r[2]
      /\ s[1] \in -NoBound..NoBound /\ s[2] \in -NoBound..NoBound
  BY DEF Ranges
<1>3. r[1] <= x /\ x <= r[2] /\ s[1] <= y /\ y <= s[2]  BY <1>1 DEF In
<1>4. In(x + y, Sum(r, s))
  <2>1. r[1] + s[1] <= x + y /\ x + y <= r[2] + s[2]  BY <1>2, <1>3, BoundsAssumption
  <2> QED  BY <2>1 DEF In, Sum
<1>5. In(x - y, Difference(r, s))
  <2>1. r[1] - s[2] <= x - y /\ x - y <= r[2] - s[1]  BY <1>2, <1>3, BoundsAssumption
  <2> QED  BY <2>1 DEF In, Difference
<1>6. Negated(r) \in Ranges /\ In(-x, Negated(r))
  <2>1. /\ -r[2] <= -x /\ -x <= -r[1] /\ -r[2] <= -r[1]
        /\ -r[2] \in -NoBound..NoBound /\ -r[1] \in -NoBound..NoBound
    BY <1>2, <1>3, BoundsAssumption
  <2> QED  BY <2>1 DEF Ranges, In, Negated
<1> QED  BY <1>4, <1>5, <1>6

-----------------------------------------------------------------------------
(* FINALISATION OF FINDINGS                                                *)

-----------------------------------------------------------------------------
(* Natural numbers.                                                        *)

\* Every set of natural numbers has a least element.
LEMMA LeastNat ==
  ASSUME NEW T \in SUBSET Nat, T # {}
  PROVE  \E m \in T : \A n \in T : m <= n
<1>1. PICK k \in T : TRUE
  OBVIOUS
<1> DEFINE S == 0..k
           D == {0..n : n \in T \cap S}
<1>2. IsFiniteSet(S) /\ k \in Nat
  BY <1>1, FS_Interval
<1>3. D \subseteq SUBSET S /\ D # {}
  BY <1>1, <1>2
<1>4. IsWellFoundedOn(StrictSubsetOrdering(S), SUBSET S)
  BY <1>2, FS_StrictSubsetOrderingWellFounded, FS_FiniteSubsetsOfFinite
<1>5. PICK x \in D : \A y \in D : <<y, x>> \notin StrictSubsetOrdering(S)
  <2> HIDE DEF D, S
  <2> QED  BY <1>3, <1>4, WFMin
<1>6. PICK m \in T \cap S : x = 0..m
  BY <1>5
<1>7. \A n \in T : m <= n
  <2>1. SUFFICES ASSUME NEW n \in T, n < m PROVE FALSE
    BY <1>6
  <2>2. n \in 0..k /\ m \in 0..k
    BY <1>1, <1>6, <2>1
  <2>3. 0..n \in D /\ 0..n \subseteq 0..m /\ m \notin 0..n /\ m \in 0..m
    BY <2>1, <2>2, <1>2
  <2>4. <<0..n, x>> \in StrictSubsetOrdering(S)
    BY <2>3, <1>6, <1>3 DEF StrictSubsetOrdering
  <2> QED
    BY <2>3, <2>4, <1>5
<1> QED
  BY <1>6, <1>7

\* Induction, for a set of numbers.
LEMMA Counting ==
  ASSUME NEW n \in Nat, NEW T, 0 \in T, \A m \in 0..(n - 1) : m \in T => m + 1 \in T
  PROVE  0..n \subseteq T
<1> SUFFICES ASSUME ~(0..n \subseteq T) PROVE FALSE
  OBVIOUS
<1> DEFINE B == {m \in 0..n : m \notin T}
<1>1. B # {} /\ B \in SUBSET Nat
  OBVIOUS
<1>2. PICK m \in B : \A k \in B : m <= k
  <2> HIDE DEF B
  <2> QED  BY <1>1, LeastNat
<1>3. m # 0 /\ m \in 0..n /\ m - 1 \in 0..(n - 1)
  BY <1>2
<1>4. m - 1 \notin B
  BY <1>2, <1>3
<1> QED
  BY <1>2, <1>3, <1>4

\* A bounded one has a greatest.
LEMMA GreatestNat ==
  ASSUME NEW S \in SUBSET Nat, S # {}, NEW n \in Nat, \A x \in S : x <= n
  PROVE  \E m \in S : \A x \in S : m >= x
<1> DEFINE T == {m \in Nat : \A x \in S : x <= m}
<1>1. PICK m \in T : \A k \in T : m <= k
  BY LeastNat
<1>2. CASE m \in S
  BY <1>1, <1>2
<1>3. CASE m \notin S
  <2>1. PICK x \in S : TRUE
    OBVIOUS
  <2>2. m # 0 /\ m - 1 \in Nat
    BY <1>1, <1>3, <2>1
  <2>3. m - 1 \in T
    BY <1>1, <1>3, <2>2
  <2> QED
    BY <1>1, <2>2, <2>3
<1> QED
  BY <1>2, <1>3

Computes(f, n, S, first, step) ==
  /\ f \in [0..n -> S]
  /\ f[0] = first /\ \A m \in 1..n : f[m] = step[<<m, f[m - 1]>>]

\* A value may be computed in n steps.
LEMMA StepsExist ==
  ASSUME NEW n \in Nat, NEW S, NEW first, first \in S, NEW step, step \in [(1..n) \X S -> S]
  PROVE  \E f : Computes(f, n, S, first, step)
<1> DEFINE OK(k, f) == f[0] = first /\ \A m \in 1..k : f[m] = step[<<m, f[m - 1]>>]
           T == {k \in Nat : \E f \in [0..k -> S] : OK(k, f)}
<1>1. 0 \in T
  <2>1. [m \in 0..0 |-> first] \in [0..0 -> S] /\ OK(0, [m \in 0..0 |-> first])
    OBVIOUS
  <2> QED
    BY <2>1
<1>2. ASSUME NEW k \in 0..(n - 1), k \in T
      PROVE  k + 1 \in T
  <2>1. PICK f \in [0..k -> S] : OK(k, f)
    BY <1>2
  <2> DEFINE g == [m \in 0..(k + 1) |-> IF m = k + 1 THEN step[<<k + 1, f[k]>>] ELSE f[m]]
  <2>2. k + 1 \in 1..n /\ k \in 0..k /\ f[k] \in S
    BY <2>1
  <2>3. g \in [0..(k + 1) -> S]
    BY <2>1, <2>2
  <2>4. OK(k + 1, g)
    <3>1. g[0] = first
      BY <2>1, <1>2
    <3>2. ASSUME NEW m \in 1..(k + 1)  PROVE g[m] = step[<<m, g[m - 1]>>]
      <4>1. m - 1 \in 0..k /\ g[m - 1] = f[m - 1]
        BY <3>2, <1>2
      <4>2. CASE m = k + 1
        <5>1. m - 1 = k /\ g[m] = step[<<k + 1, f[k]>>] /\ g[m - 1] = f[k]
          BY <4>1, <4>2, <1>2
        <5> QED
          BY <4>2, <5>1
      <4>3. CASE m # k + 1
        BY <4>1, <4>3, <2>1, <1>2
      <4> QED
        BY <4>2, <4>3
    <3> QED
      BY <3>1, <3>2
  <2>5. \E h \in [0..(k + 1) -> S] : OK(k + 1, h)
    <3> HIDE DEF g, OK
    <3> QED  BY <2>3, <2>4
  <2> QED
    BY <2>5, <1>2
<1>3. 0..n \subseteq T
  <2> HIDE DEF T
  <2> QED  BY <1>1, <1>2, Counting
<1>4. n \in T
  BY <1>3
<1> QED
  BY <1>4 DEF Computes

-----------------------------------------------------------------------------
(* Lists: sequences that hold each element of a set once.                  *)

Lists(q, S) ==
  /\ q \in Seq(S)
  /\ \A x \in S : \E k \in DOMAIN q : q[k] = x
  /\ \A j, k \in DOMAIN q : q[j] = q[k] => j = k

\* x comes before y in q, and p has some elements of q in the same order.
Follows(q, x, y) == \E a, b \in DOMAIN q : a < b /\ q[a] = x /\ q[b] = y
InLine(p, q) == \A j, k \in DOMAIN p : j < k => Follows(q, p[j], p[k])

\* A strict total order on a set, by what is below each element.
Orders(below, S) ==
  /\ below \in [S -> SUBSET S]
  /\ \A x \in S : x \notin below[x]
  /\ \A x, y \in S : y \in below[x] => below[y] \subseteq below[x]
  /\ \A x, y \in S : x = y \/ x \in below[y] \/ y \in below[x]

\* Where the elements of a finite set are ordered, no two have equally many
\* below them: InOrder lists each once.
LEMMA InOrderAscends ==
  ASSUME NEW S, IsFiniteSet(S), NEW below, Orders(below, S)
  PROVE  /\ Lists(InOrder(S, below), S) /\ DOMAIN InOrder(S, below) = 1..Cardinality(S)
         /\ \A j, k \in 1..Cardinality(S) : j < k => InOrder(S, below)[j] \in below[InOrder(S, below)[k]]
<1> DEFINE n == Cardinality(S)
           rank == [x \in S |-> Cardinality(below[x]) + 1]
           o == InOrder(S, below)
<1>1. n \in Nat
  BY FS_CardinalityType
<1>2. ASSUME NEW x \in S
      PROVE  /\ IsFiniteSet(below[x]) /\ Cardinality(below[x]) \in Nat
             /\ Cardinality(below[x]) < n
  <2>1. below[x] \in SUBSET S /\ below[x] # S
    BY DEF Orders
  <2>2. /\ IsFiniteSet(below[x]) /\ Cardinality(below[x]) <= n
        /\ n = Cardinality(below[x]) => S = below[x]
    BY <2>1, FS_Subset
  <2> QED
    BY <1>1, <2>1, <2>2, FS_CardinalityType
<1>3. ASSUME NEW x \in S, NEW y \in S, y \in below[x]
      PROVE  Cardinality(below[y]) < Cardinality(below[x])
  <2>1. below[y] \in SUBSET below[x] /\ below[y] # below[x]
    BY <1>3 DEF Orders
  <2>2. /\ Cardinality(below[y]) <= Cardinality(below[x])
        /\ Cardinality(below[x]) = Cardinality(below[y]) => below[x] = below[y]
    BY <1>2, <2>1, FS_Subset
  <2> QED
    BY <1>2, <2>1, <2>2
<1>4. rank \in [S -> 1..n]
  BY <1>1, <1>2
<1>5. \A x, y \in S : rank[x] = rank[y] => x = y
  <2> SUFFICES ASSUME NEW x \in S, NEW y \in S, rank[x] = rank[y], x # y PROVE FALSE
    OBVIOUS
  <2>1. Cardinality(below[x]) = Cardinality(below[y])
    BY <1>2
  <2>2. x \in below[y] \/ y \in below[x]
    BY DEF Orders
  <2> QED
    BY <1>2, <1>3, <2>1, <2>2
<1>6. rank \in Injection(S, 1..n)
  <2> HIDE DEF rank
  <2> QED  BY <1>4, <1>5 DEF Injection, IsInjective
<1>7. \A k \in 1..n : \E x \in S : rank[x] = k
  <2> HIDE DEF rank
  <2>1. IsFiniteSet(1..n) /\ Cardinality(1..n) = n
    BY <1>1, FS_Interval
  <2>2. rank \in Surjection(S, 1..n)
    BY <1>6, <2>1, FS_Injection
  <2> QED
    BY <2>2 DEF Surjection
<1>8. \A k \in 1..n : o[k] \in S /\ rank[o[k]] = k
  <2> TAKE k \in 1..n
  <2>1. \E x \in S : Cardinality(below[x]) = k - 1
    <3>1. PICK x \in S : rank[x] = k
      BY <1>7
    <3>2. Cardinality(below[x]) = k - 1
      BY <1>2, <3>1
    <3> QED
      BY <3>2
  <2>2. o[k] = CHOOSE x \in S : Cardinality(below[x]) = k - 1
    BY DEF InOrder
  <2>3. o[k] \in S /\ Cardinality(below[o[k]]) = k - 1
    <3> HIDE DEF o
    <3> QED  BY <2>1, <2>2
  <2> HIDE DEF o
  <2> QED
    BY <2>3, <1>1
<1>9. o = [k \in 1..n |-> o[k]]
  BY DEF InOrder
<1> HIDE DEF o, rank
<1>10. o \in [1..n -> S]
  BY <1>8, <1>9
<1>11. o \in Seq(S) /\ DOMAIN o = 1..n
  BY <1>1, <1>10
<1>12. \A x \in S : \E k \in DOMAIN o : o[k] = x
  BY <1>4, <1>5, <1>8, <1>11
<1>13. \A j, k \in DOMAIN o : o[j] = o[k] => j = k
  BY <1>8, <1>11
<1>14. ASSUME NEW j \in 1..n, NEW k \in 1..n, j < k  PROVE o[j] \in below[o[k]]
  <2>1. ASSUME NEW i \in 1..n  PROVE o[i] \in S /\ Cardinality(below[o[i]]) = i - 1
    <3>1. o[i] \in S /\ rank[o[i]] = i
      BY <1>8
    <3>2. rank[o[i]] = Cardinality(below[o[i]]) + 1
      BY <3>1 DEF rank
    <3> QED
      BY <1>2, <3>1, <3>2
  <2>2. o[j] # o[k] /\ o[k] \notin below[o[j]]
    BY <1>1, <1>3, <1>14, <2>1
  <2> QED
    BY <2>1, <2>2 DEF Orders
<1>15. o = InOrder(S, below)
  BY DEF o
<1> QED
  BY <1>11, <1>12, <1>13, <1>14, <1>15 DEF Lists

LEMMA InOrderLists ==
  ASSUME NEW S, IsFiniteSet(S), NEW below, Orders(below, S)
  PROVE  Lists(InOrder(S, below), S) /\ DOMAIN InOrder(S, below) = 1..Cardinality(S)
<1> QED
  BY InOrderAscends

\* Numbers in ascending order are a list of them.
LEMMA AscendingLists ==
  ASSUME NEW S \in SUBSET Nat, IsFiniteSet(S)
  PROVE  Lists(Ascending(S), S)
<1> DEFINE below == [x \in S |-> {y \in S : y < x}]
<1>1. \A x \in S : x \in Nat /\ below[x] = {y \in S : y < x}
  OBVIOUS
<1>2. below \in [S -> SUBSET S]
  OBVIOUS
<1> HIDE DEF below
<1>3. \A x, y \in S : y \in below[x] => below[y] \subseteq below[x]
  <2> SUFFICES ASSUME NEW x \in S, NEW y \in S, y \in below[x], NEW z \in below[y]
               PROVE  z \in below[x]
    OBVIOUS
  <2>1. y < x /\ z < y /\ z \in S
    BY <1>1
  <2>2. z < x
    BY <1>1, <2>1
  <2> QED
    BY <1>1, <2>1, <2>2
<1>4. \A x, y \in S : x = y \/ x \in below[y] \/ y \in below[x]
  BY <1>1
<1>5. \A x \in S : x \notin below[x]
  BY <1>1
<1>6. Lists(InOrder(S, below), S)
  BY <1>2, <1>3, <1>4, <1>5, InOrderLists DEF Orders
<1> QED
  BY <1>6 DEF Ascending, below

\* A list in another order.
LEMMA PermutedLists ==
  ASSUME NEW S, NEW q, Lists(q, S), NEW T \in SUBSET DOMAIN q, NEW o, Lists(o, T),
         NEW U, \A i \in T : q[i] \in U, \A x \in U : \E i \in T : q[i] = x,
         NEW p, p = [k \in DOMAIN o |-> p[k]], \A k \in DOMAIN o : p[k] = q[o[k]]
  PROVE  Lists(p, U)
<1>1. o \in Seq(T) /\ q \in Seq(S)
  BY DEF Lists
<1>2. DOMAIN o = 1..Len(o) /\ Len(o) \in Nat /\ \A k \in DOMAIN o : o[k] \in T
  BY <1>1
<1>3. p \in [1..Len(o) -> U]
  BY <1>2
<1>4. p \in Seq(U) /\ DOMAIN p = DOMAIN o
  BY <1>2, <1>3
<1>5. \A x \in U : \E k \in DOMAIN p : p[k] = x
  BY <1>4 DEF Lists
<1>6. \A j, k \in DOMAIN p : p[j] = p[k] => j = k
  BY <1>2, <1>4 DEF Lists
<1> QED
  BY <1>4, <1>5, <1>6 DEF Lists

\* What a list holds, and its places.
LEMMA ListsAreFinite ==
  ASSUME NEW S, NEW q, Lists(q, S)
  PROVE  /\ IsFiniteSet(S) /\ IsFiniteSet(DOMAIN q) /\ DOMAIN q \in SUBSET Nat
         /\ DOMAIN q = 1..Len(q) /\ Len(q) \in Nat
         /\ S = {q[i] : i \in DOMAIN q} /\ S = ToSet(q)
<1>1. q \in Seq(S) /\ DOMAIN q = 1..Len(q) /\ Len(q) \in Nat /\ q \in [1..Len(q) -> S]
  BY DEF Lists
<1>2. IsFiniteSet(1..Len(q))
  BY <1>1, FS_Interval
<1>3. q \in Surjection(1..Len(q), S)
  BY <1>1 DEF Lists, Surjection
<1>4. IsFiniteSet(S)
  BY <1>2, <1>3, FS_Surjection
<1>5. S = {q[i] : i \in DOMAIN q}
  BY <1>1 DEF Lists
<1> QED
  BY <1>1, <1>2, <1>4, <1>5 DEF ToSet

\* Selecting places of a list gives a list of what is there.
LEMMA RowsAtLists ==
  ASSUME NEW S, NEW q, Lists(q, S), NEW T \in SUBSET DOMAIN q
  PROVE  Lists(RowsAt(q, T), {q[i] : i \in T})
<1>1. T \in SUBSET Nat /\ IsFiniteSet(T)
  BY ListsAreFinite, FS_Subset
<1>2. Lists(Ascending(T), T)
  BY <1>1, AscendingLists
<1>3. /\ RowsAt(q, T) = [k \in DOMAIN Ascending(T) |-> RowsAt(q, T)[k]]
      /\ \A k \in DOMAIN Ascending(T) : RowsAt(q, T)[k] = q[Ascending(T)[k]]
  BY DEF RowsAt
<1> DEFINE U == {q[i] : i \in T}
<1>4. (\A i \in T : q[i] \in U) /\ (\A x \in U : \E i \in T : q[i] = x)
  OBVIOUS
<1> HIDE DEF U
<1>5. Lists(RowsAt(q, T), U)
  BY <1>2, <1>3, <1>4, PermutedLists
<1> QED
  BY <1>5 DEF U

\* Lists of different things, one after the other.
LEMMA ConcatLists ==
  ASSUME NEW S, NEW T, S \cap T = {}, NEW p, NEW q, Lists(p, S), Lists(q, T)
  PROVE  Lists(p \o q, S \cup T)
<1>1. p \in Seq(S \cup T) /\ q \in Seq(S \cup T) /\ p \in Seq(S) /\ q \in Seq(T)
  BY DEF Lists
<1>2. /\ p \o q \in Seq(S \cup T)
      /\ Len(p) \in Nat /\ Len(q) \in Nat
      /\ DOMAIN p = 1..Len(p) /\ DOMAIN q = 1..Len(q) /\ DOMAIN (p \o q) = 1..(Len(p) + Len(q))
      /\ \A k \in 1..(Len(p) + Len(q)) : (p \o q)[k] = IF k <= Len(p) THEN p[k] ELSE q[k - Len(p)]
  BY <1>1
<1>3. ASSUME NEW x \in S \cup T  PROVE \E k \in DOMAIN (p \o q) : (p \o q)[k] = x
  <2>1. CASE x \in S
    <3>1. PICK k \in DOMAIN p : p[k] = x
      BY <2>1 DEF Lists
    <3>2. k \in 1..(Len(p) + Len(q)) /\ k <= Len(p)
      BY <1>2, <3>1
    <3> QED
      BY <1>2, <3>1, <3>2
  <2>2. CASE x \in T
    <3>1. PICK k \in DOMAIN q : q[k] = x
      BY <2>2 DEF Lists
    <3>2. k + Len(p) \in 1..(Len(p) + Len(q)) /\ ~(k + Len(p) <= Len(p)) /\ k + Len(p) - Len(p) = k
      BY <1>2, <3>1
    <3> QED
      BY <1>2, <3>1, <3>2
  <2> QED
    BY <2>1, <2>2
<1>4. ASSUME NEW j \in DOMAIN (p \o q), NEW k \in DOMAIN (p \o q), (p \o q)[j] = (p \o q)[k]
      PROVE  j = k
  <2>1. \A i \in DOMAIN (p \o q) : \/ i <= Len(p) /\ i \in DOMAIN p /\ (p \o q)[i] = p[i] /\ p[i] \in S
                                   \/ ~(i <= Len(p)) /\ i - Len(p) \in DOMAIN q
                                      /\ (p \o q)[i] = q[i - Len(p)] /\ q[i - Len(p)] \in T
    BY <1>1, <1>2
  <2>2. CASE j <= Len(p) /\ k <= Len(p)
    BY <1>4, <2>1, <2>2 DEF Lists
  <2>3. CASE ~(j <= Len(p)) /\ ~(k <= Len(p))
    <3>1. j - Len(p) = k - Len(p)
      BY <1>4, <2>1, <2>3 DEF Lists
    <3> QED
      BY <1>2, <3>1
  <2> QED
    BY <1>4, <2>1, <2>2, <2>3
<1> QED
  BY <1>2, <1>3, <1>4 DEF Lists

\* What is left of a list after its first elements.
LEMMA ExcessLists ==
  ASSUME NEW S, NEW q, Lists(q, S), NEW n \in Nat
  PROVE  Lists(Excess(q, n), {q[k] : k \in {j \in DOMAIN q : j > n}})
<1> DEFINE U == {q[k] : k \in {j \in DOMAIN q : j > n}}
           e == Excess(q, n)
<1>1. q \in Seq(S) /\ Len(q) \in Nat /\ DOMAIN q = 1..Len(q) /\ \A k \in 1..Len(q) : q[k] \in S
  BY DEF Lists
<1>2. CASE n >= Len(q)
  <2>1. e = << >> /\ U = {}
    BY <1>1, <1>2 DEF Excess
  <2> QED
    BY <2>1 DEF Lists
<1>3. CASE n < Len(q)
  <2>1. e = [k \in 1..(Len(q) - n) |-> q[n + k]]
    <3>1. e = [k \in 1..(Len(q) - (n + 1) + 1) |-> q[(n + 1) + k - 1]]
      BY <1>1, <1>3 DEF Excess
    <3>2. Len(q) - (n + 1) + 1 = Len(q) - n
      BY <1>1
    <3>3. \A k \in 1..(Len(q) - n) : (n + 1) + k - 1 = n + k
      BY <1>1
    <3> QED
      BY <3>1, <3>2, <3>3
  <2>2. \A k \in 1..(Len(q) - n) : n + k \in 1..Len(q) /\ n + k > n
    BY <1>1, <1>3
  <2>3. e \in [1..(Len(q) - n) -> U] /\ Len(q) - n \in Nat
    BY <1>1, <1>3, <2>1, <2>2
  <2>4. e \in Seq(U) /\ DOMAIN e = 1..(Len(q) - n)
    BY <2>3
  <2>5. \A x \in U : \E k \in DOMAIN e : e[k] = x
    <3> TAKE x \in U
    <3>1. PICK j \in 1..Len(q) : j > n /\ q[j] = x
      BY <1>1
    <3>2. j - n \in 1..(Len(q) - n) /\ n + (j - n) = j
      BY <1>1, <3>1
    <3> QED
      BY <2>1, <2>4, <3>1, <3>2
  <2>6. ASSUME NEW j \in DOMAIN e, NEW k \in DOMAIN e, e[j] = e[k]  PROVE j = k
    <3>1. q[n + j] = q[n + k] /\ n + j \in DOMAIN q /\ n + k \in DOMAIN q
      BY <1>1, <2>1, <2>2, <2>4, <2>6
    <3>2. n + j = n + k
      BY <3>1 DEF Lists
    <3> QED
      BY <2>4, <3>2
  <2> QED
    BY <2>4, <2>5, <2>6 DEF Lists
<1> QED
  BY <1>1, <1>2, <1>3

-----------------------------------------------------------------------------
(* Rows and their order.                                                   *)

Places == Files \X (Profiles \cup {0}) \X Nat

RowSet == [column : Columns, message : Messages, tus : SUBSET Files, token : SUBSET Profiles,
           under : SUBSET (Profiles \cup {0}), of : SUBSET Places]

Covered(S) == UNION {r.of : r \in S}

\* Columns, messages and files of rows are numbers.
LEMMA RowsAreNumbered ==
  /\ Columns \subseteq Nat /\ Messages \subseteq Nat /\ Files \subseteq Nat
  /\ \A r \in RowSet : r.column \in Nat /\ r.message \in Nat /\ r.tus \in SUBSET Nat
<1>1. Columns \subseteq Nat
  BY RowsAssumption
<1>2. Cardinality(Messages) \in Nat /\ Cardinality(Files) \in Nat
  BY RowsAssumption, FilesAssumption, FS_CardinalityType
<1>3. \A n \in Nat : 1..n \subseteq Nat
  OBVIOUS
<1>4. Messages \subseteq Nat /\ Files \subseteq Nat
  BY <1>2, <1>3, RowsAssumption, FilesAssumption
<1> QED
  BY <1>1, <1>4 DEF RowSet

\* The sort key orders rows, up to ties (_issue_representative_key).
LEMMA BeforeOrders ==
  ASSUME NEW a \in RowSet, NEW b \in RowSet, NEW c \in RowSet
  PROVE  /\ ~Before(a, a)
         /\ Before(a, b) => ~Before(b, a)
         /\ Before(a, b) /\ Before(b, c) => Before(a, c)
         /\ Before(a, b) => Before(a, c) \/ Before(c, b)
<1>1. /\ a.column \in Nat /\ b.column \in Nat /\ c.column \in Nat
      /\ a.message \in Nat /\ b.message \in Nat /\ c.message \in Nat
  BY RowsAreNumbered
<1> QED
  BY <1>1 DEF Before, IsCoarse

\* The places of a list in another order.
LEMMA OrderedPlaces ==
  ASSUME NEW S, NEW q, Lists(q, S), NEW below, Orders(below, DOMAIN q)
  PROVE  /\ Lists(InOrder(DOMAIN q, below), DOMAIN q)
         /\ DOMAIN InOrder(DOMAIN q, below) = DOMAIN q
<1>1. IsFiniteSet(DOMAIN q) /\ DOMAIN q = 1..Len(q) /\ Len(q) \in Nat
  BY ListsAreFinite
<1>2. /\ Lists(InOrder(DOMAIN q, below), DOMAIN q)
      /\ DOMAIN InOrder(DOMAIN q, below) = 1..Cardinality(DOMAIN q)
  BY <1>1, InOrderLists
<1>3. ASSUME NEW n \in Nat  PROVE Cardinality(1..n) = n
  BY FS_Interval
<1> QED
  BY <1>1, <1>2, <1>3

\* The places of rows in the order in which sorted() puts them.
SortOrder(rows) ==
  InOrder(DOMAIN rows,
          [j \in DOMAIN rows |->
             {i \in DOMAIN rows : Before(rows[i], rows[j]) \/ (~Before(rows[j], rows[i]) /\ i < j)}])

\* It is an order, and stable.
LEMMA SortedOrder ==
  ASSUME NEW S \in SUBSET RowSet, NEW rows, Lists(rows, S)
  PROVE  /\ Lists(SortOrder(rows), DOMAIN rows) /\ DOMAIN SortOrder(rows) = DOMAIN rows
         /\ Sorted(rows) = [k \in DOMAIN rows |-> rows[SortOrder(rows)[k]]]
         /\ \A j, k \in DOMAIN rows : j < k =>
              \/ Before(rows[SortOrder(rows)[j]], rows[SortOrder(rows)[k]])
              \/ /\ ~Before(rows[SortOrder(rows)[k]], rows[SortOrder(rows)[j]])
                 /\ SortOrder(rows)[j] < SortOrder(rows)[k]
<1> DEFINE D == DOMAIN rows
           first(i, j) == Before(rows[i], rows[j]) \/ (~Before(rows[j], rows[i]) /\ i < j)
           below == [j \in D |-> {i \in D : first(i, j)}]
<1>1. /\ IsFiniteSet(D) /\ D \in SUBSET Nat /\ \A x \in S : \E i \in D : rows[i] = x
      /\ \A i \in D : rows[i] \in S /\ rows[i] \in RowSet /\ i \in Nat
      /\ D = 1..Len(rows) /\ Len(rows) \in Nat
  BY ListsAreFinite
<1> HIDE DEF D
<1>2. \A i, j, k \in D : /\ ~first(i, i)
                         /\ first(i, j) /\ first(j, k) => first(i, k)
                         /\ i = j \/ first(i, j) \/ first(j, i)
  <2> TAKE i, j, k \in D
  <2>1. i \in Nat /\ j \in Nat /\ k \in Nat /\ rows[i] \in RowSet /\ rows[j] \in RowSet /\ rows[k] \in RowSet
    BY <1>1
  <2>2. /\ ~Before(rows[i], rows[i])
        /\ Before(rows[i], rows[j]) => ~Before(rows[j], rows[i])
        /\ Before(rows[i], rows[j]) /\ Before(rows[j], rows[k]) => Before(rows[i], rows[k])
        /\ Before(rows[i], rows[j]) => Before(rows[i], rows[k]) \/ Before(rows[k], rows[j])
        /\ Before(rows[j], rows[k]) => Before(rows[j], rows[i]) \/ Before(rows[i], rows[k])
        /\ Before(rows[k], rows[i]) => Before(rows[k], rows[j]) \/ Before(rows[j], rows[i])
    BY <2>1, BeforeOrders
  <2> QED
    BY <2>1, <2>2
<1>3. Orders(below, D)
  <2>1. below \in [D -> SUBSET D] /\ \A j \in D : below[j] = {i \in D : first(i, j)}
    OBVIOUS
  <2> HIDE DEF below
  <2> QED
    BY <1>2, <2>1 DEF Orders
<1> DEFINE order == InOrder(D, below)
<1>4. /\ Lists(order, D) /\ DOMAIN order = D
      /\ \A j, k \in D : j < k => order[j] \in below[order[k]]
  <2>1. ASSUME NEW n \in Nat  PROVE Cardinality(1..n) = n
    BY FS_Interval
  <2> HIDE DEF below
  <2> QED  BY <1>1, <1>3, <2>1, InOrderAscends
<1>5. Sorted(rows) = [k \in D |-> rows[order[k]]] /\ order = SortOrder(rows)
  <2>1. order = SortOrder(rows)
    BY DEF SortOrder, D
  <2>2. Sorted(rows) = [k \in D |-> rows[order[k]]]
    BY DEF Sorted, D
  <2> QED  BY <2>1, <2>2
<1>6. \A i, j \in D : i \in below[j] => first(i, j)
  OBVIOUS
<1> HIDE DEF order, below
<1>7. order \in Seq(D)
  BY <1>4 DEF Lists
<1>8. \A j, k \in D : j < k => first(order[j], order[k])
  <2> HIDE DEF first
  <2> QED  BY <1>4, <1>6, <1>7
<1> QED
  BY <1>4, <1>5, <1>8 DEF D

\* sorted() gives the same rows in another order.
LEMMA SortedLists ==
  ASSUME NEW S \in SUBSET RowSet, NEW rows, Lists(rows, S)
  PROVE  Lists(Sorted(rows), S)
<1> DEFINE p == Sorted(rows)
           o == SortOrder(rows)
<1>1. Lists(o, DOMAIN rows) /\ DOMAIN o = DOMAIN rows /\ p = [k \in DOMAIN rows |-> rows[o[k]]]
  BY SortedOrder
<1> HIDE DEF o, p
<1>2. (\A i \in DOMAIN rows : rows[i] \in S) /\ (\A x \in S : \E i \in DOMAIN rows : rows[i] = x)
  BY ListsAreFinite
<1>3. p = [k \in DOMAIN o |-> p[k]] /\ \A k \in DOMAIN o : p[k] = rows[o[k]]
  BY <1>1
<1>4. Lists(p, S)
  BY <1>1, <1>2, <1>3, PermutedLists
<1> QED
  BY <1>4 DEF p

\* The row that stands for a cluster has the place and the message of one of
\* them that no other is before, and what all of them have of the rest.
LEMMA MergedRow ==
  ASSUME NEW C \in SUBSET RowSet, IsFiniteSet(C), C # {}
  PROVE  /\ Merged(C) \in RowSet
         /\ Merged(C).of = Covered(C)
         /\ Merged(C).tus = UNION {r.tus : r \in C}
         /\ \A r \in C : r.tus \subseteq Merged(C).tus
         /\ Merged(C).token = UNION {r.token : r \in C}
         /\ Merged(C).under = MergedUnder(UNION {r.under : r \in C})
         /\ \E b \in C : /\ \A s \in C : ~Before(s, b)
                         /\ Merged(C).column = b.column /\ Merged(C).message = b.message
<1> DEFINE below(r) == {s \in C : Before(s, r)}
           ranks == {Cardinality(below(r)) : r \in C}
           best == CHOOSE r \in C : \A s \in C : ~Before(s, r)
<1>1. \A r \in C : IsFiniteSet(below(r)) /\ Cardinality(below(r)) \in Nat
  BY FS_Subset, FS_CardinalityType
<1>2. \E r \in C : \A s \in C : ~Before(s, r)
  <2>1. ranks \in SUBSET Nat /\ ranks # {}
    BY <1>1
  <2>2. PICK m \in ranks : \A n \in ranks : m <= n
    <3> HIDE DEF ranks
    <3> QED  BY <2>1, LeastNat
  <2>3. PICK r \in C : m = Cardinality(below(r))
    BY <2>2
  <2>4. ASSUME NEW s \in C, Before(s, r)  PROVE FALSE
    <3>1. below(s) \subseteq below(r) /\ s \in below(r) /\ s \notin below(s)
      BY <2>4, BeforeOrders
    <3>2. below(s) \in SUBSET below(r) /\ below(s) # below(r)
      BY <3>1
    <3> HIDE DEF below
    <3>3. Cardinality(below(s)) <= Cardinality(below(r)) /\ Cardinality(below(s)) # Cardinality(below(r))
      BY <1>1, <3>2, FS_Subset
    <3>4. Cardinality(below(r)) <= Cardinality(below(s))
      BY <2>2, <2>3
    <3> QED
      BY <1>1, <3>3, <3>4
  <2> QED
    BY <2>4
<1>3. best \in C /\ \A s \in C : ~Before(s, best)
  BY <1>2
<1> HIDE DEF best
<1>4. best \in RowSet
  BY <1>3
<1>5. /\ UNION {r.tus : r \in C} \in SUBSET Files
      /\ UNION {r.token : r \in C} \in SUBSET Profiles
      /\ UNION {r.under : r \in C} \in SUBSET (Profiles \cup {0})
      /\ UNION {r.of : r \in C} \in SUBSET Places
  BY DEF RowSet
<1>6. MergedUnder(UNION {r.under : r \in C}) \in SUBSET (Profiles \cup {0})
  BY <1>5 DEF MergedUnder, Unconditional
<1>7. Merged(C) = [best EXCEPT !.tus = UNION {r.tus : r \in C}, !.token = UNION {r.token : r \in C},
                               !.under = MergedUnder(UNION {r.under : r \in C}),
                               !.of = UNION {r.of : r \in C}]
  BY DEF Merged, best
<1>8. Merged(C) \in RowSet
  BY <1>4, <1>5, <1>6, <1>7 DEF RowSet
<1>9. /\ Merged(C).of = UNION {r.of : r \in C} /\ Merged(C).tus = UNION {r.tus : r \in C}
      /\ Merged(C).column = best.column /\ Merged(C).message = best.message
      /\ Merged(C).token = UNION {r.token : r \in C}
      /\ Merged(C).under = MergedUnder(UNION {r.under : r \in C})
  BY <1>4, <1>7 DEF RowSet
<1> QED
  BY <1>3, <1>8, <1>9 DEF Covered

-----------------------------------------------------------------------------
(* The pairing of coarse rows with precise sites.                          *)

PairStates(S) == [clusters : Seq(SUBSET S), paired : SUBSET Nat, rest : Seq(S)]

SameRows(S, m) == {r \in S : IsCoarse(r) /\ r.message = m}
SameAt(rows, m) == {i \in DOMAIN rows : IsCoarse(rows[i]) /\ rows[i].message = m}
FreeSites(s, m) == {k \in DOMAIN s.clusters \ s.paired : \E r \in s.clusters[k] : r.message = m}

\* The coarse rows of a message, and the sites free to be paired with one.
LEMMA SameAndSites ==
  ASSUME NEW S \in SUBSET RowSet, NEW rows, Lists(rows, S), NEW s \in PairStates(S), NEW m
  PROVE  LET same == RowsAt(rows, SameAt(rows, m))
             sites == Ascending(FreeSites(s, m))
         IN /\ Lists(same, SameRows(S, m))
            /\ sites \in Seq(DOMAIN s.clusters)
            /\ \A i, j \in DOMAIN sites : sites[i] = sites[j] => i = j
<1> DEFINE P == SameAt(rows, m)
           U == SameRows(S, m)
           K == FreeSites(s, m)
<1> USE DEF SameAt, FreeSites, SameRows
<1>1. Lists(RowsAt(rows, P), {rows[i] : i \in P})
  <2>1. P \in SUBSET DOMAIN rows
    OBVIOUS
  <2> HIDE DEF P
  <2> QED  BY <2>1, RowsAtLists
<1>2. {rows[i] : i \in P} = U
  <2>1. \A i \in DOMAIN rows : rows[i] \in S
    BY DEF Lists
  <2>2. \A r \in S : \E i \in DOMAIN rows : rows[i] = r
    BY DEF Lists
  <2> QED
    BY <2>1, <2>2
<1>3. Lists(Ascending(K), K)
  <2>1. s.clusters \in Seq(SUBSET S)
    BY DEF PairStates
  <2>2. DOMAIN s.clusters = 1..Len(s.clusters) /\ Len(s.clusters) \in Nat
    BY <2>1
  <2>3. IsFiniteSet(DOMAIN s.clusters) /\ DOMAIN s.clusters \subseteq Nat /\ K \in SUBSET DOMAIN s.clusters
    BY <2>2, FS_Interval
  <2> HIDE DEF K
  <2> QED  BY <2>3, FS_Subset, AscendingLists
<1>4. Ascending(K) \in Seq(DOMAIN s.clusters)
  <2>1. Ascending(K) \in Seq(K) /\ K \subseteq DOMAIN s.clusters
    BY <1>3 DEF Lists
  <2> HIDE DEF K
  <2> QED  BY <2>1
<1>5. \A i, j \in DOMAIN Ascending(K) : Ascending(K)[i] = Ascending(K)[j] => i = j
  BY <1>3 DEF Lists
<1> QED
  BY <1>1, <1>2, <1>4, <1>5

\* After the first m messages: the precise rows of a column are in one cluster,
\* and each coarse row with such a message is in a cluster or left over.
PairInv(s, S, columns, m) ==
  /\ DOMAIN s.clusters = DOMAIN columns
  /\ \A k \in DOMAIN columns : \A r \in S : r.column = columns[k] => r \in s.clusters[k]
  /\ \A k \in DOMAIN columns : \A r \in s.clusters[k] :
        r.column = columns[k] \/ (IsCoarse(r) /\ r.message \in 1..m)
  /\ \A j, k \in DOMAIN columns : \A r \in s.clusters[j] : r \in s.clusters[k] => j = k
  /\ Lists(s.rest, ToSet(s.rest))
  /\ \A r \in ToSet(s.rest) :
        /\ r \in S /\ IsCoarse(r) /\ r.message \in 1..m
        /\ \A k \in DOMAIN columns : r \notin s.clusters[k]
  /\ \A r \in S : IsCoarse(r) /\ r.message \in 1..m
        => r \in ToSet(s.rest) \/ \E k \in DOMAIN columns : r \in s.clusters[k]

\* Pairing the coarse rows of one message moves each of them to one site or to
\* those left over, and keeps the invariant.
LEMMA PairStep ==
  ASSUME NEW S \in SUBSET RowSet, NEW rows, Lists(rows, S), NEW s \in PairStates(S), NEW m \in Nat \ {0}
  PROVE  /\ Pair(s, m, rows) \in PairStates(S)
         /\ \A columns : 1 \notin ToSet(columns) /\ PairInv(s, S, columns, m - 1)
              => PairInv(Pair(s, m, rows), S, columns, m)
<1> DEFINE same == RowsAt(rows, SameAt(rows, m))
           sites == Ascending(FreeSites(s, m))
           pairs == DOMAIN same \cap DOMAIN sites
           U == SameRows(S, m)
           joining(k) == {same[i] : i \in {j \in pairs : sites[j] = k}}
           left == Excess(same, Len(sites))
           V == {same[k] : k \in {j \in DOMAIN same : j > Len(sites)}}
           t == Pair(s, m, rows)
<1>1. Lists(same, U) /\ sites \in Seq(DOMAIN s.clusters)
      /\ \A i, j \in DOMAIN sites : sites[i] = sites[j] => i = j
  BY SameAndSites
<1> USE DEF SameRows
<1>2. t = [clusters |-> [k \in DOMAIN s.clusters |-> s.clusters[k] \cup joining(k)],
           paired |-> s.paired \cup {sites[i] : i \in pairs},
           rest |-> s.rest \o left]
  BY DEF Pair, SameAt, FreeSites
<1>3. s.clusters \in Seq(SUBSET S) /\ s.paired \in SUBSET Nat /\ s.rest \in Seq(S)
  BY DEF PairStates
<1>4. DOMAIN s.clusters = 1..Len(s.clusters) /\ Len(s.clusters) \in Nat
      /\ \A k \in DOMAIN s.clusters : s.clusters[k] \in SUBSET S
  BY <1>3
<1> HIDE DEF same, sites, t
<1>5. /\ DOMAIN sites = 1..Len(sites) /\ Len(sites) \in Nat
      /\ \A i \in DOMAIN sites : sites[i] \in DOMAIN s.clusters
  BY <1>1
<1>6. same \in Seq(U) /\ DOMAIN same = 1..Len(same) /\ Len(same) \in Nat
      /\ \A i \in DOMAIN same : same[i] \in U
  BY <1>1 DEF Lists
<1>7. Lists(left, V)
  BY <1>1, <1>5, ExcessLists
<1>8. V \subseteq U /\ \A k : joining(k) \subseteq U
  BY <1>6
<1>9. U \subseteq S
  OBVIOUS
<1>10. t \in PairStates(S)
  <2>1. left \in Seq(S)
    <3>1. left \in Seq(V) /\ V \subseteq S
      BY <1>7, <1>8, <1>9 DEF Lists
    <3> HIDE DEF left, V
    <3> QED  BY <3>1
  <2>2. s.rest \o left \in Seq(S)
    <3> HIDE DEF left
    <3> QED  BY <1>3, <2>1
  <2>3. s.paired \cup {sites[i] : i \in pairs} \in SUBSET Nat
    BY <1>3, <1>4, <1>5
  <2>4. [k \in DOMAIN s.clusters |-> s.clusters[k] \cup joining(k)] \in Seq(SUBSET S)
    <3>1. \A k \in DOMAIN s.clusters : s.clusters[k] \cup joining(k) \in SUBSET S
      <4> HIDE DEF joining, U
      <4> QED  BY <1>4, <1>8, <1>9
    <3> HIDE DEF joining
    <3> QED  BY <1>4, <3>1
  <2> HIDE DEF left, pairs, joining
  <2> QED  BY <1>2, <2>2, <2>3, <2>4 DEF PairStates
<1>11. ASSUME NEW columns, 1 \notin ToSet(columns), PairInv(s, S, columns, m - 1)
       PROVE  PairInv(t, S, columns, m)
  <2>1. /\ t.clusters = [k \in DOMAIN s.clusters |-> s.clusters[k] \cup joining(k)]
        /\ t.rest = s.rest \o left
    BY <1>2
  <2>2. DOMAIN s.clusters = DOMAIN columns
    BY <1>11 DEF PairInv
  <2>3. DOMAIN t.clusters = DOMAIN columns
        /\ \A k \in DOMAIN columns : t.clusters[k] = s.clusters[k] \cup joining(k)
    BY <2>1, <2>2
  <2>4. \A r \in U : /\ r \in S /\ IsCoarse(r) /\ r.message = m
                     /\ r.message \notin 1..(m - 1) /\ r.message \in 1..m
                     /\ \A k \in DOMAIN columns : r.column # columns[k]
    BY <1>11 DEF ToSet, IsCoarse
  <2>5. \A r \in U : /\ r \notin ToSet(s.rest)
                     /\ \A k \in DOMAIN columns : r \notin s.clusters[k]
    <3> HIDE DEF U
    <3> QED  BY <2>4, <1>11 DEF PairInv
  <2>6. \A x : x \in 1..(m - 1) => x \in 1..m
    OBVIOUS
  <2>7. \A k \in DOMAIN columns : \A r \in S : r.column = columns[k] => r \in t.clusters[k]
    BY <2>3, <1>11 DEF PairInv
  <2>8. \A k \in DOMAIN columns : \A r \in t.clusters[k] :
           r.column = columns[k] \/ (IsCoarse(r) /\ r.message \in 1..m)
    <3> SUFFICES ASSUME NEW k \in DOMAIN columns, NEW r \in t.clusters[k], r.column # columns[k]
                 PROVE  IsCoarse(r) /\ r.message \in 1..m
      OBVIOUS
    <3>1. CASE r \in s.clusters[k]
      BY <2>6, <3>1, <1>11 DEF PairInv
    <3>2. CASE r \in joining(k)
      <4> HIDE DEF joining, U
      <4> QED  BY <1>8, <2>4, <3>2
    <3> HIDE DEF joining
    <3> QED  BY <2>3, <3>1, <3>2
  <2>9. \A j, k : \A r \in joining(j) : r \in joining(k) => j = k
    <3> SUFFICES ASSUME NEW j, NEW k, NEW a \in pairs, NEW b \in pairs,
                        sites[a] = j, sites[b] = k, same[a] = same[b]
                 PROVE  j = k
      OBVIOUS
    <3>1. a = b
      BY <1>1 DEF Lists
    <3> QED  BY <3>1
  <2>10. \A j, k \in DOMAIN columns : \A r \in t.clusters[j] : r \in t.clusters[k] => j = k
    <3> SUFFICES ASSUME NEW j \in DOMAIN columns, NEW k \in DOMAIN columns,
                        NEW r \in t.clusters[j], r \in t.clusters[k]
                 PROVE  j = k
      OBVIOUS
    <3> HIDE DEF joining, U
    <3>1. CASE r \in s.clusters[j] /\ r \in s.clusters[k]
      BY <3>1, <1>11 DEF PairInv
    <3>2. CASE r \in joining(j) /\ r \in joining(k)
      BY <2>9, <3>2
    <3> QED  BY <1>8, <2>3, <2>5, <3>1, <3>2
  <2>11. V \cap ToSet(s.rest) = {} /\ \A k \in DOMAIN columns : V \cap joining(k) = {}
    <3>1. V \cap ToSet(s.rest) = {}
      <4> HIDE DEF V, U
      <4> QED  BY <1>8, <2>5
    <3>2. ASSUME NEW k, NEW a \in DOMAIN same, a > Len(sites), NEW b \in pairs, same[a] = same[b]
          PROVE  FALSE
      <4>1. a = b
        BY <1>1, <3>2 DEF Lists
      <4> QED  BY <1>5, <3>2, <4>1
    <3> QED  BY <3>1, <3>2
  <2>12. Lists(t.rest, ToSet(s.rest) \cup V) /\ ToSet(t.rest) = ToSet(s.rest) \cup V
    <3>1. Lists(s.rest, ToSet(s.rest))
      BY <1>11 DEF PairInv
    <3>2. Lists(s.rest \o left, ToSet(s.rest) \cup V)
      <4> HIDE DEF left, V
      <4> QED  BY <1>7, <2>11, <3>1, ConcatLists
    <3> HIDE DEF left, V
    <3> QED  BY <2>1, <3>2, ListsAreFinite
  <2>13. Lists(t.rest, ToSet(t.rest))
    BY <2>12
  <2>14. \A r \in ToSet(t.rest) : /\ r \in S /\ IsCoarse(r) /\ r.message \in 1..m
                                  /\ \A k \in DOMAIN columns : r \notin t.clusters[k]
    <3> SUFFICES ASSUME NEW r \in ToSet(t.rest)
                 PROVE  /\ r \in S /\ IsCoarse(r) /\ r.message \in 1..m
                        /\ \A k \in DOMAIN columns : r \notin t.clusters[k]
      OBVIOUS
    <3> HIDE DEF joining, U, V
    <3>1. CASE r \in V
      BY <1>8, <2>3, <2>4, <2>5, <2>11, <3>1
    <3>2. CASE r \in ToSet(s.rest)
      <4>1. /\ r \in S /\ IsCoarse(r) /\ r.message \in 1..(m - 1)
            /\ \A k \in DOMAIN columns : r \notin s.clusters[k]
        BY <3>2, <1>11 DEF PairInv
      <4>2. r \notin U
        BY <2>5, <3>2
      <4> QED  BY <1>8, <2>3, <2>6, <4>1, <4>2
    <3> QED  BY <2>12, <3>1, <3>2
  <2>15. \A r \in S : IsCoarse(r) /\ r.message \in 1..m
           => r \in ToSet(t.rest) \/ \E k \in DOMAIN columns : r \in t.clusters[k]
    <3> SUFFICES ASSUME NEW r \in S, IsCoarse(r), r.message \in 1..m
                 PROVE  r \in ToSet(t.rest) \/ \E k \in DOMAIN columns : r \in t.clusters[k]
      OBVIOUS
    <3>1. CASE r.message \in 1..(m - 1)
      <4>1. r \in ToSet(s.rest) \/ \E k \in DOMAIN columns : r \in s.clusters[k]
        BY <3>1, <1>11 DEF PairInv
      <4> HIDE DEF joining, V
      <4> QED  BY <2>3, <2>12, <4>1
    <3>2. CASE r.message = m
      <4>1. PICK i \in DOMAIN same : same[i] = r
        BY <3>2, <1>1 DEF Lists
      <4>2. CASE i > Len(sites)
        BY <2>12, <4>1, <4>2
      <4>3. CASE ~(i > Len(sites))
        <5>1. i \in pairs
          BY <1>5, <1>6, <4>1, <4>3
        <5>2. r \in joining(sites[i]) /\ sites[i] \in DOMAIN columns
          BY <1>5, <2>2, <4>1, <5>1
        <5> HIDE DEF joining
        <5> QED  BY <2>3, <5>2
      <4> QED  BY <4>2, <4>3
    <3> QED  BY <3>1, <3>2
  <2> QED
    BY <2>3, <2>7, <2>8, <2>10, <2>13, <2>14, <2>15 DEF PairInv
<1> QED
  BY <1>10, <1>11 DEF t

PreciseColumns(S) == Ascending({r.column : r \in S} \ {1})

\* The columns of precise rows, each once.
LEMMA PreciseColumnsList ==
  ASSUME NEW S \in SUBSET RowSet, IsFiniteSet(S)
  PROVE  /\ Lists(PreciseColumns(S), {r.column : r \in S} \ {1})
         /\ 1 \notin ToSet(PreciseColumns(S))
<1> DEFINE C == {r.column : r \in S}
           f == [r \in S |-> r.column]
<1>1. f \in Surjection(S, C)
  BY DEF Surjection
<1>2. IsFiniteSet(C)
  <2> HIDE DEF f, C
  <2> QED  BY <1>1, FS_Surjection
<1>3. C \ {1} \in SUBSET Nat /\ C \ {1} \in SUBSET C
  BY RowsAreNumbered
<1> HIDE DEF C
<1>4. Lists(Ascending(C \ {1}), C \ {1})
  BY <1>2, <1>3, FS_Subset, AscendingLists
<1>5. 1 \notin ToSet(Ascending(C \ {1}))
  <2>1. C \ {1} = ToSet(Ascending(C \ {1}))
    BY <1>4, ListsAreFinite
  <2> QED
    BY <2>1
<1> QED
  BY <1>4, <1>5 DEF PreciseColumns, C

\* Before any message there is one cluster for each precise column.
LEMMA UnpairedInv ==
  ASSUME NEW S \in SUBSET RowSet, NEW rows, Lists(rows, S)
  PROVE  /\ Unpaired(rows) \in PairStates(S)
         /\ PairInv(Unpaired(rows), S, PreciseColumns(S), 0)
<1> DEFINE columns == PreciseColumns(S)
           s == Unpaired(rows)
           A == {r.column : r \in S} \ {1}
<1>1. ToSet(rows) = S /\ IsFiniteSet(S)
  BY ListsAreFinite
<1>2. s = [clusters |-> [k \in DOMAIN columns |-> {r \in S : r.column = columns[k]}],
           paired |-> {}, rest |-> << >>]
  BY <1>1 DEF Unpaired, PreciseClusters, PreciseColumns, Nothing
<1>3. Lists(columns, A)
  BY <1>1, PreciseColumnsList
<1> HIDE DEF columns, s, A
<1>4. DOMAIN columns = 1..Len(columns) /\ Len(columns) \in Nat
  BY <1>3, ListsAreFinite
<1>5. s.clusters = [k \in DOMAIN columns |-> {r \in S : r.column = columns[k]}]
      /\ s.paired = {} /\ s.rest = << >>
  BY <1>2
<1>6. s.clusters \in Seq(SUBSET S)
  BY <1>4, <1>5
<1>7. s \in PairStates(S)
  <2>1. << >> \in Seq(S)
    OBVIOUS
  <2> QED
    BY <1>2, <1>5, <1>6, <2>1 DEF PairStates
<1>8. ToSet(s.rest) = {} /\ Lists(s.rest, {})
  BY <1>5 DEF ToSet, Lists
<1>9. \A j, k \in DOMAIN columns : columns[j] = columns[k] => j = k
  BY <1>3 DEF Lists
<1>10. PairInv(s, S, columns, 0)
  <2>1. 1..0 = {}
    OBVIOUS
  <2>2. DOMAIN s.clusters = DOMAIN columns
        /\ \A k \in DOMAIN columns : s.clusters[k] = {r \in S : r.column = columns[k]}
    BY <1>5
  <2>3. \A j, k \in DOMAIN columns : \A r \in s.clusters[j] : r \in s.clusters[k] => j = k
    BY <1>9, <2>2
  <2>4. \A k \in DOMAIN columns : \A r \in s.clusters[k] : r.column = columns[k]
    BY <2>2
  <2>5. \A k \in DOMAIN columns : \A r \in S : r.column = columns[k] => r \in s.clusters[k]
    BY <2>2
  <2>6. DOMAIN s.clusters = DOMAIN columns
    BY <2>2
  <2> QED
    BY <1>8, <2>1, <2>3, <2>4, <2>5, <2>6 DEF PairInv
<1> QED
  BY <1>7, <1>10 DEF s, columns

\* The states of the pairing, message after message.
PairsUp(after, rows) ==
  /\ after[0] = Unpaired(rows)
  /\ \A m \in 1..Cardinality(Messages) : after[m] = Pair(after[m - 1], m, rows)
  /\ Paired(rows) = after[Cardinality(Messages)]

LEMMA PairedSteps ==
  ASSUME NEW S \in SUBSET RowSet, NEW rows, Lists(rows, S)
  PROVE  \E after : /\ PairsUp(after, rows)
                    /\ \A m \in 0..Cardinality(Messages) :
                         after[m] \in PairStates(S) /\ PairInv(after[m], S, PreciseColumns(S), m)
<1> DEFINE M == Cardinality(Messages)
           step == [x \in (1..M) \X PairStates(S) |-> Pair(x[2], x[1], rows)]
           after == CHOOSE f : f = [m \in 0..M |-> IF m = 0 THEN Unpaired(rows)
                                                            ELSE Pair(f[m - 1], m, rows)]
           columns == PreciseColumns(S)
           T == {m \in Nat : after[m] \in PairStates(S) /\ PairInv(after[m], S, columns, m)}
<1>1. M \in Nat
  BY RowsAssumption, FS_CardinalityType
<1>2. Paired(rows) = after[M]
  BY DEF Paired
<1>3. 1 \notin ToSet(columns)
  BY ListsAreFinite, PreciseColumnsList
<1> HIDE DEF M, columns
<1>4. \A s \in PairStates(S), m \in 1..M :
         /\ Pair(s, m, rows) \in PairStates(S)
         /\ PairInv(s, S, columns, m - 1) => PairInv(Pair(s, m, rows), S, columns, m)
  BY <1>1, <1>3, PairStep
<1>5. \E f : f = [m \in 0..M |-> IF m = 0 THEN Unpaired(rows) ELSE Pair(f[m - 1], m, rows)]
  <2>1. step \in [(1..M) \X PairStates(S) -> PairStates(S)]
    BY <1>4
  <2>2. Unpaired(rows) \in PairStates(S)
    BY UnpairedInv
  <2>3. PICK f \in [0..M -> PairStates(S)] :
           f[0] = Unpaired(rows) /\ \A m \in 1..M : f[m] = step[<<m, f[m - 1]>>]
    <3> DEFINE Q == PairStates(S)
               u == Unpaired(rows)
    <3>1. step \in [(1..M) \X Q -> Q] /\ u \in Q
      BY <2>1, <2>2
    <3> HIDE DEF step, Q, u
    <3>2. \E f : Computes(f, M, Q, u, step)
      BY <1>1, <3>1, StepsExist
    <3> QED
      BY <3>2 DEF Q, u, Computes
  <2>4. \A m \in 1..M : f[m] = Pair(f[m - 1], m, rows)
    <3> TAKE m \in 1..M
    <3>1. m - 1 \in 0..M
      BY <1>1
    <3>2. <<m, f[m - 1]>> \in (1..M) \X PairStates(S)
      BY <2>3, <3>1
    <3>3. step[<<m, f[m - 1]>>] = Pair(f[m - 1], m, rows)
      BY <3>2
    <3> QED
      BY <2>3, <3>3
  <2>5. \A m \in 0..M : f[m] = IF m = 0 THEN Unpaired(rows) ELSE Pair(f[m - 1], m, rows)
    <3> TAKE m \in 0..M
    <3>1. m = 0 \/ m \in 1..M
      BY <1>1
    <3> QED
      BY <2>3, <2>4, <3>1
  <2>6. f = [m \in 0..M |-> IF m = 0 THEN Unpaired(rows) ELSE Pair(f[m - 1], m, rows)]
    BY <2>3, <2>5
  <2> QED
    BY <2>6
<1>6. after = [m \in 0..M |-> IF m = 0 THEN Unpaired(rows) ELSE Pair(after[m - 1], m, rows)]
  BY <1>5
<1> HIDE DEF after
<1>7. 0 \in T
  <2>1. after[0] = Unpaired(rows)
    BY <1>1, <1>6
  <2> QED
    BY <2>1, UnpairedInv DEF columns
<1>8. ASSUME NEW m \in 0..(M - 1), m \in T
      PROVE  m + 1 \in T
  <2>1. m + 1 \in 1..M /\ m + 1 \in 0..M /\ m + 1 # 0 /\ (m + 1) - 1 = m
    BY <1>1
  <2>2. after[m + 1] = Pair(after[m], m + 1, rows)
    BY <1>6, <2>1
  <2>3. /\ after[m + 1] \in PairStates(S)
        /\ PairInv(after[m], S, columns, (m + 1) - 1) => PairInv(after[m + 1], S, columns, m + 1)
    BY <1>4, <1>8, <2>1, <2>2
  <2> QED
    BY <1>8, <2>1, <2>3
<1>9. 0..M \subseteq T
  <2> HIDE DEF T
  <2> QED  BY <1>1, <1>7, <1>8, Counting
<1>10. \A m \in 1..M : after[m] = Pair(after[m - 1], m, rows)
  <2> TAKE m \in 1..M
  <2>1. m \in 0..M /\ m # 0
    BY <1>1
  <2> QED
    BY <1>6, <2>1
<1>11. after[0] = Unpaired(rows)
  BY <1>1, <1>6
<1>12. PairsUp(after, rows)
  BY <1>2, <1>10, <1>11 DEF PairsUp, M
<1>13. \A m \in 0..M : after[m] \in PairStates(S) /\ PairInv(after[m], S, columns, m)
  BY <1>9
<1> HIDE DEF T
<1> QED
  BY <1>12, <1>13 DEF columns, M

\* After all messages the clusters and the rows left over hold every row once.
LEMMA PairedInv ==
  ASSUME NEW S \in SUBSET RowSet, NEW rows, Lists(rows, S)
  PROVE  /\ Paired(rows) \in PairStates(S)
         /\ PairInv(Paired(rows), S, PreciseColumns(S), Cardinality(Messages))
<1>1. PICK after : /\ PairsUp(after, rows)
                   /\ \A m \in 0..Cardinality(Messages) :
                        after[m] \in PairStates(S) /\ PairInv(after[m], S, PreciseColumns(S), m)
  BY PairedSteps
<1>2. Cardinality(Messages) \in Nat
  BY RowsAssumption, FS_CardinalityType
<1>3. Cardinality(Messages) \in 0..Cardinality(Messages)
  BY <1>2
<1> QED
  BY <1>1, <1>3 DEF PairsUp

-----------------------------------------------------------------------------
(* The clusters of a list of rows.                                         *)

\* Each element of S is in one of the sets of cl, and none of them is empty.
Clusters(cl, S) ==
  /\ cl \in Seq(SUBSET S)
  /\ \A k \in DOMAIN cl : cl[k] # {}
  /\ \A r \in S : \E k \in DOMAIN cl : r \in cl[k]
  /\ \A j, k \in DOMAIN cl : \A r \in cl[j] : r \in cl[k] => j = k

\* Clusters of different rows, one after the other.
LEMMA ConcatClusters ==
  ASSUME NEW S, NEW T, S \cap T = {}, NEW p, NEW q, Clusters(p, S), Clusters(q, T)
  PROVE  Clusters(p \o q, S \cup T)
<1>1. p \in Seq(SUBSET (S \cup T)) /\ q \in Seq(SUBSET (S \cup T)) /\ p \in Seq(SUBSET S) /\ q \in Seq(SUBSET T)
  <2>1. p \in Seq(SUBSET S) /\ q \in Seq(SUBSET T)
    BY DEF Clusters
  <2> QED
    BY <2>1
<1>2. /\ p \o q \in Seq(SUBSET (S \cup T))
      /\ Len(p) \in Nat /\ Len(q) \in Nat
      /\ DOMAIN p = 1..Len(p) /\ DOMAIN q = 1..Len(q) /\ DOMAIN (p \o q) = 1..(Len(p) + Len(q))
      /\ \A k \in 1..(Len(p) + Len(q)) : (p \o q)[k] = IF k <= Len(p) THEN p[k] ELSE q[k - Len(p)]
  BY <1>1
<1>3. \A i \in DOMAIN (p \o q) : \/ i <= Len(p) /\ i \in DOMAIN p /\ (p \o q)[i] = p[i] /\ p[i] \subseteq S
                                 \/ ~(i <= Len(p)) /\ i - Len(p) \in DOMAIN q
                                    /\ (p \o q)[i] = q[i - Len(p)] /\ q[i - Len(p)] \subseteq T
  BY <1>1, <1>2
<1>4. \A i \in DOMAIN (p \o q) : (p \o q)[i] # {}
  BY <1>3 DEF Clusters
<1>5. ASSUME NEW x \in S \cup T  PROVE \E k \in DOMAIN (p \o q) : x \in (p \o q)[k]
  <2>1. CASE x \in S
    <3>1. PICK k \in DOMAIN p : x \in p[k]
      BY <2>1 DEF Clusters
    <3>2. k \in 1..(Len(p) + Len(q)) /\ k <= Len(p)
      BY <1>2, <3>1
    <3> QED
      BY <1>2, <3>1, <3>2
  <2>2. CASE x \in T
    <3>1. PICK k \in DOMAIN q : x \in q[k]
      BY <2>2 DEF Clusters
    <3>2. k + Len(p) \in 1..(Len(p) + Len(q)) /\ ~(k + Len(p) <= Len(p)) /\ k + Len(p) - Len(p) = k
      BY <1>2, <3>1
    <3> QED
      BY <1>2, <3>1, <3>2
  <2> QED
    BY <2>1, <2>2
<1>6. ASSUME NEW j \in DOMAIN (p \o q), NEW k \in DOMAIN (p \o q),
             NEW r \in (p \o q)[j], r \in (p \o q)[k]
      PROVE  j = k
  <2>1. CASE j <= Len(p) /\ k <= Len(p)
    BY <1>3, <1>6, <2>1 DEF Clusters
  <2>2. CASE ~(j <= Len(p)) /\ ~(k <= Len(p))
    <3>1. j - Len(p) = k - Len(p)
      BY <1>3, <1>6, <2>2 DEF Clusters
    <3> QED
      BY <1>2, <3>1
  <2> QED
    BY <1>3, <1>6, <2>1, <2>2
<1> QED
  BY <1>2, <1>4, <1>5, <1>6 DEF Clusters

\* A list is not longer than a set that has its elements.
LEMMA ListsAreBounded ==
  ASSUME NEW S, IsFiniteSet(S), NEW q, NEW T, T \subseteq S, Lists(q, T)
  PROVE  Len(q) \in Nat /\ Len(q) <= Cardinality(S)
<1>1. DOMAIN q = 1..Len(q) /\ Len(q) \in Nat /\ q \in [1..Len(q) -> S]
  BY DEF Lists
<1>2. q \in Injection(1..Len(q), S)
  BY <1>1 DEF Injection, IsInjective, Lists
<1>3. Cardinality(1..Len(q)) <= Cardinality(S)
  BY <1>2, FS_Injection
<1> QED
  BY <1>1, <1>3, FS_Interval

\* Aligning rows by occurrence puts each of them in one cluster.
LEMMA AlignedClusters ==
  ASSUME NEW R, NEW q, Lists(q, R)
  PROVE  Clusters(Aligned(q), R)
<1> DEFINE origins == {Origin(r) : r \in ToSet(q)}
           at(o) == {i \in DOMAIN q : Origin(q[i]) = o}
           ofOrigin == [o \in origins |-> RowsAt(q, at(o))]
           lengths == {Len(ofOrigin[o]) : o \in origins}
           longest == Max(lengths)
           first == [n \in 1..longest |->
                       {ofOrigin[o][n] : o \in {p \in origins : n <= Len(ofOrigin[p])}}]
           single == [i \in DOMAIN q |-> {q[i]}]
           aligns == Cardinality(origins) > 1 /\ \A r \in ToSet(q) : HasOrigin(r)
<1>1. Aligned(q) = IF aligns THEN first ELSE single
  BY DEF Aligned
<1>2. /\ DOMAIN q = 1..Len(q) /\ Len(q) \in Nat /\ \A i \in DOMAIN q : q[i] \in R
      /\ R = ToSet(q) /\ IsFiniteSet(R)
  <2>1. q \in Seq(R)
    BY DEF Lists
  <2> QED
    BY <2>1, ListsAreFinite
<1>3. Clusters(single, R)
  <2>1. single \in Seq(SUBSET R) /\ DOMAIN single = DOMAIN q
    BY <1>2
  <2>2. \A k \in DOMAIN q : single[k] = {q[k]}
    OBVIOUS
  <2>3. \A r \in R : \E k \in DOMAIN q : q[k] = r
    BY DEF Lists
  <2>4. \A j, k \in DOMAIN q : q[j] = q[k] => j = k
    BY DEF Lists
  <2> HIDE DEF single
  <2>5. \A j, k \in DOMAIN single : \A r \in single[j] : r \in single[k] => j = k
    BY <2>1, <2>2, <2>4
  <2>6. \A k \in DOMAIN single : single[k] # {}
    BY <2>1, <2>2
  <2>7. \A r \in R : \E k \in DOMAIN single : r \in single[k]
    BY <2>1, <2>2, <2>3
  <2> QED
    BY <2>1, <2>5, <2>6, <2>7 DEF Clusters
<1>4. ASSUME aligns PROVE Clusters(first, R)
  <2>1. ASSUME NEW o \in origins
        PROVE  /\ Lists(ofOrigin[o], {r \in R : Origin(r) = o})
               /\ DOMAIN ofOrigin[o] = 1..Len(ofOrigin[o]) /\ Len(ofOrigin[o]) \in Nat
               /\ Len(ofOrigin[o]) <= Cardinality(R)
    <3>1. at(o) \in SUBSET DOMAIN q
      OBVIOUS
    <3>2. {q[i] : i \in at(o)} = {r \in R : Origin(r) = o}
      <4>1. \A r \in R : \E i \in DOMAIN q : q[i] = r
        BY DEF Lists
      <4> QED
        BY <1>2, <4>1
    <3>3. Lists(ofOrigin[o], {q[i] : i \in at(o)})
      <4> HIDE DEF at, origins
      <4> QED  BY <2>1, <3>1, RowsAtLists
    <3>4. Lists(ofOrigin[o], {r \in R : Origin(r) = o})
      BY <3>2, <3>3
    <3> HIDE DEF ofOrigin
    <3>5. Len(ofOrigin[o]) <= Cardinality(R)
      <4> DEFINE T == {r \in R : Origin(r) = o}
      <4>1. T \subseteq R /\ Lists(ofOrigin[o], T)
        BY <3>4
      <4> HIDE DEF T
      <4> QED  BY <1>2, <4>1, ListsAreBounded
    <3> QED
      BY <3>4, <3>5, ListsAreFinite
  <2>2. lengths \in SUBSET Nat
    <3> HIDE DEF ofOrigin, origins
    <3> QED  BY <2>1
  <2>3. lengths # {}
    <3>1. origins # {}
      <4>1. IsFiniteSet({}) /\ Cardinality({}) = 0
        BY FS_EmptySet
      <4> HIDE DEF origins
      <4> QED  BY <1>4, <4>1
    <3> HIDE DEF ofOrigin, origins
    <3> QED  BY <3>1
  <2>4. longest \in lengths /\ \A n \in lengths : longest >= n
    <3>1. Cardinality(R) \in Nat /\ \A n \in lengths : n <= Cardinality(R)
      <4> HIDE DEF ofOrigin, origins
      <4> QED  BY <1>2, <2>1, FS_CardinalityType
    <3> HIDE DEF lengths
    <3>2. \E m \in lengths : \A n \in lengths : m >= n
      BY <2>2, <2>3, <3>1, GreatestNat
    <3> QED
      BY <3>2 DEF Max
  <2>5. longest \in Nat
    <3> HIDE DEF lengths, longest
    <3> QED  BY <2>2, <2>4
  <2>6. \A r \in R : Origin(r) \in origins
    BY <1>2
  <2>7. \A o \in origins : Len(ofOrigin[o]) <= longest
    <3>1. \A o \in origins : Len(ofOrigin[o]) \in lengths
      OBVIOUS
    <3> HIDE DEF lengths, longest, ofOrigin, origins
    <3> QED  BY <2>2, <2>4, <2>5, <3>1
  <2>8. PICK p \in origins : Len(ofOrigin[p]) = longest
    <3> HIDE DEF longest, ofOrigin, origins
    <3> QED  BY <2>4
  <2> HIDE DEF longest, lengths, ofOrigin, origins, at
  <2>9. DOMAIN first = 1..longest
        /\ \A n \in 1..longest : first[n] = {ofOrigin[o][n] : o \in {p_1 \in origins : n <= Len(ofOrigin[p_1])}}
    OBVIOUS
  <2>10. ASSUME NEW o \in origins, NEW n \in 1..longest, n <= Len(ofOrigin[o])
         PROVE  n \in DOMAIN ofOrigin[o] /\ ofOrigin[o][n] \in R /\ Origin(ofOrigin[o][n]) = o
    <3>1. n \in DOMAIN ofOrigin[o]
      BY <2>1, <2>5, <2>10
    <3>2. ofOrigin[o] \in Seq({r \in R : Origin(r) = o})
      BY <2>1 DEF Lists
    <3>3. ofOrigin[o][n] \in {r \in R : Origin(r) = o}
      BY <3>1, <3>2
    <3> QED
      BY <3>1, <3>3
  <2>11. first \in Seq(SUBSET R)
    <3>1. \A n \in 1..longest : first[n] \in SUBSET R
      <4> HIDE DEF first
      <4> QED  BY <2>9, <2>10
    <3>2. first = [n \in 1..longest |-> first[n]]
      OBVIOUS
    <3> HIDE DEF first
    <3>3. first \in [1..longest -> SUBSET R]
      BY <3>1, <3>2
    <3> QED
      BY <2>5, <3>3
  <2> HIDE DEF first
  <2>12. \A n \in DOMAIN first : first[n] # {}
    <3> TAKE n \in DOMAIN first
    <3>1. n <= Len(ofOrigin[p])
      BY <2>5, <2>8, <2>9
    <3>2. ofOrigin[p][n] \in first[n]
      BY <2>9, <3>1
    <3> QED
      BY <3>2
  <2>13. \A r \in R : \E n \in DOMAIN first : r \in first[n]
    <3> TAKE r \in R
    <3> DEFINE o == Origin(r)
    <3>1. o \in origins
      BY <2>6
    <3>2. PICK n \in DOMAIN ofOrigin[o] : ofOrigin[o][n] = r
      BY <2>1, <3>1 DEF Lists
    <3>3. n \in 1..longest /\ n <= Len(ofOrigin[o])
      BY <2>1, <2>5, <2>7, <3>1, <3>2
    <3> HIDE DEF o
    <3> QED
      BY <2>9, <3>1, <3>2, <3>3
  <2>14. \A j, k \in DOMAIN first : \A r \in first[j] : r \in first[k] => j = k
    <3> TAKE j, k \in DOMAIN first
    <3> SUFFICES ASSUME NEW o \in origins, j <= Len(ofOrigin[o]),
                        NEW u \in origins, k <= Len(ofOrigin[u]),
                        ofOrigin[o][j] = ofOrigin[u][k]
                 PROVE  j = k
      BY <2>9
    <3>1. o = u /\ j \in DOMAIN ofOrigin[o] /\ k \in DOMAIN ofOrigin[u]
      BY <2>9, <2>10
    <3> QED
      BY <2>1, <3>1 DEF Lists
  <2> QED
    BY <2>11, <2>12, <2>13, <2>14 DEF Clusters
<1> HIDE DEF first, single, aligns
<1> QED
  BY <1>1, <1>3, <1>4

\* The clusters a list is divided into: rows at one place at most, and all
\* precise rows of a column together.
LEMMA DividedClusters ==
  ASSUME NEW S \in SUBSET RowSet, NEW rows, Lists(rows, S)
  PROVE  LET s == Paired(rows)
             cl == s.clusters \o Aligned(s.rest)
         IN /\ Clusters(cl, S)
            /\ \A k \in DOMAIN cl : \E c \in Nat : \A r \in cl[k] : r.column \in {1, c}
            /\ \A r, u \in S : ~IsCoarse(r) /\ u.column = r.column
                 => \E k \in DOMAIN cl : r \in cl[k] /\ u \in cl[k]
<1> DEFINE s == Paired(rows)
           R == ToSet(s.rest)
           A == UNION {s.clusters[k] : k \in DOMAIN s.clusters}
           al == Aligned(s.rest)
           cl == s.clusters \o al
           columns == PreciseColumns(S)
           C == {r.column : r \in S} \ {1}
           M == Cardinality(Messages)
<1>1. s \in PairStates(S) /\ PairInv(s, S, columns, M)
  BY PairedInv
<1>2. IsFiniteSet(S)
  BY ListsAreFinite
<1>3. Lists(columns, C)
  BY <1>2, PreciseColumnsList
<1>4. \A r \in S : r.message \in 1..M /\ r.column \in Nat
  BY RowsAssumption, RowsAreNumbered DEF RowSet
<1> HIDE DEF s, columns, M, C
<1>5. s.clusters \in Seq(SUBSET S) /\ s.rest \in Seq(S)
  BY <1>1 DEF PairStates
<1>6. /\ Len(s.clusters) \in Nat /\ DOMAIN s.clusters = 1..Len(s.clusters)
      /\ DOMAIN s.clusters = DOMAIN columns
      /\ \A k \in DOMAIN columns : s.clusters[k] \in SUBSET S /\ columns[k] \in C
  BY <1>1, <1>3, <1>5 DEF PairInv, Lists
<1>7. \A r \in S : ~IsCoarse(r) => \E k \in DOMAIN columns : columns[k] = r.column
  <2> SUFFICES ASSUME NEW r \in S, ~IsCoarse(r)  PROVE \E k \in DOMAIN columns : columns[k] = r.column
    OBVIOUS
  <2>1. r.column \in C
    BY DEF C, IsCoarse
  <2> QED
    BY <1>3, <2>1 DEF Lists
<1>8. Clusters(s.clusters, A)
  <2>1. s.clusters \in Seq(SUBSET A)
    <3>1. \A k \in DOMAIN s.clusters : s.clusters[k] \in SUBSET A
      OBVIOUS
    <3>2. s.clusters \in [1..Len(s.clusters) -> SUBSET A]
      <4> HIDE DEF A
      <4> QED  BY <1>5, <1>6, <3>1
    <3> HIDE DEF A
    <3> QED  BY <1>6, <3>2
  <2>2. ASSUME NEW k \in DOMAIN s.clusters  PROVE s.clusters[k] # {}
    <3>1. PICK r \in S : r.column = columns[k]
      BY <1>6, <2>2 DEF C
    <3> QED
      BY <1>1, <1>6, <3>1 DEF PairInv
  <2>3. \A r \in A : \E k \in DOMAIN s.clusters : r \in s.clusters[k]
    OBVIOUS
  <2>4. \A j, k \in DOMAIN s.clusters : \A r \in s.clusters[j] : r \in s.clusters[k] => j = k
    BY <1>1, <1>6 DEF PairInv
  <2> HIDE DEF A
  <2> QED
    BY <2>1, <2>2, <2>3, <2>4 DEF Clusters
<1>9. Clusters(al, R)
  <2>1. Lists(s.rest, R)
    BY <1>1 DEF PairInv
  <2> HIDE DEF R
  <2> QED  BY <2>1, AlignedClusters
<1>10. A \cap R = {}
  BY <1>1, <1>6 DEF PairInv
<1>11. A \cup R = S
  <2>1. A \subseteq S /\ R \subseteq S
    BY <1>1, <1>6 DEF PairInv
  <2>2. ASSUME NEW r \in S  PROVE r \in A \cup R
    <3>1. CASE IsCoarse(r)
      <4>1. r \in R \/ \E k \in DOMAIN columns : r \in s.clusters[k]
        BY <1>1, <1>4, <3>1 DEF PairInv
      <4> HIDE DEF R
      <4> QED  BY <1>6, <4>1
    <3>2. CASE ~IsCoarse(r)
      <4>1. PICK k \in DOMAIN columns : columns[k] = r.column
        BY <1>7, <3>2
      <4>2. r \in s.clusters[k]
        BY <1>1, <4>1 DEF PairInv
      <4> QED
        BY <1>6, <4>2
    <3> QED
      BY <3>1, <3>2
  <2> HIDE DEF A, R
  <2> QED  BY <2>1, <2>2
<1>12. Clusters(cl, S)
  <2> HIDE DEF A, R, al
  <2>1. Clusters(cl, A \cup R)
    BY <1>8, <1>9, <1>10, ConcatClusters
  <2> HIDE DEF cl
  <2> QED
    BY <1>11, <2>1
<1>13. /\ DOMAIN cl = 1..(Len(s.clusters) + Len(al)) /\ Len(al) \in Nat
       /\ \A k \in DOMAIN cl : cl[k] = IF k <= Len(s.clusters) THEN s.clusters[k] ELSE al[k - Len(s.clusters)]
       /\ DOMAIN al = 1..Len(al) /\ \A k \in DOMAIN al : al[k] \subseteq R
  <2>1. al \in Seq(SUBSET R) /\ s.clusters \in Seq(SUBSET S)
    BY <1>5, <1>9 DEF Clusters
  <2> HIDE DEF al, R
  <2> QED
    BY <2>1
<1>14. ASSUME NEW k \in DOMAIN cl  PROVE \E c \in Nat : \A r \in cl[k] : r.column \in {1, c}
  <2>1. CASE k <= Len(s.clusters)
    <3>1. k \in DOMAIN columns /\ cl[k] = s.clusters[k]
      <4> HIDE DEF cl, al
      <4> QED  BY <1>6, <1>13, <1>14, <2>1
    <3>2. PICK u \in S : u.column = columns[k]
      BY <1>6, <3>1 DEF C
    <3>3. \A r \in cl[k] : r.column = u.column \/ r.column = 1
      BY <1>1, <3>1, <3>2 DEF PairInv, IsCoarse
    <3> HIDE DEF cl
    <3> QED
      BY <1>4, <3>3
  <2>2. CASE ~(k <= Len(s.clusters))
    <3>1. cl[k] \subseteq R
      <4>1. k - Len(s.clusters) \in DOMAIN al /\ cl[k] = al[k - Len(s.clusters)]
        <5> HIDE DEF cl, al
        <5> QED  BY <1>6, <1>13, <1>14, <2>2
      <4> HIDE DEF cl, al, R
      <4> QED  BY <1>13, <4>1
    <3>2. \A r \in R : r.column = 1
      BY <1>1 DEF PairInv, IsCoarse
    <3>3. \A r \in cl[k] : r.column \in {1, 1}
      <4> HIDE DEF cl, R
      <4> QED  BY <3>1, <3>2
    <3> QED
      BY <3>3
  <2> QED
    BY <2>1, <2>2
<1>15. ASSUME NEW r \in S, NEW u \in S, ~IsCoarse(r), u.column = r.column
       PROVE  \E k \in DOMAIN cl : r \in cl[k] /\ u \in cl[k]
  <2>1. PICK k \in DOMAIN columns : columns[k] = r.column
    BY <1>7, <1>15
  <2>2. r \in s.clusters[k] /\ u \in s.clusters[k]
    BY <1>1, <1>15, <2>1 DEF PairInv
  <2>3. k \in DOMAIN cl /\ cl[k] = s.clusters[k]
    <3> HIDE DEF cl, al
    <3> QED  BY <1>6, <1>13, <2>1
  <2> QED
    BY <2>2, <2>3
<1> HIDE DEF cl
<1> QED
  BY <1>12, <1>14, <1>15 DEF cl, s, al

-----------------------------------------------------------------------------
(* What finalising a list of rows keeps.                                   *)

\* A row says where the findings it stands for are.
Honest(r) ==
  /\ r.of # {}
  /\ \A x \in r.of : Finding(x).column \in {1, r.column} /\ Tus(x[1]) \subseteq r.tus

\* Rows that stand for different findings.
Good(S) ==
  /\ S \in SUBSET RowSet
  /\ \A r \in S : Honest(r)
  /\ \A r, u \in S : r.of \cap u.of # {} => r = u

OneRowPerSite(S) == \A r, u \in S : ~IsCoarse(r) /\ u.column = r.column => u = r

\* Each of the rows of T stands for a cluster of those of S.
MadeOf(T, S) == \A r \in T : \E C \in SUBSET S : C # {} /\ r = Merged(C)

\* Rows that keep the findings of those of S.
KeepsSites(rows, S) ==
  \E T : Lists(rows, T) /\ Good(T) /\ Covered(T) = Covered(S) /\ OneRowPerSite(T) /\ MadeOf(T, S)

\* The row of a cluster of one site stands for all its findings.
LEMMA MergedIsHonest ==
  ASSUME NEW C \in SUBSET RowSet, IsFiniteSet(C), C # {}, \A r \in C : Honest(r),
         NEW c, \A r \in C : r.column \in {1, c}
  PROVE  Honest(Merged(C))
<1>1. PICK b \in C : (\A s \in C : ~Before(s, b)) /\ Merged(C).column = b.column
  BY MergedRow
<1>2. Merged(C).of = Covered(C) /\ \A r \in C : r.tus \subseteq Merged(C).tus
  BY MergedRow
<1> DEFINE row == Merged(C)
<1> HIDE DEF row
<1>3. row.of # {}
  <2>1. b.of # {} /\ b.of \subseteq Covered(C)
    BY DEF Honest, Covered
  <2> QED
    BY <1>2, <2>1 DEF row
<1>4. ASSUME NEW x \in row.of  PROVE Finding(x).column \in {1, row.column} /\ Tus(x[1]) \subseteq row.tus
  <2>1. PICK r \in C : x \in r.of
    BY <1>2, <1>4 DEF row, Covered
  <2>2. Finding(x).column \in {1, r.column} /\ Tus(x[1]) \subseteq r.tus
    BY <2>1 DEF Honest
  <2>3. r.column = 1 \/ r.column = b.column
    BY <1>1 DEF Before, IsCoarse
  <2> QED
    BY <1>1, <1>2, <2>2, <2>3 DEF row
<1> QED
  BY <1>3, <1>4 DEF Honest, row

\* The clusters of a list of rows that is finalised, and the rows that stand for
\* them.
ClustersOf(rows) == LET s == Paired(Sorted(rows)) IN s.clusters \o Aligned(s.rest)
MergedRows(rows) == {Merged(ClustersOf(rows)[k]) : k \in DOMAIN ClustersOf(rows)}

\* Finalising keeps every finding, in one row, and makes one row of a site.
LEMMA FinalisedRows ==
  ASSUME NEW S, Good(S), NEW rows, Lists(rows, S)
  PROVE  /\ Lists(Finalised(rows), MergedRows(rows)) /\ DOMAIN Finalised(rows) = DOMAIN ClustersOf(rows)
         /\ Good(MergedRows(rows)) /\ Covered(MergedRows(rows)) = Covered(S) /\ OneRowPerSite(MergedRows(rows))
         /\ MadeOf(MergedRows(rows), S) /\ Clusters(ClustersOf(rows), S)
         /\ \A j, k \in DOMAIN ClustersOf(rows) : Merged(ClustersOf(rows)[j]) = Merged(ClustersOf(rows)[k]) => j = k
<1> DEFINE sorted == Sorted(rows)
           s == Paired(sorted)
           cl == s.clusters \o Aligned(s.rest)
           merged == [k \in DOMAIN cl |-> Merged(cl[k])]
           T == {Merged(cl[k]) : k \in DOMAIN cl}
<1>1. S \in SUBSET RowSet /\ IsFiniteSet(S)
  BY ListsAreFinite DEF Good
<1>2. Lists(sorted, S)
  BY <1>1, SortedLists
<1>3. /\ Clusters(cl, S)
      /\ \A k \in DOMAIN cl : \E c \in Nat : \A r \in cl[k] : r.column \in {1, c}
      /\ \A r, u \in S : ~IsCoarse(r) /\ u.column = r.column
           => \E k \in DOMAIN cl : r \in cl[k] /\ u \in cl[k]
  <2> HIDE DEF sorted
  <2> QED  BY <1>1, <1>2, DividedClusters
<1>4. Finalised(rows) = Sorted(merged)
  BY DEF Finalised
<1> HIDE DEF cl
<1>5. /\ cl \in Seq(SUBSET S) /\ DOMAIN cl = 1..Len(cl) /\ Len(cl) \in Nat
      /\ \A k \in DOMAIN cl : cl[k] \in SUBSET S /\ cl[k] \in SUBSET RowSet /\ cl[k] # {} /\ IsFiniteSet(cl[k])
  <2>1. cl \in Seq(SUBSET S) /\ \A k \in DOMAIN cl : cl[k] # {}
    BY <1>3 DEF Clusters
  <2>2. DOMAIN cl = 1..Len(cl) /\ Len(cl) \in Nat /\ \A k \in DOMAIN cl : cl[k] \in SUBSET S
    BY <2>1
  <2> QED
    BY <1>1, <2>1, <2>2, FS_Subset
<1>6. ASSUME NEW k \in DOMAIN cl
      PROVE  /\ Merged(cl[k]) \in RowSet /\ Merged(cl[k]).of = Covered(cl[k])
             /\ \E b \in cl[k] : Merged(cl[k]).column = b.column
             /\ Honest(Merged(cl[k]))
  <2>1. /\ Merged(cl[k]) \in RowSet /\ Merged(cl[k]).of = Covered(cl[k])
        /\ \E b \in cl[k] : Merged(cl[k]).column = b.column
    BY <1>5, MergedRow
  <2>2. PICK c \in Nat : \A r \in cl[k] : r.column \in {1, c}
    BY <1>3
  <2>3. \A r \in cl[k] : Honest(r)
    BY <1>5 DEF Good
  <2> QED
    BY <1>5, <2>1, <2>2, <2>3, MergedIsHonest
<1>7. ASSUME NEW j \in DOMAIN cl, NEW k \in DOMAIN cl, NEW r \in cl[j], r \in cl[k]  PROVE j = k
  BY <1>3, <1>7 DEF Clusters
<1>8. ASSUME NEW j \in DOMAIN cl, NEW k \in DOMAIN cl, Merged(cl[j]).of \cap Merged(cl[k]).of # {}  PROVE j = k
  <2>1. PICK x : x \in Merged(cl[j]).of /\ x \in Merged(cl[k]).of
    BY <1>8
  <2>2. PICK r \in cl[j], u \in cl[k] : x \in r.of /\ x \in u.of
    BY <1>6, <2>1 DEF Covered
  <2>3. r = u
    BY <1>5, <2>2 DEF Good
  <2> QED
    BY <1>7, <2>3
<1>9. Lists(merged, T)
  <2>1. merged \in Seq(T)
    <3>1. \A k \in DOMAIN cl : Merged(cl[k]) \in T
      OBVIOUS
    <3> HIDE DEF T
    <3> QED
      BY <1>5, <3>1
  <2>2. \A x \in T : \E k \in DOMAIN merged : merged[k] = x
    OBVIOUS
  <2>3. ASSUME NEW j \in DOMAIN merged, NEW k \in DOMAIN merged, merged[j] = merged[k]  PROVE j = k
    <3>1. j \in DOMAIN cl /\ k \in DOMAIN cl /\ Merged(cl[j]) = Merged(cl[k])
      BY <2>3
    <3>2. Merged(cl[j]).of # {}
      BY <1>6, <3>1 DEF Honest
    <3> HIDE DEF merged
    <3> QED
      BY <1>8, <3>1, <3>2
  <2> HIDE DEF T, merged
  <2> QED
    BY <2>1, <2>2, <2>3 DEF Lists
<1>10. Good(T)
  <2>1. T \in SUBSET RowSet /\ \A r \in T : Honest(r)
    BY <1>6
  <2>2. \A r, u \in T : r.of \cap u.of # {} => r = u
    BY <1>8
  <2> HIDE DEF T
  <2> QED
    BY <2>1, <2>2 DEF Good
<1>11. Covered(T) = Covered(S)
  <2>1. ASSUME NEW x \in Covered(T)  PROVE x \in Covered(S)
    <3>1. PICK k \in DOMAIN cl : x \in Merged(cl[k]).of
      BY <2>1 DEF Covered
    <3>2. PICK r \in cl[k] : x \in r.of
      BY <1>6, <3>1 DEF Covered
    <3> QED
      BY <1>5, <3>2 DEF Covered
  <2>2. ASSUME NEW x \in Covered(S)  PROVE x \in Covered(T)
    <3>1. PICK r \in S : x \in r.of
      BY <2>2 DEF Covered
    <3>2. PICK k \in DOMAIN cl : r \in cl[k]
      BY <1>3 DEF Clusters
    <3>3. x \in Merged(cl[k]).of
      BY <1>6, <3>1, <3>2 DEF Covered
    <3> QED
      BY <3>3 DEF Covered
  <2> QED
    BY <2>1, <2>2
<1>12. OneRowPerSite(T)
  <2> SUFFICES ASSUME NEW j \in DOMAIN cl, NEW k \in DOMAIN cl, ~IsCoarse(Merged(cl[j])),
                      Merged(cl[k]).column = Merged(cl[j]).column
               PROVE  j = k
    BY DEF OneRowPerSite
  <2>1. PICK a \in cl[j], b \in cl[k] : a.column = Merged(cl[j]).column /\ b.column = Merged(cl[k]).column
    BY <1>6
  <2>2. a \in S /\ b \in S /\ ~IsCoarse(a) /\ b.column = a.column
    BY <1>5, <2>1 DEF IsCoarse
  <2>3. PICK i \in DOMAIN cl : a \in cl[i] /\ b \in cl[i]
    BY <1>3, <2>2
  <2> QED
    BY <1>7, <2>3
<1>13. Lists(Finalised(rows), T)
  <2>1. T \in SUBSET RowSet
    BY <1>10 DEF Good
  <2> HIDE DEF T, merged
  <2> QED
    BY <1>4, <1>9, <2>1, SortedLists
<1>14. MadeOf(T, S)
  BY <1>5 DEF MadeOf
<1>15. DOMAIN Finalised(rows) = DOMAIN cl
  BY <1>4 DEF Sorted
<1>16. ASSUME NEW j \in DOMAIN cl, NEW k \in DOMAIN cl, Merged(cl[j]) = Merged(cl[k])  PROVE j = k
  BY <1>6, <1>8, <1>16 DEF Honest
<1>17. cl = ClustersOf(rows) /\ T = MergedRows(rows)
  BY DEF ClustersOf, MergedRows, cl
<1> HIDE DEF T
<1> QED
  BY <1>3, <1>10, <1>11, <1>12, <1>13, <1>14, <1>15, <1>16, <1>17

LEMMA FinalisedKeeps ==
  ASSUME NEW S, Good(S), NEW rows, Lists(rows, S)
  PROVE  KeepsSites(Finalised(rows), S)
BY FinalisedRows DEF KeepsSites

-----------------------------------------------------------------------------
(* The numbering of the rows without deduplication.                        *)

\* The order of sequences by their first difference.
LEMMA PrecedesOrders ==
  ASSUME NEW a \in Seq(Nat), NEW b \in Seq(Nat), NEW c \in Seq(Nat)
  PROVE  /\ ~Precedes(a, a)
         /\ Precedes(a, b) /\ Precedes(b, c) => Precedes(a, c)
         /\ a = b \/ Precedes(a, b) \/ Precedes(b, a)
<1>1. /\ DOMAIN a = 1..Len(a) /\ DOMAIN b = 1..Len(b) /\ DOMAIN c = 1..Len(c)
      /\ Len(a) \in Nat /\ Len(b) \in Nat /\ Len(c) \in Nat
      /\ (\A k \in DOMAIN a : a[k] \in Nat) /\ (\A k \in DOMAIN b : b[k] \in Nat)
      /\ (\A k \in DOMAIN c : c[k] \in Nat)
  OBVIOUS
<1>2. ~Precedes(a, a)
  BY <1>1 DEF Precedes
<1>3. ASSUME Precedes(a, b), Precedes(b, c)  PROVE Precedes(a, c)
  <2>1. PICK i \in DOMAIN b : (\A m \in 1..i - 1 : m \in DOMAIN a /\ a[m] = b[m]) /\ (i \in DOMAIN a => a[i] < b[i])
    BY <1>3 DEF Precedes
  <2>2. PICK k \in DOMAIN c : (\A m \in 1..k - 1 : m \in DOMAIN b /\ b[m] = c[m]) /\ (k \in DOMAIN b => b[k] < c[k])
    BY <1>3 DEF Precedes
  <2>3. i \in Nat /\ k \in Nat /\ 1 <= i /\ 1 <= k
    BY <1>1
  <2>4. CASE i < k
    <3>1. i \in 1..k - 1 /\ i \in DOMAIN c /\ b[i] = c[i]
      <4>1. k <= Len(c) /\ i \in 1..k - 1
        BY <1>1, <2>3, <2>4
      <4> QED
        BY <1>1, <2>2, <2>3, <4>1
    <3>2. \A m \in 1..i - 1 : m \in DOMAIN a /\ a[m] = c[m]
      BY <2>1, <2>2, <2>3, <2>4
    <3> QED
      BY <2>1, <3>1, <3>2 DEF Precedes
  <2>5. CASE i = k
    <3>1. \A m \in 1..k - 1 : m \in DOMAIN a /\ a[m] = c[m]
      BY <2>1, <2>2, <2>5
    <3>2. k \in DOMAIN a => a[k] < c[k]
      BY <1>1, <2>1, <2>2, <2>5
    <3> QED
      BY <3>1, <3>2 DEF Precedes
  <2>6. CASE k < i
    <3>1. k \in DOMAIN a /\ a[k] = b[k] /\ k \in DOMAIN b
      <4>1. k \in 1..i - 1 /\ k <= Len(b)
        BY <1>1, <2>3, <2>6
      <4> QED
        BY <1>1, <2>1, <2>3, <4>1
    <3>2. ASSUME NEW m \in 1..k - 1  PROVE m \in DOMAIN a /\ a[m] = c[m]
      <4>1. m \in 1..i - 1
        BY <2>3, <2>6, <3>2
      <4> QED
        BY <2>1, <2>2, <3>2, <4>1
    <3> QED
      BY <2>2, <3>1, <3>2 DEF Precedes
  <2> QED
    BY <2>3, <2>4, <2>5, <2>6
<1>4. ASSUME a # b  PROVE Precedes(a, b) \/ Precedes(b, a)
  <2> DEFINE D == {k \in Nat \ {0} : /\ k \in DOMAIN a \/ k \in DOMAIN b
                                     /\ ~(k \in DOMAIN a /\ k \in DOMAIN b /\ a[k] = b[k])}
  <2>1. D # {}
    <3>1. SUFFICES ASSUME D = {}  PROVE FALSE
      OBVIOUS
    <3>2. \A k \in Nat \ {0} : k \in DOMAIN a \/ k \in DOMAIN b => k \in DOMAIN a /\ k \in DOMAIN b /\ a[k] = b[k]
      BY <3>1
    <3>3. Len(a) <= Len(b)
      <4>1. CASE Len(a) = 0
        BY <1>1, <4>1
      <4>2. CASE Len(a) # 0
        <5>1. Len(a) \in DOMAIN a /\ Len(a) \in Nat \ {0}
          BY <1>1, <4>2
        <5>2. Len(a) \in DOMAIN b
          BY <3>2, <5>1
        <5> QED
          BY <1>1, <5>2
      <4> QED  BY <4>1, <4>2
    <3>4. Len(b) <= Len(a)
      <4>1. CASE Len(b) = 0
        BY <1>1, <4>1
      <4>2. CASE Len(b) # 0
        <5>1. Len(b) \in DOMAIN b /\ Len(b) \in Nat \ {0}
          BY <1>1, <4>2
        <5>2. Len(b) \in DOMAIN a
          BY <3>2, <5>1
        <5> QED
          BY <1>1, <5>2
      <4> QED  BY <4>1, <4>2
    <3>5. Len(a) \in Nat /\ Len(b) \in Nat
      OBVIOUS
    <3>6. Len(a) = Len(b)
      BY <3>3, <3>4, <3>5
    <3>7. \A k \in 1..Len(a) : a[k] = b[k]
      BY <1>1, <3>2
    <3> QED
      BY <1>4, <3>6, <3>7, SeqEqual
  <2>2. PICK k \in D : \A m \in D : k <= m
    <3> HIDE DEF D
    <3>1. D \in SUBSET Nat
      BY DEF D
    <3> QED
      BY <2>1, <3>1, LeastNat
  <2>3. k \in Nat /\ 1 <= k /\ (k \in DOMAIN a \/ k \in DOMAIN b)
        /\ ~(k \in DOMAIN a /\ k \in DOMAIN b /\ a[k] = b[k])
    OBVIOUS
  <2>4. \A m \in 1..k - 1 : m \in Nat \ {0} /\ m \notin D
    BY <2>2, <2>3
  <2>5. \A m \in 1..k - 1 : m \in DOMAIN a \/ m \in DOMAIN b
    BY <1>1, <2>3
  <2>6. \A m \in 1..k - 1 : m \in DOMAIN a /\ m \in DOMAIN b /\ a[m] = b[m]
    BY <2>4, <2>5
  <2> HIDE DEF D
  <2>7. CASE k \in DOMAIN b /\ (k \in DOMAIN a => a[k] < b[k])
    BY <2>6, <2>7 DEF Precedes
  <2>8. CASE ~(k \in DOMAIN b /\ (k \in DOMAIN a => a[k] < b[k]))
    <3>1. k \in DOMAIN a /\ (k \in DOMAIN b => b[k] < a[k])
      BY <1>1, <2>3, <2>8
    <3> QED
      BY <2>6, <3>1 DEF Precedes
  <2> QED
    BY <2>7, <2>8
<1> QED
  BY <1>2, <1>3, <1>4

\* Without deduplication the rows are only permuted
\* (_assign_unique_occurrence_fingerprints).
LEMMA NumberedLists ==
  ASSUME NEW S \in SUBSET RowSet, NEW rows, Lists(rows, S)
  PROVE  Lists(Numbered(rows), S)
<1> DEFINE D == DOMAIN rows
           key(i) == <<rows[i].column, rows[i].message>> \o Ascending(rows[i].tus)
           first(i, j) == Precedes(key(i), key(j)) \/ (key(i) = key(j) /\ i < j)
           below == [j \in D |-> {i \in D : first(i, j)}]
<1>1. D \in SUBSET Nat /\ \A i \in D : rows[i] \in RowSet
  BY ListsAreFinite
<1>2. \A i \in D : key(i) \in Seq(Nat)
  <2> TAKE i \in D
  <2>1. rows[i].column \in Nat /\ rows[i].message \in Nat /\ rows[i].tus \in SUBSET Nat
    BY <1>1, RowsAreNumbered
  <2>2. IsFiniteSet(rows[i].tus)
    BY <1>1, FilesAssumption, FS_Subset DEF RowSet
  <2>3. Ascending(rows[i].tus) \in Seq(rows[i].tus)
    BY <2>1, <2>2, AscendingLists DEF Lists
  <2>4. Ascending(rows[i].tus) \in Seq(Nat)
    BY <2>1, <2>3
  <2>5. <<rows[i].column, rows[i].message>> \in Seq(Nat)
    BY <2>1
  <2> QED
    BY <2>4, <2>5
<1> HIDE DEF key
<1>3. \A i, j, k \in D : /\ ~first(i, i)
                         /\ first(i, j) /\ first(j, k) => first(i, k)
                         /\ i = j \/ first(i, j) \/ first(j, i)
  <2> TAKE i, j, k \in D
  <2>1. key(i) \in Seq(Nat) /\ key(j) \in Seq(Nat) /\ key(k) \in Seq(Nat) /\ i \in Nat /\ j \in Nat /\ k \in Nat
    BY <1>1, <1>2
  <2>2. /\ ~Precedes(key(i), key(i))
        /\ Precedes(key(i), key(j)) /\ Precedes(key(j), key(k)) => Precedes(key(i), key(k))
        /\ key(i) = key(j) \/ Precedes(key(i), key(j)) \/ Precedes(key(j), key(i))
    BY <2>1, PrecedesOrders
  <2> QED
    BY <2>1, <2>2
<1>4. Orders(below, D)
  <2>1. below \in [D -> SUBSET D] /\ \A j \in D : below[j] = {i \in D : first(i, j)}
    OBVIOUS
  <2> HIDE DEF below
  <2> QED
    BY <1>3, <2>1 DEF Orders
<1> DEFINE p == Numbered(rows)
           order == InOrder(D, below)
<1>5. Lists(order, D) /\ DOMAIN order = D
  <2> HIDE DEF below
  <2> QED  BY <1>4, OrderedPlaces DEF D
<1>6. p = [k \in D |-> p[k]] /\ \A k \in D : p[k] = rows[order[k]]
  BY DEF Numbered, D, order, key
<1> HIDE DEF order, p
<1>7. p = [k \in DOMAIN order |-> p[k]] /\ \A k \in DOMAIN order : p[k] = rows[order[k]]
  BY <1>5, <1>6
<1>8. D \in SUBSET DOMAIN rows /\ (\A i \in D : rows[i] \in S) /\ (\A x \in S : \E i \in D : rows[i] = x)
  BY <1>1, ListsAreFinite DEF D
<1>9. Lists(p, S)
  BY <1>5, <1>7, <1>8, PermutedLists
<1> QED
  BY <1>9 DEF p

-----------------------------------------------------------------------------
(* What rows say of the profiles they were found under.                    *)

ProfilesOf(r) == {x[2] : x \in r.of}

\* Before labelling: the tokens of the profiles, all of one file.
Tokened(r, f) ==
  profiles # {} =>
    /\ r.token = ProfilesOf(r) /\ r.under = {}
    /\ \A x \in r.of : x[1] = f /\ x[2] \in profiles

\* After it: the profiles, or that one file has findings of them all.
LabelOK(r) ==
  profiles # {} =>
    /\ \A x \in r.of : x[2] \in profiles
    /\ Unconditional \in r.under => \E f \in Files : \A p \in profiles : \E x \in r.of : x[1] = f /\ x[2] = p
    /\ Unconditional \notin r.under => r.under = ProfilesOf(r)

\* Merging rows keeps what they say of profiles (_merge_reachable_under).
LEMMA MergedLabels ==
  ASSUME NEW C \in SUBSET RowSet, IsFiniteSet(C), C # {}
  PROVE  /\ \A f : (\A r \in C : Tokened(r, f)) => Tokened(Merged(C), f)
         /\ (\A r \in C : LabelOK(r)) => LabelOK(Merged(C))
<1> DEFINE row == Merged(C)
           unders == UNION {r.under : r \in C}
<1>1. /\ row.of = Covered(C) /\ row.token = UNION {r.token : r \in C}
      /\ row.under = MergedUnder(unders)
  BY MergedRow
<1> HIDE DEF row
<1>2. ProfilesOf(row) = UNION {ProfilesOf(r) : r \in C}
  BY <1>1 DEF ProfilesOf, Covered
<1>3. ASSUME NEW f, \A r \in C : Tokened(r, f), profiles # {}  PROVE Tokened(row, f)
  <2>1. \A r \in C : r.token = ProfilesOf(r) /\ r.under = {} /\ \A x \in r.of : x[1] = f /\ x[2] \in profiles
    BY <1>3 DEF Tokened
  <2>2. row.token = ProfilesOf(row)
    BY <1>1, <1>2, <2>1
  <2>3. unders = {}
    BY <2>1
  <2>4. row.under = {}
    BY <1>1, <2>3 DEF MergedUnder
  <2>5. \A x \in row.of : x[1] = f /\ x[2] \in profiles
    BY <1>1, <2>1 DEF Covered
  <2> QED
    BY <2>2, <2>4, <2>5 DEF Tokened
<1>4. ASSUME \A r \in C : LabelOK(r), profiles # {}  PROVE LabelOK(row)
  <2>1. \A x \in row.of : x[2] \in profiles
    BY <1>1, <1>4 DEF LabelOK, Covered
  <2>2. ASSUME Unconditional \in row.under
        PROVE  \E f \in Files : \A p \in profiles : \E x \in row.of : x[1] = f /\ x[2] = p
    <3>1. Unconditional \in unders
      BY <1>1, <2>2 DEF MergedUnder
    <3>2. PICK r \in C : Unconditional \in r.under
      BY <3>1
    <3>3. PICK f \in Files : \A p \in profiles : \E x \in r.of : x[1] = f /\ x[2] = p
      BY <1>4, <3>2 DEF LabelOK
    <3>4. r.of \subseteq row.of
      BY <1>1 DEF Covered
    <3> QED
      BY <3>3, <3>4
  <2>3. ASSUME Unconditional \notin row.under  PROVE row.under = ProfilesOf(row)
    <3>1. Unconditional \notin unders /\ row.under = unders
      BY <1>1, <2>3 DEF MergedUnder
    <3>2. \A r \in C : Unconditional \notin r.under
      BY <3>1
    <3>3. \A r \in C : r.under = ProfilesOf(r)
      BY <1>4, <3>2 DEF LabelOK
    <3> QED
      BY <1>2, <3>1, <3>3
  <2> QED
    BY <2>1, <2>2, <2>3 DEF LabelOK
<1> QED
  BY <1>3, <1>4 DEF Tokened, LabelOK, row

\* The rows made of labelled ones are labelled, and so for tokens.
LEMMA MadeLabels ==
  ASSUME NEW S, Good(S), IsFiniteSet(S), NEW T, MadeOf(T, S)
  PROVE  /\ \A f : (\A r \in S : Tokened(r, f)) => \A r \in T : Tokened(r, f)
         /\ (\A r \in S : LabelOK(r)) => \A r \in T : LabelOK(r)
<1> SUFFICES ASSUME NEW r \in T
             PROVE  /\ \A f : (\A u \in S : Tokened(u, f)) => Tokened(r, f)
                    /\ (\A u \in S : LabelOK(u)) => LabelOK(r)
  OBVIOUS
<1>1. PICK C \in SUBSET S : C # {} /\ r = Merged(C)
  BY DEF MadeOf
<1>2. C \in SUBSET RowSet /\ IsFiniteSet(C)
  BY FS_Subset DEF Good
<1>3. /\ \A f : (\A u \in C : Tokened(u, f)) => Tokened(Merged(C), f)
      /\ (\A u \in C : LabelOK(u)) => LabelOK(Merged(C))
  BY <1>1, <1>2, MergedLabels
<1> QED
  BY <1>1, <1>3

\* A row with the tokens of all profiles is said to be unconditional.
LEMMA LabelledIsRight ==
  ASSUME NEW f \in Files, NEW r \in RowSet, Tokened(r, f)
  PROVE  LabelOK(Labelled(r))
<1> SUFFICES ASSUME profiles # {}  PROVE LabelOK(Labelled(r))
  BY DEF LabelOK
<1>1. /\ Labelled(r).of = r.of
      /\ Labelled(r).under = IF r.token = profiles THEN {Unconditional} ELSE r.token
  BY DEF Labelled, RowSet
<1>2. r.token = ProfilesOf(r) /\ (\A x \in r.of : x[1] = f /\ x[2] \in profiles) /\ r.token \subseteq Profiles
  BY DEF Tokened, RowSet
<1>3. Unconditional \notin r.token
  BY <1>2, RowsAssumption DEF Unconditional
<1> DEFINE row == Labelled(r)
<1> HIDE DEF row
<1>4. CASE r.token = profiles
  <2>1. row.under = {Unconditional}
    BY <1>1, <1>4 DEF row
  <2>2. \A p \in profiles : \E x \in row.of : x[1] = f /\ x[2] = p
    BY <1>1, <1>2, <1>4 DEF row, ProfilesOf
  <2> QED
    BY <1>1, <1>2, <2>1, <2>2 DEF LabelOK, row
<1>5. CASE r.token # profiles
  <2>1. row.under = ProfilesOf(row) /\ Unconditional \notin row.under
    BY <1>1, <1>2, <1>3, <1>5 DEF row, ProfilesOf
  <2> QED
    BY <1>1, <1>2, <2>1 DEF LabelOK, row
<1> QED
  BY <1>4, <1>5

-----------------------------------------------------------------------------
(* The rows of a file.                                                     *)

\* The image of a list under a map that keeps its elements apart.
LEMMA MappedLists ==
  ASSUME NEW S, NEW q, Lists(q, S), NEW U, NEW g \in [S -> U],
         \A y \in U : \E x \in S : g[x] = y, \A x, y \in S : g[x] = g[y] => x = y,
         NEW p, p = [k \in DOMAIN q |-> p[k]], \A k \in DOMAIN q : p[k] = g[q[k]]
  PROVE  Lists(p, U)
<1>1. /\ DOMAIN q = 1..Len(q) /\ Len(q) \in Nat
      /\ \A k \in DOMAIN q : q[k] \in S
  BY ListsAreFinite DEF Lists
<1>2. DOMAIN p = DOMAIN q
  OBVIOUS
<1>3. p \in [1..Len(q) -> U]
  BY <1>1
<1>4. p \in Seq(U)
  BY <1>1, <1>3
<1>5. ASSUME NEW y \in U  PROVE \E k \in DOMAIN p : p[k] = y
  <2>1. PICK x \in S : g[x] = y
    OBVIOUS
  <2>2. PICK k \in DOMAIN q : q[k] = x
    BY DEF Lists
  <2> QED
    BY <1>2, <2>1, <2>2
<1>6. ASSUME NEW j \in DOMAIN p, NEW k \in DOMAIN p, p[j] = p[k]  PROVE j = k
  <2>1. q[j] \in S /\ q[k] \in S /\ g[q[j]] = g[q[k]] /\ j \in DOMAIN q /\ k \in DOMAIN q
    BY <1>1, <1>2, <1>6
  <2> QED
    BY <2>1 DEF Lists
<1> QED
  BY <1>4, <1>5, <1>6 DEF Lists

\* What is scanned: the profiles and the findings are those of an input.
InputOK ==
  /\ profiles \subseteq Profiles /\ IsFiniteSet(profiles)
  /\ raw \in [Files -> [Runs -> RawFindings]]
  /\ dedup \in BOOLEAN

\* The findings of a file under a profile are a bounded sequence.
LEMMA RawLists ==
  ASSUME NEW s \in RawFindings
  PROVE  /\ s \in Seq(Keys)
         /\ DOMAIN s \subseteq 1..MaxFindings
<1>1. PICK m \in 0..MaxFindings : s \in [1..m -> Keys]
  BY DEF RawFindings, BoundedSeq, SeqOf
<1>2. m \in Nat /\ MaxFindings \in Nat
  BY <1>1, RowsAssumption
<1>3. s \in Seq(Keys)
  BY <1>1, <1>2
<1>4. DOMAIN s = 1..m /\ 1..m \subseteq 1..MaxFindings
  BY <1>1, <1>2
<1> QED
  BY <1>3, <1>4

PlacesUnder(f, ps) == UNION {{p} \X DOMAIN raw[f][p] : p \in ps}
RowAt(f, ps) == [x \in PlacesUnder(f, ps) |-> Row(f, x[1], x[2])]

\* The findings of a file under some profiles, and their rows.
FindingsUnder(f, ps) == UNION {{<<f, p, i>> : i \in DOMAIN raw[f][p]} : p \in ps}
FoundRows(f, ps) == {Row(f, x[1], x[2]) : x \in PlacesUnder(f, ps)}

\* The candidates of a file, profile after profile.
LEMMA PlacesAreOrdered ==
  ASSUME InputOK, NEW f \in Files, NEW ps \in SUBSET Runs
  PROVE  LET first(x, y) == x[1] < y[1] \/ (x[1] = y[1] /\ x[2] < y[2])
             below == [y \in PlacesUnder(f, ps) |-> {x \in PlacesUnder(f, ps) : first(x, y)}]
             order == InOrder(PlacesUnder(f, ps), below)
         IN /\ Lists(order, PlacesUnder(f, ps))
            /\ \A j, k \in DOMAIN order : j < k => first(order[j], order[k])
<1> DEFINE P == PlacesUnder(f, ps)
           first(x, y) == x[1] < y[1] \/ (x[1] = y[1] /\ x[2] < y[2])
           below == [y \in P |-> {x \in P : first(x, y)}]
<1>1. \A p \in Runs : p \in Nat /\ DOMAIN raw[f][p] \subseteq 1..MaxFindings
  BY RawLists, RowsAssumption DEF InputOK, Runs
<1>2. P \subseteq Runs \X (1..MaxFindings)
  BY <1>1 DEF PlacesUnder
<1>3. \A x \in P : /\ x[1] \in Nat /\ x[2] \in Nat
                   /\ x = <<x[1], x[2]>>
  <2>1. \A x \in Runs \X (1..MaxFindings) : x[1] \in Nat /\ x[2] \in Nat /\ x = <<x[1], x[2]>>
    BY <1>1, RowsAssumption
  <2> HIDE DEF P
  <2> QED
    BY <1>2, <2>1
<1>4. IsFiniteSet(P)
  <2>1. IsFiniteSet({0})
    BY FS_Singleton
  <2>2. IsFiniteSet(Runs)
    BY <2>1 DEF InputOK, Runs
  <2>3. IsFiniteSet(1..MaxFindings)
    BY FS_Interval, RowsAssumption
  <2>4. IsFiniteSet(Runs \X (1..MaxFindings))
    BY <2>2, <2>3, FS_Product
  <2> HIDE DEF P
  <2> QED
    BY <1>2, <2>4, FS_Subset
<1> HIDE DEF P
<1>5. \A x, y, z \in P : /\ ~first(x, x)
                         /\ first(x, y) /\ first(y, z) => first(x, z)
                         /\ x = y \/ first(x, y) \/ first(y, x)
  <2> TAKE x, y, z \in P
  <2>1. /\ x[1] \in Nat /\ x[2] \in Nat /\ y[1] \in Nat /\ y[2] \in Nat /\ z[1] \in Nat /\ z[2] \in Nat
        /\ x[1] = y[1] /\ x[2] = y[2] => x = y
    BY <1>3
  <2> QED
    BY <2>1
<1>6. Orders(below, P)
  <2>1. below \in [P -> SUBSET P] /\ \A y \in P : below[y] = {x \in P : first(x, y)}
    OBVIOUS
  <2> HIDE DEF below
  <2> QED
    BY <1>5, <2>1 DEF Orders
<1> DEFINE order == InOrder(P, below)
<1>7. Lists(order, P) /\ DOMAIN order = 1..Cardinality(P)
      /\ \A j, k \in 1..Cardinality(P) : j < k => order[j] \in below[order[k]]
  <2> HIDE DEF below
  <2> QED
    BY <1>4, <1>6, InOrderAscends
<1>8. \A x, y \in P : x \in below[y] => first(x, y)
  OBVIOUS
<1>9. \A j, k \in DOMAIN order : j < k => first(order[j], order[k])
  <2> HIDE DEF below, order
  <2>1. order \in Seq(P)
    BY <1>7 DEF Lists
  <2> TAKE j, k \in DOMAIN order
  <2> HAVE j < k
  <2>2. order[j] \in P /\ order[k] \in P
    BY <2>1
  <2>3. order[j] \in below[order[k]]
    BY <1>7
  <2> HIDE DEF first
  <2> QED
    BY <1>8, <2>2, <2>3
<1> QED
  BY <1>7, <1>9 DEF P

\* The rows of a file are the findings in it, profile after profile.
LEMMA RowsAreListed ==
  ASSUME InputOK, NEW f \in Files, NEW ps \in SUBSET Runs
  PROVE  /\ Lists(RowsUnder(f, ps), FoundRows(f, ps)) /\ Good(FoundRows(f, ps))
         /\ Covered(FoundRows(f, ps)) = FindingsUnder(f, ps) /\ \A r \in FoundRows(f, ps) : Tokened(r, f)
         /\ \A r, u : Follows(RowsUnder(f, ps), r, u) =>
              \E x, y \in PlacesUnder(f, ps) :
                /\ r = Row(f, x[1], x[2]) /\ u = Row(f, y[1], y[2])
                /\ x[1] < y[1] \/ (x[1] = y[1] /\ x[2] < y[2])
<1> DEFINE P == PlacesUnder(f, ps)
           S == {Row(f, x[1], x[2]) : x \in P}
           g == RowAt(f, ps)
           q == RowsUnder(f, ps)
           order == InOrder(P, [y \in P |-> {x \in P : x[1] < y[1] \/ (x[1] = y[1] /\ x[2] < y[2])}])
<1>1. /\ Lists(order, P)
      /\ \A j, k \in DOMAIN order : j < k =>
           order[j][1] < order[k][1] \/ (order[j][1] = order[k][1] /\ order[j][2] < order[k][2])
  BY PlacesAreOrdered
<1>2. q = [k \in DOMAIN order |-> Row(f, order[k][1], order[k][2])]
  BY DEF RowsUnder, PlacesUnder, RowAt
<1>3. \A x \in P : /\ x[1] \in ps /\ x[1] \in Runs /\ x[2] \in DOMAIN raw[f][x[1]] /\ x = <<x[1], x[2]>>
  BY DEF PlacesUnder
<1>4. \A p \in ps : \A i \in DOMAIN raw[f][p] : <<p, i>> \in P
  BY DEF PlacesUnder
<1> HIDE DEF P, order, q
<1>5. ASSUME NEW p \in Runs, NEW i \in DOMAIN raw[f][p]
      PROVE  /\ Row(f, p, i) \in RowSet
             /\ Row(f, p, i).of = {<<f, p, i>>}
             /\ Honest(Row(f, p, i))
  <2>1. raw[f][p] \in RawFindings /\ p \in Profiles \cup {0}
    BY DEF InputOK, Runs
  <2>2. raw[f][p] \in Seq(Keys) /\ i \in Nat
    BY <2>1, RawLists
  <2>3. raw[f][p][i] \in Keys
    BY <2>2
  <2>4. raw[f][p][i].column \in Columns /\ raw[f][p][i].message \in Messages
    BY <2>3 DEF Keys
  <2>5. Tus(f) \in SUBSET Files /\ profiles \cap {p} \in SUBSET Profiles /\ {<<f, p, i>>} \in SUBSET Places
    BY <2>1, <2>2 DEF Tus, InputOK, Places
  <2>6. Row(f, p, i) \in RowSet
    BY <2>4, <2>5 DEF Row, RowSet
  <2>7. /\ Row(f, p, i).of = {<<f, p, i>>} /\ Row(f, p, i).column = raw[f][p][i].column
        /\ Row(f, p, i).tus = Tus(f)
    BY DEF Row
  <2>8. Finding(<<f, p, i>>).column = raw[f][p][i].column /\ <<f, p, i>>[1] = f
    BY DEF Finding
  <2> QED
    BY <2>6, <2>7, <2>8 DEF Honest
<1>6. \A x \in P : /\ Row(f, x[1], x[2]) \in RowSet
                   /\ Row(f, x[1], x[2]).of = {<<f, x[1], x[2]>>}
                   /\ Honest(Row(f, x[1], x[2]))
  BY <1>3, <1>5
<1>7. ASSUME NEW x \in P, NEW y \in P, Row(f, x[1], x[2]).of \cap Row(f, y[1], y[2]).of # {}
      PROVE  x = y
  <2>1. <<f, x[1], x[2]>> = <<f, y[1], y[2]>>
    BY <1>6, <1>7
  <2>2. x[1] = y[1] /\ x[2] = y[2]
    BY <2>1
  <2> QED
    BY <1>3, <2>2
<1>8. Lists(q, S)
  <2>1. g \in [P -> S] /\ \A x \in P : g[x] = Row(f, x[1], x[2])
    BY DEF RowAt, P
  <2>2. \A y \in S : \E x \in P : g[x] = y
    BY <2>1
  <2>3. \A x, y \in P : g[x] = g[y] => x = y
    BY <1>6, <1>7, <2>1
  <2>4. \A k \in DOMAIN order : order[k] \in P
    BY <1>1 DEF Lists
  <2>5. q = [k \in DOMAIN order |-> q[k]]
    BY <1>2
  <2>6. \A k \in DOMAIN order : q[k] = g[order[k]]
    BY <1>2, <2>1, <2>4
  <2> HIDE DEF g, S
  <2> QED
    BY <1>1, <2>1, <2>2, <2>3, <2>5, <2>6, MappedLists
<1>9. Good(S)
  <2>1. S \in SUBSET RowSet /\ \A r \in S : Honest(r)
    BY <1>6
  <2>2. \A r, u \in S : r.of \cap u.of # {} => r = u
    BY <1>7
  <2> HIDE DEF S
  <2> QED
    BY <2>1, <2>2 DEF Good
<1>10. Covered(S) = FindingsUnder(f, ps)
  <2>1. ASSUME NEW y \in Covered(S)  PROVE y \in FindingsUnder(f, ps)
    <3>1. PICK x \in P : y \in Row(f, x[1], x[2]).of
      BY <2>1 DEF Covered
    <3>2. y = <<f, x[1], x[2]>>
      BY <1>6, <3>1
    <3> QED
      BY <1>3, <3>2 DEF FindingsUnder
  <2>2. ASSUME NEW p \in ps, NEW i \in DOMAIN raw[f][p]  PROVE <<f, p, i>> \in Covered(S)
    <3>1. <<p, i>> \in P
      BY <1>4
    <3>2. Row(f, p, i) \in S
      BY <3>1
    <3> QED
      BY <1>5, <3>2 DEF Covered
  <2> HIDE DEF S
  <2> QED
    BY <2>1, <2>2 DEF FindingsUnder
<1>11. ASSUME NEW x \in P  PROVE Tokened(Row(f, x[1], x[2]), f)
  <2> DEFINE row == Row(f, x[1], x[2])
  <2>1. row.of = {<<f, x[1], x[2]>>} /\ row.token = profiles \cap {x[1]} /\ row.under = {}
    BY DEF Row
  <2>2. profiles # {} => x[1] \in profiles
    BY <1>3 DEF Runs
  <2> HIDE DEF row
  <2>3. ProfilesOf(row) = {x[1]}
    BY <2>1 DEF ProfilesOf
  <2> QED
    BY <2>1, <2>2, <2>3 DEF Tokened, row
<1>12. \A r \in S : Tokened(r, f)
  BY <1>11
<1>13. ASSUME NEW r, NEW u, Follows(q, r, u)
       PROVE  \E x, y \in P : /\ r = Row(f, x[1], x[2]) /\ u = Row(f, y[1], y[2])
                              /\ x[1] < y[1] \/ (x[1] = y[1] /\ x[2] < y[2])
  <2>1. PICK j \in DOMAIN q, k \in DOMAIN q : j < k /\ q[j] = r /\ q[k] = u
    BY <1>13 DEF Follows
  <2>2. j \in DOMAIN order /\ k \in DOMAIN order /\ r = Row(f, order[j][1], order[j][2])
        /\ u = Row(f, order[k][1], order[k][2])
    BY <1>2, <2>1
  <2>3. order \in Seq(P)
    BY <1>1 DEF Lists
  <2>4. order[j] \in P /\ order[k] \in P
    BY <2>2, <2>3
  <2> QED
    BY <1>1, <2>1, <2>2, <2>4
<1>14. S = FoundRows(f, ps)
  BY DEF FoundRows, P
<1> HIDE DEF S
<1> QED
  BY <1>8, <1>9, <1>10, <1>12, <1>13, <1>14 DEF q, P

LEMMA RowsAreGood ==
  ASSUME InputOK, NEW f \in Files
  PROVE  \E S : Lists(Rows(f), S) /\ Good(S) /\ Covered(S) = Findings(f) /\ \A r \in S : Tokened(r, f)
<1>1. FindingsUnder(f, Runs) = Findings(f) /\ Rows(f) = RowsUnder(f, Runs)
  BY DEF FindingsUnder, Findings, Rows
<1> QED
  BY <1>1, RowsAreListed

\* The rows that candidates make over the profiles.
OverRows(rows, S) == IF profiles = {} THEN S ELSE {Labelled(r) : r \in MergedRows(rows)}

\* Labelling the rows of all profiles keeps what they stand for.
LEMMA OverProfilesRows ==
  ASSUME InputOK, NEW f \in Files, NEW S, Good(S), \A r \in S : Tokened(r, f), NEW rows, Lists(rows, S)
  PROVE  /\ Lists(OverProfiles(rows), OverRows(rows, S)) /\ Good(OverRows(rows, S))
         /\ Covered(OverRows(rows, S)) = Covered(S) /\ \A r \in OverRows(rows, S) : LabelOK(r)
         /\ profiles # {} => OneRowPerSite(OverRows(rows, S)) /\ Len(OverProfiles(rows)) = Len(Finalised(rows))
<1>1. CASE profiles = {}
  BY <1>1 DEF OverProfiles, OverRows, LabelOK
<1>2. CASE profiles # {}
  <2> DEFINE merged == Finalised(rows)
             p == OverProfiles(rows)
             T == MergedRows(rows)
  <2>1. Lists(merged, T) /\ Good(T) /\ Covered(T) = Covered(S) /\ MadeOf(T, S) /\ OneRowPerSite(T)
    BY FinalisedRows
  <2> HIDE DEF T
  <2> DEFINE U == {Labelled(r) : r \in T}
             g == [r \in T |-> Labelled(r)]
  <2>2. p = [k \in DOMAIN merged |-> Labelled(merged[k])]
    BY <1>2 DEF OverProfiles
  <2> HIDE DEF merged, p
  <2>3. ASSUME NEW r \in T
        PROVE  /\ Labelled(r) \in RowSet /\ Labelled(r).of = r.of /\ Honest(Labelled(r))
    <3>1. r \in RowSet /\ Honest(r)
      BY <2>1 DEF Good
    <3>2. (IF r.token = profiles THEN {Unconditional} ELSE r.token) \in SUBSET (Profiles \cup {0})
      BY <3>1 DEF RowSet, Unconditional
    <3>3. Labelled(r) \in RowSet
      BY <3>1, <3>2 DEF Labelled, RowSet
    <3>4. Labelled(r).of = r.of /\ Labelled(r).column = r.column /\ Labelled(r).tus = r.tus
      BY <3>1 DEF Labelled, RowSet
    <3> QED
      BY <3>1, <3>3, <3>4 DEF Honest
  <2>4. \A r, u \in T : Labelled(r).of \cap Labelled(u).of # {} => r = u
    BY <2>1, <2>3 DEF Good
  <2>5. Lists(p, U)
    <3>1. g \in [T -> U] /\ \A r \in T : g[r] = Labelled(r)
      OBVIOUS
    <3>2. \A y \in U : \E r \in T : g[r] = y
      OBVIOUS
    <3>3. ASSUME NEW r \in T, NEW u \in T, g[r] = g[u]  PROVE r = u
      <4>1. Labelled(r) = Labelled(u) /\ Labelled(r).of # {}
        BY <2>3, <3>1, <3>3 DEF Honest
      <4> QED
        BY <2>4, <4>1
    <3>4. \A k \in DOMAIN merged : merged[k] \in T
      BY <2>1 DEF Lists
    <3>5. p = [k \in DOMAIN merged |-> p[k]]
      BY <2>2
    <3>6. \A k \in DOMAIN merged : p[k] = g[merged[k]]
      BY <2>2, <3>1, <3>4
    <3> HIDE DEF g, U
    <3> QED
      BY <2>1, <3>1, <3>2, <3>3, <3>5, <3>6, MappedLists
  <2>6. Good(U)
    <3>1. U \in SUBSET RowSet /\ \A r \in U : Honest(r)
      BY <2>3
    <3>2. \A r, u \in U : r.of \cap u.of # {} => r = u
      BY <2>4
    <3> HIDE DEF U
    <3> QED
      BY <3>1, <3>2 DEF Good
  <2>7. Covered(U) = Covered(T)
    BY <2>3 DEF Covered
  <2>8. \A r \in U : LabelOK(r)
    <3>1. \A r \in T : Tokened(r, f) /\ r \in RowSet
      BY <2>1, MadeLabels, ListsAreFinite DEF Good
    <3>2. \A r \in T : LabelOK(Labelled(r))
      BY <3>1, LabelledIsRight
    <3> QED
      BY <3>2
  <2>9. OneRowPerSite(U)
    <3>1. \A r \in T : Labelled(r).column = r.column
      BY <2>1 DEF Good, RowSet, Labelled
    <3> QED
      BY <2>1, <3>1 DEF OneRowPerSite, IsCoarse
  <2>10. U = OverRows(rows, S)
    BY <1>2 DEF OverRows, T
  <2>11. Len(p) = Len(merged)
    <3>1. DOMAIN p = DOMAIN merged
      BY <2>2
    <3>2. merged \in Seq(T) /\ p \in Seq(U)
      BY <2>1, <2>5 DEF Lists
    <3> QED
      BY <3>1, <3>2
  <2> HIDE DEF U
  <2> QED
    BY <2>1, <2>5, <2>6, <2>7, <2>8, <2>9, <2>10, <2>11 DEF p, merged
<1> QED
  BY <1>1, <1>2

\* A file reports each of its findings in one row.
LEMMA FileRowsKeep ==
  ASSUME InputOK, NEW f \in Files
  PROVE  \E S : Lists(FileRows(f), S) /\ Good(S) /\ Covered(S) = Findings(f) /\ \A r \in S : LabelOK(r)
<1> DEFINE rows == OverProfiles(Rows(f))
<1>1. PICK R : Lists(Rows(f), R) /\ Good(R) /\ Covered(R) = Findings(f) /\ \A r \in R : Tokened(r, f)
  BY RowsAreGood
<1>2. PICK T : Lists(rows, T) /\ Good(T) /\ Covered(T) = Covered(R) /\ \A r \in T : LabelOK(r)
  BY <1>1, OverProfilesRows
<1>3. FileRows(f) = Finalised(rows)
  BY DEF FileRows
<1> HIDE DEF rows
<1>4. PICK S : Lists(Finalised(rows), S) /\ Good(S) /\ Covered(S) = Covered(T) /\ MadeOf(S, T)
  BY <1>2, FinalisedKeeps DEF KeepsSites
<1>5. \A r \in S : LabelOK(r)
  BY <1>2, <1>4, MadeLabels, ListsAreFinite
<1> QED
  BY <1>1, <1>2, <1>3, <1>4, <1>5

\* The report keeps what the candidates of the scan stand for.
LEMMA ReportKeeps ==
  ASSUME NEW S, Good(S), \A r \in S : LabelOK(r), NEW rows, Lists(rows, S)
  PROVE  \E T : /\ Lists(Report(rows), T) /\ Good(T) /\ Covered(T) = Covered(S)
                /\ dedup => OneRowPerSite(T)
                /\ \A r \in T : LabelOK(r)
<1>1. CASE dedup
  <2>1. Report(rows) = Finalised(rows)
    BY <1>1 DEF Report
  <2>2. PICK T : Lists(Finalised(rows), T) /\ Good(T) /\ Covered(T) = Covered(S) /\ OneRowPerSite(T) /\ MadeOf(T, S)
    BY FinalisedKeeps DEF KeepsSites
  <2>3. \A r \in T : LabelOK(r)
    BY <2>2, MadeLabels, ListsAreFinite
  <2> QED
    BY <2>1, <2>2, <2>3
<1>2. CASE ~dedup
  <2>1. Report(rows) = Numbered(rows)
    BY <1>2 DEF Report
  <2>2. Lists(Numbered(rows), S)
    BY NumberedLists DEF Good
  <2> QED
    BY <1>2, <2>1, <2>2
<1> QED
  BY <1>1, <1>2

-----------------------------------------------------------------------------
(* The order in which lists hold their elements.                           *)

\* Ascending numbers ascend.
LEMMA AscendingAscends ==
  ASSUME NEW S \in SUBSET Nat, IsFiniteSet(S)
  PROVE  \A j, k \in DOMAIN Ascending(S) : j < k => Ascending(S)[j] < Ascending(S)[k]
<1> DEFINE below == [x \in S |-> {y \in S : y < x}]
           o == InOrder(S, below)
<1>1. \A x \in S : below[x] = {y \in S : y < x} /\ x \in Nat
  OBVIOUS
<1>2. below \in [S -> SUBSET S]
  OBVIOUS
<1> HIDE DEF below
<1>3. ASSUME NEW x \in S, NEW y \in S, y \in below[x]  PROVE below[y] \subseteq below[x]
  <2>1. ASSUME NEW z \in below[y]  PROVE z \in below[x]
    <3>1. z \in S /\ z < y /\ y < x
      BY <1>1, <1>3, <2>1
    <3>2. z < x
      BY <1>1, <3>1
    <3> QED  BY <1>1, <3>1, <3>2
  <2> QED  BY <2>1
<1>4. \A x, y \in S : x = y \/ x \in below[y] \/ y \in below[x]
  BY <1>1
<1>5. Orders(below, S)
  BY <1>1, <1>2, <1>3, <1>4 DEF Orders
<1>6. DOMAIN o = 1..Cardinality(S) /\ Lists(o, S) /\ \A j, k \in 1..Cardinality(S) : j < k => o[j] \in below[o[k]]
  BY <1>5, InOrderAscends
<1>7. o = Ascending(S)
  BY DEF Ascending, below
<1> HIDE DEF o
<1>8. \A j, k \in DOMAIN o : j < k => o[j] < o[k]
  <2>1. o \in Seq(S)
    BY <1>6 DEF Lists
  <2>2. \A k \in DOMAIN o : o[k] \in S
    BY <2>1
  <2> QED
    BY <1>1, <1>6, <2>2
<1> QED
  BY <1>7, <1>8

\* Selected rows keep their order.
LEMMA RowsAtInLine ==
  ASSUME NEW S, NEW q, Lists(q, S), NEW T \in SUBSET DOMAIN q
  PROVE  \A j, k \in DOMAIN RowsAt(q, T) : j < k =>
           \E a, b \in T : a < b /\ RowsAt(q, T)[j] = q[a] /\ RowsAt(q, T)[k] = q[b]
<1>1. T \in SUBSET Nat /\ IsFiniteSet(T)
  BY ListsAreFinite, FS_Subset
<1>2. Lists(Ascending(T), T) /\ \A j, k \in DOMAIN Ascending(T) : j < k => Ascending(T)[j] < Ascending(T)[k]
  BY <1>1, AscendingLists, AscendingAscends
<1>3. DOMAIN RowsAt(q, T) = DOMAIN Ascending(T)
      /\ \A k \in DOMAIN Ascending(T) : RowsAt(q, T)[k] = q[Ascending(T)[k]] /\ Ascending(T)[k] \in T
  BY <1>2 DEF RowsAt, Lists
<1> QED
  BY <1>2, <1>3

\* In sorted rows one follows another that is before it, or equal and came first.
LEMMA SortedInLine ==
  ASSUME NEW S \in SUBSET RowSet, NEW rows, Lists(rows, S)
  PROVE  \A x, y : Follows(Sorted(rows), x, y) =>
           /\ x \in S /\ y \in S
           /\ Before(x, y) \/ (~Before(y, x) /\ Follows(rows, x, y))
<1> DEFINE D == DOMAIN rows
           p == Sorted(rows)
           order == SortOrder(rows)
           first(i, j) == Before(rows[i], rows[j]) \/ (~Before(rows[j], rows[i]) /\ i < j)
<1>1. \A i \in D : rows[i] \in S
  BY ListsAreFinite
<1>2. /\ Lists(order, D) /\ DOMAIN order = D /\ p = [k \in D |-> rows[order[k]]]
      /\ \A j, k \in D : j < k => first(order[j], order[k])
  BY SortedOrder
<1> HIDE DEF order, p, D
<1>3. order \in Seq(D)
  BY <1>2 DEF Lists
<1>4. DOMAIN p = D /\ \A k \in D : p[k] = rows[order[k]] /\ order[k] \in D
  BY <1>2, <1>3
<1>5. ASSUME NEW a \in D, NEW b \in D, a < b
      PROVE  /\ p[a] \in S /\ p[b] \in S
             /\ Before(p[a], p[b]) \/ (~Before(p[b], p[a]) /\ Follows(rows, p[a], p[b]))
  <2>1. first(order[a], order[b])
    BY <1>2, <1>5
  <2> QED
    BY <1>1, <1>4, <2>1 DEF Follows, D
<1>6. ASSUME NEW x, NEW y, Follows(p, x, y)
      PROVE  x \in S /\ y \in S /\ (Before(x, y) \/ (~Before(y, x) /\ Follows(rows, x, y)))
  <2>1. PICK a \in D, b \in D : a < b /\ p[a] = x /\ p[b] = y
    BY <1>4, <1>6 DEF Follows
  <2> QED
    BY <1>5, <2>1
<1> QED
  BY <1>6 DEF p

\* Ascending numbers are below those of a list that has them and others.
LEMMA FewerClimbFaster ==
  ASSUME NEW a \in Seq(Nat), NEW b \in Seq(Nat),
         \A j, k \in DOMAIN a : j < k => a[j] < a[k], \A j, k \in DOMAIN b : j < k => b[j] < b[k],
         \A j \in DOMAIN a : \E k \in DOMAIN b : b[k] = a[j]
  PROVE  \A n \in DOMAIN a : n \in DOMAIN b /\ b[n] <= a[n]
<1>1. /\ DOMAIN a = 1..Len(a) /\ Len(a) \in Nat /\ DOMAIN b = 1..Len(b) /\ Len(b) \in Nat
      /\ \A j \in DOMAIN a : a[j] \in Nat
      /\ \A j \in DOMAIN b : b[j] \in Nat
  OBVIOUS
<1> DEFINE at(n) == n = 0 \/ \E k \in DOMAIN b : b[k] = a[n] /\ n <= k
           T == {n \in Nat : at(n)}
<1>2. 0 \in T
  OBVIOUS
<1>3. ASSUME NEW m \in 0..(Len(a) - 1), m \in T  PROVE m + 1 \in T
  <2>1. m + 1 \in DOMAIN a /\ m + 1 \in Nat
    BY <1>1
  <2>2. PICK k \in DOMAIN b : b[k] = a[m + 1]
    BY <2>1
  <2>3. CASE m = 0
    BY <1>1, <2>1, <2>2, <2>3
  <2>4. CASE m # 0
    <3>1. PICK i \in DOMAIN b : b[i] = a[m] /\ m <= i
      BY <1>3, <2>4
    <3>2. m \in DOMAIN a /\ m < m + 1
      BY <1>1, <2>4
    <3>5. a[m] < a[m + 1]
      BY <2>1, <3>2
    <3>3. ~(k <= i)
      <4>1. CASE k = i
        BY <1>1, <2>1, <2>2, <3>1, <3>2, <3>5, <4>1
      <4>2. CASE k < i
        <5>1. b[k] < b[i]
          BY <4>2
        <5> QED  BY <1>1, <2>1, <2>2, <3>1, <3>2, <3>5, <5>1
      <4> QED  BY <1>1, <4>1, <4>2
    <3>4. m + 1 <= k
      BY <1>1, <3>1, <3>3
    <3> QED  BY <2>1, <2>2, <3>4
  <2> QED  BY <2>3, <2>4
<1>4. 0..Len(a) \subseteq T
  <2> HIDE DEF T
  <2> QED  BY <1>1, <1>2, <1>3, Counting
<1> SUFFICES ASSUME NEW n \in DOMAIN a  PROVE n \in DOMAIN b /\ b[n] <= a[n]
  OBVIOUS
<1>5. n \in 1..Len(a) /\ n \in T /\ n # 0
  BY <1>1, <1>4
<1>6. PICK k \in DOMAIN b : b[k] = a[n] /\ n <= k
  BY <1>5
<1>7. n \in DOMAIN b
  BY <1>1, <1>5, <1>6
<1>8. n = k \/ b[n] < b[k]
  BY <1>1, <1>6, <1>7
<1> QED
  BY <1>1, <1>6, <1>7, <1>8

\* Of two elements of a list one follows the other.
LEMMA FollowsOnce ==
  ASSUME NEW S, NEW q, Lists(q, S)
  PROVE  /\ \A x, y : Follows(q, x, y) => x \in S /\ y \in S /\ x # y /\ ~Follows(q, y, x)
         /\ \A x, y \in S : x = y \/ Follows(q, x, y) \/ Follows(q, y, x)
<1>1. /\ DOMAIN q \in SUBSET Nat /\ \A i \in DOMAIN q : q[i] \in S
      /\ \A j, k \in DOMAIN q : q[j] = q[k] => j = k
      /\ \A x \in S : \E i \in DOMAIN q : q[i] = x
  <2>1. q \in Seq(S) /\ \A j, k \in DOMAIN q : q[j] = q[k] => j = k
    BY DEF Lists
  <2>2. \A x \in S : \E i \in DOMAIN q : q[i] = x
    BY DEF Lists
  <2> QED
    BY <2>1, <2>2
<1>2. ASSUME NEW x, NEW y, Follows(q, x, y)  PROVE x \in S /\ y \in S /\ x # y /\ ~Follows(q, y, x)
  <2>1. PICK a \in DOMAIN q, b \in DOMAIN q : a < b /\ q[a] = x /\ q[b] = y
    BY <1>2 DEF Follows
  <2>2. a \in Nat /\ b \in Nat /\ a # b /\ ~(b < a)
    BY <1>1, <2>1
  <2>3. ASSUME Follows(q, y, x)  PROVE FALSE
    <3>1. PICK c \in DOMAIN q, d \in DOMAIN q : c < d /\ q[c] = y /\ q[d] = x
      BY <2>3 DEF Follows
    <3>2. c = b /\ d = a
      BY <1>1, <2>1, <3>1
    <3> QED  BY <2>2, <3>1, <3>2
  <2> QED  BY <1>1, <2>1, <2>2, <2>3
<1>3. ASSUME NEW x \in S, NEW y \in S, x # y  PROVE Follows(q, x, y) \/ Follows(q, y, x)
  <2>1. PICK a \in DOMAIN q : q[a] = x
    BY <1>1
  <2>2. PICK b \in DOMAIN q : q[b] = y
    BY <1>1
  <2>3. a < b \/ b < a
    BY <1>1, <1>3, <2>1, <2>2
  <2> QED  BY <2>1, <2>2, <2>3 DEF Follows
<1> QED  BY <1>2, <1>3

\* The rows in excess of the first n.
LEMMA ExcessAt ==
  ASSUME NEW S, NEW q \in Seq(S), NEW n \in Nat
  PROVE  /\ Excess(q, n) \in Seq(S)
         /\ \A k \in DOMAIN Excess(q, n) : n + k \in DOMAIN q /\ Excess(q, n)[k] = q[n + k]
         /\ \A j \in DOMAIN q : j > n => j - n \in DOMAIN Excess(q, n)
         /\ Len(q) <= n => Excess(q, n) = << >>
<1> DEFINE e == Excess(q, n)
<1>1. Len(q) \in Nat /\ DOMAIN q = 1..Len(q) /\ \A k \in 1..Len(q) : q[k] \in S
  OBVIOUS
<1>2. CASE n >= Len(q)
  <2>1. e = << >>
    BY <1>1, <1>2 DEF Excess
  <2> QED
    BY <1>1, <1>2, <2>1
<1>3. CASE n < Len(q)
  <2>1. e = [k \in 1..(Len(q) - n) |-> q[n + k]]
    <3>1. e = [k \in 1..(Len(q) - (n + 1) + 1) |-> q[(n + 1) + k - 1]]
      BY <1>1, <1>3 DEF Excess
    <3>2. Len(q) - (n + 1) + 1 = Len(q) - n
      BY <1>1
    <3>3. \A k \in 1..(Len(q) - n) : (n + 1) + k - 1 = n + k
      BY <1>1
    <3> QED
      BY <3>1, <3>2, <3>3
  <2>2. \A k \in 1..(Len(q) - n) : n + k \in 1..Len(q)
    BY <1>1, <1>3
  <2>3. e \in [1..(Len(q) - n) -> S] /\ Len(q) - n \in Nat
    BY <1>1, <1>3, <2>1, <2>2
  <2>4. e \in Seq(S) /\ DOMAIN e = 1..(Len(q) - n)
    BY <2>3
  <2>5. \A k \in DOMAIN e : e[k] = q[n + k]
    BY <2>1, <2>4
  <2>6. \A j \in 1..Len(q) : j > n => j - n \in 1..(Len(q) - n)
    BY <1>1, <1>3
  <2> HIDE DEF e
  <2>7. ~(Len(q) <= n)
    BY <1>1, <1>3
  <2> QED
    BY <1>1, <2>2, <2>4, <2>5, <2>6, <2>7 DEF e
<1> QED
  BY <1>1, <1>2, <1>3

\* No row comes after one that is to be before it.
Ordered(rows) == \A x, y : Follows(rows, x, y) => ~Before(y, x)

\* Sorted rows are in order.
LEMMA SortedIsOrdered ==
  ASSUME NEW S \in SUBSET RowSet, NEW rows, Lists(rows, S)
  PROVE  Ordered(Sorted(rows))
<1> SUFFICES ASSUME NEW x, NEW y, Follows(Sorted(rows), x, y)  PROVE ~Before(y, x)
  BY DEF Ordered
<1>1. x \in S /\ y \in S /\ (Before(x, y) \/ ~Before(y, x))
  BY SortedInLine
<1> QED
  BY <1>1, BeforeOrders

\* The rows left over are in order, and if one is, so are those of its message
\* that come after it.
RestInv(s, rows) ==
  /\ InLine(s.rest, rows)
  /\ \A x, y : Follows(rows, x, y) /\ IsCoarse(x) /\ IsCoarse(y) /\ x.message = y.message /\ x \in ToSet(s.rest)
       => y \in ToSet(s.rest)

\* Pairing a message keeps that.
LEMMA RestStep ==
  ASSUME NEW S \in SUBSET RowSet, NEW rows, Lists(rows, S), Ordered(rows),
         NEW s \in PairStates(S), NEW m \in Nat \ {0}, NEW columns, PairInv(s, S, columns, m - 1), RestInv(s, rows)
  PROVE  RestInv(Pair(s, m, rows), rows)
<1> DEFINE same == RowsAt(rows, SameAt(rows, m))
           sites == Ascending(FreeSites(s, m))
           n == Len(sites)
           U == SameRows(S, m)
           left == Excess(same, n)
           t == Pair(s, m, rows)
<1>1. Lists(same, U) /\ sites \in Seq(DOMAIN s.clusters)
  BY SameAndSites
<1>2. t.rest = s.rest \o left
  BY DEF Pair, SameAt, FreeSites
<1>3. \A j, k \in DOMAIN same : j < k => Follows(rows, same[j], same[k])
  <2>1. SameAt(rows, m) \in SUBSET DOMAIN rows
    BY DEF SameAt
  <2>2. \A j, k \in DOMAIN same : j < k =>
          \E a, b \in SameAt(rows, m) : a < b /\ same[j] = rows[a] /\ same[k] = rows[b]
    BY <2>1, RowsAtInLine
  <2> QED  BY <2>1, <2>2 DEF Follows
<1> HIDE DEF same, sites, t
<1>4. n \in Nat /\ same \in Seq(U) /\ DOMAIN same \in SUBSET Nat
  BY <1>1 DEF Lists
<1>5. /\ left \in Seq(U)
      /\ \A k \in DOMAIN left : n + k \in DOMAIN same /\ left[k] = same[n + k]
      /\ \A j \in DOMAIN same : j > n => j - n \in DOMAIN left
  BY <1>4, ExcessAt
<1> HIDE DEF left, n
<1>6. s.rest \in Seq(S) /\ U \subseteq S /\ \A r \in U : IsCoarse(r) /\ r.message = m
  BY DEF PairStates, SameRows
<1>7. /\ Len(s.rest) \in Nat /\ Len(left) \in Nat
      /\ DOMAIN s.rest = 1..Len(s.rest) /\ DOMAIN left = 1..Len(left)
      /\ DOMAIN (s.rest \o left) = 1..(Len(s.rest) + Len(left))
      /\ \A k \in 1..(Len(s.rest) + Len(left)) :
           (s.rest \o left)[k] = IF k <= Len(s.rest) THEN s.rest[k] ELSE left[k - Len(s.rest)]
  <2>1. left \in Seq(S)
    BY <1>5, <1>6
  <2> QED  BY <1>6, <2>1
<1>8. \A i \in DOMAIN t.rest : \/ i <= Len(s.rest) /\ i \in DOMAIN s.rest /\ t.rest[i] = s.rest[i]
                                 /\ t.rest[i] \in ToSet(s.rest)
                               \/ ~(i <= Len(s.rest)) /\ i - Len(s.rest) \in DOMAIN left /\ t.rest[i] \in U
                                 /\ t.rest[i] = left[i - Len(s.rest)] /\ t.rest[i] \in ToSet(left)
  <2> TAKE i \in DOMAIN t.rest
  <2>1. /\ i \in 1..(Len(s.rest) + Len(left))
        /\ t.rest[i] = IF i <= Len(s.rest) THEN s.rest[i] ELSE left[i - Len(s.rest)]
    BY <1>2, <1>7
  <2>2. CASE i <= Len(s.rest)
    <3>1. i \in DOMAIN s.rest /\ t.rest[i] = s.rest[i]
      BY <1>7, <2>1, <2>2
    <3> QED  BY <2>2, <3>1 DEF ToSet
  <2>3. CASE ~(i <= Len(s.rest))
    <3>1. i - Len(s.rest) \in DOMAIN left
      BY <1>7, <2>1, <2>3
    <3>2. t.rest[i] = left[i - Len(s.rest)]
      BY <2>1, <2>3
    <3>3. left[i - Len(s.rest)] \in U
      BY <1>5, <1>7, <3>1
    <3> QED  BY <2>3, <3>1, <3>2, <3>3 DEF ToSet
  <2> QED  BY <2>2, <2>3
<1>9. ToSet(t.rest) = ToSet(s.rest) \cup ToSet(left)
  <2>1. ToSet(t.rest) \subseteq ToSet(s.rest) \cup ToSet(left)
    <3> SUFFICES ASSUME NEW i \in DOMAIN t.rest  PROVE t.rest[i] \in ToSet(s.rest) \cup ToSet(left)
      BY DEF ToSet
    <3> QED  BY <1>8
  <2>2. ASSUME NEW i \in DOMAIN s.rest  PROVE s.rest[i] \in ToSet(t.rest)
    <3>1. i \in DOMAIN t.rest /\ t.rest[i] = s.rest[i]
      BY <1>2, <1>7
    <3> QED  BY <3>1 DEF ToSet
  <2>3. ASSUME NEW i \in DOMAIN left  PROVE left[i] \in ToSet(t.rest)
    <3>1. /\ i + Len(s.rest) \in 1..(Len(s.rest) + Len(left))
          /\ ~(i + Len(s.rest) <= Len(s.rest)) /\ (i + Len(s.rest)) - Len(s.rest) = i
      BY <1>7
    <3>2. i + Len(s.rest) \in DOMAIN t.rest /\ t.rest[i + Len(s.rest)] = left[i]
      BY <1>2, <1>7, <3>1
    <3> QED  BY <3>2 DEF ToSet
  <2> QED  BY <2>1, <2>2, <2>3 DEF ToSet
<1>10. ASSUME NEW x \in ToSet(s.rest), NEW y \in U  PROVE Follows(rows, x, y)
  <2>1. x \in S /\ IsCoarse(x) /\ x.message \in 1..(m - 1)
    BY DEF PairInv
  <2>2. y \in S /\ IsCoarse(y) /\ y.message = m
    BY <1>6
  <2>3. Before(x, y) /\ x # y
    BY <2>1, <2>2 DEF Before, IsCoarse
  <2>4. ~Follows(rows, y, x)
    BY <2>3 DEF Ordered
  <2> QED  BY <2>1, <2>2, <2>3, <2>4, FollowsOnce
<1>11. InLine(t.rest, rows)
  <2> SUFFICES ASSUME NEW j \in DOMAIN t.rest, NEW k \in DOMAIN t.rest, j < k
               PROVE  Follows(rows, t.rest[j], t.rest[k])
    BY DEF InLine
  <2>0. j \in Nat /\ k \in Nat
    BY <1>2, <1>7
  <2>1. CASE k <= Len(s.rest)
    <3>1. j <= Len(s.rest)
      BY <1>7, <2>0, <2>1
    <3> QED  BY <1>8, <2>1, <3>1 DEF RestInv, InLine
  <2>2. CASE j <= Len(s.rest) /\ ~(k <= Len(s.rest))
    BY <1>8, <1>10, <2>2
  <2>3. CASE ~(j <= Len(s.rest))
    <3>1. ~(k <= Len(s.rest))
      BY <1>7, <2>0, <2>3
    <3> DEFINE c == j - Len(s.rest)
               d == k - Len(s.rest)
    <3>2. c \in DOMAIN left /\ d \in DOMAIN left /\ t.rest[j] = left[c] /\ t.rest[k] = left[d]
      BY <1>8, <2>3, <3>1
    <3>3. n + c < n + d
      BY <1>4, <1>7, <2>0, <3>2
    <3> HIDE DEF c, d
    <3> QED  BY <1>3, <1>5, <3>2, <3>3
  <2> QED  BY <2>1, <2>2, <2>3
<1>12. ASSUME NEW x, NEW y, Follows(rows, x, y), IsCoarse(x), IsCoarse(y), x.message = y.message, x \in ToSet(t.rest)
       PROVE  y \in ToSet(t.rest)
  <2>1. CASE x \in ToSet(s.rest)
    BY <1>9, <1>12, <2>1 DEF RestInv
  <2>2. CASE x \in ToSet(left)
    <3>1. PICK c \in DOMAIN left : x = left[c]
      BY <2>2 DEF ToSet
    <3>2. n + c \in DOMAIN same /\ x = same[n + c] /\ x \in U
      BY <1>5, <3>1
    <3>3. x \in S /\ y \in S /\ x # y /\ ~Follows(rows, y, x)
      BY <1>12, FollowsOnce
    <3>4. y \in U
      BY <1>6, <1>12, <3>2, <3>3 DEF SameRows
    <3>5. PICK j \in DOMAIN same : same[j] = y
      BY <1>1, <3>4 DEF Lists
    <3>6. ~(j < n + c) /\ j # n + c
      BY <1>3, <3>2, <3>3, <3>5
    <3>7. j > n
      BY <1>4, <1>7, <3>1, <3>5, <3>6
    <3>8. j - n \in DOMAIN left /\ n + (j - n) = j
      BY <1>4, <1>5, <3>5, <3>7
    <3>9. y = left[j - n]
      BY <1>5, <3>5, <3>8
    <3>10. y \in ToSet(left)
      BY <3>8, <3>9 DEF ToSet
    <3> QED  BY <1>9, <3>10
  <2> QED  BY <1>9, <1>12, <2>1, <2>2
<1> QED
  BY <1>11, <1>12 DEF RestInv, t

\* What holds before any message, and after a message if it did before it, holds
\* when rows are paired.
LEMMA PairInduction ==
  ASSUME NEW S \in SUBSET RowSet, NEW rows, Lists(rows, S), NEW I, <<Unpaired(rows), 0>> \in I,
         \A s \in PairStates(S), m \in 1..Cardinality(Messages) :
           PairInv(s, S, PreciseColumns(S), m - 1) /\ <<s, m - 1>> \in I => <<Pair(s, m, rows), m>> \in I
  PROVE  <<Paired(rows), Cardinality(Messages)>> \in I
<1> DEFINE M == Cardinality(Messages)
           columns == PreciseColumns(S)
<1>1. PICK after : /\ PairsUp(after, rows)
                   /\ \A m \in 0..M : after[m] \in PairStates(S) /\ PairInv(after[m], S, columns, m)
  BY PairedSteps
<1>2. M \in Nat
  BY RowsAssumption, FS_CardinalityType
<1>3. /\ after[0] = Unpaired(rows) /\ Paired(rows) = after[M]
      /\ \A m \in 1..M : after[m] = Pair(after[m - 1], m, rows)
  BY <1>1 DEF PairsUp
<1>4. \A s \in PairStates(S), m \in 1..M :
        PairInv(s, S, columns, m - 1) /\ <<s, m - 1>> \in I => <<Pair(s, m, rows), m>> \in I
  OBVIOUS
<1> HIDE DEF M, columns
<1> DEFINE T == {m \in Nat : <<after[m], m>> \in I}
<1>5. 0 \in T
  BY <1>3
<1>6. ASSUME NEW m \in 0..(M - 1), m \in T  PROVE m + 1 \in T
  <2>1. m + 1 \in 1..M /\ m \in 0..M /\ (m + 1) - 1 = m /\ m + 1 \in Nat
    BY <1>2
  <2>2. after[m + 1] = Pair(after[m], m + 1, rows) /\ <<after[m], m>> \in I
    BY <1>3, <1>6, <2>1
  <2>3. after[m] \in PairStates(S) /\ PairInv(after[m], S, columns, (m + 1) - 1)
    BY <1>1, <2>1
  <2>4. <<Pair(after[m], m + 1, rows), m + 1>> \in I
    BY <1>4, <2>1, <2>2, <2>3
  <2> QED  BY <2>1, <2>2, <2>4
<1>7. 0..M \subseteq T
  <2> HIDE DEF T
  <2> QED  BY <1>2, <1>5, <1>6, Counting
<1>8. M \in T
  BY <1>2, <1>7
<1> QED
  BY <1>3, <1>8 DEF M

\* So the rows left over are in the order of the list.
LEMMA RestInLine ==
  ASSUME NEW S \in SUBSET RowSet, NEW rows, Lists(rows, S), Ordered(rows)
  PROVE  RestInv(Paired(rows), rows)
<1> DEFINE I == {x \in PairStates(S) \X Nat : RestInv(x[1], rows)}
<1>1. <<Unpaired(rows), 0>> \in I
  <2>1. Unpaired(rows).rest = << >>
    BY DEF Unpaired, Nothing
  <2>2. RestInv(Unpaired(rows), rows)
    BY <2>1 DEF RestInv, InLine, ToSet
  <2> QED  BY <2>2, UnpairedInv
<1>2. ASSUME NEW s \in PairStates(S), NEW m \in 1..Cardinality(Messages),
             PairInv(s, S, PreciseColumns(S), m - 1), <<s, m - 1>> \in I
      PROVE  <<Pair(s, m, rows), m>> \in I
  <2>1. m \in Nat \ {0}
    OBVIOUS
  <2>2. Pair(s, m, rows) \in PairStates(S) /\ RestInv(s, rows)
    BY <1>2, <2>1, PairStep
  <2>3. RestInv(Pair(s, m, rows), rows)
    BY <1>2, <2>1, <2>2, RestStep
  <2> QED  BY <2>1, <2>2, <2>3
<1>3. <<Paired(rows), Cardinality(Messages)>> \in I
  <2> HIDE DEF I
  <2> QED  BY <1>1, <1>2, PairInduction
<1> QED
  BY <1>3

\* A list is as long as its set is large.
LEMMA ListsCount ==
  ASSUME NEW S, NEW q, Lists(q, S)
  PROVE  IsFiniteSet(S) /\ Len(q) \in Nat /\ Len(q) = Cardinality(S)
<1>1. DOMAIN q = 1..Len(q) /\ Len(q) \in Nat /\ q \in [1..Len(q) -> S] /\ IsFiniteSet(S)
  BY ListsAreFinite DEF Lists
<1>2. q \in Surjection(1..Len(q), S) /\ q \in Injection(1..Len(q), S)
  BY <1>1 DEF Lists, Surjection, Injection, IsInjective
<1>3. IsFiniteSet(1..Len(q)) /\ Cardinality(1..Len(q)) = Len(q)
  BY <1>1, FS_Interval
<1>4. Cardinality(S) = Cardinality(1..Len(q))
  BY <1>2, <1>3, FS_Surjection
<1> QED
  BY <1>1, <1>3, <1>4

\* The steps of a pairing: the rows and the sites of a message are listed, and
\* the first ones are paired.
PairsOff(s, t, S, m, same, sites) ==
  /\ Lists(same, SameRows(S, m)) /\ Lists(sites, FreeSites(s, m))
  /\ DOMAIN t.clusters = DOMAIN s.clusters
  /\ \A k \in DOMAIN s.clusters : \A r \in t.clusters[k] :
       r \in s.clusters[k] \/ \E i \in DOMAIN same \cap DOMAIN sites : r = same[i] /\ sites[i] = k
  /\ \A k \in DOMAIN s.clusters : s.clusters[k] \subseteq t.clusters[k]
  /\ t.paired = s.paired \cup {sites[i] : i \in DOMAIN same \cap DOMAIN sites}
  /\ t.rest = s.rest \o Excess(same, Len(sites))

\* Pairing a message is such a step.
LEMMA PairMakes ==
  ASSUME NEW S \in SUBSET RowSet, NEW rows, Lists(rows, S), NEW s \in PairStates(S), NEW m
  PROVE  \E same, sites : PairsOff(s, Pair(s, m, rows), S, m, same, sites)
<1> DEFINE same == RowsAt(rows, SameAt(rows, m))
           sites == Ascending(FreeSites(s, m))
           pairs == DOMAIN same \cap DOMAIN sites
           joining(k) == {same[i] : i \in {j \in pairs : sites[j] = k}}
           t == Pair(s, m, rows)
<1>1. Lists(same, SameRows(S, m))
  BY SameAndSites
<1>2. Lists(sites, FreeSites(s, m))
  <2>1. s.clusters \in Seq(SUBSET S)
    BY DEF PairStates
  <2>2. DOMAIN s.clusters = 1..Len(s.clusters) /\ Len(s.clusters) \in Nat
    BY <2>1
  <2>3. IsFiniteSet(DOMAIN s.clusters) /\ DOMAIN s.clusters \subseteq Nat
    BY <2>2, FS_Interval
  <2>4. FreeSites(s, m) \in SUBSET DOMAIN s.clusters
    BY DEF FreeSites
  <2>5. IsFiniteSet(FreeSites(s, m)) /\ FreeSites(s, m) \in SUBSET Nat
    BY <2>3, <2>4, FS_Subset
  <2> QED  BY <2>5, AscendingLists
<1>3. t = [clusters |-> [k \in DOMAIN s.clusters |-> s.clusters[k] \cup joining(k)],
           paired |-> s.paired \cup {sites[i] : i \in pairs},
           rest |-> s.rest \o Excess(same, Len(sites))]
  BY DEF Pair, SameAt, FreeSites
<1> HIDE DEF same, sites, t
<1>4. /\ DOMAIN t.clusters = DOMAIN s.clusters
      /\ \A k \in DOMAIN s.clusters : t.clusters[k] = s.clusters[k] \cup joining(k)
      /\ t.paired = s.paired \cup {sites[i] : i \in pairs}
      /\ t.rest = s.rest \o Excess(same, Len(sites))
  BY <1>3
<1>5. \A k \in DOMAIN s.clusters : \A r \in t.clusters[k] :
        r \in s.clusters[k] \/ \E i \in pairs : r = same[i] /\ sites[i] = k
  BY <1>4
<1>6. \A k \in DOMAIN s.clusters : s.clusters[k] \subseteq t.clusters[k]
  BY <1>4
<1>7. PairsOff(s, t, S, m, same, sites)
  BY <1>1, <1>2, <1>4, <1>5, <1>6 DEF PairsOff
<1> QED
  BY <1>7 DEF t

\* A site has at most one coarse row, which has the message of one of its precise
\* rows.
SiteInv(s, S, columns) ==
  /\ \A k \in DOMAIN columns : \A r \in s.clusters[k] : IsCoarse(r) =>
       k \in s.paired /\ \E u \in S : u.column = columns[k] /\ u.message = r.message
  /\ \A k \in DOMAIN columns : \A r, u \in s.clusters[k] : IsCoarse(r) /\ IsCoarse(u) => r = u

\* Pairing a message keeps that.
LEMMA SiteStep ==
  ASSUME NEW S \in SUBSET RowSet, NEW rows, Lists(rows, S), NEW s \in PairStates(S), NEW m \in Nat \ {0},
         NEW columns, PairInv(s, S, columns, m - 1), SiteInv(s, S, columns)
  PROVE  SiteInv(Pair(s, m, rows), S, columns)
<1> DEFINE t == Pair(s, m, rows)
<1>0. PICK same, sites : PairsOff(s, t, S, m, same, sites)
  BY PairMakes
<1>1. /\ Lists(same, SameRows(S, m)) /\ Lists(sites, FreeSites(s, m))
      /\ \A k \in DOMAIN s.clusters : \A r \in t.clusters[k] :
           r \in s.clusters[k] \/ \E i \in DOMAIN same \cap DOMAIN sites : r = same[i] /\ sites[i] = k
      /\ t.paired = s.paired \cup {sites[i] : i \in DOMAIN same \cap DOMAIN sites}
  BY <1>0 DEF PairsOff
<1>2. DOMAIN s.clusters = DOMAIN columns
      /\ \A k \in DOMAIN columns : s.clusters[k] \subseteq S
  <2>1. s.clusters \in Seq(SUBSET S)
    BY DEF PairStates
  <2> QED  BY <2>1 DEF PairInv
<1> HIDE DEF t
<1>3. ASSUME NEW i \in DOMAIN sites
      PROVE  /\ sites[i] \in DOMAIN columns /\ sites[i] \notin s.paired
             /\ \E u \in S : u.column = columns[sites[i]] /\ u.message = m
             /\ \A r \in s.clusters[sites[i]] : ~IsCoarse(r)
  <2>1. sites \in Seq(FreeSites(s, m))
    BY <1>1 DEF Lists
  <2>2. sites[i] \in FreeSites(s, m)
    BY <2>1
  <2>3. sites[i] \in DOMAIN columns /\ sites[i] \notin s.paired
    BY <1>2, <2>2 DEF FreeSites
  <2>4. PICK u \in s.clusters[sites[i]] : u.message = m
    BY <2>2 DEF FreeSites
  <2>5. u.column = columns[sites[i]] \/ u.message \in 1..(m - 1)
    BY <2>3 DEF PairInv
  <2>6. u.column = columns[sites[i]] /\ u \in S
    BY <1>2, <2>3, <2>4, <2>5
  <2>7. \A r \in s.clusters[sites[i]] : ~IsCoarse(r)
    BY <2>3 DEF SiteInv
  <2> QED  BY <2>3, <2>4, <2>6, <2>7
<1>4. ASSUME NEW i \in DOMAIN same  PROVE IsCoarse(same[i]) /\ same[i].message = m
  <2>1. same \in Seq(SameRows(S, m))
    BY <1>1 DEF Lists
  <2>2. same[i] \in SameRows(S, m)
    BY <2>1
  <2> QED  BY <2>2 DEF SameRows
<1>5. ASSUME NEW k \in DOMAIN columns, NEW r \in t.clusters[k], IsCoarse(r)
      PROVE  k \in t.paired /\ \E u \in S : u.column = columns[k] /\ u.message = r.message
  <2>1. CASE r \in s.clusters[k]
    BY <1>1, <1>5, <2>1 DEF SiteInv
  <2>2. CASE r \notin s.clusters[k]
    <3>1. PICK i \in DOMAIN same \cap DOMAIN sites : r = same[i] /\ sites[i] = k
      BY <1>1, <1>2, <2>2
    <3> QED  BY <1>1, <1>3, <1>4, <3>1
  <2> QED  BY <2>1, <2>2
<1>6. ASSUME NEW k \in DOMAIN columns, NEW r \in t.clusters[k], NEW u \in t.clusters[k], IsCoarse(r), IsCoarse(u)
      PROVE  r = u
  <2>1. CASE r \in s.clusters[k] /\ u \in s.clusters[k]
    BY <1>6, <2>1 DEF SiteInv
  <2>2. CASE r \notin s.clusters[k]
    <3>1. PICK i \in DOMAIN same \cap DOMAIN sites : r = same[i] /\ sites[i] = k
      BY <1>1, <1>2, <2>2
    <3>2. u \notin s.clusters[k]
      BY <1>3, <1>6, <3>1
    <3>3. PICK j \in DOMAIN same \cap DOMAIN sites : u = same[j] /\ sites[j] = k
      BY <1>1, <1>2, <3>2
    <3>4. i = j
      BY <1>1, <3>1, <3>3 DEF Lists
    <3> QED  BY <3>1, <3>3, <3>4
  <2>3. CASE u \notin s.clusters[k]
    <3>1. PICK i \in DOMAIN same \cap DOMAIN sites : u = same[i] /\ sites[i] = k
      BY <1>1, <1>2, <2>3
    <3>2. r \notin s.clusters[k]
      BY <1>3, <1>6, <3>1
    <3>3. PICK j \in DOMAIN same \cap DOMAIN sites : r = same[j] /\ sites[j] = k
      BY <1>1, <1>2, <3>2
    <3>4. i = j
      BY <1>1, <3>1, <3>3 DEF Lists
    <3> QED  BY <3>1, <3>3, <3>4
  <2> QED  BY <2>1, <2>2, <2>3
<1> QED
  BY <1>5, <1>6 DEF SiteInv, t

\* So it holds in the end.
LEMMA SitesInv ==
  ASSUME NEW S \in SUBSET RowSet, NEW rows, Lists(rows, S)
  PROVE  SiteInv(Paired(rows), S, PreciseColumns(S))
<1> DEFINE columns == PreciseColumns(S)
           I == {x \in PairStates(S) \X Nat : SiteInv(x[1], S, columns)}
<1>1. <<Unpaired(rows), 0>> \in I
  <2>1. PairInv(Unpaired(rows), S, columns, 0) /\ Unpaired(rows) \in PairStates(S)
    BY UnpairedInv
  <2>2. 1 \notin ToSet(columns)
    BY ListsAreFinite, PreciseColumnsList
  <2>3. \A k \in DOMAIN columns : \A r \in Unpaired(rows).clusters[k] : ~IsCoarse(r)
    <3> SUFFICES ASSUME NEW k \in DOMAIN columns, NEW r \in Unpaired(rows).clusters[k]  PROVE ~IsCoarse(r)
      OBVIOUS
    <3>1. r.column = columns[k] \/ r.message \in 1..0
      BY <2>1 DEF PairInv
    <3>2. columns[k] # 1
      BY <2>2 DEF ToSet
    <3> QED  BY <3>1, <3>2 DEF IsCoarse
  <2>4. SiteInv(Unpaired(rows), S, columns)
    BY <2>3 DEF SiteInv
  <2> QED  BY <2>1, <2>4
<1>2. ASSUME NEW s \in PairStates(S), NEW m \in 1..Cardinality(Messages),
             PairInv(s, S, columns, m - 1), <<s, m - 1>> \in I
      PROVE  <<Pair(s, m, rows), m>> \in I
  <2>1. m \in Nat \ {0}
    OBVIOUS
  <2>2. Pair(s, m, rows) \in PairStates(S) /\ SiteInv(s, S, columns)
    BY <1>2, <2>1, PairStep
  <2> HIDE DEF columns
  <2>3. SiteInv(Pair(s, m, rows), S, columns)
    BY <1>2, <2>1, <2>2, SiteStep
  <2> QED  BY <2>1, <2>2, <2>3
<1>3. <<Paired(rows), Cardinality(Messages)>> \in I
  <2> HIDE DEF I
  <2> QED  BY <1>1, <1>2, PairInduction
<1> QED
  BY <1>3

PreciseWith(S, m) == {r \in S : ~IsCoarse(r) /\ r.message = m}

\* If there is one precise row for each column, and no message has more coarse rows
\* than precise ones, then no row is left over.
LEMMA EachFindsASite ==
  ASSUME NEW S \in SUBSET RowSet, NEW rows, Lists(rows, S), OneRowPerSite(S),
         \A m \in 1..Cardinality(Messages) : Cardinality(SameRows(S, m)) <= Cardinality(PreciseWith(S, m))
  PROVE  Paired(rows).rest = << >>
<1> DEFINE columns == PreciseColumns(S)
           held(s, n) == \A k \in s.paired : k \in DOMAIN columns =>
                           \E u \in S : u.column = columns[k] /\ u.message \in 1..n
           I == {x \in PairStates(S) \X Nat : x[1].rest = << >> /\ held(x[1], x[2])}
<1>1. <<Unpaired(rows), 0>> \in I
  <2>1. Unpaired(rows).rest = << >> /\ Unpaired(rows).paired = {}
    BY DEF Unpaired, Nothing
  <2> QED  BY <2>1, UnpairedInv
<1>2. IsFiniteSet(S) /\ Lists(columns, {r.column : r \in S} \ {1}) /\ 1 \notin ToSet(columns)
  BY ListsAreFinite, PreciseColumnsList
<1>3. ASSUME NEW s \in PairStates(S), NEW m \in 1..Cardinality(Messages),
             PairInv(s, S, columns, m - 1), <<s, m - 1>> \in I
      PROVE  <<Pair(s, m, rows), m>> \in I
  <2> DEFINE t == Pair(s, m, rows)
             P == PreciseWith(S, m)
             K == FreeSites(s, m)
             C == {r.column : r \in S} \ {1}
  <2>1. m \in Nat \ {0} /\ s.rest = << >> /\ held(s, m - 1)
    BY <1>3
  <2>2. t \in PairStates(S)
    BY <2>1, PairStep
  <2>3. PICK same, sites : PairsOff(s, t, S, m, same, sites)
    BY PairMakes
  <2>4. /\ Lists(same, SameRows(S, m)) /\ Lists(sites, K)
        /\ t.paired = s.paired \cup {sites[i] : i \in DOMAIN same \cap DOMAIN sites}
        /\ t.rest = s.rest \o Excess(same, Len(sites))
    BY <2>3 DEF PairsOff
  <2>5. DOMAIN s.clusters = DOMAIN columns /\ \A k \in DOMAIN columns : s.clusters[k] \subseteq S
    <3>1. s.clusters \in Seq(SUBSET S)
      BY DEF PairStates
    <3>2. DOMAIN s.clusters = DOMAIN columns
      BY <1>3 DEF PairInv
    <3> QED  BY <3>1, <3>2
  <2> HIDE DEF t
  <2>6. ASSUME NEW r \in P  PROVE \E k \in K : k \in DOMAIN columns /\ columns[k] = r.column
    <3>1. r \in S /\ ~IsCoarse(r) /\ r.message = m /\ r.column \in C
      BY DEF PreciseWith, IsCoarse
    <3> HIDE DEF C
    <3>2. PICK k \in DOMAIN columns : columns[k] = r.column
      BY <1>2, <3>1 DEF Lists, C
    <3>3. r \in s.clusters[k]
      BY <1>3, <3>1, <3>2 DEF PairInv
    <3>4. k \notin s.paired
      <4> SUFFICES ASSUME k \in s.paired  PROVE FALSE
        OBVIOUS
      <4>1. PICK u \in S : u.column = columns[k] /\ u.message \in 1..(m - 1)
        BY <2>1, <3>2
      <4>2. u = r
        BY <3>1, <3>2, <4>1 DEF OneRowPerSite
      <4> QED  BY <2>1, <3>1, <4>1, <4>2
    <3>5. k \in K
      BY <2>5, <3>1, <3>2, <3>3, <3>4 DEF FreeSites
    <3> QED  BY <3>2, <3>5
  <2>7. Cardinality(P) <= Cardinality(K)
    <3> DEFINE f == [r \in P |-> CHOOSE k \in K : k \in DOMAIN columns /\ columns[k] = r.column]
    <3>1. \A r \in P : f[r] \in K /\ f[r] \in DOMAIN columns /\ columns[f[r]] = r.column
      BY <2>6
    <3>2. f \in [P -> K]
      BY <3>1
    <3> HIDE DEF f
    <3>3. \A r, u \in P : f[r] = f[u] => r = u
      <4> SUFFICES ASSUME NEW r \in P, NEW u \in P, f[r] = f[u]  PROVE r = u
        OBVIOUS
      <4>1. r.column = u.column
        BY <3>1
      <4> QED  BY <4>1 DEF PreciseWith, OneRowPerSite
    <3>4. f \in Injection(P, K)
      BY <3>2, <3>3 DEF Injection, IsInjective
    <3>5. IsFiniteSet(K)
      BY <2>4, ListsAreFinite
    <3> HIDE DEF P, K
    <3> QED  BY <3>4, <3>5, FS_Injection
  <2>8. Len(same) <= Len(sites) /\ Len(sites) \in Nat
    <3>1. Len(same) = Cardinality(SameRows(S, m)) /\ Len(same) \in Nat
      BY <2>4, ListsCount
    <3>2. Len(sites) = Cardinality(K) /\ Len(sites) \in Nat
      BY <2>4, ListsCount
    <3>3. Cardinality(P) \in Nat /\ Cardinality(SameRows(S, m)) <= Cardinality(P)
      <4>1. P \in SUBSET S
        BY DEF PreciseWith
      <4> QED  BY <1>2, <4>1, FS_Subset, FS_CardinalityType
    <3> HIDE DEF P, K
    <3> QED  BY <2>7, <3>1, <3>2, <3>3
  <2>9. t.rest = << >>
    <3>1. same \in Seq(SameRows(S, m))
      BY <2>4 DEF Lists
    <3>2. Excess(same, Len(sites)) = << >>
      BY <2>8, <3>1, ExcessAt
    <3> QED  BY <2>1, <2>4, <3>2
  <2>10. held(t, m)
    <3> SUFFICES ASSUME NEW k \in t.paired, k \in DOMAIN columns
                 PROVE  \E u \in S : u.column = columns[k] /\ u.message \in 1..m
      OBVIOUS
    <3>1. CASE k \in s.paired
      <4>1. PICK u \in S : u.column = columns[k] /\ u.message \in 1..(m - 1)
        BY <2>1, <3>1
      <4>2. u.message \in 1..m
        BY <4>1
      <4> QED  BY <4>1, <4>2
    <3>2. CASE k \notin s.paired
      <4>1. PICK i \in DOMAIN sites : k = sites[i]
        BY <2>4, <3>2
      <4>2. sites \in Seq(K)
        BY <2>4 DEF Lists
      <4>3. k \in K
        BY <4>1, <4>2
      <4>4. PICK u \in s.clusters[k] : u.message = m
        BY <4>3 DEF FreeSites
      <4>5. u.column = columns[k] \/ u.message \in 1..(m - 1)
        BY <1>3 DEF PairInv
      <4>6. u \in S /\ u.column = columns[k] /\ u.message \in 1..m
        BY <2>1, <2>5, <4>4, <4>5
      <4> QED  BY <4>6
    <3> QED  BY <3>1, <3>2
  <2>11. t \in PairStates(S) /\ m \in Nat /\ t.rest = << >> /\ held(t, m)
    BY <2>1, <2>2, <2>9, <2>10
  <2> HIDE DEF held
  <2> QED  BY <2>11 DEF t
<1>4. <<Paired(rows), Cardinality(Messages)>> \in I
  <2> HIDE DEF I
  <2> QED  BY <1>1, <1>3, PairInduction
<1> QED
  BY <1>4

\* A coarse and a precise row have one of the first n messages.
Shared(S, n) == \E r, u \in S : IsCoarse(r) /\ ~IsCoarse(u) /\ r.message = u.message /\ r.message \in 1..n

\* Nothing is paired if and only if no message is that of a coarse and of a precise
\* row.
LEMMA SharedIsPaired ==
  ASSUME NEW S \in SUBSET RowSet, NEW rows, Lists(rows, S)
  PROVE  Paired(rows).paired = {} <=> ~Shared(S, Cardinality(Messages))
<1> DEFINE columns == PreciseColumns(S)
           I == {x \in PairStates(S) \X Nat : x[1].paired = {} <=> ~Shared(S, x[2])}
<1>1. <<Unpaired(rows), 0>> \in I
  <2>1. Unpaired(rows).paired = {}
    BY DEF Unpaired
  <2>2. ~Shared(S, 0)
    BY DEF Shared
  <2> QED  BY <2>1, <2>2, UnpairedInv
<1>2. IsFiniteSet(S) /\ Lists(columns, {r.column : r \in S} \ {1}) /\ 1 \notin ToSet(columns)
  BY ListsAreFinite, PreciseColumnsList
<1>3. ASSUME NEW s \in PairStates(S), NEW m \in 1..Cardinality(Messages),
             PairInv(s, S, columns, m - 1), <<s, m - 1>> \in I
      PROVE  <<Pair(s, m, rows), m>> \in I
  <2> DEFINE t == Pair(s, m, rows)
             C == {r.column : r \in S} \ {1}
             now == SameRows(S, m) # {} /\ PreciseWith(S, m) # {}
  <2>1. m \in Nat \ {0} /\ (s.paired = {} <=> ~Shared(S, m - 1))
    BY <1>3
  <2>2. t \in PairStates(S)
    BY <2>1, PairStep
  <2>3. PICK same, sites : PairsOff(s, t, S, m, same, sites)
    BY PairMakes
  <2>4. /\ Lists(same, SameRows(S, m)) /\ Lists(sites, FreeSites(s, m))
        /\ t.paired = s.paired \cup {sites[i] : i \in DOMAIN same \cap DOMAIN sites}
    BY <2>3 DEF PairsOff
  <2>5. DOMAIN s.clusters = DOMAIN columns /\ \A k \in DOMAIN columns : s.clusters[k] \subseteq S
    <3>1. s.clusters \in Seq(SUBSET S)
      BY DEF PairStates
    <3>2. DOMAIN s.clusters = DOMAIN columns
      BY <1>3 DEF PairInv
    <3> QED  BY <3>1, <3>2
  <2> HIDE DEF t
  <2>6. ASSUME s.paired = {}  PROVE FreeSites(s, m) # {} <=> PreciseWith(S, m) # {}
    <3>1. ASSUME NEW k \in FreeSites(s, m)  PROVE PreciseWith(S, m) # {}
      <4>1. k \in DOMAIN columns
        BY <2>5 DEF FreeSites
      <4>2. PICK u \in s.clusters[k] : u.message = m
        BY DEF FreeSites
      <4>3. u.column = columns[k] \/ u.message \in 1..(m - 1)
        BY <1>3, <4>1 DEF PairInv
      <4>4. u \in S /\ u.column = columns[k] /\ columns[k] # 1
        BY <1>2, <2>1, <2>5, <4>1, <4>2, <4>3 DEF ToSet
      <4>5. u \in PreciseWith(S, m)
        BY <4>2, <4>4 DEF PreciseWith, IsCoarse
      <4> QED  BY <4>5
    <3>2. ASSUME NEW r \in PreciseWith(S, m)  PROVE FreeSites(s, m) # {}
      <4>1. r \in S /\ ~IsCoarse(r) /\ r.message = m /\ r.column \in C
        BY DEF PreciseWith, IsCoarse
      <4> HIDE DEF C
      <4>2. PICK k \in DOMAIN columns : columns[k] = r.column
        BY <1>2, <4>1 DEF Lists, C
      <4>3. r \in s.clusters[k]
        BY <1>3, <4>1, <4>2 DEF PairInv
      <4>4. k \in FreeSites(s, m)
        BY <2>5, <2>6, <4>1, <4>2, <4>3 DEF FreeSites
      <4> QED  BY <4>4
    <3> QED  BY <3>1, <3>2
  <2>7. ASSUME s.paired = {}  PROVE t.paired = {} <=> ~now
    <3>1. /\ DOMAIN same = 1..Len(same) /\ Len(same) \in Nat
          /\ DOMAIN sites = 1..Len(sites) /\ Len(sites) \in Nat
      BY <2>4, ListsAreFinite
    <3>2. DOMAIN same = {} <=> SameRows(S, m) = {}
      <4>1. same \in Seq(SameRows(S, m)) /\ \A x \in SameRows(S, m) : \E k \in DOMAIN same : same[k] = x
        BY <2>4 DEF Lists
      <4>2. \A k \in DOMAIN same : same[k] \in SameRows(S, m)
        BY <4>1
      <4> QED  BY <4>1, <4>2
    <3>3. DOMAIN sites = {} <=> FreeSites(s, m) = {}
      <4>1. sites \in Seq(FreeSites(s, m)) /\ \A x \in FreeSites(s, m) : \E k \in DOMAIN sites : sites[k] = x
        BY <2>4 DEF Lists
      <4>2. \A k \in DOMAIN sites : sites[k] \in FreeSites(s, m)
        BY <4>1
      <4> QED  BY <4>1, <4>2
    <3>4. DOMAIN same \cap DOMAIN sites = {} <=> (DOMAIN same = {} \/ DOMAIN sites = {})
      <4>1. DOMAIN same # {} /\ DOMAIN sites # {} => 1 \in DOMAIN same /\ 1 \in DOMAIN sites
        BY <3>1
      <4> QED  BY <4>1
    <3> QED  BY <2>4, <2>6, <2>7, <3>2, <3>3, <3>4
  <2>8. Shared(S, m) <=> Shared(S, m - 1) \/ now
    <3>1. \A x : x \in 1..m <=> x \in 1..(m - 1) \/ x = m
      BY <2>1
    <3> QED  BY <3>1 DEF Shared, SameRows, PreciseWith
  <2>9. t.paired = {} <=> ~Shared(S, m)
    <3> HIDE DEF now
    <3> QED  BY <2>1, <2>4, <2>7, <2>8
  <2>10. t \in PairStates(S) /\ m \in Nat /\ (t.paired = {} <=> ~Shared(S, m))
    BY <2>1, <2>2, <2>9
  <2> QED  BY <2>10 DEF t
<1>4. <<Paired(rows), Cardinality(Messages)>> \in I
  <2> HIDE DEF I
  <2> QED  BY <1>1, <1>3, PairInduction
<1> QED
  BY <1>4

-----------------------------------------------------------------------------
(* The rows of each origin, and which of them are aligned.                 *)

OriginsOf(q) == {Origin(r) : r \in ToSet(q)}
OfOrigin(q, o) == RowsAt(q, {i \in DOMAIN q : Origin(q[i]) = o})

\* The origins that have an n-th row.
Reaching(q, n) == {o \in OriginsOf(q) : n <= Len(OfOrigin(q, o))}

\* The rows of an origin, in their order.
LEMMA OfOriginLists ==
  ASSUME NEW R, NEW q, Lists(q, R), NEW o
  PROVE  /\ Lists(OfOrigin(q, o), {r \in R : Origin(r) = o})
         /\ InLine(OfOrigin(q, o), q)
         /\ Len(OfOrigin(q, o)) \in Nat /\ DOMAIN OfOrigin(q, o) = 1..Len(OfOrigin(q, o))
<1> DEFINE T == {i \in DOMAIN q : Origin(q[i]) = o}
<1>1. T \in SUBSET DOMAIN q
  OBVIOUS
<1>2. {q[i] : i \in T} = {r \in R : Origin(r) = o}
  <2>1. q \in Seq(R) /\ \A r \in R : \E i \in DOMAIN q : q[i] = r
    BY DEF Lists
  <2>2. \A i \in DOMAIN q : q[i] \in R
    BY <2>1
  <2> QED  BY <2>1, <2>2
<1>3. OfOrigin(q, o) = RowsAt(q, T)
  BY DEF OfOrigin
<1> HIDE DEF T
<1>4. Lists(OfOrigin(q, o), {r \in R : Origin(r) = o})
  BY <1>1, <1>2, <1>3, RowsAtLists
<1>5. \A j, k \in DOMAIN RowsAt(q, T) : j < k =>
        \E a, b \in T : a < b /\ RowsAt(q, T)[j] = q[a] /\ RowsAt(q, T)[k] = q[b]
  BY <1>1, RowsAtInLine
<1>6. InLine(OfOrigin(q, o), q)
  BY <1>1, <1>3, <1>5 DEF InLine, Follows
<1>7. Len(OfOrigin(q, o)) \in Nat /\ DOMAIN OfOrigin(q, o) = 1..Len(OfOrigin(q, o))
  BY <1>4, ListsAreFinite
<1> QED
  BY <1>4, <1>6, <1>7

\* Selecting all places of a list.
LEMMA AllOfAList ==
  ASSUME NEW S, NEW q, Lists(q, S)
  PROVE  RowsAt(q, DOMAIN q) = q
<1> DEFINE D == DOMAIN q
           a == Ascending(D)
           b == [k \in D |-> k]
<1>1. D = 1..Len(q) /\ Len(q) \in Nat /\ D \in SUBSET Nat /\ IsFiniteSet(D) /\ q \in Seq(S)
  BY ListsAreFinite DEF Lists
<1>2. Lists(a, D) /\ \A j, k \in DOMAIN a : j < k => a[j] < a[k]
  <2> HIDE DEF D
  <2> QED  BY <1>1, AscendingLists, AscendingAscends
<1>3. a \in Seq(Nat) /\ b \in Seq(Nat) /\ DOMAIN b = D /\ \A k \in D : b[k] = k
  <2>1. a \in Seq(D)
    BY <1>2 DEF Lists
  <2>2. a \in Seq(Nat)
    <3> HIDE DEF a, D
    <3> QED  BY <1>1, <2>1
  <2>3. b \in [1..Len(q) -> Nat]
    BY <1>1
  <2>4. b \in Seq(Nat)
    <3> HIDE DEF b
    <3> QED  BY <1>1, <2>3
  <2> QED  BY <2>2, <2>4
<1>4. \A k \in DOMAIN a : a[k] \in D
  <2>1. a \in Seq(D)
    BY <1>2 DEF Lists
  <2> HIDE DEF a, D
  <2> QED  BY <2>1
<1> HIDE DEF a, b, D
<1>5. \A n \in DOMAIN a : n \in DOMAIN b /\ b[n] <= a[n]
  <2>1. \A j, k \in DOMAIN b : j < k => b[j] < b[k]
    BY <1>3
  <2>2. \A j \in DOMAIN a : \E k \in DOMAIN b : b[k] = a[j]
    BY <1>3, <1>4
  <2> QED  BY <1>2, <1>3, <2>1, <2>2, FewerClimbFaster
<1>6. \A n \in DOMAIN b : n \in DOMAIN a /\ a[n] <= b[n]
  <2>1. \A j, k \in DOMAIN b : j < k => b[j] < b[k]
    BY <1>3
  <2>2. \A j \in DOMAIN b : \E k \in DOMAIN a : a[k] = b[j]
    BY <1>2, <1>3 DEF Lists
  <2> QED  BY <1>2, <1>3, <2>1, <2>2, FewerClimbFaster
<1>7. DOMAIN a = D /\ \A k \in D : a[k] = k
  <2>1. DOMAIN a = D
    BY <1>3, <1>5, <1>6
  <2>2. ASSUME NEW k \in D  PROVE a[k] = k
    <3>1. k <= a[k] /\ a[k] <= k /\ a[k] \in Nat /\ k \in Nat
      BY <1>1, <1>3, <1>4, <1>5, <1>6, <2>1
    <3> QED  BY <3>1
  <2> QED  BY <2>1, <2>2
<1>8. RowsAt(q, D) = [k \in D |-> q[k]]
  BY <1>7 DEF RowsAt, a
<1> QED
  BY <1>1, <1>8 DEF D

\* Where every row has an origin, the n-th cluster has the n-th row of each origin
\* that has one.
LEMMA AlignedByOrigin ==
  ASSUME NEW R, NEW q, Lists(q, R), \A r \in R : HasOrigin(r)
  PROVE  /\ Len(Aligned(q)) \in Nat /\ DOMAIN Aligned(q) = 1..Len(Aligned(q))
         /\ \A n \in DOMAIN Aligned(q) :
              Reaching(q, n) # {} /\ Aligned(q)[n] = {OfOrigin(q, o)[n] : o \in Reaching(q, n)}
         /\ \A n \in Nat \ {0} : Reaching(q, n) # {} => n \in DOMAIN Aligned(q)
<1> DEFINE origins == {Origin(r) : r \in ToSet(q)}
           ofOrigin == [o \in origins |-> RowsAt(q, {i \in DOMAIN q : Origin(q[i]) = o})]
           lengths == {Len(ofOrigin[o]) : o \in origins}
           longest == Max(lengths)
           reach(n) == {o \in origins : n <= Len(ofOrigin[o])}
           first == [n \in 1..longest |-> {ofOrigin[o][n] : o \in {p \in origins : n <= Len(ofOrigin[p])}}]
           aligns == Cardinality(origins) > 1 /\ \A r \in ToSet(q) : HasOrigin(r)
<1>1. Aligned(q) = IF aligns THEN first ELSE [i \in DOMAIN q |-> {q[i]}]
  BY DEF Aligned
<1>2. R = ToSet(q) /\ IsFiniteSet(R) /\ DOMAIN q = 1..Len(q) /\ Len(q) \in Nat /\ R = {q[i] : i \in DOMAIN q}
  BY ListsAreFinite
<1>3. origins = OriginsOf(q) /\ \A o \in origins : ofOrigin[o] = OfOrigin(q, o)
  BY DEF OriginsOf, OfOrigin
<1>4. IsFiniteSet(origins)
  <2> DEFINE f == [r \in R |-> Origin(r)]
  <2>1. f \in Surjection(R, origins)
    BY <1>2 DEF Surjection
  <2> HIDE DEF f, origins
  <2> QED  BY <1>2, <2>1, FS_Surjection
<1>5. \A o \in origins : Len(ofOrigin[o]) \in Nat /\ Len(ofOrigin[o]) <= Cardinality(R)
  <2> SUFFICES ASSUME NEW o \in origins
               PROVE  Len(OfOrigin(q, o)) \in Nat /\ Len(OfOrigin(q, o)) <= Cardinality(R)
    BY <1>3
  <2> DEFINE T == {r \in R : Origin(r) = o}
  <2>1. T \subseteq R /\ Lists(OfOrigin(q, o), T)
    BY OfOriginLists
  <2> HIDE DEF T
  <2> QED  BY <1>2, <2>1, ListsAreBounded
<1>6. CASE aligns
  <2>1. Aligned(q) = first
    BY <1>1, <1>6
  <2> HIDE DEF ofOrigin
  <2>2. origins # {}
    BY <1>6, FS_EmptySet
  <2> HIDE DEF origins
  <2>3. lengths \in SUBSET Nat /\ lengths # {} /\ Cardinality(R) \in Nat /\ \A n \in lengths : n <= Cardinality(R)
    BY <1>2, <1>5, <2>2, FS_CardinalityType
  <2>4. longest \in lengths
    <3> HIDE DEF lengths
    <3>1. \E m \in lengths : \A n \in lengths : m >= n
      BY <2>3, GreatestNat
    <3> QED  BY <3>1 DEF Max
  <2>5. PICK p \in origins : Len(ofOrigin[p]) = longest
    BY <2>4
  <2>6. longest \in Nat
    BY <2>3, <2>4
  <2>61. \A n \in Nat \ {0} : Reaching(q, n) # {} => n \in 1..longest
    <3>1. \A n \in lengths : longest >= n
      <4> HIDE DEF lengths
      <4>1. \E m \in lengths : \A n \in lengths : m >= n
        BY <2>3, GreatestNat
      <4> QED  BY <4>1 DEF Max
    <3>2. \A o \in origins : longest >= Len(ofOrigin[o])
      BY <3>1
    <3> HIDE DEF longest
    <3>3. \A o \in OriginsOf(q) : longest >= Len(OfOrigin(q, o)) /\ Len(OfOrigin(q, o)) \in Nat
      BY <1>3, <1>5, <3>2
    <3> QED  BY <2>6, <3>3 DEF Reaching
  <2> HIDE DEF longest
  <2>7. DOMAIN first = 1..longest /\ Len(first) = longest
    BY <2>6
  <2>8. ASSUME NEW n \in 1..longest
        PROVE  reach(n) # {} /\ first[n] = {ofOrigin[o][n] : o \in reach(n)}
    BY <2>5, <2>6
  <2>9. \A n : reach(n) = Reaching(q, n)
    BY <1>3 DEF Reaching
  <2>10. ASSUME NEW n \in 1..longest
         PROVE  Reaching(q, n) # {} /\ first[n] = {OfOrigin(q, o)[n] : o \in Reaching(q, n)}
    BY <1>3, <2>8, <2>9
  <2> HIDE DEF first
  <2> QED  BY <2>1, <2>6, <2>7, <2>10, <2>61
<1>7. CASE ~aligns
  <2>1. Aligned(q) = [i \in DOMAIN q |-> {q[i]}]
    BY <1>1, <1>7
  <2>2. Cardinality(origins) \in Nat /\ ~(Cardinality(origins) > 1)
    BY <1>2, <1>4, <1>7, FS_CardinalityType
  <2> HIDE DEF aligns, first, ofOrigin
  <2>3. \A a, b \in origins : a = b
    <3> SUFFICES ASSUME NEW a \in origins, NEW b \in origins, a # b  PROVE FALSE
      OBVIOUS
    <3> HIDE DEF origins
    <3>1. {a} \cup {b} \in SUBSET origins
      OBVIOUS
    <3>2. IsFiniteSet({a}) /\ Cardinality({a}) = 1 /\ b \notin {a}
      BY FS_Singleton
    <3>3. Cardinality({a} \cup {b}) = 2
      BY <3>2, FS_AddElement
    <3>4. Cardinality({a} \cup {b}) <= Cardinality(origins)
      BY <1>4, <3>1, FS_Subset
    <3> QED  BY <2>2, <3>3, <3>4
  <2>4. ASSUME NEW n \in DOMAIN q
        PROVE  Reaching(q, n) # {} /\ {q[n]} = {OfOrigin(q, o)[n] : o \in Reaching(q, n)}
    <3> DEFINE o == Origin(q[n])
    <3>1. o \in OriginsOf(q) /\ \A u \in OriginsOf(q) : u = o
      BY <1>2, <1>3, <2>3
    <3>2. {i \in DOMAIN q : Origin(q[i]) = o} = DOMAIN q
      BY <1>2, <1>3, <2>3
    <3>3. OfOrigin(q, o) = q
      BY <3>2, AllOfAList DEF OfOrigin
    <3> HIDE DEF o
    <3>4. Reaching(q, n) = {o}
      <4>1. n <= Len(q)
        BY <1>2, <2>4
      <4> QED  BY <3>1, <3>3, <4>1 DEF Reaching
    <3> QED  BY <3>3, <3>4
  <2>5. Len(Aligned(q)) = Len(q) /\ DOMAIN Aligned(q) = DOMAIN q
    BY <1>2, <2>1
  <2>6. ASSUME NEW n \in Nat \ {0}, NEW o \in Reaching(q, n)  PROVE n \in DOMAIN q
    <3>1. o \in OriginsOf(q) /\ n <= Len(OfOrigin(q, o))
      BY <2>6 DEF Reaching
    <3>2. {i \in DOMAIN q : Origin(q[i]) = o} = DOMAIN q
      BY <1>2, <1>3, <2>3, <3>1
    <3>3. OfOrigin(q, o) = q
      BY <3>2, AllOfAList DEF OfOrigin
    <3> QED  BY <1>2, <3>1, <3>3
  <2> QED  BY <1>2, <2>1, <2>4, <2>5, <2>6
<1> QED
  BY <1>6, <1>7

\* There are no more clusters than rows of an origin.
LEMMA AlignedLength ==
  ASSUME NEW R, NEW q, Lists(q, R), \A r \in R : HasOrigin(r),
         NEW n \in Nat, \A o \in OriginsOf(q) : Cardinality({r \in R : Origin(r) = o}) <= n
  PROVE  Len(Aligned(q)) <= n
<1> DEFINE m == Len(Aligned(q))
<1>1. m \in Nat /\ DOMAIN Aligned(q) = 1..m /\ \A k \in DOMAIN Aligned(q) : Reaching(q, k) # {}
  BY AlignedByOrigin
<1> HIDE DEF m
<1>2. CASE m = 0
  BY <1>2 DEF m
<1>3. CASE m # 0
  <2>1. PICK o \in Reaching(q, m) : TRUE
    BY <1>1, <1>3
  <2>2. o \in OriginsOf(q) /\ m <= Len(OfOrigin(q, o))
    BY DEF Reaching
  <2> DEFINE T == {r \in R : Origin(r) = o}
  <2>3. Lists(OfOrigin(q, o), T)
    BY OfOriginLists
  <2>4. Cardinality(T) <= n
    BY <2>2
  <2> HIDE DEF T
  <2>5. Len(OfOrigin(q, o)) = Cardinality(T) /\ Len(OfOrigin(q, o)) \in Nat
    BY <2>3, ListsCount
  <2> QED  BY <1>1, <2>2, <2>4, <2>5 DEF m
<1> QED
  BY <1>2, <1>3

-----------------------------------------------------------------------------
(* How many rows there are.                                                *)

Cols(S) == {r.column : r \in S} \ {1}
Coarse(S) == {r \in S : IsCoarse(r)}

SitesOf(rows) == Paired(Sorted(rows)).clusters
RestOf(rows) == Paired(Sorted(rows)).rest

\* The clusters of a list of rows are those of its precise columns, and then those
\* of the coarse rows left over.
LEMMA ClusterParts ==
  ASSUME NEW S \in SUBSET RowSet, NEW rows, Lists(rows, S)
  PROVE  /\ Len(SitesOf(rows)) = Cardinality(Cols(S)) /\ Len(SitesOf(rows)) \in Nat
         /\ Len(Aligned(RestOf(rows))) \in Nat
         /\ DOMAIN Aligned(RestOf(rows)) = 1..Len(Aligned(RestOf(rows)))
         /\ DOMAIN ClustersOf(rows) = 1..(Len(SitesOf(rows)) + Len(Aligned(RestOf(rows))))
         /\ \A k \in DOMAIN ClustersOf(rows) :
              \/ k <= Len(SitesOf(rows)) /\ k \in DOMAIN PreciseColumns(S) /\ ClustersOf(rows)[k] = SitesOf(rows)[k]
              \/ /\ k - Len(SitesOf(rows)) \in DOMAIN Aligned(RestOf(rows))
                 /\ ClustersOf(rows)[k] = Aligned(RestOf(rows))[k - Len(SitesOf(rows))]
         /\ \A k \in DOMAIN Aligned(RestOf(rows)) : Aligned(RestOf(rows))[k] \in SUBSET ToSet(RestOf(rows))
<1> DEFINE sites == SitesOf(rows)
           rest == RestOf(rows)
           columns == PreciseColumns(S)
           al == Aligned(rest)
           M == Cardinality(Messages)
<1>1. Lists(Sorted(rows), S)
  BY SortedLists
<1>2. Paired(Sorted(rows)) \in PairStates(S) /\ PairInv(Paired(Sorted(rows)), S, columns, M)
  <2> DEFINE q == Sorted(rows)
  <2>1. Lists(q, S)
    BY <1>1
  <2> HIDE DEF q
  <2>2. Paired(q) \in PairStates(S) /\ PairInv(Paired(q), S, columns, M)
    BY <2>1, PairedInv
  <2> QED  BY <2>2 DEF q
<1>3. Lists(columns, Cols(S))
  <2>1. IsFiniteSet(S)
    BY ListsAreFinite
  <2> QED  BY <2>1, PreciseColumnsList DEF Cols
<1>4. Len(columns) = Cardinality(Cols(S)) /\ Len(columns) \in Nat /\ DOMAIN columns = 1..Len(columns)
  <2> HIDE DEF columns
  <2> QED  BY <1>3, ListsCount, ListsAreFinite
<1>5. sites \in Seq(SUBSET S) /\ DOMAIN sites = DOMAIN columns
  BY <1>2 DEF PairStates, PairInv, SitesOf
<1>6. Len(sites) = Len(columns)
  <2> HIDE DEF sites, columns
  <2> QED  BY <1>4, <1>5
<1>7. Clusters(al, ToSet(rest))
  <2>1. Lists(rest, ToSet(rest))
    BY <1>2 DEF PairInv, RestOf
  <2> HIDE DEF rest
  <2> QED  BY <2>1, AlignedClusters
<1>8. al \in Seq(SUBSET ToSet(rest))
  BY <1>7 DEF Clusters
<1>9. ClustersOf(rows) = sites \o al
  BY DEF ClustersOf, SitesOf, RestOf
<1>10. Len(al) \in Nat /\ DOMAIN al = 1..Len(al) /\ \A k \in DOMAIN al : al[k] \in SUBSET ToSet(rest)
  <2> HIDE DEF al, rest
  <2> QED  BY <1>8
<1> HIDE DEF sites, al, rest, columns
<1>11. /\ DOMAIN (sites \o al) = 1..(Len(sites) + Len(al))
       /\ \A k \in 1..(Len(sites) + Len(al)) :
            (sites \o al)[k] = IF k <= Len(sites) THEN sites[k] ELSE al[k - Len(sites)]
  BY <1>5, <1>8
<1>12. ASSUME NEW k \in 1..(Len(sites) + Len(al))
       PROVE  \/ k <= Len(sites) /\ k \in DOMAIN columns /\ (sites \o al)[k] = sites[k]
              \/ k - Len(sites) \in DOMAIN al /\ (sites \o al)[k] = al[k - Len(sites)]
  BY <1>4, <1>6, <1>10, <1>11
<1>13. /\ Len(sites) = Cardinality(Cols(S)) /\ Len(sites) \in Nat
       /\ DOMAIN ClustersOf(rows) = 1..(Len(sites) + Len(al))
  BY <1>4, <1>6, <1>9, <1>11
<1> QED
  BY <1>9, <1>10, <1>12, <1>13 DEF sites, al, rest, columns

\* What is in the clusters: a precise column with all its precise rows, or coarse
\* rows left over.
LEMMA ClusterRows ==
  ASSUME NEW S \in SUBSET RowSet, NEW rows, Lists(rows, S)
  PROVE  /\ \A k \in DOMAIN PreciseColumns(S) :
              /\ PreciseColumns(S)[k] \in Cols(S)
              /\ \A r \in S : r.column = PreciseColumns(S)[k] => r \in SitesOf(rows)[k]
              /\ \A r \in SitesOf(rows)[k] : r \in S /\ r.column \in {1, PreciseColumns(S)[k]}
         /\ RestOf(rows) \in Seq(S) /\ Lists(RestOf(rows), ToSet(RestOf(rows)))
         /\ \A r \in ToSet(RestOf(rows)) :
              r \in Coarse(S) /\ \A k \in DOMAIN PreciseColumns(S) : r \notin SitesOf(rows)[k]
         /\ \A r \in Coarse(S) :
              r \in ToSet(RestOf(rows)) \/ \E k \in DOMAIN PreciseColumns(S) : r \in SitesOf(rows)[k]
<1> DEFINE columns == PreciseColumns(S)
           q == Sorted(rows)
           M == Cardinality(Messages)
<1>1. Lists(q, S)
  BY SortedLists
<1>2. Paired(q) \in PairStates(S) /\ PairInv(Paired(q), S, columns, M)
  <2> HIDE DEF q
  <2> QED  BY <1>1, PairedInv
<1>3. Lists(columns, Cols(S))
  <2>1. IsFiniteSet(S)
    BY ListsAreFinite
  <2> QED  BY <2>1, PreciseColumnsList DEF Cols
<1>4. \A r \in S : r.message \in 1..M
  BY RowsAssumption DEF RowSet
<1> HIDE DEF columns
<1>5. \A k \in DOMAIN columns : columns[k] \in Cols(S)
  BY <1>3 DEF Lists
<1>6. Paired(q).clusters \in Seq(SUBSET S) /\ Paired(q).rest \in Seq(S) /\ DOMAIN Paired(q).clusters = DOMAIN columns
  BY <1>2 DEF PairStates, PairInv
<1>7. \A k \in DOMAIN columns : \A r \in Paired(q).clusters[k] : r \in S /\ r.column \in {1, columns[k]}
  <2> SUFFICES ASSUME NEW k \in DOMAIN columns, NEW r \in Paired(q).clusters[k]
               PROVE  r \in S /\ r.column \in {1, columns[k]}
    OBVIOUS
  <2>1. Paired(q).clusters[k] \in SUBSET S
    <3> DEFINE c == Paired(q).clusters
    <3>1. c \in Seq(SUBSET S) /\ k \in DOMAIN c
      BY <1>6
    <3> HIDE DEF c
    <3>2. c[k] \in SUBSET S
      BY <3>1
    <3> QED  BY <3>2 DEF c
  <2>2. r.column = columns[k] \/ IsCoarse(r)
    BY <1>2 DEF PairInv
  <2> QED  BY <2>1, <2>2 DEF IsCoarse
<1>8. \A k \in DOMAIN columns : \A r \in S : r.column = columns[k] => r \in Paired(q).clusters[k]
  BY <1>2 DEF PairInv
<1>9. /\ Lists(Paired(q).rest, ToSet(Paired(q).rest))
      /\ \A r \in ToSet(Paired(q).rest) : r \in Coarse(S) /\ \A k \in DOMAIN columns : r \notin Paired(q).clusters[k]
  BY <1>2 DEF PairInv, Coarse
<1>10. \A r \in Coarse(S) : r \in ToSet(Paired(q).rest) \/ \E k \in DOMAIN columns : r \in Paired(q).clusters[k]
  BY <1>2, <1>4 DEF PairInv, Coarse
<1> QED
  BY <1>5, <1>6, <1>7, <1>8, <1>9, <1>10 DEF SitesOf, RestOf, q, columns

\* Finalising gives one row for each precise column, and one for each cluster of
\* those left over.
LEMMA FinalisedLength ==
  ASSUME NEW S, Good(S), NEW rows, Lists(rows, S)
  PROVE  /\ Len(Finalised(rows)) = Cardinality(Cols(S)) + Len(Aligned(RestOf(rows)))
         /\ Len(Finalised(rows)) \in Nat /\ Cardinality(Cols(S)) \in Nat
<1> DEFINE a == Cardinality(Cols(S))
           b == Len(Aligned(RestOf(rows)))
<1>1. S \in SUBSET RowSet
  BY DEF Good
<1>2. a \in Nat /\ b \in Nat /\ DOMAIN ClustersOf(rows) = 1..(a + b)
  BY <1>1, ClusterParts
<1>3. Lists(Finalised(rows), MergedRows(rows)) /\ DOMAIN Finalised(rows) = 1..(a + b)
  BY <1>2, FinalisedRows
<1>4. Finalised(rows) \in Seq(MergedRows(rows))
  BY <1>3 DEF Lists
<1> HIDE DEF a, b
<1>5. Len(Finalised(rows)) = a + b
  BY <1>2, <1>3, <1>4
<1> QED
  BY <1>2, <1>5 DEF a, b

\* No more rows than there were, and no more than the precise columns and the coarse
\* rows of one origin.
LEMMA FinalisedBound ==
  ASSUME NEW S, Good(S), NEW rows, Lists(rows, S), \A r \in Coarse(S) : HasOrigin(r),
         NEW n \in Nat, \A r \in Coarse(S) : Cardinality({u \in Coarse(S) : Origin(u) = Origin(r)}) <= n
  PROVE  Len(Finalised(rows)) <= Cardinality(Cols(S)) + n
<1> DEFINE rest == RestOf(rows)
           R == ToSet(rest)
<1>1. S \in SUBSET RowSet /\ IsFiniteSet(S)
  BY ListsAreFinite DEF Good
<1>2. Lists(rest, R) /\ \A r \in R : r \in Coarse(S)
  BY <1>1, ClusterRows
<1>3. Len(Finalised(rows)) = Cardinality(Cols(S)) + Len(Aligned(rest)) /\ Cardinality(Cols(S)) \in Nat
      /\ Len(Aligned(rest)) \in Nat
  BY <1>1, ClusterParts, FinalisedLength
<1>4. ASSUME NEW o \in OriginsOf(rest)  PROVE Cardinality({r \in R : Origin(r) = o}) <= n
  <2>1. PICK r \in R : o = Origin(r)
    BY DEF OriginsOf
  <2> DEFINE U == {u \in Coarse(S) : Origin(u) = Origin(r)}
             V == {u \in R : Origin(u) = o}
  <2>2. V \in SUBSET U
    BY <1>2, <2>1
  <2>3. r \in Coarse(S) /\ Cardinality(U) <= n
    BY <1>2, <2>1
  <2>4. U \in SUBSET S
    BY DEF Coarse
  <2> HIDE DEF U, V
  <2>5. IsFiniteSet(U) /\ Cardinality(U) \in Nat
    BY <1>1, <2>4, FS_Subset, FS_CardinalityType
  <2>6. Cardinality(V) <= Cardinality(U) /\ Cardinality(V) \in Nat
    BY <2>2, <2>5, FS_Subset, FS_CardinalityType
  <2>7. Cardinality(V) <= n
    BY <2>3, <2>5, <2>6
  <2> QED  BY <2>7 DEF V
<1> HIDE DEF rest
<1>5. Len(Aligned(rest)) <= n
  <2>1. \A r \in R : HasOrigin(r)
    BY <1>2
  <2> HIDE DEF R
  <2>2. \A o \in OriginsOf(rest) : Cardinality({r \in R : Origin(r) = o}) <= n
    BY <1>4 DEF R
  <2> QED  BY <1>2, <2>1, <2>2, AlignedLength
<1> QED
  BY <1>3, <1>5

\* There are no more rows than there were.
LEMMA FinalisedShrinks ==
  ASSUME NEW S, Good(S), NEW rows, Lists(rows, S)
  PROVE  Len(Finalised(rows)) <= Len(rows)
<1> DEFINE cl == ClustersOf(rows)
           q == Finalised(rows)
           f == [k \in DOMAIN cl |-> CHOOSE r \in S : r \in cl[k]]
<1>1. Clusters(cl, S) /\ DOMAIN q = DOMAIN cl /\ Lists(q, MergedRows(rows))
  BY FinalisedRows
<1>2. cl \in Seq(SUBSET S)
  BY <1>1 DEF Clusters
<1>3. DOMAIN q = 1..Len(q) /\ Len(q) \in Nat
  <2> HIDE DEF q
  <2> QED  BY <1>1, ListsAreFinite
<1> HIDE DEF q, cl
<1>4. \A k \in DOMAIN cl : \E r \in S : r \in cl[k]
  BY <1>1, <1>2 DEF Clusters
<1>5. \A k \in DOMAIN cl : f[k] \in S /\ f[k] \in cl[k]
  BY <1>4
<1>6. f \in Injection(DOMAIN cl, S)
  <2>1. f \in [DOMAIN cl -> S]
    BY <1>5
  <2>2. \A j, k \in DOMAIN cl : f[j] = f[k] => j = k
    BY <1>1, <1>5 DEF Clusters
  <2> HIDE DEF f
  <2> QED  BY <2>1, <2>2 DEF Injection, IsInjective
<1>7. IsFiniteSet(S) /\ Cardinality(S) = Len(rows)
  BY ListsCount
<1>8. Cardinality(DOMAIN cl) <= Cardinality(S)
  BY <1>6, <1>7, FS_Injection
<1>9. Cardinality(1..Len(q)) = Len(q)
  <2>1. ASSUME NEW n \in Nat  PROVE Cardinality(1..n) = n
    BY FS_Interval
  <2> QED  BY <1>3, <2>1
<1> QED
  BY <1>1, <1>3, <1>7, <1>8, <1>9 DEF q

\* A set of rows has one for each precise column and besides those the coarse ones.
LEMMA RowCount ==
  ASSUME NEW T, IsFiniteSet(T)
  PROVE  /\ Cardinality(Cols(T)) + Cardinality(Coarse(T)) <= Cardinality(T)
         /\ Cardinality(Cols(T)) \in Nat /\ Cardinality(Coarse(T)) \in Nat
<1> DEFINE P == {r \in T : ~IsCoarse(r)}
           f == [r \in P |-> r.column]
<1>1. P \cup Coarse(T) = T /\ P \cap Coarse(T) = {} /\ P \in SUBSET T /\ Coarse(T) \in SUBSET T
  BY DEF Coarse
<1>2. f \in Surjection(P, Cols(T))
  <2>1. f \in [P -> Cols(T)] /\ \A c \in Cols(T) : \E r \in P : f[r] = c
    BY DEF Cols, IsCoarse
  <2> HIDE DEF f, P
  <2> QED  BY <2>1 DEF Surjection
<1> HIDE DEF P, f
<1>3. IsFiniteSet(P) /\ IsFiniteSet(Coarse(T))
  BY <1>1, FS_Subset
<1>4. Cardinality(T) = Cardinality(P) + Cardinality(Coarse(T)) - Cardinality({})
  BY <1>1, <1>3, FS_Union
<1>5. IsFiniteSet(Cols(T)) /\ Cardinality(Cols(T)) <= Cardinality(P)
  BY <1>2, <1>3, FS_Surjection
<1> QED
  BY <1>3, <1>4, <1>5, FS_CardinalityType, FS_EmptySet

\* One of the findings that a row stands for has its place and message.
Witnessed(r) == \E x \in r.of : Finding(x).column = r.column /\ Finding(x).message = r.message

\* Merging keeps that.
LEMMA MadeWitnessed ==
  ASSUME NEW S, Good(S), IsFiniteSet(S), \A r \in S : Witnessed(r), NEW T, MadeOf(T, S)
  PROVE  \A r \in T : Witnessed(r)
<1> SUFFICES ASSUME NEW r \in T  PROVE Witnessed(r)
  OBVIOUS
<1>1. PICK C \in SUBSET S : C # {} /\ r = Merged(C)
  BY DEF MadeOf
<1>2. C \in SUBSET RowSet /\ IsFiniteSet(C)
  BY FS_Subset DEF Good
<1>3. r.of = Covered(C) /\ \E b \in C : r.column = b.column /\ r.message = b.message
  BY <1>1, <1>2, MergedRow
<1>4. PICK b \in C : r.column = b.column /\ r.message = b.message
  BY <1>3
<1>5. PICK x \in b.of : Finding(x).column = b.column /\ Finding(x).message = b.message
  BY <1>4 DEF Witnessed
<1>6. x \in r.of
  BY <1>3, <1>4, <1>5 DEF Covered
<1> QED
  BY <1>4, <1>5, <1>6 DEF Witnessed

\* The columns of rows are those of the findings they stand for.
LEMMA ColumnsOfCovered ==
  ASSUME NEW S, Good(S), \A r \in S : Witnessed(r)
  PROVE  Cols(S) = {Finding(x).column : x \in Covered(S)} \ {1}
<1>1. ASSUME NEW c \in Cols(S)  PROVE c \in {Finding(x).column : x \in Covered(S)} \ {1}
  <2>1. PICK r \in S : r.column = c
    BY DEF Cols
  <2>2. PICK x \in r.of : Finding(x).column = r.column
    BY <2>1 DEF Witnessed
  <2> QED  BY <2>1, <2>2 DEF Covered, Cols
<1>2. ASSUME NEW x \in Covered(S), Finding(x).column # 1  PROVE Finding(x).column \in Cols(S)
  <2>1. PICK r \in S : x \in r.of
    BY DEF Covered
  <2>2. Finding(x).column = r.column
    BY <1>2, <2>1 DEF Good, Honest
  <2> QED  BY <1>2, <2>1, <2>2 DEF Cols
<1> QED
  BY <1>1, <1>2

-----------------------------------------------------------------------------
(* What the rows of a file have in common.                                 *)

\* Merged rows have the files and tokens that all of them have.
LEMMA MadeAlike ==
  ASSUME NEW S, Good(S), IsFiniteSet(S), NEW T, MadeOf(T, S)
  PROVE  /\ \A t : (\A r \in S : r.tus = t) => \A r \in T : r.tus = t
         /\ \A t : (\A r \in S : r.token = t) => \A r \in T : r.token = t
<1>1. ASSUME NEW r \in T
      PROVE  \E C \in SUBSET S : /\ C # {} /\ r.tus = UNION {u.tus : u \in C}
                                 /\ r.token = UNION {u.token : u \in C}
  <2>1. PICK C \in SUBSET S : C # {} /\ r = Merged(C)
    BY DEF MadeOf
  <2>2. C \in SUBSET RowSet /\ IsFiniteSet(C)
    BY FS_Subset DEF Good
  <2> QED  BY <2>1, <2>2, MergedRow
<1>2. ASSUME NEW t, \A r \in S : r.tus = t, NEW r \in T  PROVE r.tus = t
  <2>1. PICK C \in SUBSET S : C # {} /\ r.tus = UNION {u.tus : u \in C}
    BY <1>1
  <2> QED  BY <1>2, <2>1
<1>3. ASSUME NEW t, \A r \in S : r.token = t, NEW r \in T  PROVE r.token = t
  <2>1. PICK C \in SUBSET S : C # {} /\ r.token = UNION {u.token : u \in C}
    BY <1>1
  <2> QED  BY <1>3, <2>1
<1> QED
  BY <1>2, <1>3

\* The candidates of a file.
LEMMA FoundRowsAre ==
  ASSUME NEW f, NEW ps \in SUBSET Runs
  PROVE  \A r \in FoundRows(f, ps) :
           /\ \E p \in ps : \E i \in DOMAIN raw[f][p] : r = Row(f, p, i)
           /\ Witnessed(r) /\ r.tus = Tus(f) /\ (profiles = {} => r.token = {})
<1> SUFFICES ASSUME NEW r \in FoundRows(f, ps)
             PROVE  /\ \E p \in ps : \E i \in DOMAIN raw[f][p] : r = Row(f, p, i)
                    /\ Witnessed(r) /\ r.tus = Tus(f) /\ (profiles = {} => r.token = {})
  OBVIOUS
<1>1. PICK x \in PlacesUnder(f, ps) : r = Row(f, x[1], x[2])
  BY DEF FoundRows
<1>0. PICK p \in ps : \E i \in DOMAIN raw[f][p] : x = <<p, i>>
  BY <1>1 DEF PlacesUnder
<1>2. PICK i \in DOMAIN raw[f][p] : x = <<p, i>>
  BY <1>0
<1>3. r = Row(f, p, i)
  BY <1>1, <1>2
<1>4. /\ r.of = {<<f, p, i>>} /\ r.column = raw[f][p][i].column /\ r.message = raw[f][p][i].message
      /\ r.tus = Tus(f) /\ r.token = profiles \cap {p}
  BY <1>3 DEF Row
<1>5. Finding(<<f, p, i>>) = raw[f][p][i]
  BY DEF Finding
<1>6. Witnessed(r)
  BY <1>4, <1>5 DEF Witnessed
<1> QED
  BY <1>2, <1>3, <1>4, <1>6

ProfileRows(f) == OverRows(Rows(f), FoundRows(f, Runs))
RowsOfFile(f) == MergedRows(OverProfiles(Rows(f)))

\* The rows of all profiles together, and of a file.
LEMMA ProfileRowsAre ==
  ASSUME InputOK, NEW f \in Files
  PROVE  /\ Lists(OverProfiles(Rows(f)), ProfileRows(f)) /\ Good(ProfileRows(f))
         /\ Covered(ProfileRows(f)) = Findings(f) /\ (profiles # {} => OneRowPerSite(ProfileRows(f)))
         /\ \A r \in ProfileRows(f) : LabelOK(r) /\ Witnessed(r) /\ r.tus = Tus(f) /\ r.token = {}
<1> DEFINE S == FoundRows(f, Runs)
<1>1. Rows(f) = RowsUnder(f, Runs) /\ Findings(f) = FindingsUnder(f, Runs)
  BY DEF Rows, Findings, FindingsUnder
<1>2. Lists(Rows(f), S) /\ Good(S) /\ Covered(S) = Findings(f) /\ \A r \in S : Tokened(r, f)
  BY <1>1, RowsAreListed
<1>3. \A r \in S : Witnessed(r) /\ r.tus = Tus(f) /\ (profiles = {} => r.token = {})
  BY FoundRowsAre
<1> HIDE DEF S
<1>4. /\ Lists(OverProfiles(Rows(f)), OverRows(Rows(f), S)) /\ Good(OverRows(Rows(f), S))
      /\ Covered(OverRows(Rows(f), S)) = Covered(S) /\ \A r \in OverRows(Rows(f), S) : LabelOK(r)
      /\ profiles # {} => OneRowPerSite(OverRows(Rows(f), S))
  BY <1>2, OverProfilesRows
<1>5. ASSUME NEW r \in OverRows(Rows(f), S)  PROVE Witnessed(r) /\ r.tus = Tus(f) /\ r.token = {}
  <2>1. CASE profiles = {}
    BY <1>3, <1>5, <2>1 DEF OverRows
  <2>2. CASE profiles # {}
    <3> DEFINE T == MergedRows(Rows(f))
    <3>1. Good(T) /\ MadeOf(T, S) /\ IsFiniteSet(S)
      BY <1>2, FinalisedRows, ListsAreFinite
    <3>2. \A u \in T : Witnessed(u) /\ u.tus = Tus(f) /\ u \in RowSet
      <4> HIDE DEF T
      <4>1. \A u \in T : Witnessed(u)
        BY <1>2, <1>3, <3>1, MadeWitnessed
      <4>2. \A u \in T : u.tus = Tus(f)
        BY <1>2, <1>3, <3>1, MadeAlike
      <4> QED  BY <3>1, <4>1, <4>2 DEF Good
    <3>3. PICK u \in T : r = Labelled(u)
      BY <2>2 DEF OverRows
    <3>4. r.column = u.column /\ r.message = u.message /\ r.of = u.of /\ r.tus = u.tus /\ r.token = {}
      BY <3>2, <3>3 DEF RowSet, Labelled
    <3> QED  BY <3>2, <3>4 DEF Witnessed
  <2> QED  BY <2>1, <2>2
<1> QED
  BY <1>2, <1>4, <1>5 DEF ProfileRows, S

\* Those of a file, once finalised.
LEMMA RowsOfFileAre ==
  ASSUME InputOK, NEW f \in Files
  PROVE  /\ Lists(FileRows(f), RowsOfFile(f)) /\ Good(RowsOfFile(f))
         /\ Covered(RowsOfFile(f)) = Findings(f) /\ OneRowPerSite(RowsOfFile(f))
         /\ MadeOf(RowsOfFile(f), ProfileRows(f))
         /\ \A r \in RowsOfFile(f) : LabelOK(r) /\ Witnessed(r) /\ r.tus = Tus(f) /\ r.token = {}
<1> DEFINE S == ProfileRows(f)
           rows == OverProfiles(Rows(f))
           T == MergedRows(rows)
<1>1. Lists(rows, S) /\ Good(S) /\ Covered(S) = Findings(f) /\ IsFiniteSet(S)
      /\ \A r \in S : LabelOK(r) /\ Witnessed(r) /\ r.tus = Tus(f) /\ r.token = {}
  BY ProfileRowsAre, ListsAreFinite
<1> HIDE DEF S, rows
<1>2. Lists(Finalised(rows), T) /\ Good(T) /\ Covered(T) = Covered(S) /\ OneRowPerSite(T) /\ MadeOf(T, S)
  BY <1>1, FinalisedRows
<1> HIDE DEF T
<1>3. \A r \in T : LabelOK(r)
  BY <1>1, <1>2, MadeLabels
<1>4. \A r \in T : Witnessed(r)
  BY <1>1, <1>2, MadeWitnessed
<1>5. \A r \in T : r.tus = Tus(f) /\ r.token = {}
  <2>1. \A r \in T : r.tus = Tus(f)
    BY <1>1, <1>2, MadeAlike
  <2> DEFINE none == {}
  <2>2. \A r \in S : r.token = none
    BY <1>1
  <2> HIDE DEF none
  <2>3. \A r \in T : r.token = none
    BY <1>1, <1>2, <2>2, MadeAlike
  <2> QED  BY <2>1, <2>3 DEF none
<1>6. FileRows(f) = Finalised(rows) /\ RowsOfFile(f) = T
  BY DEF FileRows, RowsOfFile, rows, T
<1> QED
  BY <1>1, <1>2, <1>3, <1>4, <1>5, <1>6 DEF S

\* The precise columns of the findings of a file under a profile.
FoundCols(f, p) == {raw[f][p][i].column : i \in DOMAIN raw[f][p]} \ {1}

\* Rows that stand for findings which are all like those of a file under a profile
\* have the same precise columns.
LEMMA SameColumns ==
  ASSUME NEW S, Good(S), \A r \in S : Witnessed(r), NEW f, NEW p,
         \A x \in Covered(S) : \E i \in DOMAIN raw[f][p] : Finding(x) = raw[f][p][i],
         \A i \in DOMAIN raw[f][p] : \E x \in Covered(S) : Finding(x) = raw[f][p][i]
  PROVE  Cols(S) = FoundCols(f, p)
<1>1. Cols(S) = {Finding(x).column : x \in Covered(S)} \ {1}
  BY ColumnsOfCovered
<1> QED
  BY <1>1 DEF FoundCols

Alike(f) == \A p, q \in Runs : raw[f][p] = raw[f][q]

\* Under any of its profiles such a file has the same precise columns.
LEMMA AlikeColumns ==
  ASSUME NEW f, Alike(f), NEW ps \in SUBSET Runs, NEW p \in ps,
         NEW S, Good(S), \A r \in S : Witnessed(r), Covered(S) = FindingsUnder(f, ps)
  PROVE  Cols(S) = FoundCols(f, p)
<1>1. ASSUME NEW x \in Covered(S)  PROVE \E i \in DOMAIN raw[f][p] : Finding(x) = raw[f][p][i]
  <2>0. PICK q \in ps : \E i \in DOMAIN raw[f][q] : x = <<f, q, i>>
    BY DEF FindingsUnder
  <2>1. PICK i \in DOMAIN raw[f][q] : x = <<f, q, i>>
    BY <2>0
  <2>2. raw[f][q] = raw[f][p]
    BY DEF Alike
  <2> QED  BY <2>1, <2>2 DEF Finding
<1>2. ASSUME NEW i \in DOMAIN raw[f][p]  PROVE \E x \in Covered(S) : Finding(x) = raw[f][p][i]
  <2>1. <<f, p, i>> \in Covered(S)
    BY DEF FindingsUnder
  <2> QED  BY <2>1 DEF Finding
<1> QED
  BY <1>1, <1>2, SameColumns

-----------------------------------------------------------------------------
(* A file that has the same under every profile.                           *)

\* A cluster with a precise row makes a precise row.
LEMMA PreciseMerge ==
  ASSUME NEW C \in SUBSET RowSet, IsFiniteSet(C), NEW u \in C, ~IsCoarse(u)
  PROVE  ~IsCoarse(Merged(C))
<1>1. PICK b \in C : (\A s \in C : ~Before(s, b)) /\ Merged(C).column = b.column
  BY MergedRow
<1>2. ~IsCoarse(b)
  BY <1>1 DEF Before
<1> QED
  BY <1>1, <1>2 DEF IsCoarse

\* The rows of all profiles before they are labelled.
LEMMA TokenedRowsAre ==
  ASSUME InputOK, NEW f \in Files
  PROVE  LET S == FoundRows(f, Runs)  T == MergedRows(Rows(f)) IN
         /\ Lists(Rows(f), S) /\ Good(S) /\ Covered(S) = Findings(f)
         /\ Lists(Finalised(Rows(f)), T) /\ Good(T) /\ Covered(T) = Findings(f) /\ OneRowPerSite(T)
         /\ \A r \in T : Tokened(r, f) /\ Witnessed(r)
<1> DEFINE S == FoundRows(f, Runs)
           T == MergedRows(Rows(f))
<1>1. Rows(f) = RowsUnder(f, Runs) /\ Findings(f) = FindingsUnder(f, Runs)
  BY DEF Rows, Findings, FindingsUnder
<1>2. Lists(Rows(f), S) /\ Good(S) /\ Covered(S) = Findings(f) /\ \A r \in S : Tokened(r, f)
  BY <1>1, RowsAreListed
<1>3. \A r \in S : Witnessed(r)
  BY FoundRowsAre
<1> HIDE DEF S
<1>4. /\ Lists(Finalised(Rows(f)), T) /\ Good(T) /\ Covered(T) = Covered(S) /\ OneRowPerSite(T)
      /\ MadeOf(T, S) /\ IsFiniteSet(S)
  BY <1>2, FinalisedRows, ListsAreFinite
<1> HIDE DEF T
<1>5. \A r \in T : Tokened(r, f)
  BY <1>2, <1>4, MadeLabels
<1>6. \A r \in T : Witnessed(r)
  BY <1>2, <1>3, <1>4, MadeWitnessed
<1> QED
  BY <1>2, <1>4, <1>5, <1>6 DEF S, T

\* A row of all profiles is unconditional.
LEMMA AllProfiles ==
  ASSUME NEW r \in RowSet, r.token = profiles
  PROVE  Labelled(r).under = {Unconditional}
BY DEF Labelled, RowSet

\* If it is precise, it is one of all profiles.
LEMMA PreciseIsOfAll ==
  ASSUME InputOK, NEW f \in Files, Alike(f), profiles # {}, NEW r \in MergedRows(Rows(f)), ~IsCoarse(r)
  PROVE  r.token = profiles
<1> DEFINE T == MergedRows(Rows(f))
<1>1. Good(T) /\ Covered(T) = Findings(f) /\ OneRowPerSite(T) /\ \A u \in T : Tokened(u, f) /\ Witnessed(u)
  BY TokenedRowsAre
<1>2. r \in T
  OBVIOUS
<1> HIDE DEF T
<1>3. r.token = ProfilesOf(r) /\ \A x \in r.of : x[2] \in profiles
  BY <1>1, <1>2 DEF Tokened
<1>4. PICK x \in r.of : Finding(x).column = r.column
  BY <1>1, <1>2 DEF Witnessed
<1>5. x \in Findings(f)
  BY <1>1, <1>2, <1>4 DEF Covered
<1>6. PICK q \in Runs : \E i \in DOMAIN raw[f][q] : x = <<f, q, i>>
  BY <1>5 DEF Findings
<1>7. PICK i \in DOMAIN raw[f][q] : x = <<f, q, i>>
  BY <1>6
<1>8. ASSUME NEW p \in profiles  PROVE p \in ProfilesOf(r)
  <2>1. p \in Runs /\ raw[f][p] = raw[f][q]
    BY DEF Runs, Alike
  <2>2. <<f, p, i>> \in Covered(T)
    BY <1>1, <2>1 DEF Findings
  <2>3. PICK u \in T : <<f, p, i>> \in u.of
    BY <2>2 DEF Covered
  <2>4. Finding(<<f, p, i>>).column = r.column
    BY <1>4, <1>7, <2>1 DEF Finding
  <2>5. u.column = r.column
    BY <1>1, <2>3, <2>4 DEF Good, Honest, IsCoarse
  <2>6. u = r
    BY <1>1, <1>2, <2>5 DEF OneRowPerSite
  <2>7. <<f, p, i>> \in r.of /\ <<f, p, i>>[2] = p
    BY <2>3, <2>6
  <2> QED  BY <2>7 DEF ProfilesOf
<1> QED
  BY <1>3, <1>8 DEF ProfilesOf

\* The coarse findings under a profile, and their rows.
CoarseAt(f, p) == {i \in DOMAIN raw[f][p] : raw[f][p][i].column = 1}
OfProfile(p) == <<"profile", {p}>>
CoarseUnder(f, ps, p) == {r \in Coarse(FoundRows(f, ps)) : Origin(r) = OfProfile(p)}

\* The origin of a candidate is its profile.
LEMMA OriginsAreProfiles ==
  ASSUME NEW f, NEW ps \in SUBSET Runs, profiles # {}
  PROVE  \A r \in FoundRows(f, ps) : HasOrigin(r) /\ \E p \in ps : r.token = {p} /\ Origin(r) = OfProfile(p)
<1> SUFFICES ASSUME NEW r \in FoundRows(f, ps)
             PROVE  HasOrigin(r) /\ \E p \in ps : r.token = {p} /\ Origin(r) = OfProfile(p)
  OBVIOUS
<1>1. PICK p \in ps : \E i \in DOMAIN raw[f][p] : r = Row(f, p, i)
  BY FoundRowsAre
<1>2. r.token = profiles \cap {p}
  BY <1>1 DEF Row
<1>3. r.token = {p}
  BY <1>2 DEF Runs
<1>4. Cardinality(r.token) = 1
  BY <1>3, FS_Singleton
<1> QED
  BY <1>3, <1>4 DEF HasOrigin, Origin, OfProfile

\* A profile has a row for each of its coarse findings.
LEMMA CoarseOfProfile ==
  ASSUME InputOK, NEW f \in Files, profiles # {}, NEW ps \in SUBSET Runs, NEW p \in ps
  PROVE  /\ CoarseUnder(f, ps, p) = {Row(f, p, i) : i \in CoarseAt(f, p)}
         /\ IsFiniteSet(CoarseAt(f, p)) /\ Cardinality(CoarseAt(f, p)) \in Nat
         /\ Cardinality(CoarseUnder(f, ps, p)) = Cardinality(CoarseAt(f, p))
<1> DEFINE I == CoarseAt(f, p)
           R == CoarseUnder(f, ps, p)
           g == [i \in I |-> Row(f, p, i)]
<1>1. \A q \in ps : \A i \in DOMAIN raw[f][q] :
        /\ Row(f, q, i) \in FoundRows(f, ps) /\ Row(f, q, i).column = raw[f][q][i].column
        /\ Row(f, q, i).of = {<<f, q, i>>} /\ Row(f, q, i).token = {q}
  <2> TAKE q \in ps
  <2> TAKE i \in DOMAIN raw[f][q]
  <2>1. <<q, i>> \in PlacesUnder(f, ps) /\ <<q, i>>[1] = q /\ <<q, i>>[2] = i
    BY DEF PlacesUnder
  <2>2. Row(f, q, i) \in FoundRows(f, ps)
    BY <2>1 DEF FoundRows
  <2>3. profiles \cap {q} = {q}
    BY DEF Runs
  <2> QED  BY <2>2, <2>3 DEF Row
<1>2. ASSUME NEW r \in R  PROVE \E i \in I : r = Row(f, p, i)
  <2>1. r \in FoundRows(f, ps) /\ IsCoarse(r) /\ Origin(r) = OfProfile(p)
    BY DEF CoarseUnder, Coarse
  <2>2. PICK q \in ps : r.token = {q} /\ Origin(r) = OfProfile(q)
    BY <2>1, OriginsAreProfiles
  <2>3. {q} = {p}
    BY <2>1, <2>2 DEF OfProfile
  <2>4. PICK w \in ps : \E i \in DOMAIN raw[f][w] : r = Row(f, w, i)
    BY <2>1, FoundRowsAre
  <2>5. PICK i \in DOMAIN raw[f][w] : r = Row(f, w, i)
    BY <2>4
  <2>6. {w} = {p}
    BY <1>1, <2>2, <2>3, <2>5
  <2>7. w = p
    BY <2>6
  <2> QED  BY <1>1, <2>1, <2>5, <2>7 DEF CoarseAt, IsCoarse
<1>3. ASSUME NEW i \in I  PROVE Row(f, p, i) \in R
  <2>1. i \in DOMAIN raw[f][p] /\ raw[f][p][i].column = 1
    BY DEF CoarseAt
  <2>2. Row(f, p, i) \in FoundRows(f, ps) /\ IsCoarse(Row(f, p, i)) /\ Row(f, p, i).token = {p}
    BY <1>1, <2>1 DEF IsCoarse
  <2>3. PICK q \in ps : Row(f, p, i).token = {q} /\ Origin(Row(f, p, i)) = OfProfile(q)
    BY <2>2, OriginsAreProfiles
  <2>4. q = p
    BY <2>2, <2>3
  <2> QED  BY <2>2, <2>3, <2>4 DEF CoarseUnder, Coarse
<1>4. R = {Row(f, p, i) : i \in I}
  BY <1>2, <1>3
<1>5. IsFiniteSet(I)
  <2>1. raw[f][p] \in RawFindings /\ MaxFindings \in Nat
    BY RowsAssumption DEF InputOK
  <2>2. I \in SUBSET (1..MaxFindings)
    BY <2>1, RawLists DEF CoarseAt
  <2>3. IsFiniteSet(1..MaxFindings)
    BY <2>1, FS_Interval
  <2> HIDE DEF I
  <2> QED  BY <2>2, <2>3, FS_Subset
<1>6. ASSUME NEW i \in I, NEW j \in I, Row(f, p, i) = Row(f, p, j)  PROVE i = j
  <2>1. i \in DOMAIN raw[f][p] /\ j \in DOMAIN raw[f][p]
    BY DEF CoarseAt
  <2>2. {<<f, p, i>>} = {<<f, p, j>>}
    BY <1>1, <1>6, <2>1
  <2>3. <<f, p, i>> = <<f, p, j>>
    BY <2>2
  <2> QED  BY <2>3
<1>7. g \in Bijection(I, R)
  <2>1. g \in [I -> R] /\ \A i \in I : g[i] = Row(f, p, i)
    BY <1>3
  <2> HIDE DEF g, I, R
  <2> QED  BY <1>2, <1>6, <2>1 DEF Bijection, Injection, Surjection, IsInjective
<1> HIDE DEF I, R, g
<1>8. Cardinality(R) = Cardinality(I)
  BY <1>5, <1>7, FS_Bijection DEF ExistsBijection
<1> QED
  BY <1>4, <1>5, <1>8, FS_CardinalityType DEF I, R

\* Rows of one origin are not aligned with any other.
LEMMA AlignedAlone ==
  ASSUME NEW R, NEW q, Lists(q, R), NEW o, \A r \in R : Origin(r) = o
  PROVE  Len(Aligned(q)) = Len(q)
<1> DEFINE origins == {Origin(r) : r \in ToSet(q)}
<1>1. R = ToSet(q) /\ DOMAIN q = 1..Len(q) /\ Len(q) \in Nat
  BY ListsAreFinite
<1>2. origins \in SUBSET {o}
  BY <1>1
<1>3. ~(Cardinality(origins) > 1)
  <2> HIDE DEF origins
  <2>1. IsFiniteSet({o}) /\ Cardinality({o}) = 1
    BY FS_Singleton
  <2>2. Cardinality(origins) <= 1 /\ Cardinality(origins) \in Nat
    BY <1>2, <2>1, FS_Subset, FS_CardinalityType
  <2> QED  BY <2>2
<1>4. Aligned(q) = [i \in DOMAIN q |-> {q[i]}]
  BY <1>3 DEF Aligned
<1> QED
  BY <1>1, <1>4

\* If no message is shared under one profile, none is over several.
LEMMA NothingShared ==
  ASSUME InputOK, NEW f \in Files, Alike(f), NEW p \in Runs, NEW ps \in SUBSET Runs,
         Paired(Sorted(RowsUnder(f, {p}))).paired = {}
  PROVE  ~Shared(FoundRows(f, ps), Cardinality(Messages))
<1> DEFINE U == FoundRows(f, {p})
           q == Sorted(RowsUnder(f, {p}))
           M == Cardinality(Messages)
<1>1. Lists(RowsUnder(f, {p}), U) /\ U \in SUBSET RowSet
  BY RowsAreListed DEF Good
<1>2. Lists(q, U)
  <2> HIDE DEF U
  <2> QED  BY <1>1, SortedLists
<1>3. ~Shared(U, M)
  <2>1. Paired(q).paired = {}
    OBVIOUS
  <2> HIDE DEF U, q
  <2> QED  BY <1>1, <1>2, <2>1, SharedIsPaired
<1> HIDE DEF M
<1>4. ASSUME NEW r \in FoundRows(f, ps)
      PROVE  \E u \in U : u.column = r.column /\ u.message = r.message
  <2>1. PICK q1 \in ps : \E i \in DOMAIN raw[f][q1] : r = Row(f, q1, i)
    BY FoundRowsAre
  <2>2. PICK i \in DOMAIN raw[f][q1] : r = Row(f, q1, i)
    BY <2>1
  <2>3. raw[f][q1] = raw[f][p]
    BY DEF Alike
  <2>4. <<p, i>> \in PlacesUnder(f, {p}) /\ <<p, i>>[1] = p /\ <<p, i>>[2] = i
    BY <2>3 DEF PlacesUnder
  <2>5. Row(f, p, i) \in U
    BY <2>4 DEF FoundRows
  <2>6. Row(f, p, i).column = r.column /\ Row(f, p, i).message = r.message
    BY <2>2, <2>3 DEF Row
  <2> QED  BY <2>5, <2>6
<1> HIDE DEF U
<1> QED
  BY <1>3, <1>4 DEF Shared, IsCoarse, M

\* Then no coarse row is paired.
LEMMA AllLeftOver ==
  ASSUME NEW S \in SUBSET RowSet, NEW rows, Lists(rows, S), ~Shared(S, Cardinality(Messages))
  PROVE  ToSet(RestOf(rows)) = Coarse(S)
<1> DEFINE columns == PreciseColumns(S)
           q == Sorted(rows)
<1>1. \A r \in ToSet(RestOf(rows)) : r \in Coarse(S)
  BY ClusterRows
<1>2. \A r \in Coarse(S) : r \in ToSet(RestOf(rows)) \/ \E k \in DOMAIN columns : r \in SitesOf(rows)[k]
  BY ClusterRows
<1>3. \A k \in DOMAIN columns : columns[k] \in Cols(S)
  BY ClusterRows
<1>4. SiteInv(Paired(q), S, columns)
  <2>1. Lists(q, S)
    BY SortedLists
  <2> HIDE DEF q
  <2> QED  BY <2>1, SitesInv
<1> HIDE DEF columns
<1>5. ASSUME NEW k \in DOMAIN columns, NEW r \in Coarse(S), r \in SitesOf(rows)[k]  PROVE FALSE
  <2>1. r \in S /\ IsCoarse(r)
    BY DEF Coarse
  <2>2. PICK u \in S : u.column = columns[k] /\ u.message = r.message
    BY <1>4, <1>5, <2>1 DEF SiteInv, SitesOf
  <2>3. ~IsCoarse(u)
    BY <1>3, <2>2 DEF Cols, IsCoarse
  <2>4. r.message \in 1..Cardinality(Messages)
    BY <2>1, RowsAssumption DEF RowSet
  <2> QED  BY <2>1, <2>2, <2>3, <2>4 DEF Shared
<1> QED
  BY <1>1, <1>2, <1>5

\* A coarse row stands for a cluster of coarse rows left over.
LEMMA CoarseFromRest ==
  ASSUME NEW S, Good(S), NEW rows, Lists(rows, S), NEW r \in MergedRows(rows), IsCoarse(r)
  PROVE  \E n \in DOMAIN Aligned(RestOf(rows)) :
           /\ r = Merged(Aligned(RestOf(rows))[n])
           /\ Aligned(RestOf(rows))[n] \in SUBSET S /\ Aligned(RestOf(rows))[n] # {}
<1> DEFINE rest == RestOf(rows)
<1>1. S \in SUBSET RowSet /\ IsFiniteSet(S)
  BY ListsAreFinite DEF Good
<1>2. PICK k \in DOMAIN ClustersOf(rows) : r = Merged(ClustersOf(rows)[k])
  BY DEF MergedRows
<1>3. ClustersOf(rows)[k] \in SUBSET S /\ ClustersOf(rows)[k] # {}
  <2>1. Clusters(ClustersOf(rows), S)
    BY FinalisedRows
  <2>2. ClustersOf(rows) \in Seq(SUBSET S) /\ ClustersOf(rows)[k] # {}
    BY <1>2, <2>1 DEF Clusters
  <2> QED  BY <1>2, <2>2
<1>4. PICK n \in DOMAIN Aligned(rest) : ClustersOf(rows)[k] = Aligned(rest)[n]
  <2>1. ASSUME k \in DOMAIN PreciseColumns(S), ClustersOf(rows)[k] = SitesOf(rows)[k]  PROVE FALSE
    <3>1. PreciseColumns(S)[k] \in Cols(S) /\ \A u \in S : u.column = PreciseColumns(S)[k] => u \in SitesOf(rows)[k]
      BY <1>1, <2>1, ClusterRows
    <3>2. PICK u \in S : u.column = PreciseColumns(S)[k] /\ u.column # 1
      BY <3>1 DEF Cols
    <3>3. u \in ClustersOf(rows)[k] /\ ~IsCoarse(u)
      BY <2>1, <3>1, <3>2 DEF IsCoarse
    <3>4. ClustersOf(rows)[k] \in SUBSET RowSet /\ IsFiniteSet(ClustersOf(rows)[k])
      BY <1>1, <1>3, FS_Subset
    <3>5. ~IsCoarse(r)
      BY <1>2, <3>3, <3>4, PreciseMerge
    <3> QED  BY <3>5
  <2> QED  BY <1>1, <1>2, <2>1, ClusterParts
<1> QED
  BY <1>2, <1>3, <1>4

\* Where no message is shared, coarse rows of all profiles are aligned.
LEMMA CoarseIsOfAll ==
  ASSUME InputOK, NEW f \in Files, Alike(f), profiles # {}, ~Shared(FoundRows(f, Runs), Cardinality(Messages)),
         NEW r \in MergedRows(Rows(f)), IsCoarse(r)
  PROVE  r.token = profiles
<1> DEFINE S == FoundRows(f, Runs)
           rows == Rows(f)
           rest == RestOf(rows)
           R == ToSet(rest)
<1>1. Lists(rows, S) /\ Good(S) /\ \A u \in S : Tokened(u, f)
  <2>1. Rows(f) = RowsUnder(f, Runs)
    BY DEF Rows
  <2> QED  BY <2>1, RowsAreListed
<1>2. S \in SUBSET RowSet /\ IsFiniteSet(S)
  BY <1>1, ListsAreFinite DEF Good
<1>3. \A u \in S : HasOrigin(u) /\ \E p \in Runs : u.token = {p} /\ Origin(u) = OfProfile(p)
  BY OriginsAreProfiles
<1>4. ~Shared(S, Cardinality(Messages))
  OBVIOUS
<1>5. r \in MergedRows(rows)
  OBVIOUS
<1> HIDE DEF S, rows
<1>6. R = Coarse(S) /\ Lists(rest, R)
  BY <1>1, <1>2, <1>4, AllLeftOver, ClusterRows
<1>7. PICK n \in DOMAIN Aligned(rest) : /\ r = Merged(Aligned(rest)[n])
                                       /\ Aligned(rest)[n] \in SUBSET S /\ Aligned(rest)[n] # {}
  BY <1>1, <1>5, CoarseFromRest
<1>10. /\ Reaching(rest, n) # {}
       /\ Aligned(rest)[n] = {OfOrigin(rest, o)[n] : o \in Reaching(rest, n)}
       /\ n \in Nat \ {0}
  <2>1. \A u \in R : HasOrigin(u)
    BY <1>3, <1>6 DEF Coarse
  <2> HIDE DEF rest, R
  <2> QED  BY <1>6, <1>7, <2>1, AlignedByOrigin DEF R
<1>11. ASSUME NEW p \in profiles
       PROVE  /\ Lists(OfOrigin(rest, OfProfile(p)), CoarseUnder(f, Runs, p))
              /\ Len(OfOrigin(rest, OfProfile(p))) = Cardinality(CoarseAt(f, p))
  <2>1. Lists(OfOrigin(rest, OfProfile(p)), {u \in R : Origin(u) = OfProfile(p)})
    <3> HIDE DEF rest, R
    <3> QED  BY <1>6, OfOriginLists
  <2>2. {u \in R : Origin(u) = OfProfile(p)} = CoarseUnder(f, Runs, p)
    BY <1>6 DEF CoarseUnder, S
  <2>3. p \in Runs
    BY DEF Runs
  <2>4. Cardinality(CoarseUnder(f, Runs, p)) = Cardinality(CoarseAt(f, p))
    BY <2>3, CoarseOfProfile
  <2>5. Lists(OfOrigin(rest, OfProfile(p)), CoarseUnder(f, Runs, p))
    BY <2>1, <2>2
  <2> HIDE DEF rest
  <2>6. Len(OfOrigin(rest, OfProfile(p))) = Cardinality(CoarseUnder(f, Runs, p))
    BY <2>5, ListsCount
  <2> QED  BY <2>4, <2>5, <2>6
<1>12. PICK w \in profiles : n <= Cardinality(CoarseAt(f, w))
  <2>1. PICK o \in Reaching(rest, n) : TRUE
    BY <1>10
  <2>2. PICK u \in R : o = Origin(u)
    BY <2>1 DEF Reaching, OriginsOf
  <2>3. PICK w \in Runs : o = OfProfile(w)
    BY <1>3, <1>6, <2>2 DEF Coarse
  <2>4. w \in profiles
    BY <2>3 DEF Runs
  <2> QED  BY <1>11, <2>1, <2>3, <2>4 DEF Reaching
<1>13. ASSUME NEW p \in profiles  PROVE p \in r.token
  <2> DEFINE o == OfProfile(p)
             q == OfOrigin(rest, o)
  <2>1. CoarseAt(f, p) = CoarseAt(f, w)
    BY DEF CoarseAt, Alike, Runs
  <2>2. n <= Len(q)
    BY <1>11, <1>12, <2>1
  <2>3. Lists(q, CoarseUnder(f, Runs, p)) /\ DOMAIN q = 1..Len(q) /\ Len(q) \in Nat
    BY <1>11, ListsAreFinite
  <2> HIDE DEF o, q
  <2>4. q \in Seq(CoarseUnder(f, Runs, p))
    BY <2>3 DEF Lists
  <2>5. q[n] \in CoarseUnder(f, Runs, p)
    BY <1>10, <2>2, <2>3, <2>4
  <2>6. q[n] \in R /\ Origin(q[n]) = o
    BY <1>6, <2>5 DEF CoarseUnder, S, o
  <2>7. o \in Reaching(rest, n)
    BY <2>2, <2>6 DEF Reaching, OriginsOf, q
  <2>8. q[n] \in Aligned(rest)[n]
    BY <1>10, <2>7 DEF q
  <2>9. q[n].token = {p}
    <3>1. PICK z \in Runs : q[n].token = {z} /\ Origin(q[n]) = OfProfile(z)
      BY <1>3, <1>6, <2>6 DEF Coarse
    <3>2. {z} = {p}
      BY <2>6, <3>1 DEF OfProfile, o
    <3> QED  BY <3>1, <3>2
  <2>10. r.token = UNION {u.token : u \in Aligned(rest)[n]}
    <3>1. Aligned(rest)[n] \in SUBSET RowSet /\ IsFiniteSet(Aligned(rest)[n])
      BY <1>2, <1>7, FS_Subset
    <3> QED  BY <1>7, <3>1, MergedRow
  <2> QED  BY <2>8, <2>9, <2>10
<1>14. r.token \subseteq profiles
  <2>1. Tokened(r, f)
    BY TokenedRowsAre
  <2> QED  BY <2>1 DEF Tokened, ProfilesOf
<1> QED
  BY <1>13, <1>14

\* If nothing is paired under one profile, all rows of the file are unconditional
\* and there are no more than under that profile.
LEMMA UnpairedRepeats ==
  ASSUME InputOK, NEW f \in Files, Alike(f), profiles # {}, NEW p \in profiles,
         Paired(Sorted(RowsUnder(f, {p}))).paired = {}
  PROVE  /\ \A r \in ProfileRows(f) : r.under = {Unconditional}
         /\ Len(Finalised(Rows(f))) <= Len(Finalised(RowsUnder(f, {p})))
<1> DEFINE S == FoundRows(f, Runs)
           U == FoundRows(f, {p})
           all == Rows(f)
           one == RowsUnder(f, {p})
           n == Cardinality(CoarseAt(f, p))
           c == Cardinality(FoundCols(f, p))
<1>1. p \in Runs /\ {p} \in SUBSET Runs /\ Runs \in SUBSET Runs /\ p \in {p} /\ all = RowsUnder(f, Runs)
  BY DEF Runs, Rows
<1>2. /\ ~Shared(S, Cardinality(Messages))
      /\ ~Shared(U, Cardinality(Messages))
  <2>1. ~Shared(S, Cardinality(Messages))
    BY <1>1, NothingShared
  <2>2. ~Shared(U, Cardinality(Messages))
    BY <1>1, NothingShared
  <2> QED  BY <2>1, <2>2
<1>3. ASSUME NEW r \in ProfileRows(f)  PROVE r.under = {Unconditional}
  <2>1. PICK u \in MergedRows(Rows(f)) : r = Labelled(u)
    BY DEF ProfileRows, OverRows
  <2>2. u.token = profiles
    BY <1>2, PreciseIsOfAll, CoarseIsOfAll
  <2>3. u \in RowSet
    BY TokenedRowsAre DEF Good
  <2> QED  BY <2>1, <2>2, <2>3, AllProfiles
<1>4. /\ Lists(all, S) /\ Good(S) /\ Covered(S) = FindingsUnder(f, Runs)
      /\ Lists(one, U) /\ Good(U) /\ Covered(U) = FindingsUnder(f, {p})
  BY <1>1, RowsAreListed
<1>5. Cols(S) = FoundCols(f, p)
  <2>1. \A r \in S : Witnessed(r)
    BY FoundRowsAre
  <2> HIDE DEF S
  <2> QED  BY <1>1, <1>4, <2>1, AlikeColumns
<1>6. Cols(U) = FoundCols(f, p)
  <2>1. \A r \in U : Witnessed(r)
    BY <1>1, FoundRowsAre
  <2> HIDE DEF U
  <2> QED  BY <1>1, <1>4, <2>1, AlikeColumns
<1>7. n \in Nat /\ \A q \in profiles : Cardinality(CoarseUnder(f, Runs, q)) = n
  <2> SUFFICES ASSUME NEW q \in profiles
               PROVE  n \in Nat /\ Cardinality(CoarseUnder(f, Runs, q)) = n
    OBVIOUS
  <2>1. q \in Runs /\ CoarseAt(f, q) = CoarseAt(f, p)
    BY <1>1 DEF CoarseAt, Alike, Runs
  <2>2. /\ Cardinality(CoarseUnder(f, Runs, q)) = Cardinality(CoarseAt(f, q))
        /\ Cardinality(CoarseAt(f, q)) \in Nat
    BY <2>1, CoarseOfProfile
  <2> QED  BY <2>1, <2>2
<1>8. Len(Finalised(all)) <= Cardinality(Cols(S)) + n
  <2>1. \A r \in Coarse(S) : HasOrigin(r)
    BY OriginsAreProfiles DEF Coarse
  <2>2. ASSUME NEW r \in Coarse(S)
        PROVE  Cardinality({u \in Coarse(S) : Origin(u) = Origin(r)}) <= n
    <3>1. PICK q \in Runs : Origin(r) = OfProfile(q)
      BY OriginsAreProfiles DEF Coarse
    <3>2. {u \in Coarse(S) : Origin(u) = Origin(r)} = CoarseUnder(f, Runs, q)
      BY <3>1 DEF CoarseUnder
    <3>3. q \in profiles
      BY DEF Runs
    <3> QED  BY <1>7, <3>2, <3>3
  <2> HIDE DEF S, all, n
  <2> QED  BY <1>4, <1>7, <2>1, <2>2, FinalisedBound DEF n
<1>9. Len(Finalised(one)) = Cardinality(Cols(U)) + n
  <2> DEFINE rest == RestOf(one)
  <2>1. U \in SUBSET RowSet
    BY <1>4 DEF Good
  <2>2. ToSet(rest) = Coarse(U) /\ Lists(rest, ToSet(rest))
    <3> HIDE DEF U, one
    <3> QED  BY <1>2, <1>4, <2>1, AllLeftOver, ClusterRows
  <2>3. \A r \in Coarse(U) : Origin(r) = OfProfile(p)
    BY <1>1, OriginsAreProfiles DEF Coarse
  <2>4. Coarse(U) = CoarseUnder(f, {p}, p)
    BY <2>3 DEF CoarseUnder
  <2>5. Cardinality(Coarse(U)) = n
    BY <1>1, <2>4, CoarseOfProfile
  <2>6. Len(Aligned(rest)) = n
    <3> HIDE DEF rest, n, U
    <3>1. Lists(rest, Coarse(U))
      BY <2>2
    <3>2. Len(Aligned(rest)) = Len(rest)
      BY <2>3, <3>1, AlignedAlone
    <3>3. Len(rest) = Cardinality(Coarse(U))
      BY <3>1, ListsCount
    <3> QED  BY <2>5, <3>2, <3>3
  <2> HIDE DEF U, one, n
  <2> QED  BY <1>4, <2>6, FinalisedLength
<1> QED
  BY <1>3, <1>5, <1>6, <1>8, <1>9

-----------------------------------------------------------------------------
(* Coarse rows that find sites.                                            *)

CoarseWith(f, p, m) == {i \in CoarseAt(f, p) : raw[f][p][i].message = m}

\* If under one profile every coarse row finds a site, and no site has a row of
\* another message, then over all profiles the sites of a message are as many.
LEMMA EnoughSites ==
  ASSUME InputOK, NEW f \in Files, Alike(f), profiles # {}, NEW p \in profiles, NEW m,
         RestOf(RowsUnder(f, {p})) = Nothing,
         \A k \in Paired(Sorted(RowsUnder(f, {p}))).paired :
           \A a, b \in SitesOf(RowsUnder(f, {p}))[k] : a.message = b.message
  PROVE  Cardinality(CoarseWith(f, p, m)) <= Cardinality(PreciseWith(ProfileRows(f), m))
<1> DEFINE U == FoundRows(f, {p})
           one == RowsUnder(f, {p})
           Y == ProfileRows(f)
           sites == SitesOf(one)
           columns == PreciseColumns(U)
           I == CoarseWith(f, p, m)
           P == PreciseWith(Y, m)
           at(i, y) == \E k \in DOMAIN columns : Row(f, p, i) \in sites[k] /\ y.column = columns[k]
           g == [i \in I |-> CHOOSE y \in P : at(i, y)]
<1>1. p \in Runs /\ {p} \in SUBSET Runs /\ Runs \in SUBSET Runs /\ p \in {p}
  BY DEF Runs
<1>2. Lists(one, U) /\ Good(U) /\ U \in SUBSET RowSet /\ Covered(U) = FindingsUnder(f, {p})
  BY <1>1, RowsAreListed DEF Good
<1>3. \A r \in U : Witnessed(r)
  BY <1>1, FoundRowsAre
<1>4. /\ Lists(OverProfiles(Rows(f)), Y) /\ Good(Y) /\ Covered(Y) = FindingsUnder(f, Runs)
      /\ \A y \in Y : Witnessed(y)
  BY ProfileRowsAre DEF Findings, FindingsUnder
<1>5. Cols(U) = FoundCols(f, p) /\ Cols(Y) = FoundCols(f, p)
  <2>1. Cols(U) = FoundCols(f, p)
    <3> HIDE DEF U
    <3> QED  BY <1>1, <1>2, <1>3, AlikeColumns
  <2>2. Cols(Y) = FoundCols(f, p)
    <3> HIDE DEF Y
    <3> QED  BY <1>1, <1>4, AlikeColumns
  <2> QED  BY <2>1, <2>2
<1>6. \A i \in DOMAIN raw[f][p] :
        /\ Row(f, p, i) \in U /\ Row(f, p, i).of = {<<f, p, i>>}
        /\ Row(f, p, i).column = raw[f][p][i].column /\ Row(f, p, i).message = raw[f][p][i].message
  <2> TAKE i \in DOMAIN raw[f][p]
  <2>1. <<p, i>> \in PlacesUnder(f, {p}) /\ <<p, i>>[1] = p /\ <<p, i>>[2] = i
    BY DEF PlacesUnder
  <2>2. Row(f, p, i) \in U
    BY <2>1 DEF FoundRows
  <2> QED  BY <2>2 DEF Row
<1> HIDE DEF U, Y, one
<1>7. /\ \A k \in DOMAIN columns : /\ columns[k] \in Cols(U)
                                   /\ \A r \in U : r.column = columns[k] => r \in sites[k]
                                   /\ \A r \in sites[k] : r \in U
      /\ \A r \in Coarse(U) : \E k \in DOMAIN columns : r \in sites[k]
  <2>1. \A r \in Coarse(U) : r \in ToSet(RestOf(one)) \/ \E k \in DOMAIN columns : r \in sites[k]
    BY <1>2, ClusterRows
  <2>2. ToSet(RestOf(one)) = {}
    BY DEF ToSet, Nothing, one
  <2>3. \A k \in DOMAIN columns : /\ columns[k] \in Cols(U)
                                  /\ \A r \in U : r.column = columns[k] => r \in sites[k]
                                  /\ \A r \in sites[k] : r \in U
    BY <1>2, ClusterRows
  <2> QED  BY <2>1, <2>2, <2>3
<1>8. \A j, k \in DOMAIN columns : columns[j] = columns[k] => j = k
  <2>1. IsFiniteSet(U)
    BY <1>2, ListsAreFinite
  <2> QED  BY <1>2, <2>1, PreciseColumnsList DEF Lists
<1>9. SiteInv(Paired(Sorted(one)), U, columns)
  <2> DEFINE q == Sorted(one)
  <2>1. Lists(q, U)
    BY <1>2, SortedLists
  <2> HIDE DEF q
  <2>2. SiteInv(Paired(q), U, columns)
    BY <1>2, <2>1, SitesInv
  <2> QED  BY <2>2 DEF q
<1>10. /\ \A k \in DOMAIN columns : \A r, u \in sites[k] : IsCoarse(r) => r.message = u.message
       /\ \A k \in DOMAIN columns : \A r, u \in sites[k] : IsCoarse(r) /\ IsCoarse(u) => r = u
  <2>1. \A k \in DOMAIN columns : \A r \in sites[k] : IsCoarse(r) => k \in Paired(Sorted(one)).paired
    BY <1>9 DEF SiteInv, SitesOf
  <2>2. \A k \in DOMAIN columns : \A r, u \in sites[k] : IsCoarse(r) /\ IsCoarse(u) => r = u
    BY <1>9 DEF SiteInv, SitesOf
  <2>3. \A k \in Paired(Sorted(one)).paired : \A a, b \in sites[k] : a.message = b.message
    BY DEF one
  <2> HIDE DEF sites, columns
  <2> QED  BY <2>1, <2>2, <2>3
<1> HIDE DEF sites, columns
<1>11. \A i \in I : /\ i \in DOMAIN raw[f][p] /\ Row(f, p, i) \in Coarse(U) /\ Row(f, p, i).message = m
  BY <1>6 DEF CoarseWith, CoarseAt, Coarse, IsCoarse
<1>12. ASSUME NEW i \in I  PROVE \E y \in P : at(i, y)
  <2>1. PICK k \in DOMAIN columns : Row(f, p, i) \in sites[k]
    BY <1>7, <1>11
  <2>2. columns[k] \in Cols(Y)
    BY <1>5, <1>7
  <2>3. PICK y \in Y : y.column = columns[k] /\ ~IsCoarse(y)
    BY <2>2 DEF Cols, IsCoarse
  <2>4. PICK x \in y.of : Finding(x).column = y.column /\ Finding(x).message = y.message
    BY <1>4 DEF Witnessed
  <2>5. x \in FindingsUnder(f, Runs)
    BY <1>4, <2>3, <2>4 DEF Covered
  <2>6. PICK q \in Runs : \E j \in DOMAIN raw[f][q] : x = <<f, q, j>>
    BY <2>5 DEF FindingsUnder
  <2>7. PICK j \in DOMAIN raw[f][q] : x = <<f, q, j>>
    BY <2>6
  <2>8. j \in DOMAIN raw[f][p] /\ raw[f][p][j].column = y.column /\ raw[f][p][j].message = y.message
    BY <1>1, <2>4, <2>7 DEF Alike, Finding
  <2>9. Row(f, p, j) \in sites[k] /\ Row(f, p, j).message = y.message
    BY <1>6, <1>7, <2>3, <2>8
  <2>10. y.message = m
    BY <1>10, <1>11, <2>1, <2>9 DEF Coarse
  <2> QED  BY <2>1, <2>3, <2>10 DEF PreciseWith
<1>13. \A i \in I : g[i] \in P /\ at(i, g[i])
  BY <1>12
<1>14. ASSUME NEW i \in I, NEW j \in I, g[i] = g[j]  PROVE i = j
  <2>1. PICK a \in DOMAIN columns : Row(f, p, i) \in sites[a] /\ g[i].column = columns[a]
    BY <1>13
  <2>2. PICK b \in DOMAIN columns : Row(f, p, j) \in sites[b] /\ g[j].column = columns[b]
    BY <1>13
  <2>3. a = b
    BY <1>8, <1>14, <2>1, <2>2
  <2>4. Row(f, p, i) = Row(f, p, j)
    BY <1>10, <1>11, <2>1, <2>2, <2>3 DEF Coarse
  <2>5. {<<f, p, i>>} = {<<f, p, j>>}
    BY <1>6, <1>11, <2>4
  <2>6. <<f, p, i>> = <<f, p, j>>
    BY <2>5
  <2> QED  BY <2>6
<1>15. g \in Injection(I, P)
  <2>1. g \in [I -> P]
    BY <1>13
  <2> HIDE DEF g, I, P
  <2> QED  BY <1>14, <2>1 DEF Injection, IsInjective
<1>16. IsFiniteSet(P)
  <2>1. IsFiniteSet(Y)
    BY <1>4, ListsAreFinite
  <2>2. P \in SUBSET Y
    BY DEF PreciseWith
  <2> HIDE DEF P
  <2> QED  BY <2>1, <2>2, FS_Subset
<1> HIDE DEF g, I, P
<1> QED
  BY <1>15, <1>16, FS_Injection DEF I, P, Y

\* The last profile.
LEMMA LastProfile ==
  ASSUME InputOK, profiles # {}
  PROVE  \E w \in profiles : \A p \in profiles : p <= w
<1> DEFINE a == Ascending(profiles)
<1>1. profiles \in SUBSET Nat /\ IsFiniteSet(profiles)
  BY RowsAssumption DEF InputOK
<1>2. Lists(a, profiles) /\ DOMAIN a = 1..Len(a) /\ Len(a) \in Nat
  <2>1. Lists(a, profiles)
    BY <1>1, AscendingLists
  <2> HIDE DEF a
  <2> QED  BY <2>1, ListsAreFinite
<1>3. \A j, k \in DOMAIN a : j < k => a[j] < a[k]
  BY <1>1, AscendingAscends
<1> HIDE DEF a
<1>4. a \in Seq(profiles) /\ \A p \in profiles : \E k \in DOMAIN a : a[k] = p
  BY <1>2 DEF Lists
<1>5. Len(a) \in DOMAIN a
  BY <1>2, <1>4
<1>6. a[Len(a)] \in profiles
  BY <1>4, <1>5
<1>7. ASSUME NEW p \in profiles  PROVE p <= a[Len(a)]
  <2>1. PICK k \in DOMAIN a : a[k] = p
    BY <1>4
  <2>2. k = Len(a) \/ k < Len(a)
    BY <1>2
  <2>3. k < Len(a) => a[k] < a[Len(a)]
    BY <1>3, <1>5
  <2>4. p \in Nat /\ a[Len(a)] \in Nat
    BY <1>1, <1>6
  <2> QED  BY <2>1, <2>2, <2>3, <2>4
<1> QED
  BY <1>6, <1>7

\* The index of a candidate among the findings of its file and profile.
IndexOf(r) == (CHOOSE x : x \in r.of)[3]

\* The candidates of a profile are sorted by their index: findings are presorted.
LEMMA SortedByIndex ==
  ASSUME InputOK, NEW f \in Files, NEW p \in Runs,
         NEW i \in DOMAIN raw[f][p], NEW j \in DOMAIN raw[f][p],
         Follows(Sorted(Rows(f)), Row(f, p, i), Row(f, p, j))
  PROVE  i < j
<1> DEFINE S == FoundRows(f, Runs)
           x == Row(f, p, i)
           y == Row(f, p, j)
<1>1. Rows(f) = RowsUnder(f, Runs) /\ Runs \in SUBSET Runs
  BY DEF Rows
<1>2. Lists(Rows(f), S) /\ S \in SUBSET RowSet
  BY <1>1, RowsAreListed DEF Good
<1>3. x \in S /\ y \in S /\ (Before(x, y) \/ Follows(Rows(f), x, y))
  <2> HIDE DEF S, x, y
  <2> QED  BY <1>2, SortedInLine DEF x, y
<1>4. i \in Nat /\ j \in Nat /\ Presorted(raw[f][p])
  <2>1. raw[f][p] \in RawFindings
    BY DEF InputOK
  <2>2. DOMAIN raw[f][p] \subseteq 1..MaxFindings /\ MaxFindings \in Nat
    BY <2>1, RawLists, RowsAssumption
  <2> QED  BY <2>1, <2>2 DEF RawFindings
<1>5. x.of = {<<f, p, i>>} /\ y.of = {<<f, p, j>>}
  BY DEF Row
<1>6. CASE Before(x, y)
  <2>1. Before(raw[f][p][i], raw[f][p][j])
    BY <1>6 DEF Row, Before, IsCoarse
  <2>2. ~(j < i)
    BY <1>4, <2>1 DEF Presorted
  <2>3. x # y
    <3> HIDE DEF x, y
    <3>1. x \in RowSet /\ ~Before(x, x)
      BY <1>2, <1>3, BeforeOrders
    <3> QED  BY <1>6, <3>1
  <2> QED  BY <1>4, <2>2, <2>3
<1>7. CASE Follows(Rows(f), x, y)
  <2>1. \E a, b \in PlacesUnder(f, Runs) :
          /\ x = Row(f, a[1], a[2]) /\ y = Row(f, b[1], b[2])
          /\ a[1] < b[1] \/ (a[1] = b[1] /\ a[2] < b[2])
    <3> HIDE DEF x, y
    <3> QED  BY <1>1, <1>7, RowsAreListed
  <2>2. PICK a \in PlacesUnder(f, Runs), b \in PlacesUnder(f, Runs) :
          /\ x = Row(f, a[1], a[2]) /\ y = Row(f, b[1], b[2])
          /\ a[1] < b[1] \/ (a[1] = b[1] /\ a[2] < b[2])
    BY <2>1
  <2>3. {<<f, p, i>>} = {<<f, a[1], a[2]>>} /\ {<<f, p, j>>} = {<<f, b[1], b[2]>>}
    BY <1>5, <2>2 DEF Row
  <2>4. <<f, p, i>> = <<f, a[1], a[2]>> /\ <<f, p, j>> = <<f, b[1], b[2]>>
    BY <2>3
  <2>5. a[1] = p /\ a[2] = i /\ b[1] = p /\ b[2] = j
    BY <2>4
  <2>6. p \in Nat
    BY RowsAssumption DEF Runs, InputOK
  <2> QED  BY <1>4, <2>2, <2>5, <2>6
<1> QED
  BY <1>3, <1>6, <1>7

\* Of the same coarse finding, the row of an earlier profile comes first.
LEMMA SortedByProfile ==
  ASSUME InputOK, NEW f \in Files, NEW p \in Runs, NEW q \in Runs, p < q, raw[f][p] = raw[f][q],
         NEW i \in DOMAIN raw[f][p]
  PROVE  Follows(Sorted(Rows(f)), Row(f, p, i), Row(f, q, i))
<1> DEFINE S == FoundRows(f, Runs)
           x == Row(f, p, i)
           y == Row(f, q, i)
<1>1. Rows(f) = RowsUnder(f, Runs) /\ Runs \in SUBSET Runs
  BY DEF Rows
<1>2. Lists(Rows(f), S) /\ S \in SUBSET RowSet
  BY <1>1, RowsAreListed DEF Good
<1>3. x \in S /\ y \in S
  <2>1. <<p, i>> \in PlacesUnder(f, Runs) /\ <<p, i>>[1] = p /\ <<p, i>>[2] = i
    BY DEF PlacesUnder
  <2>2. <<q, i>> \in PlacesUnder(f, Runs) /\ <<q, i>>[1] = q /\ <<q, i>>[2] = i
    BY DEF PlacesUnder
  <2> QED  BY <2>1, <2>2 DEF FoundRows
<1>4. p \in Nat /\ q \in Nat
  BY RowsAssumption DEF Runs, InputOK
<1>5. x.of = {<<f, p, i>>} /\ y.of = {<<f, q, i>>} /\ x.column = y.column /\ x.message = y.message
  BY DEF Row
<1>6. x # y
  <2>1. <<f, p, i>> # <<f, q, i>>
    BY <1>4
  <2> QED  BY <1>5, <2>1
<1>7. ~Before(y, x)
  <2>1. x \in RowSet /\ ~Before(x, x)
    <3> HIDE DEF x, S
    <3> QED  BY <1>2, <1>3, BeforeOrders
  <2> HIDE DEF x, y
  <2> QED  BY <1>5, <2>1 DEF Before, IsCoarse
<1>8. ~Follows(Rows(f), y, x)
  <2> SUFFICES ASSUME Follows(Rows(f), y, x)  PROVE FALSE
    OBVIOUS
  <2>1. \E a, b \in PlacesUnder(f, Runs) :
          /\ y = Row(f, a[1], a[2]) /\ x = Row(f, b[1], b[2])
          /\ a[1] < b[1] \/ (a[1] = b[1] /\ a[2] < b[2])
    <3> HIDE DEF x, y
    <3> QED  BY <1>1, RowsAreListed
  <2>2. PICK a \in PlacesUnder(f, Runs), b \in PlacesUnder(f, Runs) :
          /\ y = Row(f, a[1], a[2]) /\ x = Row(f, b[1], b[2])
          /\ a[1] < b[1] \/ (a[1] = b[1] /\ a[2] < b[2])
    BY <2>1
  <2>3. {<<f, q, i>>} = {<<f, a[1], a[2]>>} /\ {<<f, p, i>>} = {<<f, b[1], b[2]>>}
    BY <1>5, <2>2 DEF Row
  <2>4. <<f, q, i>> = <<f, a[1], a[2]>> /\ <<f, p, i>> = <<f, b[1], b[2]>>
    BY <2>3
  <2>5. a[1] = q /\ b[1] = p
    BY <2>4
  <2> QED  BY <1>4, <2>2, <2>5
<1> DEFINE s == Sorted(Rows(f))
<1>9. Lists(s, S)
  <2> HIDE DEF S
  <2> QED  BY <1>2, SortedLists
<1>10. Follows(s, y, x) => Before(y, x) \/ Follows(Rows(f), y, x)
  <2> HIDE DEF S, x, y
  <2> QED  BY <1>2, SortedInLine
<1> HIDE DEF s, S, x, y
<1>11. Follows(s, x, y)
  BY <1>3, <1>6, <1>7, <1>8, <1>9, <1>10, FollowsOnce
<1> QED
  BY <1>11 DEF s, x, y

\* The rows of a profile that are left over, in order.
LeftOver(f, p) == OfOrigin(RestOf(Rows(f)), OfProfile(p))
Indices(f, p) == [k \in DOMAIN LeftOver(f, p) |-> IndexOf(LeftOver(f, p)[k])]

\* They are listed by ascending index.
LEMMA LeftOverAre ==
  ASSUME InputOK, NEW f \in Files, profiles # {}, NEW p \in profiles
  PROVE  /\ Indices(f, p) \in Seq(Nat) /\ DOMAIN Indices(f, p) = DOMAIN LeftOver(f, p)
         /\ \A k \in DOMAIN LeftOver(f, p) :
              /\ LeftOver(f, p)[k] \in ToSet(RestOf(Rows(f)))
              /\ Indices(f, p)[k] \in CoarseAt(f, p) /\ LeftOver(f, p)[k] = Row(f, p, Indices(f, p)[k])
         /\ \A j, k \in DOMAIN Indices(f, p) : j < k => Indices(f, p)[j] < Indices(f, p)[k]
         /\ \A i \in CoarseAt(f, p) : Row(f, p, i) \in ToSet(RestOf(Rows(f)))
              => \E k \in DOMAIN Indices(f, p) : Indices(f, p)[k] = i
<1> DEFINE S == FoundRows(f, Runs)
           rest == RestOf(Rows(f))
           R == ToSet(rest)
           o == OfProfile(p)
           q == LeftOver(f, p)
           a == Indices(f, p)
           V == {r \in R : Origin(r) = o}
           sorted == Sorted(Rows(f))
<1>1. Rows(f) = RowsUnder(f, Runs) /\ Runs \in SUBSET Runs /\ p \in Runs /\ Runs = profiles
  BY DEF Rows, Runs
<1>2. Lists(Rows(f), S) /\ S \in SUBSET RowSet
  BY <1>1, RowsAreListed DEF Good
<1>3. Lists(rest, R) /\ \A r \in R : r \in Coarse(S)
  <2> HIDE DEF S
  <2> QED  BY <1>2, ClusterRows
<1>4. Lists(q, V) /\ InLine(q, rest) /\ Len(q) \in Nat /\ DOMAIN q = 1..Len(q)
  <2> HIDE DEF rest, R
  <2> QED  BY <1>3, OfOriginLists DEF LeftOver, V, rest
<1>5. ASSUME NEW r \in V
      PROVE  r \in R /\ IndexOf(r) \in CoarseAt(f, p) /\ r = Row(f, p, IndexOf(r))
  <2>1. r \in Coarse(S) /\ Origin(r) = o
    BY <1>3
  <2>2. r \in CoarseUnder(f, Runs, p)
    BY <2>1 DEF CoarseUnder
  <2>3. PICK i \in CoarseAt(f, p) : r = Row(f, p, i)
    BY <1>1, <2>2, CoarseOfProfile
  <2>4. r.of = {<<f, p, i>>}
    BY <2>3 DEF Row
  <2> DEFINE c == CHOOSE x : x \in r.of
  <2>5. IndexOf(r) = c[3] /\ c = <<f, p, i>>
    BY <2>4 DEF IndexOf
  <2> HIDE DEF c
  <2>6. IndexOf(r) = i
    BY <2>5
  <2> QED  BY <2>3, <2>6
<1>6. \A k \in DOMAIN q : q[k] \in V
  <2> HIDE DEF q, V
  <2>1. q \in Seq(V)
    BY <1>4 DEF Lists
  <2> QED  BY <2>1
<1>7. \A k \in DOMAIN q : q[k] \in R /\ a[k] \in CoarseAt(f, p) /\ q[k] = Row(f, p, a[k])
  BY <1>5, <1>6 DEF Indices
<1>8. \A i \in CoarseAt(f, p) : i \in Nat /\ i \in DOMAIN raw[f][p]
  <2>1. raw[f][p] \in RawFindings
    BY <1>1 DEF InputOK
  <2>2. DOMAIN raw[f][p] \subseteq 1..MaxFindings /\ MaxFindings \in Nat
    BY <2>1, RawLists, RowsAssumption
  <2> QED  BY <2>2 DEF CoarseAt
<1>9. DOMAIN a = DOMAIN q /\ a \in Seq(Nat)
  <2>1. DOMAIN a = DOMAIN q /\ a = [k \in DOMAIN q |-> a[k]]
    BY DEF Indices
  <2> HIDE DEF a, q
  <2>2. a \in [1..Len(q) -> Nat]
    BY <1>4, <1>7, <1>8, <2>1
  <2> QED  BY <1>4, <2>1, <2>2
<1>10. ASSUME NEW j \in DOMAIN a, NEW k \in DOMAIN a, j < k  PROVE a[j] < a[k]
  <2>1. j \in DOMAIN q /\ k \in DOMAIN q
    BY <1>9
  <2>2. Follows(rest, q[j], q[k])
    BY <1>4, <1>10, <2>1 DEF InLine
  <2>3. RestInv(Paired(sorted), sorted)
    <3>1. Lists(sorted, S) /\ Ordered(sorted)
      <4> HIDE DEF S
      <4> QED  BY <1>2, SortedLists, SortedIsOrdered
    <3> HIDE DEF sorted, S
    <3> QED  BY <1>2, <3>1, RestInLine
  <2>4. Follows(sorted, q[j], q[k])
    <3>1. InLine(rest, sorted)
      BY <2>3 DEF RestInv, RestOf
    <3>2. PICK b \in DOMAIN rest, c \in DOMAIN rest : b < c /\ rest[b] = q[j] /\ rest[c] = q[k]
      BY <2>2 DEF Follows
    <3> QED  BY <3>1, <3>2 DEF InLine
  <2>5. Follows(sorted, Row(f, p, a[j]), Row(f, p, a[k]))
    BY <1>7, <2>1, <2>4
  <2>6. a[j] \in DOMAIN raw[f][p] /\ a[k] \in DOMAIN raw[f][p]
    BY <1>7, <1>8, <2>1
  <2> HIDE DEF a
  <2> QED  BY <1>1, <2>5, <2>6, SortedByIndex
<1>11. ASSUME NEW i \in CoarseAt(f, p), Row(f, p, i) \in R  PROVE \E k \in DOMAIN a : a[k] = i
  <2>1. Row(f, p, i) \in CoarseUnder(f, Runs, p)
    BY <1>1, CoarseOfProfile
  <2>2. Row(f, p, i) \in V
    BY <1>11, <2>1 DEF CoarseUnder
  <2>3. PICK k \in DOMAIN q : q[k] = Row(f, p, i)
    BY <1>4, <2>2 DEF Lists
  <2>4. Row(f, p, a[k]) = Row(f, p, i)
    BY <1>7, <2>3
  <2>5. {<<f, p, a[k]>>} = {<<f, p, i>>}
    BY <2>4 DEF Row
  <2>6. <<f, p, a[k]>> = <<f, p, i>>
    BY <2>5
  <2>7. a[k] = i
    BY <2>6
  <2> QED  BY <1>9, <2>7
<1> QED
  BY <1>7, <1>9, <1>10, <1>11 DEF R, rest

\* What an earlier profile leaves over, a later one does too; its n-th such finding
\* is not after that of the earlier one.
LEMMA LaterLeavesMore ==
  ASSUME InputOK, NEW f \in Files, Alike(f), profiles # {}, NEW p \in profiles, NEW w \in profiles, p <= w
  PROVE  \A n \in DOMAIN Indices(f, p) : n \in DOMAIN Indices(f, w) /\ Indices(f, w)[n] <= Indices(f, p)[n]
<1> DEFINE S == FoundRows(f, Runs)
           R == ToSet(RestOf(Rows(f)))
           sorted == Sorted(Rows(f))
           a == Indices(f, p)
           b == Indices(f, w)
<1>1. Rows(f) = RowsUnder(f, Runs) /\ Runs \in SUBSET Runs /\ p \in Runs /\ w \in Runs
      /\ raw[f][p] = raw[f][w] /\ CoarseAt(f, p) = CoarseAt(f, w)
  BY DEF Rows, Runs, Alike, CoarseAt
<1>2. Lists(Rows(f), S) /\ S \in SUBSET RowSet
  BY <1>1, RowsAreListed DEF Good
<1>3. RestInv(Paired(sorted), sorted)
  <2>1. Lists(sorted, S) /\ Ordered(sorted)
    <3> HIDE DEF S
    <3> QED  BY <1>2, SortedLists, SortedIsOrdered
  <2> HIDE DEF sorted, S
  <2> QED  BY <1>2, <2>1, RestInLine
<1>4. /\ a \in Seq(Nat) /\ DOMAIN a = DOMAIN LeftOver(f, p)
      /\ \A k \in DOMAIN a : a[k] \in CoarseAt(f, p) /\ Row(f, p, a[k]) \in R
      /\ \A j, k \in DOMAIN a : j < k => a[j] < a[k]
  BY LeftOverAre
<1>5. /\ b \in Seq(Nat)
      /\ \A j, k \in DOMAIN b : j < k => b[j] < b[k]
      /\ \A i \in CoarseAt(f, w) : Row(f, w, i) \in R => \E k \in DOMAIN b : b[k] = i
  BY LeftOverAre
<1> HIDE DEF a, b
<1>6. ASSUME NEW k \in DOMAIN a  PROVE \E j \in DOMAIN b : b[j] = a[k]
  <2> DEFINE x == Row(f, p, a[k])
             y == Row(f, w, a[k])
  <2>1. x \in R /\ a[k] \in CoarseAt(f, w)
    BY <1>1, <1>4
  <2>2. y \in R
    <3>1. CASE p = w
      BY <2>1, <3>1
    <3>2. CASE p # w
      <4>1. p < w
        <5>1. p \in Nat /\ w \in Nat
          BY RowsAssumption DEF InputOK
        <5> QED  BY <3>2, <5>1
      <4>2. a[k] \in DOMAIN raw[f][p] /\ raw[f][p][a[k]].column = 1
        BY <1>1, <2>1 DEF CoarseAt
      <4>3. Follows(sorted, x, y)
        BY <1>1, <4>1, <4>2, SortedByProfile
      <4>4. IsCoarse(x) /\ IsCoarse(y) /\ x.message = y.message
        BY <1>1, <4>2 DEF Row, IsCoarse
      <4>5. \A u, v :
              Follows(sorted, u, v) /\ IsCoarse(u) /\ IsCoarse(v) /\ u.message = v.message /\ u \in R => v \in R
        BY <1>3 DEF RestInv, RestOf
      <4> HIDE DEF x, y, R, sorted
      <4> QED  BY <2>1, <4>3, <4>4, <4>5
    <3> QED  BY <3>1, <3>2
  <2> QED  BY <1>5, <2>1, <2>2
<1>7. \A n \in DOMAIN a : n \in DOMAIN b /\ b[n] <= a[n]
  BY <1>4, <1>5, <1>6, FewerClimbFaster
<1> QED
  BY <1>7 DEF a, b

\* A coarse row left over stands for a finding of the last profile, and has its
\* message.
LEMMA CoarseIsOfLast ==
  ASSUME InputOK, NEW f \in Files, Alike(f), profiles # {}, NEW w \in profiles, \A p \in profiles : p <= w,
         NEW z \in MergedRows(Rows(f)), IsCoarse(z)
  PROVE  \E i \in CoarseAt(f, w) : <<f, w, i>> \in z.of /\ z.message = raw[f][w][i].message
<1> DEFINE S == FoundRows(f, Runs)
           rest == RestOf(Rows(f))
           R == ToSet(rest)
<1>1. Rows(f) = RowsUnder(f, Runs) /\ Runs \in SUBSET Runs /\ w \in Runs
  BY DEF Rows, Runs
<1>2. Lists(Rows(f), S) /\ Good(S) /\ S \in SUBSET RowSet /\ IsFiniteSet(S)
  BY <1>1, RowsAreListed, ListsAreFinite DEF Good
<1>3. Lists(rest, R) /\ \A r \in R : r \in Coarse(S)
  <2> HIDE DEF S
  <2> QED  BY <1>2, ClusterRows
<1>4. \A u \in S : HasOrigin(u) /\ \E p \in Runs : u.token = {p} /\ Origin(u) = OfProfile(p)
  BY <1>1, OriginsAreProfiles
<1> HIDE DEF S
<1>5. PICK n \in DOMAIN Aligned(rest) : /\ z = Merged(Aligned(rest)[n])
                                       /\ Aligned(rest)[n] \in SUBSET S /\ Aligned(rest)[n] # {}
  BY <1>2, CoarseFromRest
<1>6. Reaching(rest, n) # {} /\ Aligned(rest)[n] = {OfOrigin(rest, o)[n] : o \in Reaching(rest, n)}
  <2>1. \A u \in R : HasOrigin(u)
    BY <1>3, <1>4 DEF Coarse
  <2> HIDE DEF rest, R
  <2> QED  BY <1>3, <1>5, <2>1, AlignedByOrigin DEF R
<1>7. ASSUME NEW o \in Reaching(rest, n)
      PROVE  \E p \in profiles : /\ OfOrigin(rest, o)[n] = Row(f, p, Indices(f, p)[n])
                                 /\ n \in DOMAIN Indices(f, p) /\ Indices(f, p)[n] \in CoarseAt(f, p)
  <2>1. PICK u \in R : o = Origin(u)
    BY <1>7 DEF Reaching, OriginsOf
  <2>2. PICK p \in Runs : o = OfProfile(p)
    BY <1>3, <1>4, <2>1 DEF Coarse
  <2>3. p \in profiles
    BY <2>2 DEF Runs
  <2>4. n \in DOMAIN LeftOver(f, p)
    <3> DEFINE q == LeftOver(f, p)
    <3>1. n <= Len(q) /\ n \in Nat \ {0}
      <4>1. n <= Len(q)
        BY <1>7, <2>2 DEF Reaching, LeftOver
      <4>2. DOMAIN Aligned(rest) = 1..Len(Aligned(rest)) /\ Len(Aligned(rest)) \in Nat
        <5> HIDE DEF rest
        <5> QED  BY <1>2, ClusterParts DEF rest
      <4> HIDE DEF q
      <4> QED  BY <1>5, <4>1, <4>2
    <3>2. DOMAIN q = 1..Len(q) /\ Len(q) \in Nat
      <4> HIDE DEF rest, R
      <4> QED  BY <1>3, OfOriginLists DEF LeftOver, rest
    <3> HIDE DEF q
    <3> QED  BY <3>1, <3>2 DEF q
  <2>5. /\ DOMAIN Indices(f, p) = DOMAIN LeftOver(f, p) /\ Indices(f, p)[n] \in CoarseAt(f, p)
        /\ LeftOver(f, p)[n] = Row(f, p, Indices(f, p)[n])
    BY <2>3, <2>4, LeftOverAre
  <2> QED  BY <2>2, <2>3, <2>4, <2>5 DEF LeftOver
<1> DEFINE C == Aligned(rest)[n]
           i == Indices(f, w)[n]
           v == Row(f, w, i)
<1>8. n \in DOMAIN Indices(f, w) /\ i \in CoarseAt(f, w)
      /\ \A p \in profiles : n \in DOMAIN Indices(f, p) => i <= Indices(f, p)[n]
  <2>1. PICK o \in Reaching(rest, n) : TRUE
    BY <1>6
  <2>2. PICK p \in profiles : n \in DOMAIN Indices(f, p)
    BY <1>7, <2>1
  <2>3. \A q \in profiles : n \in DOMAIN Indices(f, q) => n \in DOMAIN Indices(f, w) /\ i <= Indices(f, q)[n]
    BY LaterLeavesMore
  <2>4. n \in DOMAIN Indices(f, w)
    BY <2>2, <2>3
  <2>5. i \in CoarseAt(f, w)
    BY <2>4, LeftOverAre
  <2> QED  BY <2>3, <2>4, <2>5
<1>9. v \in C
  <2>1. /\ LeftOver(f, w)[n] = v /\ LeftOver(f, w)[n] \in R /\ n \in DOMAIN LeftOver(f, w)
    BY <1>8, LeftOverAre
  <2>2. Origin(v) = OfProfile(w)
    <3>1. v \in S /\ v.token = profiles \cap {w}
      BY <1>3, <2>1 DEF Coarse, Row
    <3>2. PICK p \in Runs : v.token = {p} /\ Origin(v) = OfProfile(p)
      BY <1>4, <3>1
    <3>3. p = w
      BY <3>1, <3>2
    <3> QED  BY <3>2, <3>3
  <2>3. DOMAIN LeftOver(f, w) = 1..Len(LeftOver(f, w)) /\ Len(LeftOver(f, w)) \in Nat
    <3> HIDE DEF rest, R
    <3> QED  BY <1>3, OfOriginLists DEF LeftOver, rest
  <2>4. n <= Len(LeftOver(f, w))
    <3> DEFINE l == Len(LeftOver(f, w))
    <3>1. n \in 1..l /\ l \in Nat
      BY <2>1, <2>3
    <3> HIDE DEF l
    <3> QED  BY <3>1 DEF l
  <2>5. OfProfile(w) \in Reaching(rest, n)
    <3>1. OfProfile(w) \in OriginsOf(rest)
      BY <2>1, <2>2 DEF OriginsOf
    <3> QED  BY <2>4, <3>1 DEF Reaching, LeftOver
  <2>6. OfOrigin(rest, OfProfile(w))[n] = v
    BY <2>1 DEF LeftOver
  <2> HIDE DEF v, rest
  <2> QED  BY <1>6, <2>5, <2>6
<1>10. C \in SUBSET RowSet /\ IsFiniteSet(C) /\ C # {}
  BY <1>2, <1>5, FS_Subset
<1>11. z.of = Covered(C) /\ \E b \in C : (\A s \in C : ~Before(s, b)) /\ z.message = b.message
  <2> HIDE DEF C
  <2>1. z = Merged(C)
    BY <1>5 DEF C
  <2> QED  BY <1>10, <2>1, MergedRow
<1>12. PICK b \in C : (\A s \in C : ~Before(s, b)) /\ z.message = b.message
  BY <1>11
<1>13. PICK p \in profiles : /\ b = Row(f, p, Indices(f, p)[n]) /\ n \in DOMAIN Indices(f, p)
                             /\ Indices(f, p)[n] \in CoarseAt(f, p)
  BY <1>6, <1>7, <1>12
<1> DEFINE j == Indices(f, p)[n]
<1>14. /\ p \in Runs /\ raw[f][p] = raw[f][w] /\ i \in DOMAIN raw[f][w] /\ j \in DOMAIN raw[f][w]
       /\ raw[f][w][i].column = 1 /\ raw[f][w][j].column = 1 /\ i <= j
  BY <1>1, <1>8, <1>13 DEF Runs, Alike, CoarseAt
<1>15. /\ i \in Nat /\ j \in Nat /\ Presorted(raw[f][w]) /\ raw[f][w][i].message \in Nat
       /\ raw[f][w][j].message \in Nat
  <2>1. raw[f][w] \in RawFindings
    BY <1>1 DEF InputOK
  <2>2. DOMAIN raw[f][w] \subseteq 1..MaxFindings /\ MaxFindings \in Nat /\ raw[f][w] \in Seq(Keys)
    BY <2>1, RawLists, RowsAssumption
  <2> HIDE DEF i, j
  <2>3. raw[f][w][i] \in Keys /\ raw[f][w][j] \in Keys
    BY <1>14, <2>2
  <2>4. raw[f][w][i].message \in Messages /\ raw[f][w][j].message \in Messages
    BY <2>3 DEF Keys
  <2>5. raw[f][w][i].message \in Nat /\ raw[f][w][j].message \in Nat
    BY <2>4, RowsAreNumbered
  <2>6. i \in Nat /\ j \in Nat
    BY <1>14, <2>2
  <2>7. Presorted(raw[f][w])
    BY <2>1 DEF RawFindings
  <2> QED  BY <2>5, <2>6, <2>7
<1>16. b.column = 1 /\ v.column = 1 /\ b.message = raw[f][w][j].message /\ v.message = raw[f][w][i].message
  BY <1>13, <1>14 DEF Row
<1>17. ~Before(v, b)
  BY <1>9, <1>12
<1> HIDE DEF i, j, v, C
<1>18. ~(v.message < b.message)
  BY <1>16, <1>17 DEF Before, IsCoarse
<1>19. ~(b.message < v.message)
  <2>1. CASE i = j
    BY <1>15, <1>16, <2>1
  <2>2. CASE i < j
    <3>1. ~Before(raw[f][w][j], raw[f][w][i])
      BY <1>14, <1>15, <2>2 DEF Presorted
    <3> QED  BY <1>14, <1>16, <3>1 DEF Before, IsCoarse
  <2> QED  BY <1>14, <1>15, <2>1, <2>2
<1>20. z.message = raw[f][w][i].message
  BY <1>12, <1>15, <1>16, <1>18, <1>19
<1>21. <<f, w, i>> \in z.of
  <2>1. v.of = {<<f, w, i>>}
    BY DEF v, Row
  <2> QED  BY <1>9, <1>11, <2>1 DEF Covered
<1> QED
  BY <1>8, <1>20, <1>21

\* So a message has no more coarse rows over all profiles than under one.
LEMMA CoarseIsBounded ==
  ASSUME InputOK, NEW f \in Files, Alike(f), profiles # {}, NEW p \in profiles, NEW m
  PROVE  Cardinality(SameRows(ProfileRows(f), m)) <= Cardinality(CoarseWith(f, p, m))
<1> DEFINE T == MergedRows(Rows(f))
           Y == ProfileRows(f)
           I == CoarseWith(f, p, m)
           J == SameRows(Y, m)
<1>1. PICK w \in profiles : \A q \in profiles : q <= w
  BY LastProfile
<1>2. p \in Runs /\ CoarseAt(f, p) = CoarseAt(f, w) /\ raw[f][p] = raw[f][w]
  BY DEF Runs, CoarseAt, Alike
<1>3. Good(Y) /\ Lists(OverProfiles(Rows(f)), Y)
  BY ProfileRowsAre
<1>4. ASSUME NEW y \in J  PROVE \E i \in I : <<f, w, i>> \in y.of
  <2>1. y \in Y /\ IsCoarse(y) /\ y.message = m
    BY DEF SameRows
  <2>2. PICK z \in T : y = Labelled(z)
    BY <2>1 DEF ProfileRows, OverRows
  <2>3. z \in RowSet
    BY TokenedRowsAre DEF Good
  <2>4. y.of = z.of /\ y.column = z.column /\ y.message = z.message
    BY <2>2, <2>3 DEF Labelled, RowSet
  <2>5. IsCoarse(z)
    BY <2>1, <2>4 DEF IsCoarse
  <2>6. PICK i \in CoarseAt(f, w) : <<f, w, i>> \in z.of /\ z.message = raw[f][w][i].message
    BY <1>1, <2>5, CoarseIsOfLast
  <2>7. i \in I
    BY <1>2, <2>1, <2>4, <2>6 DEF CoarseWith
  <2> QED  BY <2>4, <2>6, <2>7
<1> DEFINE g == [y \in J |-> CHOOSE i \in I : <<f, w, i>> \in y.of]
<1>5. \A y \in J : g[y] \in I /\ <<f, w, g[y]>> \in y.of
  BY <1>4
<1>6. g \in Injection(J, I)
  <2>1. g \in [J -> I]
    BY <1>5
  <2>2. ASSUME NEW x \in J, NEW y \in J, g[x] = g[y]  PROVE x = y
    <3>1. x \in Y /\ y \in Y
      BY DEF SameRows
    <3>2. <<f, w, g[x]>> \in x.of \cap y.of
      BY <1>5, <2>2
    <3> HIDE DEF Y
    <3> QED  BY <1>3, <3>1, <3>2 DEF Good
  <2> HIDE DEF g, I, J
  <2> QED  BY <2>1, <2>2 DEF Injection, IsInjective
<1>7. IsFiniteSet(I)
  <2>1. IsFiniteSet(CoarseAt(f, p))
    BY <1>2, CoarseOfProfile
  <2>2. I \in SUBSET CoarseAt(f, p)
    BY DEF CoarseWith
  <2> HIDE DEF I
  <2> QED  BY <2>1, <2>2, FS_Subset
<1> HIDE DEF g, I, J
<1> QED
  BY <1>6, <1>7, FS_Injection DEF I, J, Y

\* One unconditional row makes its cluster unconditional.
LEMMA UnconditionalMerge ==
  ASSUME NEW C \in SUBSET RowSet, IsFiniteSet(C), NEW u \in C, Unconditional \in u.under
  PROVE  Merged(C).under = {Unconditional}
<1>1. Merged(C).under = MergedUnder(UNION {r.under : r \in C})
  BY MergedRow
<1> QED
  BY <1>1 DEF MergedUnder

\* If under one profile every coarse row has a site with its message only, then over
\* all profiles every coarse row finds one when the rows of the file are finalised,
\* and each of these is unconditional.
LEMMA PairedRepeats ==
  ASSUME InputOK, NEW f \in Files, Alike(f), profiles # {}, NEW p \in profiles,
         RestOf(RowsUnder(f, {p})) = Nothing,
         \A k \in Paired(Sorted(RowsUnder(f, {p}))).paired :
           \A a, b \in SitesOf(RowsUnder(f, {p}))[k] : a.message = b.message
  PROVE  /\ \A r \in RowsOfFile(f) : r.under = {Unconditional}
         /\ Len(FileRows(f)) <= Len(Finalised(RowsUnder(f, {p})))
<1> DEFINE Y == ProfileRows(f)
           rows == OverProfiles(Rows(f))
           U == FoundRows(f, {p})
           one == RowsUnder(f, {p})
           M == Cardinality(Messages)
<1>1. /\ Lists(rows, Y) /\ Good(Y) /\ Covered(Y) = FindingsUnder(f, Runs) /\ OneRowPerSite(Y)
      /\ \A r \in Y : Witnessed(r)
  BY ProfileRowsAre DEF Findings, FindingsUnder
<1>2. Y \in SUBSET RowSet /\ IsFiniteSet(Y)
  BY <1>1, ListsAreFinite DEF Good
<1>3. \A m \in 1..M : Cardinality(SameRows(Y, m)) <= Cardinality(PreciseWith(Y, m))
  <2> TAKE m \in 1..M
  <2>1. Cardinality(SameRows(Y, m)) <= Cardinality(CoarseWith(f, p, m))
    BY CoarseIsBounded
  <2>2. Cardinality(CoarseWith(f, p, m)) <= Cardinality(PreciseWith(Y, m))
    BY EnoughSites
  <2>3. SameRows(Y, m) \in SUBSET Y /\ PreciseWith(Y, m) \in SUBSET Y
    BY DEF SameRows, PreciseWith
  <2>4. Cardinality(SameRows(Y, m)) \in Nat /\ Cardinality(PreciseWith(Y, m)) \in Nat
    BY <1>2, <2>3, FS_Subset, FS_CardinalityType
  <2>5. Cardinality(CoarseWith(f, p, m)) \in Nat
    <3>1. CoarseWith(f, p, m) \in SUBSET CoarseAt(f, p)
      BY DEF CoarseWith
    <3>2. IsFiniteSet(CoarseAt(f, p))
      <4>1. p \in Runs /\ Runs \in SUBSET Runs
        BY DEF Runs
      <4> QED  BY <4>1, CoarseOfProfile
    <3> QED  BY <3>1, <3>2, FS_Subset, FS_CardinalityType
  <2> QED  BY <2>1, <2>2, <2>4, <2>5
<1> HIDE DEF Y, rows, M
<1>4. RestOf(rows) = << >>
  <2> DEFINE q == Sorted(rows)
  <2>1. Lists(q, Y)
    BY <1>1, <1>2, SortedLists
  <2> HIDE DEF q
  <2>2. Paired(q).rest = << >>
    BY <1>1, <1>2, <1>3, <2>1, EachFindsASite DEF M
  <2> QED  BY <2>2 DEF RestOf, q
<1>5. Len(Aligned(RestOf(rows))) = 0 /\ DOMAIN Aligned(RestOf(rows)) = {}
  <2>1. Lists(RestOf(rows), {})
    BY <1>4 DEF Lists
  <2>2. \A r \in {} : Origin(r) = 0
    OBVIOUS
  <2>3. Len(Aligned(RestOf(rows))) = Len(RestOf(rows))
    BY <2>1, <2>2, AlignedAlone
  <2>4. DOMAIN Aligned(RestOf(rows)) = 1..Len(Aligned(RestOf(rows)))
    BY <1>1, <1>2, ClusterParts
  <2> QED  BY <1>4, <2>3, <2>4
<1>6. FileRows(f) = Finalised(rows) /\ RowsOfFile(f) = MergedRows(rows)
  BY DEF FileRows, RowsOfFile, rows
<1>7. p \in Runs /\ {p} \in SUBSET Runs /\ Runs \in SUBSET Runs /\ p \in {p}
  BY DEF Runs
<1>8. Len(FileRows(f)) = Cardinality(FoundCols(f, p)) /\ Cardinality(FoundCols(f, p)) \in Nat
  <2>1. Cols(Y) = FoundCols(f, p)
    BY <1>1, <1>7, AlikeColumns
  <2>2. Len(Finalised(rows)) = Cardinality(Cols(Y)) + Len(Aligned(RestOf(rows))) /\ Cardinality(Cols(Y)) \in Nat
    BY <1>1, FinalisedLength
  <2> QED  BY <1>5, <1>6, <2>1, <2>2
<1>9. Len(Finalised(one)) >= Cardinality(FoundCols(f, p)) /\ Len(Finalised(one)) \in Nat
  <2>1. Lists(one, U) /\ Good(U) /\ Covered(U) = FindingsUnder(f, {p}) /\ U \in SUBSET RowSet
    BY <1>7, RowsAreListed DEF Good
  <2>2. \A r \in U : Witnessed(r)
    BY <1>7, FoundRowsAre
  <2> HIDE DEF U, one
  <2>3. Cols(U) = FoundCols(f, p)
    BY <1>7, <2>1, <2>2, AlikeColumns
  <2>4. Len(Finalised(one)) = Cardinality(Cols(U)) + Len(Aligned(RestOf(one))) /\ Len(Aligned(RestOf(one))) \in Nat
        /\ Cardinality(Cols(U)) \in Nat
    BY <2>1, FinalisedLength, ClusterParts
  <2> QED  BY <2>3, <2>4
<1>10. ASSUME NEW r \in RowsOfFile(f)  PROVE r.under = {Unconditional}
  <2>1. PICK k \in DOMAIN ClustersOf(rows) : r = Merged(ClustersOf(rows)[k])
    BY <1>6 DEF MergedRows
  <2> DEFINE C == ClustersOf(rows)[k]
  <2>2. k \in DOMAIN PreciseColumns(Y) /\ C = SitesOf(rows)[k]
    BY <1>1, <1>2, <1>5, <2>1, ClusterParts
  <2>3. /\ PreciseColumns(Y)[k] \in Cols(Y)
        /\ \A u \in Y : u.column = PreciseColumns(Y)[k] => u \in SitesOf(rows)[k]
        /\ \A u \in SitesOf(rows)[k] : u \in Y
    BY <1>1, <1>2, <2>2, ClusterRows
  <2>4. PICK y \in Y : y.column = PreciseColumns(Y)[k] /\ y.column # 1
    BY <2>3 DEF Cols
  <2>5. y \in C /\ ~IsCoarse(y) /\ C \in SUBSET Y
    BY <2>2, <2>3, <2>4 DEF IsCoarse
  <2>6. Unconditional \in y.under
    <3>1. PICK z \in MergedRows(Rows(f)) : y = Labelled(z)
      BY DEF ProfileRows, OverRows, Y
    <3>2. z \in RowSet
      BY TokenedRowsAre DEF Good
    <3>3. y.column = z.column
      BY <3>1, <3>2 DEF Labelled, RowSet
    <3>4. ~IsCoarse(z)
      BY <2>5, <3>3 DEF IsCoarse
    <3>5. z.token = profiles
      BY <3>4, PreciseIsOfAll
    <3> QED  BY <3>1, <3>2, <3>5, AllProfiles
  <2>7. C \in SUBSET RowSet /\ IsFiniteSet(C)
    <3> HIDE DEF C
    <3> QED  BY <1>2, <2>5, FS_Subset
  <2>8. r = Merged(C)
    BY <2>1
  <2> HIDE DEF C
  <2> QED  BY <2>5, <2>6, <2>7, <2>8, UnconditionalMerge
<1> QED
  BY <1>8, <1>9, <1>10

\* If a file finds the same under every profile, and lines are not crowded, its rows
\* are unconditional and no more than under one profile.
LEMMA UncrowdedRepeats ==
  ASSUME InputOK, NEW f \in Files, Alike(f), profiles # {}, NEW p \in profiles, ~Crowded(f, p)
  PROVE  /\ \A r \in RowsOfFile(f) : r.under = {Unconditional}
         /\ Len(FileRows(f)) <= Len(Finalised(RowsUnder(f, {p})))
<1> DEFINE one == RowsUnder(f, {p})
           rows == OverProfiles(Rows(f))
           Y == ProfileRows(f)
<1>1. CASE Paired(Sorted(one)).paired = {}
  <2>1. (\A r \in Y : r.under = {Unconditional}) /\ Len(Finalised(Rows(f))) <= Len(Finalised(one))
    BY <1>1, UnpairedRepeats
  <2>2. Lists(rows, Y) /\ Good(Y) /\ IsFiniteSet(Y)
    BY ProfileRowsAre, ListsAreFinite
  <2>3. Len(rows) = Len(Finalised(Rows(f)))
    <3>1. Rows(f) = RowsUnder(f, Runs) /\ Runs \in SUBSET Runs
      BY DEF Rows
    <3>2. /\ Lists(Rows(f), FoundRows(f, Runs)) /\ Good(FoundRows(f, Runs))
          /\ \A r \in FoundRows(f, Runs) : Tokened(r, f)
      BY <3>1, RowsAreListed
    <3> QED  BY <3>2, OverProfilesRows
  <2> HIDE DEF Y, rows, one
  <2>4. Len(Finalised(rows)) <= Len(rows)
    BY <2>2, FinalisedShrinks
  <2>5. FileRows(f) = Finalised(rows) /\ RowsOfFile(f) = MergedRows(rows)
    BY DEF FileRows, RowsOfFile, rows
  <2>6. Len(FileRows(f)) <= Len(Finalised(one))
    <3>1. Len(Finalised(rows)) \in Nat
      BY <2>2, FinalisedLength
    <3>2. Len(Finalised(Rows(f))) \in Nat
      <4>1. Lists(Finalised(Rows(f)), MergedRows(Rows(f)))
        BY TokenedRowsAre
      <4> QED  BY <4>1, ListsCount
    <3>3. Len(Finalised(one)) \in Nat
      <4>1. p \in Runs /\ {p} \in SUBSET Runs
        BY DEF Runs
      <4>2. Lists(one, FoundRows(f, {p})) /\ Good(FoundRows(f, {p}))
        BY <4>1, RowsAreListed DEF one
      <4> QED  BY <4>2, FinalisedLength
    <3> QED  BY <2>1, <2>3, <2>4, <2>5, <3>1, <3>2, <3>3
  <2>7. ASSUME NEW r \in RowsOfFile(f)  PROVE r.under = {Unconditional}
    <3>1. MadeOf(MergedRows(rows), Y)
      BY <2>2, FinalisedRows
    <3>2. PICK C \in SUBSET Y : C # {} /\ r = Merged(C)
      BY <2>5, <3>1 DEF MadeOf
    <3>3. C \in SUBSET RowSet /\ IsFiniteSet(C)
      BY <2>2, FS_Subset DEF Good
    <3>4. PICK u \in C : Unconditional \in u.under
      BY <2>1, <3>2
    <3> QED  BY <3>2, <3>3, <3>4, UnconditionalMerge
  <2> QED  BY <2>6, <2>7 DEF one
<1>2. CASE Paired(Sorted(one)).paired # {}
  <2>1. RestOf(one) = Nothing
    BY <1>2 DEF Crowded, RestOf
  <2>2. \A k \in Paired(Sorted(one)).paired : \A a, b \in SitesOf(one)[k] : a.message = b.message
    BY <1>2 DEF Crowded, SitesOf
  <2> QED  BY <2>1, <2>2, PairedRepeats
<1> QED
  BY <1>1, <1>2

-----------------------------------------------------------------------------
(* The rows of a file that has the same findings as another.               *)

\* A row as one of another file.
Moved(r, g) == [r EXCEPT !.tus = Tus(g), !.of = {<<g, x[2], x[3]>> : x \in r.of}]
MovedSet(C, g) == {Moved(r, g) : r \in C}

\* q has the rows of p as those of the other file, and so for clusters.
Moves(p, q, g) == DOMAIN q = DOMAIN p /\ \A k \in DOMAIN p : q[k] = Moved(p[k], g)
MovesSets(p, q, g) == DOMAIN q = DOMAIN p /\ \A k \in DOMAIN p : q[k] = MovedSet(p[k], g)

\* The fields of the row.
LEMMA MovedRow ==
  ASSUME NEW g \in Files, NEW r \in RowSet
  PROVE  /\ Moved(r, g) \in RowSet
         /\ Moved(r, g).column = r.column /\ Moved(r, g).message = r.message
         /\ Moved(r, g).token = r.token /\ Moved(r, g).under = r.under
         /\ Moved(r, g).tus = Tus(g) /\ Moved(r, g).of = {<<g, x[2], x[3]>> : x \in r.of}
         /\ IsCoarse(Moved(r, g)) <=> IsCoarse(r)
<1> DEFINE of == {<<g, x[2], x[3]>> : x \in r.of}
<1>1. of \in SUBSET Places
  <2>1. \A x \in r.of : x \in Places
    BY DEF RowSet
  <2>2. \A x \in r.of : x[2] \in Profiles \cup {0} /\ x[3] \in Nat
    BY <2>1 DEF Places
  <2> QED  BY <2>2 DEF Places
<1>2. Tus(g) \in SUBSET Files
  BY DEF Tus
<1>3. Moved(r, g) = [r EXCEPT !.tus = Tus(g), !.of = of]
  BY DEF Moved
<1> HIDE DEF of
<1>4. /\ Moved(r, g) \in RowSet
      /\ Moved(r, g).column = r.column /\ Moved(r, g).message = r.message
      /\ Moved(r, g).token = r.token /\ Moved(r, g).under = r.under
      /\ Moved(r, g).tus = Tus(g) /\ Moved(r, g).of = of
  BY <1>1, <1>2, <1>3 DEF RowSet
<1> QED
  BY <1>4 DEF of, IsCoarse

\* Nothing that changes is part of the sort key.
LEMMA MovedBefore ==
  ASSUME NEW g \in Files, NEW a \in RowSet, NEW b \in RowSet
  PROVE  Before(Moved(a, g), Moved(b, g)) <=> Before(a, b)
<1>1. /\ Moved(a, g).column = a.column /\ Moved(a, g).message = a.message /\ (IsCoarse(Moved(a, g)) <=> IsCoarse(a))
      /\ Moved(b, g).column = b.column /\ Moved(b, g).message = b.message /\ (IsCoarse(Moved(b, g)) <=> IsCoarse(b))
  BY MovedRow
<1> DEFINE c == Moved(a, g)
           d == Moved(b, g)
<1> HIDE DEF c, d
<1>2. /\ c.column = a.column /\ c.message = a.message /\ (IsCoarse(c) <=> IsCoarse(a))
      /\ d.column = b.column /\ d.message = b.message /\ (IsCoarse(d) <=> IsCoarse(b))
  BY <1>1 DEF c, d
<1>3. Before(c, d) <=> Before(a, b)
  BY <1>2 DEF Before, IsCoarse
<1> QED
  BY <1>3 DEF c, d

\* The lists are equally long.
LEMMA MovedLists ==
  ASSUME NEW g, NEW S, NEW p, Lists(p, S), NEW T, NEW q, Lists(q, T), Moves(p, q, g)
  PROVE  T = MovedSet(S, g) /\ Len(q) = Len(p)
<1>1. S = {p[i] : i \in DOMAIN p} /\ T = {q[i] : i \in DOMAIN q}
      /\ DOMAIN p = 1..Len(p) /\ DOMAIN q = 1..Len(q) /\ Len(p) \in Nat /\ Len(q) \in Nat
  BY ListsAreFinite
<1>2. DOMAIN q = DOMAIN p /\ \A k \in DOMAIN p : q[k] = Moved(p[k], g)
  BY DEF Moves
<1>3. \A u : u \in T <=> \E i \in DOMAIN p : u = Moved(p[i], g)
  <2> DEFINE D == DOMAIN p
  <2>1. T = {q[i] : i \in D}
    BY <1>1, <1>2
  <2> HIDE DEF D
  <2>2. \A k \in D : q[k] = Moved(p[k], g)
    BY <1>2 DEF D
  <2> QED  BY <2>1, <2>2 DEF D
<1>4. T = MovedSet(S, g)
  <2>1. \A u : u \in MovedSet(S, g) <=> \E i \in DOMAIN p : u = Moved(p[i], g)
    BY <1>1 DEF MovedSet
  <2> QED  BY <1>3, <2>1
<1>5. Len(q) = Len(p)
  <2>1. p \in Seq(S) /\ q \in Seq(T)
    BY DEF Lists
  <2> QED  BY <1>2, <2>1
<1> QED
  BY <1>4, <1>5

\* Sorting permutes both in the same way.
LEMMA SortedMoves ==
  ASSUME NEW g \in Files, NEW S \in SUBSET RowSet, NEW p, Lists(p, S), NEW T \in SUBSET RowSet, NEW q, Lists(q, T),
         Moves(p, q, g)
  PROVE  Moves(Sorted(p), Sorted(q), g)
<1> DEFINE D == DOMAIN p
           o == SortOrder(p)
<1>1. DOMAIN q = D /\ \A k \in D : q[k] = Moved(p[k], g)
  BY DEF Moves
<1>2. \A i \in D : p[i] \in RowSet
  BY ListsAreFinite
<1>3. \A i, j \in D : Before(q[i], q[j]) <=> Before(p[i], p[j])
  BY <1>1, <1>2, MovedBefore
<1>4. SortOrder(q) = o
  <2> DEFINE below(r, j) == {i \in D : Before(r[i], r[j]) \/ (~Before(r[j], r[i]) /\ i < j)}
  <2>1. \A j \in D : below(q, j) = below(p, j)
    BY <1>3
  <2>2. SortOrder(q) = InOrder(D, [j \in D |-> below(q, j)])
    BY <1>1 DEF SortOrder
  <2>3. o = InOrder(D, [j \in D |-> below(p, j)])
    BY DEF SortOrder
  <2> HIDE DEF below, o, D
  <2>4. [j \in D |-> below(q, j)] = [j \in D |-> below(p, j)]
    BY <2>1
  <2> QED  BY <2>2, <2>3, <2>4
<1>5. Lists(o, D) /\ DOMAIN o = D /\ Sorted(p) = [k \in D |-> p[o[k]]]
  BY SortedOrder
<1>6. Sorted(q) = [k \in DOMAIN q |-> q[SortOrder(q)[k]]]
  BY SortedOrder
<1> HIDE DEF o, D
<1>7. o \in Seq(D)
  BY <1>5 DEF Lists
<1>8. \A k \in D : o[k] \in D
  BY <1>5, <1>7
<1>9. Sorted(q) = [k \in D |-> q[o[k]]]
  BY <1>1, <1>4, <1>6
<1> QED
  BY <1>1, <1>5, <1>8, <1>9 DEF Moves

\* So does selecting places.
LEMMA RowsAtMoves ==
  ASSUME NEW g, NEW S, NEW p, Lists(p, S), NEW q, Moves(p, q, g), NEW T \in SUBSET DOMAIN p
  PROVE  Moves(RowsAt(p, T), RowsAt(q, T), g)
<1> DEFINE o == Ascending(T)
<1>1. T \in SUBSET Nat /\ IsFiniteSet(T)
  BY ListsAreFinite, FS_Subset
<1>2. Lists(o, T)
  BY <1>1, AscendingLists
<1>3. RowsAt(p, T) = [k \in DOMAIN o |-> p[o[k]]] /\ RowsAt(q, T) = [k \in DOMAIN o |-> q[o[k]]]
  BY DEF RowsAt
<1> HIDE DEF o
<1>4. o \in Seq(T)
  BY <1>2 DEF Lists
<1>5. \A k \in DOMAIN o : o[k] \in DOMAIN p
  BY <1>4
<1> QED
  BY <1>3, <1>5 DEF Moves

\* The clusters of precise rows correspond.
LEMMA UnpairedMoves ==
  ASSUME NEW g \in Files, NEW S \in SUBSET RowSet, NEW p, Lists(p, S), NEW T \in SUBSET RowSet, NEW q, Lists(q, T),
         Moves(p, q, g)
  PROVE  MovesSets(PreciseClusters(p), PreciseClusters(q), g)
<1> DEFINE columns == Ascending({r.column : r \in S} \ {1})
<1>1. S = ToSet(p) /\ T = ToSet(q)
  BY ListsAreFinite
<1>2. T = MovedSet(S, g)
  BY MovedLists
<1>3. \A r \in S : Moved(r, g).column = r.column
  BY MovedRow
<1>4. {r.column : r \in T} = {r.column : r \in S}
  BY <1>2, <1>3 DEF MovedSet
<1>5. PreciseClusters(p) = [k \in DOMAIN columns |-> {r \in S : r.column = columns[k]}]
  BY <1>1 DEF PreciseClusters
<1>6. PreciseClusters(q) = [k \in DOMAIN columns |-> {r \in T : r.column = columns[k]}]
  BY <1>1, <1>4 DEF PreciseClusters
<1> HIDE DEF columns
<1>7. \A c : {r \in T : r.column = c} = MovedSet({r \in S : r.column = c}, g)
  BY <1>2, <1>3 DEF MovedSet
<1> DEFINE at(R, c) == {r \in R : r.column = c}
<1>8. /\ PreciseClusters(p) = [k \in DOMAIN columns |-> at(S, columns[k])]
      /\ PreciseClusters(q) = [k \in DOMAIN columns |-> at(T, columns[k])]
      /\ \A c : at(T, c) = MovedSet(at(S, c), g)
  BY <1>5, <1>6, <1>7
<1> HIDE DEF at
<1> QED
  BY <1>8 DEF MovesSets

\* So do concatenations of rows,
LEMMA ConcatMoves ==
  ASSUME NEW g, NEW S, NEW T, NEW a \in Seq(S), NEW b \in Seq(S), NEW c \in Seq(T), NEW d \in Seq(T),
         Moves(a, c, g), Moves(b, d, g)
  PROVE  Moves(a \o b, c \o d, g) /\ Len(c) = Len(a)
<1>1. /\ DOMAIN c = DOMAIN a /\ \A k \in DOMAIN a : c[k] = Moved(a[k], g)
      /\ DOMAIN d = DOMAIN b /\ \A k \in DOMAIN b : d[k] = Moved(b[k], g)
  BY DEF Moves
<1>2. Len(c) = Len(a) /\ Len(d) = Len(b) /\ Len(a) \in Nat /\ Len(b) \in Nat
  BY <1>1
<1>3. DOMAIN (a \o b) = 1..(Len(a) + Len(b)) /\ DOMAIN (c \o d) = 1..(Len(a) + Len(b))
  <2>1. DOMAIN (a \o b) = 1..(Len(a) + Len(b))
    OBVIOUS
  <2>2. DOMAIN (c \o d) = 1..(Len(c) + Len(d))
    OBVIOUS
  <2> QED  BY <1>2, <2>1, <2>2
<1>4. ASSUME NEW k \in 1..(Len(a) + Len(b))  PROVE (c \o d)[k] = Moved((a \o b)[k], g)
  <2>1. CASE k <= Len(a)
    <3>1. (a \o b)[k] = a[k] /\ (c \o d)[k] = c[k] /\ k \in DOMAIN a
      BY <1>2, <2>1
    <3> QED  BY <1>1, <3>1
  <2>2. CASE k > Len(a)
    <3>1. (a \o b)[k] = b[k - Len(a)] /\ (c \o d)[k] = d[k - Len(a)] /\ k - Len(a) \in DOMAIN b
      BY <1>2, <2>2
    <3> QED  BY <1>1, <3>1
  <2> QED  BY <1>2, <2>1, <2>2
<1> QED
  BY <1>2, <1>3, <1>4 DEF Moves

\* and of clusters,
LEMMA ConcatMovesSets ==
  ASSUME NEW g, NEW S, NEW T, NEW a \in Seq(S), NEW b \in Seq(S), NEW c \in Seq(T), NEW d \in Seq(T),
         MovesSets(a, c, g), MovesSets(b, d, g)
  PROVE  MovesSets(a \o b, c \o d, g)
<1>1. /\ DOMAIN c = DOMAIN a /\ \A k \in DOMAIN a : c[k] = MovedSet(a[k], g)
      /\ DOMAIN d = DOMAIN b /\ \A k \in DOMAIN b : d[k] = MovedSet(b[k], g)
  BY DEF MovesSets
<1>2. Len(c) = Len(a) /\ Len(d) = Len(b) /\ Len(a) \in Nat /\ Len(b) \in Nat
  BY <1>1
<1>3. DOMAIN (a \o b) = 1..(Len(a) + Len(b)) /\ DOMAIN (c \o d) = 1..(Len(a) + Len(b))
  <2>1. DOMAIN (a \o b) = 1..(Len(a) + Len(b))
    OBVIOUS
  <2>2. DOMAIN (c \o d) = 1..(Len(c) + Len(d))
    OBVIOUS
  <2> QED  BY <1>2, <2>1, <2>2
<1>4. ASSUME NEW k \in 1..(Len(a) + Len(b))  PROVE (c \o d)[k] = MovedSet((a \o b)[k], g)
  <2>1. CASE k <= Len(a)
    <3>1. (a \o b)[k] = a[k] /\ (c \o d)[k] = c[k] /\ k \in DOMAIN a
      BY <1>2, <2>1
    <3> QED  BY <1>1, <3>1
  <2>2. CASE k > Len(a)
    <3>1. (a \o b)[k] = b[k - Len(a)] /\ (c \o d)[k] = d[k - Len(a)] /\ k - Len(a) \in DOMAIN b
      BY <1>2, <2>2
    <3> QED  BY <1>1, <3>1
  <2> QED  BY <1>2, <2>1, <2>2
<1> QED
  BY <1>3, <1>4 DEF MovesSets

\* and the rows in excess.
LEMMA ExcessMoves ==
  ASSUME NEW g, NEW S, NEW T, NEW a \in Seq(S), NEW c \in Seq(T), Moves(a, c, g), NEW n \in Nat
  PROVE  Moves(Excess(a, n), Excess(c, n), g)
<1>1. DOMAIN c = DOMAIN a /\ (\A k \in DOMAIN a : c[k] = Moved(a[k], g)) /\ Len(c) = Len(a)
  BY DEF Moves
<1>2. Excess(a, n) = SubSeq(a, n + 1, Len(a)) /\ Excess(c, n) = SubSeq(c, n + 1, Len(a))
  BY <1>1 DEF Excess
<1>3. DOMAIN Excess(c, n) = DOMAIN Excess(a, n)
  BY <1>2
<1>4. \A k \in DOMAIN Excess(a, n) : n + k \in DOMAIN a /\ Excess(a, n)[k] = a[n + k]
  BY ExcessAt
<1>5. \A k \in DOMAIN Excess(c, n) : n + k \in DOMAIN c /\ Excess(c, n)[k] = c[n + k]
  BY ExcessAt
<1> QED
  BY <1>1, <1>3, <1>4, <1>5 DEF Moves

\* Pairing does the same to both.
StatesMove(s, t, g) ==
  MovesSets(s.clusters, t.clusters, g) /\ t.paired = s.paired /\ Moves(s.rest, t.rest, g)

\* So a step of pairing keeps states that correspond.
LEMMA PairMoves ==
  ASSUME NEW g \in Files, NEW S \in SUBSET RowSet, NEW p, Lists(p, S), NEW T \in SUBSET RowSet, NEW q, Lists(q, T),
         Moves(p, q, g), NEW s \in PairStates(S), NEW t \in PairStates(T), StatesMove(s, t, g), NEW m
  PROVE  StatesMove(Pair(s, m, p), Pair(t, m, q), g)
<1> DEFINE a == RowsAt(p, SameAt(p, m))
           b == RowsAt(q, SameAt(p, m))
           sites == Ascending(FreeSites(s, m))
           pairs == DOMAIN a \cap DOMAIN sites
           places(k) == {j \in pairs : sites[j] = k}
<1>1. DOMAIN q = DOMAIN p /\ \A k \in DOMAIN p : q[k] = Moved(p[k], g)
  BY DEF Moves
<1>2. \A k \in DOMAIN p : p[k] \in RowSet
  BY ListsAreFinite
<1>3. \A k \in DOMAIN p : (IsCoarse(q[k]) <=> IsCoarse(p[k])) /\ q[k].message = p[k].message
  BY <1>1, <1>2, MovedRow
<1>4. SameAt(q, m) = SameAt(p, m) /\ SameAt(p, m) \in SUBSET DOMAIN p
  BY <1>1, <1>3 DEF SameAt
<1>5. Moves(a, b, g) /\ DOMAIN b = DOMAIN a /\ \A i \in DOMAIN a : b[i] = Moved(a[i], g)
  <2>1. Moves(a, b, g)
    <3> HIDE DEF a, b
    <3> QED  BY <1>4, RowsAtMoves DEF a, b
  <2> QED  BY <2>1 DEF Moves
<1>6. /\ DOMAIN t.clusters = DOMAIN s.clusters
      /\ \A k \in DOMAIN s.clusters : t.clusters[k] = MovedSet(s.clusters[k], g)
      /\ t.paired = s.paired /\ Moves(s.rest, t.rest, g)
  BY DEF StatesMove, MovesSets
<1>7. /\ s.clusters \in Seq(SUBSET S) /\ s.rest \in Seq(S)
      /\ t.clusters \in Seq(SUBSET T) /\ t.rest \in Seq(T)
  BY DEF PairStates
<1>8. FreeSites(t, m) = FreeSites(s, m)
  <2>1. ASSUME NEW k \in DOMAIN s.clusters
        PROVE  (\E r \in t.clusters[k] : r.message = m) <=> (\E r \in s.clusters[k] : r.message = m)
    <3>1. \A r \in s.clusters[k] : r \in RowSet
      BY <1>7
    <3>2. \A r \in s.clusters[k] : Moved(r, g).message = r.message
      BY <3>1, MovedRow
    <3> QED  BY <1>6, <3>2 DEF MovedSet
  <2> QED  BY <1>6, <2>1 DEF FreeSites
<1>9. Pair(s, m, p) = [clusters |-> [k \in DOMAIN s.clusters |-> s.clusters[k] \cup {a[i] : i \in places(k)}],
                       paired |-> s.paired \cup {sites[i] : i \in pairs}, rest |-> s.rest \o Excess(a, Len(sites))]
  BY DEF Pair, SameAt, FreeSites
<1>10. Pair(t, m, q) = [clusters |-> [k \in DOMAIN s.clusters |-> t.clusters[k] \cup {b[i] : i \in places(k)}],
                        paired |-> s.paired \cup {sites[i] : i \in pairs}, rest |-> t.rest \o Excess(b, Len(sites))]
  <2>1. a = RowsAt(p, SameAt(p, m)) /\ b = RowsAt(q, SameAt(q, m)) /\ sites = Ascending(FreeSites(t, m))
        /\ DOMAIN b = DOMAIN a
    BY <1>4, <1>5, <1>8
  <2> HIDE DEF a, b, sites
  <2> QED  BY <1>6, <2>1 DEF Pair, SameAt, FreeSites
<1>11. Lists(a, SameRows(S, m)) /\ Lists(b, SameRows(T, m)) /\ Len(sites) \in Nat
  <2>1. Lists(a, SameRows(S, m)) /\ sites \in Seq(DOMAIN s.clusters)
    BY SameAndSites
  <2>2. Lists(RowsAt(q, SameAt(q, m)), SameRows(T, m))
    BY SameAndSites
  <2> HIDE DEF a, sites
  <2> QED  BY <1>4, <2>1, <2>2
<1> HIDE DEF a, b, sites
<1>12. a \in Seq(S) /\ b \in Seq(T)
  <2>1. /\ a \in Seq(SameRows(S, m)) /\ SameRows(S, m) \subseteq S
        /\ b \in Seq(SameRows(T, m)) /\ SameRows(T, m) \subseteq T
    BY <1>11 DEF Lists, SameRows
  <2> QED  BY <2>1
<1>13. Moves(s.rest \o Excess(a, Len(sites)), t.rest \o Excess(b, Len(sites)), g)
  <2>1. Moves(Excess(a, Len(sites)), Excess(b, Len(sites)), g)
    BY <1>5, <1>11, <1>12, ExcessMoves
  <2>2. Excess(a, Len(sites)) \in Seq(S) /\ Excess(b, Len(sites)) \in Seq(T)
    BY <1>11, <1>12, ExcessAt
  <2> QED  BY <1>6, <1>7, <2>1, <2>2, ConcatMoves
<1>14. ASSUME NEW k \in DOMAIN s.clusters
       PROVE  t.clusters[k] \cup {b[i] : i \in places(k)} = MovedSet(s.clusters[k] \cup {a[i] : i \in places(k)}, g)
  <2>1. places(k) \subseteq DOMAIN a
    OBVIOUS
  <2> HIDE DEF places
  <2>2. {b[i] : i \in places(k)} = MovedSet({a[i] : i \in places(k)}, g)
    BY <1>5, <2>1 DEF MovedSet
  <2>3. \A X, Y : MovedSet(X \cup Y, g) = MovedSet(X, g) \cup MovedSet(Y, g)
    BY DEF MovedSet
  <2> DEFINE A == {a[i] : i \in places(k)}
             B == {b[i] : i \in places(k)}
  <2>4. B = MovedSet(A, g) /\ t.clusters[k] = MovedSet(s.clusters[k], g)
    BY <1>6, <2>2
  <2> HIDE DEF A, B
  <2>5. t.clusters[k] \cup B = MovedSet(s.clusters[k] \cup A, g)
    BY <2>3, <2>4
  <2> QED  BY <2>5 DEF A, B
<1> HIDE DEF places, pairs
<1> DEFINE u == Pair(s, m, p)
           v == Pair(t, m, q)
<1>15. /\ DOMAIN v.clusters = DOMAIN u.clusters
       /\ \A k \in DOMAIN u.clusters : v.clusters[k] = MovedSet(u.clusters[k], g)
  <2> DEFINE x(k) == s.clusters[k] \cup {a[i] : i \in places(k)}
             y(k) == t.clusters[k] \cup {b[i] : i \in places(k)}
  <2>1. u.clusters = [k \in DOMAIN s.clusters |-> x(k)] /\ v.clusters = [k \in DOMAIN s.clusters |-> y(k)]
    BY <1>9, <1>10
  <2>2. \A k \in DOMAIN s.clusters : y(k) = MovedSet(x(k), g)
    BY <1>14
  <2> HIDE DEF x, y, u, v
  <2> QED  BY <2>1, <2>2
<1>16. v.paired = u.paired /\ Moves(u.rest, v.rest, g)
  BY <1>9, <1>10, <1>13
<1> HIDE DEF u, v
<1>17. StatesMove(u, v, g)
  BY <1>15, <1>16 DEF StatesMove, MovesSets
<1> QED
  BY <1>17 DEF u, v

\* In the end the states correspond.
LEMMA PairedMoves ==
  ASSUME NEW g \in Files, NEW S \in SUBSET RowSet, NEW p, Lists(p, S), NEW T \in SUBSET RowSet, NEW q, Lists(q, T),
         Moves(p, q, g)
  PROVE  StatesMove(Paired(p), Paired(q), g)
<1> DEFINE M == Cardinality(Messages)
<1>1. PICK after : /\ PairsUp(after, q)
                   /\ \A m \in 0..M : after[m] \in PairStates(T) /\ PairInv(after[m], T, PreciseColumns(T), m)
  BY PairedSteps
<1>2. M \in Nat
  BY RowsAssumption, FS_CardinalityType
<1>3. /\ after[0] = Unpaired(q) /\ Paired(q) = after[M] /\ \A m \in 1..M : after[m] = Pair(after[m - 1], m, q)
  BY <1>1 DEF PairsUp
<1> DEFINE I == {x \in PairStates(S) \X Nat : StatesMove(x[1], after[x[2]], g)}
<1>4. <<Unpaired(p), 0>> \in I
  <2>1. MovesSets(PreciseClusters(p), PreciseClusters(q), g)
    BY UnpairedMoves
  <2>2. StatesMove(Unpaired(p), Unpaired(q), g)
    BY <2>1 DEF StatesMove, Unpaired, Moves, Nothing
  <2> QED  BY <1>3, <2>2, UnpairedInv
<1>5. ASSUME NEW s \in PairStates(S), NEW m \in 1..M, <<s, m - 1>> \in I
      PROVE  <<Pair(s, m, p), m>> \in I
  <2>1. m \in Nat \ {0} /\ m - 1 \in 0..M
    BY <1>2
  <2>2. Pair(s, m, p) \in PairStates(S) /\ StatesMove(s, after[m - 1], g) /\ after[m - 1] \in PairStates(T)
    BY <1>1, <1>5, <2>1, PairStep
  <2>3. StatesMove(Pair(s, m, p), Pair(after[m - 1], m, q), g)
    BY <2>2, PairMoves
  <2> QED  BY <1>3, <2>1, <2>2, <2>3
<1>6. <<Paired(p), M>> \in I
  <2> HIDE DEF I
  <2> QED  BY <1>4, <1>5, PairInduction
<1> QED
  BY <1>3, <1>6

\* Rows of one file at most, which have an origin.
Local(S, t) == \A r \in S : r.tus = t

\* Rows with one origin have one origin.
LEMMA MovedOrigin ==
  ASSUME NEW g \in Files, NEW t, Cardinality(t) <= 1, NEW S \in SUBSET RowSet, Local(S, t)
  PROVE  /\ \A r \in S : HasOrigin(r) /\ HasOrigin(Moved(r, g))
         /\ \A r, u \in S : Origin(Moved(r, g)) = Origin(Moved(u, g)) <=> Origin(r) = Origin(u)
<1>1. Cardinality(Tus(g)) <= 1
  <2>1. Cardinality({}) = 0 /\ Cardinality({g}) = 1
    BY FS_EmptySet, FS_Singleton
  <2> QED  BY <2>1 DEF Tus
<1>2. \A r \in S : r.tus = t /\ Moved(r, g).tus = Tus(g) /\ Moved(r, g).token = r.token
  BY MovedRow DEF Local
<1>3. \A r \in S : HasOrigin(r) /\ HasOrigin(Moved(r, g))
  BY <1>1, <1>2 DEF HasOrigin
<1>4. ASSUME NEW r \in S, NEW u \in S
      PROVE  Origin(Moved(r, g)) = Origin(Moved(u, g)) <=> Origin(r) = Origin(u)
  <2> DEFINE a == Moved(r, g)
             b == Moved(u, g)
  <2>1. r.tus = t /\ u.tus = t /\ a.tus = Tus(g) /\ b.tus = Tus(g) /\ a.token = r.token /\ b.token = u.token
    BY <1>2
  <2> HIDE DEF a, b
  <2>2. /\ Cardinality(r.token) = 1 => Origin(r) = <<"profile", r.token>> /\ Origin(a) = <<"profile", r.token>>
        /\ Cardinality(r.token) # 1 => Origin(r) = <<"file", t>> /\ Origin(a) = <<"file", Tus(g)>>
        /\ Cardinality(u.token) = 1 => Origin(u) = <<"profile", u.token>> /\ Origin(b) = <<"profile", u.token>>
        /\ Cardinality(u.token) # 1 => Origin(u) = <<"file", t>> /\ Origin(b) = <<"file", Tus(g)>>
    BY <2>1 DEF Origin
  <2>3. Origin(a) = Origin(b) <=> Origin(r) = Origin(u)
    BY <2>2
  <2> QED  BY <2>3 DEF a, b
<1> QED
  BY <1>3, <1>4

\* So the left-over rows are aligned in the same way.
LEMMA AlignedMoves ==
  ASSUME NEW g \in Files, NEW t, Cardinality(t) <= 1, NEW S \in SUBSET RowSet, Local(S, t), NEW p, Lists(p, S),
         NEW q, NEW T, Lists(q, T), Moves(p, q, g)
  PROVE  MovesSets(Aligned(p), Aligned(q), g)
<1>1. T = MovedSet(S, g) /\ S = ToSet(p) /\ T = ToSet(q) /\ \A i \in DOMAIN p : p[i] \in S
  BY MovedLists, ListsAreFinite
<1>2. /\ \A r \in S : HasOrigin(r) /\ HasOrigin(Moved(r, g))
      /\ \A r, u \in S : Origin(Moved(r, g)) = Origin(Moved(u, g)) <=> Origin(r) = Origin(u)
  BY MovedOrigin
<1>3. \A u \in T : HasOrigin(u)
  BY <1>1, <1>2 DEF MovedSet
<1>4. DOMAIN q = DOMAIN p /\ \A k \in DOMAIN p : q[k] = Moved(p[k], g)
  BY DEF Moves
<1>5. ASSUME NEW r \in S
      PROVE  /\ Moves(OfOrigin(p, Origin(r)), OfOrigin(q, Origin(Moved(r, g))), g)
             /\ Len(OfOrigin(q, Origin(Moved(r, g)))) = Len(OfOrigin(p, Origin(r)))
  <2> DEFINE o == Origin(r)
             n == Origin(Moved(r, g))
             at == {i \in DOMAIN p : Origin(p[i]) = o}
  <2>1. {i \in DOMAIN q : Origin(q[i]) = n} = at
    BY <1>1, <1>2, <1>4
  <2>2. OfOrigin(p, o) = RowsAt(p, at) /\ OfOrigin(q, n) = RowsAt(q, at)
    BY <2>1 DEF OfOrigin
  <2>3. at \in SUBSET DOMAIN p
    OBVIOUS
  <2> HIDE DEF at
  <2>4. Moves(OfOrigin(p, o), OfOrigin(q, n), g)
    BY <2>2, <2>3, RowsAtMoves
  <2> DEFINE A == {u \in S : Origin(u) = o}
             B == {u \in T : Origin(u) = n}
  <2> HIDE DEF o, n
  <2>5. Lists(OfOrigin(p, o), A) /\ Lists(OfOrigin(q, n), B)
    BY OfOriginLists
  <2> DEFINE x == OfOrigin(p, o)
             y == OfOrigin(q, n)
  <2> HIDE DEF A, B, x, y
  <2>6. Moves(x, y, g) /\ Lists(x, A) /\ Lists(y, B)
    BY <2>4, <2>5 DEF x, y
  <2>7. Len(y) = Len(x)
    <3>1. x \in Seq(A) /\ y \in Seq(B)
      BY <2>6 DEF Lists
    <3>2. DOMAIN y = DOMAIN x
      BY <2>6 DEF Moves
    <3> QED  BY <3>1, <3>2
  <2> QED  BY <2>4, <2>7 DEF o, n, x, y
<1> DEFINE O(x) == Origin(Moved(x, g))
           here(n) == {r \in S : n <= Len(OfOrigin(p, Origin(r)))}
<1>6. \A n : Reaching(p, n) = {Origin(r) : r \in here(n)}
  BY <1>1 DEF Reaching, OriginsOf
<1>7. \A n : Reaching(q, n) = {O(r) : r \in here(n)}
  <2>1. OriginsOf(q) = {O(r) : r \in S}
    BY <1>1 DEF OriginsOf, MovedSet
  <2>2. \A r \in S : Len(OfOrigin(q, O(r))) = Len(OfOrigin(p, Origin(r)))
    BY <1>5
  <2> HIDE DEF O
  <2> QED  BY <2>1, <2>2 DEF Reaching
<1>8. /\ Len(Aligned(p)) \in Nat /\ DOMAIN Aligned(p) = 1..Len(Aligned(p))
      /\ \A n \in DOMAIN Aligned(p) :
           Reaching(p, n) # {} /\ Aligned(p)[n] = {OfOrigin(p, o)[n] : o \in Reaching(p, n)}
      /\ \A n \in Nat \ {0} : Reaching(p, n) # {} => n \in DOMAIN Aligned(p)
  BY <1>2, AlignedByOrigin
<1>9. /\ Len(Aligned(q)) \in Nat /\ DOMAIN Aligned(q) = 1..Len(Aligned(q))
      /\ \A n \in DOMAIN Aligned(q) :
           Reaching(q, n) # {} /\ Aligned(q)[n] = {OfOrigin(q, o)[n] : o \in Reaching(q, n)}
      /\ \A n \in Nat \ {0} : Reaching(q, n) # {} => n \in DOMAIN Aligned(q)
  BY <1>3, AlignedByOrigin
<1>10. DOMAIN Aligned(q) = DOMAIN Aligned(p)
  <2>1. \A n : Reaching(p, n) # {} <=> Reaching(q, n) # {}
    <3> HIDE DEF here, O
    <3>1. ASSUME NEW n  PROVE Reaching(p, n) # {} <=> Reaching(q, n) # {}
      <4>1. Reaching(p, n) = {Origin(r) : r \in here(n)} /\ Reaching(q, n) = {O(r) : r \in here(n)}
        BY <1>6, <1>7
      <4> DEFINE h == here(n)
      <4> HIDE DEF h
      <4>2. Reaching(p, n) = {Origin(r) : r \in h} /\ Reaching(q, n) = {O(r) : r \in h}
        BY <4>1 DEF h
      <4> QED  BY <4>2
    <3> QED  BY <3>1
  <2>2. \A n \in DOMAIN Aligned(p) : n \in Nat \ {0} /\ n \in DOMAIN Aligned(q)
    BY <1>8, <1>9, <2>1
  <2>3. \A n \in DOMAIN Aligned(q) : n \in Nat \ {0} /\ n \in DOMAIN Aligned(p)
    BY <1>8, <1>9, <2>1
  <2> QED  BY <2>2, <2>3
<1>11. ASSUME NEW n \in DOMAIN Aligned(p)  PROVE Aligned(q)[n] = MovedSet(Aligned(p)[n], g)
  <2>1. n \in Nat \ {0}
    BY <1>8
  <2>2. ASSUME NEW r \in here(n)  PROVE OfOrigin(q, O(r))[n] = Moved(OfOrigin(p, Origin(r))[n], g)
    <3>1. r \in S /\ n <= Len(OfOrigin(p, Origin(r)))
      OBVIOUS
    <3>2. Moves(OfOrigin(p, Origin(r)), OfOrigin(q, O(r)), g)
      BY <1>5, <3>1
    <3>3. DOMAIN OfOrigin(p, Origin(r)) = 1..Len(OfOrigin(p, Origin(r))) /\ Len(OfOrigin(p, Origin(r))) \in Nat
      BY OfOriginLists
    <3> HIDE DEF O
    <3>4. n \in DOMAIN OfOrigin(p, Origin(r))
      BY <2>1, <3>1, <3>3
    <3> QED  BY <3>2, <3>4 DEF Moves
  <2>3. Aligned(p)[n] = {OfOrigin(p, Origin(r))[n] : r \in here(n)}
    <3>1. Aligned(p)[n] = {OfOrigin(p, o)[n] : o \in Reaching(p, n)} /\ Reaching(p, n) = {Origin(r) : r \in here(n)}
      BY <1>6, <1>8
    <3> HIDE DEF here
    <3> QED  BY <3>1
  <2>4. Aligned(q)[n] = {OfOrigin(q, O(r))[n] : r \in here(n)}
    <3>1. Aligned(q)[n] = {OfOrigin(q, o)[n] : o \in Reaching(q, n)} /\ Reaching(q, n) = {O(r) : r \in here(n)}
      BY <1>7, <1>9, <1>10
    <3> HIDE DEF here, O
    <3> QED  BY <3>1
  <2> HIDE DEF here, O
  <2> QED  BY <2>2, <2>3, <2>4 DEF MovedSet
<1> QED
  BY <1>10, <1>11 DEF MovesSets

\* Merging commutes with it.
LEMMA MergedMoves ==
  ASSUME NEW g \in Files, NEW C \in SUBSET RowSet, IsFiniteSet(C), C # {}
  PROVE  Merged(MovedSet(C, g)) = Moved(Merged(C), g)
<1> DEFINE D == MovedSet(C, g)
           a == Moved(Merged(C), g)
           b == Merged(D)
<1>1. \A r \in C : /\ Moved(r, g) \in RowSet /\ Moved(r, g).column = r.column /\ Moved(r, g).message = r.message
                   /\ Moved(r, g).token = r.token /\ Moved(r, g).under = r.under
                   /\ Moved(r, g).tus = Tus(g) /\ Moved(r, g).of = {<<g, x[2], x[3]>> : x \in r.of}
  BY MovedRow
<1>2. D \in SUBSET RowSet /\ D # {} /\ IsFiniteSet(D)
  <2>1. D \in SUBSET RowSet /\ D # {}
    BY <1>1 DEF MovedSet
  <2> DEFINE h == [r \in C |-> Moved(r, g)]
  <2>2. h \in Surjection(C, D)
    BY DEF Surjection, MovedSet
  <2> HIDE DEF h, D
  <2> QED  BY <2>1, <2>2, FS_Surjection
<1>3. \A r, s \in C : Before(Moved(r, g), Moved(s, g)) <=> Before(r, s)
  BY MovedBefore
<1>4. /\ Merged(C) \in RowSet /\ Merged(C).of = Covered(C)
      /\ Merged(C).token = UNION {r.token : r \in C}
      /\ Merged(C).under = MergedUnder(UNION {r.under : r \in C})
  BY MergedRow
<1>5. PICK c \in C : /\ \A s \in C : ~Before(s, c)
                     /\ Merged(C).column = c.column /\ Merged(C).message = c.message
  BY MergedRow
<1>6. /\ b \in RowSet /\ b.of = Covered(D) /\ b.tus = UNION {r.tus : r \in D}
      /\ b.token = UNION {r.token : r \in D}
      /\ b.under = MergedUnder(UNION {r.under : r \in D})
  <2> HIDE DEF D
  <2> QED  BY <1>2, MergedRow
<1>7. PICK d \in D : (\A s \in D : ~Before(s, d)) /\ b.column = d.column /\ b.message = d.message
  <2> HIDE DEF D
  <2> QED  BY <1>2, MergedRow
<1>8. PICK e \in C : d = Moved(e, g)
  BY DEF MovedSet
<1>9. c.column = e.column /\ c.message = e.message
  <2>1. ~Before(c, e)
    BY <1>3, <1>7, <1>8 DEF MovedSet
  <2>2. ~Before(e, c)
    BY <1>5
  <2>3. /\ c.column \in Nat /\ e.column \in Nat /\ c.message \in Nat /\ e.message \in Nat
    BY RowsAreNumbered
  <2> QED  BY <2>1, <2>2, <2>3 DEF Before, IsCoarse
<1>10. b.column = Merged(C).column /\ b.message = Merged(C).message
  BY <1>1, <1>5, <1>7, <1>8, <1>9
<1>11. b.token = Merged(C).token /\ b.under = Merged(C).under
  <2>1. UNION {r.token : r \in D} = UNION {r.token : r \in C}
    BY <1>1 DEF MovedSet
  <2>2. UNION {r.under : r \in D} = UNION {r.under : r \in C}
    BY <1>1 DEF MovedSet
  <2> QED  BY <1>4, <1>6, <2>1, <2>2
<1>12. b.tus = Tus(g)
  <2>1. \A r \in D : r.tus = Tus(g)
    BY <1>1 DEF MovedSet
  <2> HIDE DEF D
  <2> QED  BY <1>2, <1>6, <2>1
<1>13. b.of = {<<g, x[2], x[3]>> : x \in Merged(C).of}
  <2>1. Covered(D) = UNION {Moved(r, g).of : r \in C}
    BY DEF Covered, MovedSet
  <2>2. Covered(D) = UNION {{<<g, x[2], x[3]>> : x \in r.of} : r \in C}
    BY <1>1, <2>1
  <2>3. {<<g, x[2], x[3]>> : x \in Covered(C)} = UNION {{<<g, x[2], x[3]>> : x \in r.of} : r \in C}
    BY DEF Covered
  <2> HIDE DEF D
  <2> QED  BY <1>4, <1>6, <2>2, <2>3
<1>14. /\ a \in RowSet /\ a.column = Merged(C).column /\ a.message = Merged(C).message
       /\ a.token = Merged(C).token /\ a.under = Merged(C).under
       /\ a.tus = Tus(g) /\ a.of = {<<g, x[2], x[3]>> : x \in Merged(C).of}
  BY <1>4, MovedRow
<1> HIDE DEF a, b
<1>15. a = b
  <2>1. /\ a.column = b.column /\ a.message = b.message /\ a.token = b.token /\ a.under = b.under
        /\ a.tus = b.tus /\ a.of = b.of /\ a \in RowSet /\ b \in RowSet
    BY <1>6, <1>10, <1>11, <1>12, <1>13, <1>14
  <2> QED  BY <2>1 DEF RowSet
<1> QED
  BY <1>15 DEF a, b, D

\* So the rows of finalised lists correspond.
LEMMA MergedList ==
  ASSUME NEW S, Good(S), NEW rows, Lists(rows, S)
  PROVE  Lists([k \in DOMAIN ClustersOf(rows) |-> Merged(ClustersOf(rows)[k])], MergedRows(rows))
<1> DEFINE cl == ClustersOf(rows)
           merged == [k \in DOMAIN cl |-> Merged(cl[k])]
<1>1. /\ Clusters(cl, S) /\ \A j, k \in DOMAIN cl : Merged(cl[j]) = Merged(cl[k]) => j = k
  BY FinalisedRows
<1>2. cl \in Seq(SUBSET S)
  BY <1>1 DEF Clusters
<1>3. MergedRows(rows) = {Merged(cl[k]) : k \in DOMAIN cl}
  BY DEF MergedRows
<1> HIDE DEF cl
<1>4. DOMAIN cl = 1..Len(cl) /\ Len(cl) \in Nat
  BY <1>2
<1>5. merged \in Seq(MergedRows(rows))
  <2>1. merged \in [1..Len(cl) -> MergedRows(rows)]
    BY <1>3, <1>4
  <2> HIDE DEF merged
  <2> QED  BY <1>4, <2>1
<1>6. \A x \in MergedRows(rows) : \E k \in DOMAIN merged : merged[k] = x
  BY <1>3
<1>7. \A j, k \in DOMAIN merged : merged[j] = merged[k] => j = k
  BY <1>1
<1>8. Lists(merged, MergedRows(rows))
  <2> HIDE DEF merged
  <2> QED  BY <1>5, <1>6, <1>7 DEF Lists
<1> QED
  BY <1>8 DEF cl

\* Finalising either list gives rows that correspond.
LEMMA FinalisedMoves ==
  ASSUME NEW g \in Files, NEW t, Cardinality(t) <= 1,
         NEW S, Good(S), Local(S, t), NEW p, Lists(p, S), NEW T, Good(T), NEW q, Lists(q, T), Moves(p, q, g)
  PROVE  Moves(Finalised(p), Finalised(q), g)
<1>1. S \in SUBSET RowSet /\ T \in SUBSET RowSet /\ IsFiniteSet(S)
  BY ListsAreFinite DEF Good
<1>2. Moves(Sorted(p), Sorted(q), g) /\ Lists(Sorted(p), S) /\ Lists(Sorted(q), T)
  BY <1>1, SortedMoves, SortedLists
<1>3. StatesMove(Paired(Sorted(p)), Paired(Sorted(q)), g)
  <2> DEFINE a == Sorted(p)
             b == Sorted(q)
  <2>1. Moves(a, b, g) /\ Lists(a, S) /\ Lists(b, T)
    BY <1>2
  <2> HIDE DEF a, b
  <2>2. StatesMove(Paired(a), Paired(b), g)
    BY <1>1, <2>1, PairedMoves
  <2> QED  BY <2>2 DEF a, b
<1> DEFINE r == RestOf(p)
           u == RestOf(q)
           c == SitesOf(p)
           d == SitesOf(q)
<1>4. Moves(r, u, g) /\ MovesSets(c, d, g)
  BY <1>3 DEF StatesMove, RestOf, SitesOf
<1>5. /\ r \in Seq(S) /\ Lists(r, ToSet(r)) /\ \A x \in ToSet(r) : x \in S
      /\ u \in Seq(T) /\ Lists(u, ToSet(u)) /\ \A x \in ToSet(u) : x \in T
  <2>1. r \in Seq(S) /\ Lists(r, ToSet(r)) /\ \A x \in ToSet(r) : x \in Coarse(S)
    BY <1>1, ClusterRows
  <2>2. u \in Seq(T) /\ Lists(u, ToSet(u)) /\ \A x \in ToSet(u) : x \in Coarse(T)
    BY <1>1, ClusterRows
  <2> QED  BY <2>1, <2>2 DEF Coarse
<1>6. c \in Seq(SUBSET S) /\ d \in Seq(SUBSET T)
  <2>1. Paired(Sorted(p)) \in PairStates(S) /\ Paired(Sorted(q)) \in PairStates(T)
    BY <1>1, <1>2, PairedInv
  <2> QED  BY <2>1 DEF PairStates, SitesOf
<1>7. ClustersOf(p) = c \o Aligned(r) /\ ClustersOf(q) = d \o Aligned(u)
  BY DEF ClustersOf, SitesOf, RestOf
<1> HIDE DEF r, u, c, d
<1>8. MovesSets(Aligned(r), Aligned(u), g)
  <2>1. ToSet(r) \in SUBSET RowSet /\ Local(ToSet(r), t)
    BY <1>1, <1>5 DEF Local
  <2> QED  BY <1>4, <1>5, <2>1, AlignedMoves
<1>9. Aligned(r) \in Seq(SUBSET S) /\ Aligned(u) \in Seq(SUBSET T)
  <2>1. Clusters(Aligned(r), ToSet(r)) /\ Clusters(Aligned(u), ToSet(u))
    BY <1>5, AlignedClusters
  <2>2. Aligned(r) \in Seq(SUBSET ToSet(r)) /\ Aligned(u) \in Seq(SUBSET ToSet(u))
    BY <2>1 DEF Clusters
  <2>3. SUBSET ToSet(r) \subseteq SUBSET S /\ SUBSET ToSet(u) \subseteq SUBSET T
    BY <1>5
  <2> QED  BY <2>2, <2>3
<1>10. MovesSets(ClustersOf(p), ClustersOf(q), g)
  BY <1>4, <1>6, <1>7, <1>8, <1>9, ConcatMovesSets
<1> DEFINE cl == ClustersOf(p)
           dl == ClustersOf(q)
           a == [k \in DOMAIN cl |-> Merged(cl[k])]
           b == [k \in DOMAIN dl |-> Merged(dl[k])]
<1>11. Lists(a, MergedRows(p)) /\ Lists(b, MergedRows(q))
  BY MergedList
<1>12. Good(MergedRows(p)) /\ Good(MergedRows(q)) /\ Clusters(cl, S)
  BY FinalisedRows
<1>13. Finalised(p) = Sorted(a) /\ Finalised(q) = Sorted(b)
  BY DEF Finalised, ClustersOf
<1> HIDE DEF cl, dl
<1>14. Moves(a, b, g)
  <2>1. DOMAIN dl = DOMAIN cl /\ \A k \in DOMAIN cl : dl[k] = MovedSet(cl[k], g)
    BY <1>10 DEF MovesSets, cl, dl
  <2>2. ASSUME NEW k \in DOMAIN cl  PROVE Merged(MovedSet(cl[k], g)) = Moved(Merged(cl[k]), g)
    <3>1. cl[k] \in SUBSET S /\ cl[k] # {}
      BY <1>12 DEF Clusters
    <3>2. IsFiniteSet(cl[k]) /\ cl[k] \in SUBSET RowSet
      BY <1>1, <3>1, FS_Subset
    <3> QED  BY <3>1, <3>2, MergedMoves
  <2> QED  BY <2>1, <2>2 DEF Moves
<1> HIDE DEF a, b
<1>15. Moves(Sorted(a), Sorted(b), g)
  BY <1>11, <1>12, <1>14, SortedMoves DEF Good
<1> QED
  BY <1>13, <1>15

\* Labelling commutes with it.
LEMMA LabelledMoves ==
  ASSUME InputOK, NEW g \in Files, NEW r \in RowSet
  PROVE  Labelled(Moved(r, g)) = Moved(Labelled(r), g)
<1> DEFINE a == Labelled(Moved(r, g))
           b == Moved(Labelled(r), g)
           label(u) == IF u.token = profiles THEN {Unconditional} ELSE u.token
<1>1. \A u \in RowSet : /\ Labelled(u) \in RowSet /\ Labelled(u).column = u.column /\ Labelled(u).message = u.message
                        /\ Labelled(u).tus = u.tus /\ Labelled(u).of = u.of
                        /\ Labelled(u).token = {} /\ Labelled(u).under = label(u)
  <2> TAKE u \in RowSet
  <2>1. label(u) \in SUBSET (Profiles \cup {0})
    BY DEF RowSet, Unconditional
  <2>2. Labelled(u) = [u EXCEPT !.token = {}, !.under = label(u)]
    BY DEF Labelled
  <2> HIDE DEF label
  <2> QED  BY <2>1, <2>2 DEF RowSet
<1> HIDE DEF label
<1>2. /\ Moved(r, g) \in RowSet
      /\ Moved(r, g).column = r.column /\ Moved(r, g).message = r.message
      /\ Moved(r, g).token = r.token /\ Moved(r, g).under = r.under
      /\ Moved(r, g).tus = Tus(g) /\ Moved(r, g).of = {<<g, x[2], x[3]>> : x \in r.of}
  BY MovedRow
<1>3. label(Moved(r, g)) = label(r)
  BY <1>2 DEF label
<1>4. /\ a \in RowSet /\ a.column = r.column /\ a.message = r.message /\ a.tus = Tus(g)
      /\ a.of = {<<g, x[2], x[3]>> : x \in r.of} /\ a.token = {} /\ a.under = label(r)
  BY <1>1, <1>2, <1>3
<1>5. /\ b \in RowSet /\ b.column = r.column /\ b.message = r.message /\ b.tus = Tus(g)
      /\ b.of = {<<g, x[2], x[3]>> : x \in Labelled(r).of} /\ b.token = {} /\ b.under = label(r)
  BY <1>1, MovedRow
<1>6. b.of = {<<g, x[2], x[3]>> : x \in r.of}
  BY <1>1, <1>5
<1> HIDE DEF a, b
<1>7. a = b
  <2>1. /\ a.column = b.column /\ a.message = b.message /\ a.token = b.token /\ a.under = b.under
        /\ a.tus = b.tus /\ a.of = b.of /\ a \in RowSet /\ b \in RowSet
    BY <1>4, <1>5, <1>6
  <2> QED  BY <2>1 DEF RowSet
<1> QED
  BY <1>7 DEF a, b

\* The candidates of a file are those of one that has the same findings.
LEMMA RowsMove ==
  ASSUME NEW f, NEW g \in Files, raw[f] = raw[g]
  PROVE  Moves(Rows(f), Rows(g), g)
<1> DEFINE places == UNION {{p} \X DOMAIN raw[f][p] : p \in Runs}
           first(x, y) == x[1] < y[1] \/ (x[1] = y[1] /\ x[2] < y[2])
           order == InOrder(places, [y \in places |-> {x \in places : first(x, y)}])
<1>1. Rows(f) = [k \in DOMAIN order |-> Row(f, order[k][1], order[k][2])]
  BY DEF Rows, RowsUnder
<1>2. Rows(g) = [k \in DOMAIN order |-> Row(g, order[k][1], order[k][2])]
  <2>1. \A p : raw[g][p] = raw[f][p]
    OBVIOUS
  <2> QED  BY <2>1 DEF Rows, RowsUnder
<1>3. ASSUME NEW p, NEW i  PROVE Row(g, p, i) = Moved(Row(f, p, i), g)
  <2> DEFINE r == Row(f, p, i)
  <2>1. {<<g, x[2], x[3]>> : x \in {<<f, p, i>>}} = {<<g, p, i>>}
    <3>1. <<f, p, i>>[2] = p /\ <<f, p, i>>[3] = i
      OBVIOUS
    <3> QED  BY <3>1
  <2>2. r.of = {<<f, p, i>>}
    BY DEF Row
  <2>3. {<<g, x[2], x[3]>> : x \in r.of} = {<<g, p, i>>}
    BY <2>1, <2>2
  <2>4. Moved(r, g) = [r EXCEPT !.tus = Tus(g), !.of = {<<g, p, i>>}]
    BY <2>3 DEF Moved
  <2>5. raw[g][p][i] = raw[f][p][i]
    OBVIOUS
  <2> HIDE DEF r
  <2>6. Row(g, p, i) = [column |-> raw[f][p][i].column, message |-> raw[f][p][i].message,
                        tus |-> Tus(g), token |-> profiles \cap {p}, under |-> {}, of |-> {<<g, p, i>>}]
    BY <2>5 DEF Row
  <2>7. Moved(r, g) = [column |-> raw[f][p][i].column, message |-> raw[f][p][i].message,
                       tus |-> Tus(g), token |-> profiles \cap {p}, under |-> {}, of |-> {<<g, p, i>>}]
    <3>1. r = [column |-> raw[f][p][i].column, message |-> raw[f][p][i].message,
               tus |-> Tus(f), token |-> profiles \cap {p}, under |-> {}, of |-> {<<f, p, i>>}]
      BY DEF r, Row
    <3> QED  BY <2>4, <3>1
  <2> QED  BY <2>6, <2>7 DEF r
<1> HIDE DEF order
<1> QED
  BY <1>1, <1>2, <1>3 DEF Moves

\* A candidate is related to one file at most.
LEMMA TusIsSmall == \A f : IsFiniteSet(Tus(f)) /\ Cardinality(Tus(f)) <= 1
<1> TAKE f
<1>1. IsFiniteSet({}) /\ IsFiniteSet({f}) /\ Cardinality({}) = 0 /\ Cardinality({f}) = 1
  BY FS_EmptySet, FS_Singleton
<1> QED
  BY <1>1 DEF Tus

\* And so are its rows: as many, and as many coarse ones.
LEMMA FileRowsMove ==
  ASSUME InputOK, NEW f \in Files, NEW g \in Files, raw[f] = raw[g]
  PROVE  /\ Len(FileRows(g)) = Len(FileRows(f))
         /\ Cardinality(Coarse(RowsOfFile(g))) <= Cardinality(Coarse(RowsOfFile(f)))
<1> DEFINE S == FoundRows(f, Runs)
           T == FoundRows(g, Runs)
           p == OverProfiles(Rows(f))
           q == OverProfiles(Rows(g))
<1>1. Lists(Rows(f), S) /\ Good(S) /\ Lists(Rows(g), T) /\ Good(T) /\ (\A r \in S : r.tus = Tus(f))
  BY FoundRowsAre, RowsAreListed DEF Rows
<1>2. Local(S, Tus(f)) /\ Cardinality(Tus(f)) <= 1
  BY <1>1, TusIsSmall DEF Local
<1>3. Moves(Rows(f), Rows(g), g)
  BY RowsMove
<1>4. Moves(p, q, g)
  <2>1. CASE profiles = {}
    BY <1>3, <2>1 DEF OverProfiles
  <2>2. CASE profiles # {}
    <3> HIDE DEF S, T
    <3>1. Moves(Finalised(Rows(f)), Finalised(Rows(g)), g) /\ Lists(Finalised(Rows(f)), MergedRows(Rows(f)))
          /\ Good(MergedRows(Rows(f)))
      BY <1>1, <1>2, <1>3, FinalisedMoves, FinalisedRows
    <3> DEFINE a == Finalised(Rows(f))
               b == Finalised(Rows(g))
    <3>2. p = [k \in DOMAIN a |-> Labelled(a[k])] /\ q = [k \in DOMAIN b |-> Labelled(b[k])]
      BY <2>2 DEF OverProfiles
    <3> HIDE DEF a, b, p, q
    <3>3. DOMAIN b = DOMAIN a /\ \A k \in DOMAIN a : b[k] = Moved(a[k], g)
      BY <3>1 DEF Moves, a, b
    <3>4. \A k \in DOMAIN a : a[k] \in RowSet
      BY <3>1, ListsAreFinite DEF Good, a
    <3>5. \A k \in DOMAIN a : Labelled(b[k]) = Moved(Labelled(a[k]), g)
      BY <3>3, <3>4, LabelledMoves
    <3> QED  BY <3>2, <3>3, <3>5 DEF Moves
  <2> QED  BY <2>1, <2>2
<1>5. /\ Lists(p, ProfileRows(f)) /\ Good(ProfileRows(f)) /\ Local(ProfileRows(f), Tus(f))
      /\ Lists(q, ProfileRows(g)) /\ Good(ProfileRows(g))
  BY ProfileRowsAre DEF Local
<1>6. Moves(Finalised(p), Finalised(q), g)
  <2> HIDE DEF p, q
  <2> QED  BY <1>2, <1>4, <1>5, FinalisedMoves
<1>7. Moves(FileRows(f), FileRows(g), g)
  BY <1>6 DEF FileRows
<1>8. Lists(FileRows(f), RowsOfFile(f)) /\ Good(RowsOfFile(f)) /\ Lists(FileRows(g), RowsOfFile(g))
  BY RowsOfFileAre
<1> HIDE DEF p, q, S, T
<1>9. RowsOfFile(g) = MovedSet(RowsOfFile(f), g) /\ Len(FileRows(g)) = Len(FileRows(f))
  BY <1>7, <1>8, MovedLists
<1> DEFINE A == Coarse(RowsOfFile(f))
           B == Coarse(RowsOfFile(g))
           h == [r \in A |-> Moved(r, g)]
<1>10. \A r \in RowsOfFile(f) : IsCoarse(Moved(r, g)) <=> IsCoarse(r)
  BY <1>8, MovedRow DEF Good
<1>11. B = {Moved(r, g) : r \in A}
  BY <1>9, <1>10 DEF Coarse, MovedSet
<1>12. IsFiniteSet(A)
  <2>1. IsFiniteSet(RowsOfFile(f)) /\ A \in SUBSET RowsOfFile(f)
    BY <1>8, ListsAreFinite DEF Coarse
  <2> QED  BY <2>1, FS_Subset
<1>13. h \in Surjection(A, B)
  BY <1>11 DEF Surjection
<1> HIDE DEF A, B, h
<1>14. Cardinality(B) <= Cardinality(A)
  BY <1>12, <1>13, FS_Surjection
<1> QED
  BY <1>9, <1>14 DEF A, B

-----------------------------------------------------------------------------
(* The scan.                                                               *)

Collected == UNION {Findings(f) : f \in arrived \ failed}

\* The rows collected so far stand for the findings of the files that have
\* arrived and did not fail.
CollectedOK ==
  /\ InputOK
  /\ failed \subseteq arrived /\ arrived \subseteq Files
  /\ \E S : Lists(candidates, S) /\ Good(S) /\ Covered(S) = Collected /\ \A r \in S : LabelOK(r)
  /\ finished => arrived = Files /\ report = Report(candidates)

\* Before any result has arrived nothing is collected.
LEMMA CollectedInit == Init => CollectedOK
<1> SUFFICES ASSUME Init  PROVE CollectedOK
  OBVIOUS
<1>1. PICK i \in Inputs : profiles = i.profiles /\ raw = i.raw
  BY DEF Init
<1>2. InputOK
  <2>1. dedup \in BOOLEAN
    BY RowsAssumption DEF Init
  <2> QED
    BY <1>1, <2>1, InputsAssumption DEF InputOK, Runs
<1>3. candidates = << >> /\ Lists(<< >>, {}) /\ Good({}) /\ Covered({}) = {} /\ \A r \in {} : LabelOK(r)
  BY DEF Init, Nothing, Lists, Good, Covered
<1>4. Collected = {}
  BY DEF Init, Collected
<1> QED
  BY <1>2, <1>3, <1>4 DEF Init, CollectedOK

\* The rows of a new file stand for other findings than those collected.
LEMMA CollectKeeps ==
  ASSUME CollectedOK, NEW f \in Files, Collect(f)
  PROVE  CollectedOK'
<1>1. PICK S : Lists(candidates, S) /\ Good(S) /\ Covered(S) = Collected /\ \A r \in S : LabelOK(r)
  BY DEF CollectedOK
<1>2. PICK T : Lists(FileRows(f), T) /\ Good(T) /\ Covered(T) = Findings(f) /\ \A r \in T : LabelOK(r)
  BY FileRowsKeep DEF CollectedOK
<1>3. /\ raw' = raw /\ profiles' = profiles /\ dedup' = dedup /\ failed' = failed
      /\ arrived' = arrived \cup {f} /\ f \notin arrived
      /\ candidates' = candidates \o FileRows(f) /\ finished' = finished
  BY DEF Collect, input
<1>4. \A x \in Collected : x[1] \in arrived
  BY DEF Collected, Findings
<1>5. \A x \in Findings(f) : x[1] = f
  BY DEF Findings
<1>6. ASSUME NEW r \in S, NEW u \in T  PROVE r.of \cap u.of = {} /\ r # u
  <2>1. r.of \subseteq Collected /\ u.of \subseteq Findings(f) /\ r.of # {}
    BY <1>1, <1>2 DEF Covered, Good, Honest
  <2>2. Collected \cap Findings(f) = {}
    BY <1>3, <1>4, <1>5
  <2> QED
    BY <2>1, <2>2
<1>7. Lists(candidates', S \cup T)
  <2>1. S \cap T = {}
    BY <1>6
  <2> QED
    BY <1>1, <1>2, <1>3, <2>1, ConcatLists
<1>8. Good(S \cup T)
  <2>1. S \cup T \in SUBSET RowSet /\ \A r \in S \cup T : Honest(r)
    BY <1>1, <1>2 DEF Good
  <2>2. ASSUME NEW r \in S \cup T, NEW u \in S \cup T, r.of \cap u.of # {}  PROVE r = u
    <3>1. CASE r \in S /\ u \in S
      BY <1>1, <2>2, <3>1 DEF Good
    <3>2. CASE r \in T /\ u \in T
      BY <1>2, <2>2, <3>2 DEF Good
    <3> QED
      BY <1>6, <2>2, <3>1, <3>2
  <2> QED
    BY <2>1, <2>2 DEF Good
<1>9. Good(S \cup T)'
  BY <1>3, <1>8 DEF Good, Honest, Finding
<1>10. InputOK' /\ failed' \subseteq arrived' /\ arrived' \subseteq Files /\ ~finished'
  <2>1. InputOK'
    BY <1>3 DEF CollectedOK, InputOK, Runs
  <2> QED
    BY <1>3, <2>1 DEF CollectedOK
<1>11. Covered(S \cup T) = Collected'
  <2>1. Covered(S \cup T) = Collected \cup Findings(f)
    BY <1>1, <1>2 DEF Covered
  <2>2. arrived' \ failed' = (arrived \ failed) \cup {f}
    BY <1>3 DEF CollectedOK
  <2>3. \A g \in Files : Findings(g)' = Findings(g)
    BY <1>3 DEF Findings, Runs
  <2>4. Collected' = UNION {Findings(g)' : g \in arrived' \ failed'}
    BY DEF Collected
  <2>5. Collected' = UNION {Findings(g) : g \in (arrived \ failed) \cup {f}}
    BY <2>2, <2>3, <2>4 DEF CollectedOK
  <2> QED
    BY <2>1, <2>5 DEF Collected
<1>12. \A r \in S \cup T : LabelOK(r)'
  BY <1>1, <1>2, <1>3 DEF LabelOK, ProfilesOf
<1> QED
  BY <1>7, <1>9, <1>10, <1>11, <1>12 DEF CollectedOK, Covered

\* Every step of the scan keeps the invariant.
LEMMA CollectedNext == CollectedOK /\ [Next]_vars => CollectedOK'
<1> SUFFICES ASSUME CollectedOK, [Next]_vars  PROVE CollectedOK'
  OBVIOUS
<1>1. ASSUME NEW f \in Files, Collect(f)  PROVE CollectedOK'
  BY <1>1, CollectKeeps
<1>2. ASSUME raw' = raw, profiles' = profiles, dedup' = dedup, candidates' = candidates,
             arrived' \ failed' = arrived \ failed
      PROVE  InputOK' /\ \E S : Lists(candidates', S) /\ Good(S)' /\ Covered(S) = Collected' /\ \A r \in S : LabelOK(r)'
  <2>1. PICK S : Lists(candidates, S) /\ Good(S) /\ Covered(S) = Collected /\ \A r \in S : LabelOK(r)
    BY DEF CollectedOK
  <2>2. InputOK' /\ Good(S)' /\ \A r \in S : LabelOK(r)'
    <3>1. InputOK'
      BY <1>2 DEF CollectedOK, InputOK, Runs
    <3>2. Good(S)'
      BY <1>2, <2>1 DEF Good, Honest, Finding
    <3>3. \A r \in S : LabelOK(r)'
      BY <1>2, <2>1 DEF LabelOK, ProfilesOf
    <3> QED BY <3>1, <3>2, <3>3
  <2>3. Collected' = Collected
    BY <1>2 DEF Collected, Findings, Runs
  <2> QED
    BY <1>2, <2>1, <2>2, <2>3
<1>3. ASSUME NEW f \in Files, CollectFailed(f)  PROVE CollectedOK'
  <2>1. /\ raw' = raw /\ profiles' = profiles /\ dedup' = dedup /\ candidates' = candidates
        /\ arrived' = arrived \cup {f} /\ failed' = failed \cup {f} /\ f \notin arrived
        /\ finished' = finished
    BY <1>3 DEF CollectFailed, input
  <2>2. arrived' \ failed' = arrived \ failed
    BY <2>1
  <2>3. InputOK' /\ \E S : Lists(candidates', S) /\ Good(S)' /\ Covered(S) = Collected' /\ \A r \in S : LabelOK(r)'
    BY <1>2, <2>1, <2>2
  <2>4. failed' \subseteq arrived' /\ arrived' \subseteq Files /\ ~finished'
    BY <2>1 DEF CollectedOK
  <2> QED
    BY <2>3, <2>4 DEF CollectedOK, Covered
<1>4. CASE Finish
  <2>1. /\ raw' = raw /\ profiles' = profiles /\ dedup' = dedup /\ candidates' = candidates
        /\ arrived' = arrived /\ failed' = failed /\ arrived = Files /\ report' = Report(candidates)
    BY <1>4 DEF Finish, input
  <2>2. InputOK' /\ \E S : Lists(candidates', S) /\ Good(S)' /\ Covered(S) = Collected' /\ \A r \in S : LabelOK(r)'
    BY <1>2, <2>1
  <2>3. report' = Report(candidates)'
    BY <2>1 DEF Report
  <2> QED
    BY <2>1, <2>2, <2>3 DEF CollectedOK, Covered
<1>5. CASE UNCHANGED vars
  <2>1. /\ raw' = raw /\ profiles' = profiles /\ dedup' = dedup /\ candidates' = candidates
        /\ arrived' = arrived /\ failed' = failed /\ finished' = finished /\ report' = report
    BY <1>5 DEF vars, input
  <2>2. InputOK' /\ \E S : Lists(candidates', S) /\ Good(S)' /\ Covered(S) = Collected' /\ \A r \in S : LabelOK(r)'
    BY <1>2, <2>1
  <2>3. Report(candidates)' = Report(candidates)
    BY <2>1 DEF Report
  <2> QED
    BY <2>1, <2>2, <2>3 DEF CollectedOK, Covered
<1> QED
  BY <1>1, <1>3, <1>4, <1>5 DEF Next, Finished

\* A finished report made from such candidates keeps all sites.
LEMMA CollectedSitesKept == CollectedOK => SitesAreKept
<1> SUFFICES ASSUME CollectedOK, finished  PROVE SitesAreKept
  BY DEF SitesAreKept
<1>1. PICK S : Lists(candidates, S) /\ Good(S) /\ Covered(S) = Collected /\ \A r \in S : LabelOK(r)
  BY DEF CollectedOK
<1>2. arrived = Files /\ report = Report(candidates)
  BY DEF CollectedOK
<1>3. PICK T : Lists(report, T) /\ Good(T) /\ Covered(T) = Covered(S) /\ (dedup => OneRowPerSite(T))
  BY <1>1, <1>2, ReportKeeps
<1>4. T = ToSet(report) /\ \A k \in DOMAIN report : report[k] \in T
  BY <1>3, ListsAreFinite DEF Lists
<1>5. Covered(T) = UNION {Findings(f) : f \in Reporting}
  <2>1. \A f \in Files : Found(f) = {} => Findings(f) = {}
    BY DEF Found, Findings, Nothing
  <2>2. Reporting \subseteq Files \ failed /\ \A f \in Files \ failed : f \notin Reporting => Findings(f) = {}
    BY <2>1 DEF Reporting
  <2>3. UNION {Findings(f) : f \in Files \ failed} = UNION {Findings(f) : f \in Reporting}
    BY <2>2
  <2> QED
    BY <1>1, <1>2, <1>3, <2>3 DEF Collected
<1>6. UNION {r.of : r \in ToSet(report)} = UNION {Findings(f) : f \in Reporting}
  BY <1>4, <1>5 DEF Covered
<1>7. ASSUME NEW j \in DOMAIN report, NEW k \in DOMAIN report, j # k  PROVE report[j].of \cap report[k].of = {}
  BY <1>3, <1>4, <1>7 DEF Good, Lists
<1>8. ASSUME NEW r \in ToSet(report)  PROVE Honest(r)
  BY <1>3, <1>4, <1>8 DEF Good
<1>9. ASSUME NEW r \in ToSet(report), dedup, ~IsCoarse(r), NEW f \in Reporting, NEW x \in Findings(f),
             Finding(x).column = r.column
      PROVE  x \in r.of /\ Tus(f) \subseteq r.tus
  <2>1. PICK u \in T : x \in u.of
    BY <1>5 DEF Covered
  <2>2. Finding(x).column \in {1, u.column} /\ Tus(x[1]) \subseteq u.tus
    BY <1>4, <1>8, <2>1 DEF Honest
  <2>3. u.column = r.column
    BY <1>9, <2>2 DEF IsCoarse
  <2>4. u = r
    BY <1>3, <1>4, <1>9, <2>3 DEF OneRowPerSite
  <2>5. x[1] = f
    BY DEF Findings
  <2> QED
    BY <2>1, <2>2, <2>4, <2>5
<1> QED
  BY <1>6, <1>7, <1>8, <1>9 DEF SitesAreKept, Honest

\* Its labels are right too.
LEMMA CollectedLabelsRight == CollectedOK => LabelsAreRight
<1> SUFFICES ASSUME CollectedOK, finished, profiles # {}, NEW r \in ToSet(report)
             PROVE  IF Unconditional \in r.under THEN \E f \in Reporting : FoundUnder(r, f) = profiles
                    ELSE r.under = UNION {FoundUnder(r, f) : f \in Reporting}
  BY DEF LabelsAreRight
<1>1. PICK S : Lists(candidates, S) /\ Good(S) /\ Covered(S) = Collected /\ \A u \in S : LabelOK(u)
  BY DEF CollectedOK
<1>2. arrived = Files /\ report = Report(candidates)
  BY DEF CollectedOK
<1>3. PICK T : Lists(report, T) /\ Covered(T) = Covered(S) /\ \A u \in T : LabelOK(u)
  BY <1>1, <1>2, ReportKeeps
<1>4. r \in T /\ r.of \subseteq Collected
  BY <1>1, <1>3, ListsAreFinite DEF Covered
<1>5. \A x \in r.of : x[2] \in profiles
  BY <1>3, <1>4 DEF LabelOK
<1>6. ASSUME NEW x \in r.of  PROVE x[1] \in Reporting
  <2>1. PICK f \in Files \ failed : x \in Findings(f)
    BY <1>2, <1>4 DEF Collected
  <2>2. PICK p \in Runs : \E i \in DOMAIN raw[f][p] : x = <<f, p, i>>
    BY <2>1 DEF Findings
  <2>3. raw[f][p] # Nothing
    BY <2>2 DEF Nothing
  <2> QED
    BY <2>2, <2>3 DEF Reporting, Found
<1>7. CASE Unconditional \in r.under
  <2>1. PICK f \in Files : \A p \in profiles : \E x \in r.of : x[1] = f /\ x[2] = p
    BY <1>3, <1>4, <1>7 DEF LabelOK
  <2>2. FoundUnder(r, f) = profiles
    BY <2>1 DEF FoundUnder
  <2>3. f \in Reporting
    BY <1>6, <2>1
  <2> QED
    BY <1>7, <2>2, <2>3
<1>8. CASE Unconditional \notin r.under
  <2>1. r.under = ProfilesOf(r)
    BY <1>3, <1>4, <1>8 DEF LabelOK
  <2>2. ProfilesOf(r) = UNION {FoundUnder(r, f) : f \in Reporting}
    BY <1>5, <1>6 DEF ProfilesOf, FoundUnder
  <2> QED
    BY <1>8, <2>1, <2>2
<1> QED
  BY <1>7, <1>8

-----------------------------------------------------------------------------
(* What is found again.                                                    *)

CollectedRows == UNION {RowsOfFile(f) : f \in arrived \ failed}

\* The rows collected so far are those of the files, each counted.
RowsCollected ==
  /\ CollectedOK
  /\ Lists(candidates, CollectedRows)
  /\ counted \in [Files -> Nat] /\ \A f \in arrived \ failed : counted[f] = Len(FileRows(f))

\* The rows of a file stay as they are.
LEMMA RowsStay ==
  ASSUME raw' = raw, profiles' = profiles, NEW f
  PROVE  RowsOfFile(f)' = RowsOfFile(f) /\ FileRows(f)' = FileRows(f) /\ Findings(f)' = Findings(f)
<1>1. Rows(f)' = Rows(f)
  BY DEF Rows, RowsUnder, Runs, Row
<1>2. \A q : OverProfiles(q)' = OverProfiles(q)
  BY DEF OverProfiles, Labelled
<1>3. OverProfiles(Rows(f))' = OverProfiles(Rows(f))
  BY <1>1 DEF OverProfiles, Labelled
<1>4. RowsOfFile(f)' = RowsOfFile(f)
  BY <1>3 DEF RowsOfFile
<1>5. FileRows(f)' = FileRows(f)
  BY <1>3 DEF FileRows
<1>6. Findings(f)' = Findings(f)
  BY DEF Findings, Runs
<1> QED
  BY <1>4, <1>5, <1>6

\* Nothing is collected before the first result.
LEMMA RowsCollectedInit == Init => RowsCollected
<1> SUFFICES ASSUME Init  PROVE RowsCollected
  OBVIOUS
<1>1. CollectedOK
  BY CollectedInit
<1>2. candidates = << >> /\ arrived = {} /\ counted = [f \in Files |-> 0]
  BY DEF Init, Nothing
<1>3. CollectedRows = {}
  BY <1>2 DEF CollectedRows
<1>4. Lists(<< >>, {})
  BY DEF Lists
<1> QED
  BY <1>1, <1>2, <1>3, <1>4 DEF RowsCollected

\* A result adds the rows of its file and counts them.
LEMMA RowsCollectedNext == RowsCollected /\ [Next]_vars => RowsCollected'
<1> SUFFICES ASSUME RowsCollected, [Next]_vars  PROVE RowsCollected'
  OBVIOUS
<1>1. CollectedOK /\ CollectedOK'
  BY CollectedNext DEF RowsCollected
<1>2. /\ Lists(candidates, CollectedRows) /\ counted \in [Files -> Nat]
      /\ \A f \in arrived \ failed : counted[f] = Len(FileRows(f))
  BY DEF RowsCollected
<1>3. raw' = raw /\ profiles' = profiles
  BY DEF Next, Collect, CollectFailed, Finish, Finished, vars, input
<1>4. \A f : RowsOfFile(f)' = RowsOfFile(f) /\ FileRows(f)' = FileRows(f)
  BY <1>3, RowsStay
<1>5. InputOK /\ failed \subseteq arrived /\ arrived \subseteq Files
  BY <1>1 DEF CollectedOK
<1>6. CollectedRows' = UNION {RowsOfFile(f) : f \in arrived' \ failed'}
  BY <1>4 DEF CollectedRows
<1>7. ASSUME NEW f \in Files, Collect(f)  PROVE RowsCollected'
  <2>1. /\ arrived' = arrived \cup {f} /\ failed' = failed /\ f \notin arrived
        /\ candidates' = candidates \o FileRows(f) /\ counted' = [counted EXCEPT ![f] = Len(FileRows(f))]
    BY <1>7 DEF Collect
  <2>2. arrived' \ failed' = (arrived \ failed) \cup {f} /\ f \notin arrived \ failed
    BY <1>5, <2>1
  <2>3. CollectedRows' = CollectedRows \cup RowsOfFile(f)
    BY <1>6, <2>2 DEF CollectedRows
  <2>4. /\ Lists(FileRows(f), RowsOfFile(f)) /\ Covered(RowsOfFile(f)) = Findings(f)
        /\ \A r \in RowsOfFile(f) : r.of # {}
    BY <1>5, RowsOfFileAre DEF Good, Honest
  <2>5. \A g \in arrived \ failed : Covered(RowsOfFile(g)) = Findings(g)
    BY <1>5, RowsOfFileAre
  <2>6. CollectedRows \cap RowsOfFile(f) = {}
    <3> SUFFICES ASSUME NEW g \in arrived \ failed, NEW r \in RowsOfFile(g), r \in RowsOfFile(f)  PROVE FALSE
      BY DEF CollectedRows
    <3>1. PICK x : x \in r.of
      BY <2>4
    <3>2. x \in Findings(g) /\ x \in Findings(f)
      BY <2>4, <2>5, <3>1 DEF Covered
    <3>3. x[1] = g /\ x[1] = f
      BY <3>2 DEF Findings
    <3> QED  BY <2>1, <3>3
  <2>7. Lists(candidates', CollectedRows')
    BY <1>2, <2>1, <2>3, <2>4, <2>6, ConcatLists
  <2>8. Len(FileRows(f)) \in Nat
    BY <2>4, ListsAreFinite
  <2>9. /\ counted' \in [Files -> Nat]
        /\ \A g \in arrived' \ failed' : counted'[g] = Len(FileRows(g))
    BY <1>2, <1>5, <2>1, <2>2, <2>8
  <2>10. \A g \in arrived' \ failed' : counted'[g] = Len(FileRows(g)')
    BY <1>4, <2>9
  <2> QED  BY <1>1, <2>7, <2>9, <2>10 DEF RowsCollected
<1>8. ASSUME candidates' = candidates, counted' = counted, arrived' \ failed' = arrived \ failed
      PROVE  RowsCollected'
  <2>1. CollectedRows' = CollectedRows
    BY <1>6, <1>8 DEF CollectedRows
  <2>2. Lists(candidates', CollectedRows')
    BY <1>2, <1>8, <2>1
  <2>3. counted' \in [Files -> Nat] /\ \A f \in arrived' \ failed' : counted'[f] = Len(FileRows(f)')
    BY <1>2, <1>4, <1>8
  <2> QED  BY <1>1, <2>2, <2>3 DEF RowsCollected
<1>9. ASSUME NEW f \in Files, CollectFailed(f)  PROVE RowsCollected'
  BY <1>5, <1>8, <1>9 DEF CollectFailed
<1>10. CASE Finish
  BY <1>8, <1>10 DEF Finish
<1>11. CASE UNCHANGED vars
  BY <1>8, <1>11 DEF vars
<1> QED
  BY <1>7, <1>9, <1>10, <1>11 DEF Next, Finished

\* The rows of all files, in the end.
LEMMA CollectedRowsAre ==
  ASSUME RowsCollected
  PROVE  /\ Good(CollectedRows)
         /\ \A r \in CollectedRows : \E f \in arrived \ failed : r \in RowsOfFile(f)
         /\ \A r \in CollectedRows : Witnessed(r) /\ r.token = {}
         /\ \A f \in arrived \ failed : \A r \in RowsOfFile(f) :
              r \in CollectedRows /\ r.tus = Tus(f) /\ r.of # {} /\ r.of \subseteq Findings(f)
         /\ Covered(CollectedRows) = Collected
<1>1. InputOK /\ arrived \subseteq Files
  BY DEF RowsCollected, CollectedOK
<1>2. \A f \in arrived \ failed :
        /\ Good(RowsOfFile(f)) /\ Covered(RowsOfFile(f)) = Findings(f)
        /\ \A r \in RowsOfFile(f) : Witnessed(r) /\ r.tus = Tus(f) /\ r.token = {}
  BY <1>1, RowsOfFileAre
<1>3. \A r \in CollectedRows : \E f \in arrived \ failed : r \in RowsOfFile(f)
  BY DEF CollectedRows
<1>4. \A f \in arrived \ failed : \A r \in RowsOfFile(f) : r \in CollectedRows
  BY DEF CollectedRows
<1>5. \A f \in arrived \ failed : \A r \in RowsOfFile(f) : r.of # {} /\ r.of \subseteq Findings(f)
  BY <1>2 DEF Good, Honest, Covered
<1>6. \A f \in arrived \ failed : \A r \in RowsOfFile(f) : \A x \in r.of : x[1] = f
  BY <1>5 DEF Findings
<1>7. Good(CollectedRows)
  <2>1. CollectedRows \in SUBSET RowSet /\ \A r \in CollectedRows : Honest(r)
    BY <1>2, <1>3 DEF Good
  <2>2. ASSUME NEW r \in CollectedRows, NEW u \in CollectedRows, r.of \cap u.of # {}  PROVE r = u
    <3>1. PICK f \in arrived \ failed : r \in RowsOfFile(f)
      BY <1>3
    <3>2. PICK g \in arrived \ failed : u \in RowsOfFile(g)
      BY <1>3
    <3>3. PICK x : x \in r.of /\ x \in u.of
      BY <2>2
    <3>4. f = g
      BY <1>6, <3>1, <3>2, <3>3
    <3> QED  BY <1>2, <2>2, <3>1, <3>2, <3>4 DEF Good
  <2> QED  BY <2>1, <2>2 DEF Good
<1>8. Covered(CollectedRows) = Collected
  <2>1. Covered(CollectedRows) = UNION {Covered(RowsOfFile(f)) : f \in arrived \ failed}
    BY DEF Covered, CollectedRows
  <2> QED  BY <1>2, <2>1 DEF Collected
<1> QED
  BY <1>2, <1>3, <1>4, <1>5, <1>7, <1>8

\* A row of the report stands for findings of a file that did not fail.
LEMMA RowsAreReported ==
  ASSUME RowsCollected, arrived = Files, NEW f \in arrived \ failed, RowsOfFile(f) # {}
  PROVE  f \in Reporting
<1>1. PICK r \in RowsOfFile(f) : r.of # {} /\ r.of \subseteq Findings(f)
  BY CollectedRowsAre
<1>2. PICK p \in Runs : raw[f][p] # << >>
  BY <1>1 DEF Findings
<1> QED
  BY <1>2 DEF Reporting, Found, Nothing

\* Different files have different origins: only one is the header itself.
LEMMA OriginsOfFiles ==
  ASSUME RowsCollected
  PROVE  /\ \A r \in CollectedRows : HasOrigin(r)
         /\ \A f, g \in arrived \ failed : \A r \in RowsOfFile(f), u \in RowsOfFile(g) :
              Origin(u) = Origin(r) => f = g
<1>1. Cardinality({}) = 0
  BY FS_EmptySet
<1>2. /\ \A r \in CollectedRows : r.token = {} /\ \E f \in arrived \ failed : r \in RowsOfFile(f)
      /\ \A f \in arrived \ failed : \A r \in RowsOfFile(f) : r \in CollectedRows /\ r.tus = Tus(f)
  BY CollectedRowsAre
<1>3. \A r \in CollectedRows : Cardinality(r.token) = 0 /\ Cardinality(r.tus) <= 1
  BY <1>1, <1>2, TusIsSmall
<1>4. \A r \in CollectedRows : HasOrigin(r) /\ Origin(r) = <<"file", r.tus>>
  BY <1>3 DEF HasOrigin, Origin
<1>5. ASSUME NEW f \in arrived \ failed, NEW g \in arrived \ failed, NEW r \in RowsOfFile(f), NEW u \in RowsOfFile(g),
             Origin(u) = Origin(r)
      PROVE  f = g
  <2>1. Origin(r) = <<"file", Tus(f)>> /\ Origin(u) = <<"file", Tus(g)>>
    BY <1>2, <1>4
  <2>2. Tus(f) = Tus(g)
    BY <1>5, <2>1
  <2> QED  BY <2>2, FilesAssumption DEF Tus
<1> QED
  BY <1>4, <1>5

\* If all files find the same, the report has no more rows than any of them.
LEMMA OtherFilesAddNothing ==
  ASSUME RowsCollected, arrived = Files, dedup, NEW f \in Reporting,
         \A g, h \in Reporting : \A p, q \in Runs : raw[g][p] = raw[h][q]
  PROVE  Len(Report(candidates)) <= counted[f]
<1> DEFINE S == CollectedRows
           R == RowsOfFile(f)
           n == Cardinality(Coarse(R))
<1>1. InputOK /\ Lists(candidates, S) /\ counted[f] = Len(FileRows(f)) /\ f \in Files /\ f \in arrived \ failed
  BY DEF RowsCollected, CollectedOK, Reporting
<1>2. Good(S) /\ Covered(S) = Collected /\ \A r \in S : Witnessed(r)
  BY CollectedRowsAre
<1>3. PICK p : p \in Runs
  BY DEF Runs
<1>4. \A g \in Reporting : g \in Files /\ raw[g] = raw[f]
  <2> TAKE g \in Reporting
  <2>1. g \in Files /\ raw[g] \in [Runs -> RawFindings] /\ raw[f] \in [Runs -> RawFindings]
    BY <1>1 DEF Reporting, InputOK
  <2>2. \A q \in Runs : raw[g][q] = raw[f][q]
    OBVIOUS
  <2> QED  BY <2>1, <2>2
<1>5. \A q \in Runs : raw[f][q] = raw[f][p]
  BY <1>3
<1>6. /\ Lists(FileRows(f), R) /\ Good(R) /\ Covered(R) = Findings(f) /\ \A r \in R : Witnessed(r)
  BY <1>1, RowsOfFileAre
<1>7. Cols(R) = FoundCols(f, p)
  <2>1. \A x \in Covered(R) : \E i \in DOMAIN raw[f][p] : Finding(x) = raw[f][p][i]
    <3> SUFFICES ASSUME NEW q \in Runs, NEW i \in DOMAIN raw[f][q]
                 PROVE  \E j \in DOMAIN raw[f][p] : Finding(<<f, q, i>>) = raw[f][p][j]
      BY <1>6 DEF Findings
    <3> QED  BY <1>5 DEF Finding
  <2>2. ASSUME NEW i \in DOMAIN raw[f][p]  PROVE \E x \in Covered(R) : Finding(x) = raw[f][p][i]
    <3>1. <<f, p, i>> \in Findings(f) /\ Finding(<<f, p, i>>) = raw[f][p][i]
      BY <1>3 DEF Findings, Finding
    <3> QED  BY <1>6, <3>1
  <2> HIDE DEF R
  <2> QED  BY <1>6, <2>1, <2>2, SameColumns
<1>8. Cols(S) = FoundCols(f, p)
  <2>1. ASSUME NEW x \in Covered(S)  PROVE \E i \in DOMAIN raw[f][p] : Finding(x) = raw[f][p][i]
    <3>1. PICK g \in arrived \ failed : x \in Findings(g)
      BY <1>2, <2>1 DEF Collected
    <3>2. PICK q \in Runs : \E i \in DOMAIN raw[g][q] : x = <<g, q, i>>
      BY <3>1 DEF Findings
    <3>3. PICK i \in DOMAIN raw[g][q] : x = <<g, q, i>>
      BY <3>2
    <3>4. raw[g][q] # << >>
      BY <3>3
    <3>5. g \in Reporting
      BY <3>2, <3>4 DEF Reporting, Found, Nothing
    <3>6. raw[g][q] = raw[f][p]
      BY <1>3, <3>5
    <3>7. Finding(x) = raw[f][p][i] /\ i \in DOMAIN raw[f][p]
      BY <3>3, <3>6 DEF Finding
    <3> QED  BY <3>7
  <2>2. ASSUME NEW i \in DOMAIN raw[f][p]  PROVE \E x \in Covered(S) : Finding(x) = raw[f][p][i]
    <3>1. <<f, p, i>> \in Findings(f) /\ Finding(<<f, p, i>>) = raw[f][p][i]
      BY <1>3 DEF Findings, Finding
    <3>2. <<f, p, i>> \in Covered(S)
      BY <1>1, <1>2, <3>1 DEF Collected
    <3> QED  BY <3>1, <3>2
  <2> HIDE DEF S
  <2> QED  BY <1>2, <2>1, <2>2, SameColumns
<1>9. IsFiniteSet(R) /\ Len(FileRows(f)) = Cardinality(R)
  BY <1>6, ListsCount
<1>10. n \in Nat /\ Cardinality(Cols(R)) \in Nat /\ Cardinality(Cols(R)) + n <= Cardinality(R)
  <2> HIDE DEF R
  <2> QED  BY <1>9, RowCount
<1>11. \A r \in Coarse(S) : HasOrigin(r)
  BY OriginsOfFiles DEF Coarse
<1>12. ASSUME NEW r \in Coarse(S)  PROVE Cardinality({u \in Coarse(S) : Origin(u) = Origin(r)}) <= n
  <2>1. r \in S /\ IsCoarse(r)
    BY DEF Coarse
  <2>2. PICK g \in arrived \ failed : r \in RowsOfFile(g)
    BY <2>1 DEF CollectedRows
  <2>3. g \in Reporting
    BY <2>2, RowsAreReported
  <2>4. {u \in Coarse(S) : Origin(u) = Origin(r)} \in SUBSET Coarse(RowsOfFile(g))
    <3> SUFFICES ASSUME NEW u \in Coarse(S), Origin(u) = Origin(r)  PROVE u \in RowsOfFile(g) /\ IsCoarse(u)
      BY DEF Coarse
    <3>1. u \in S /\ IsCoarse(u)
      BY DEF Coarse
    <3>2. PICK h \in arrived \ failed : u \in RowsOfFile(h)
      BY <3>1 DEF CollectedRows
    <3>3. g = h
      BY <2>2, <3>2, OriginsOfFiles
    <3> QED  BY <3>1, <3>2, <3>3
  <2>5. IsFiniteSet(Coarse(RowsOfFile(g)))
    <3>1. Lists(FileRows(g), RowsOfFile(g)) /\ Coarse(RowsOfFile(g)) \in SUBSET RowsOfFile(g)
      BY <1>1, <1>4, <2>3, RowsOfFileAre DEF Coarse
    <3> QED  BY <3>1, ListsAreFinite, FS_Subset
  <2>6. Cardinality(Coarse(RowsOfFile(g))) <= n
    BY <1>1, <1>4, <2>3, FileRowsMove
  <2> DEFINE A == {u \in Coarse(S) : Origin(u) = Origin(r)}
             B == Coarse(RowsOfFile(g))
  <2>7. IsFiniteSet(B) /\ A \in SUBSET B /\ Cardinality(B) <= n
    BY <2>4, <2>5, <2>6
  <2> HIDE DEF A, B, n
  <2>8. /\ IsFiniteSet(A) /\ Cardinality(A) <= Cardinality(B)
        /\ Cardinality(A) \in Nat /\ Cardinality(B) \in Nat
    BY <2>7, FS_Subset, FS_CardinalityType
  <2>9. Cardinality(A) <= n
    BY <1>10, <2>7, <2>8
  <2> QED  BY <2>9 DEF A
<1>13. Len(Finalised(candidates)) <= Cardinality(Cols(S)) + n
  <2> HIDE DEF S, n
  <2> QED  BY <1>1, <1>2, <1>10, <1>11, <1>12, FinalisedBound
<1>14. Len(Finalised(candidates)) \in Nat
  <2> HIDE DEF S
  <2> QED  BY <1>1, <1>2, FinalisedLength
<1>15. Cardinality(Cols(S)) = Cardinality(Cols(R)) /\ Cardinality(R) = counted[f]
  BY <1>1, <1>7, <1>8, <1>9
<1>16. Cardinality(R) \in Nat
  BY <1>9, FS_CardinalityType
<1> HIDE DEF R, S, n
<1>17. Len(Finalised(candidates)) <= counted[f]
  BY <1>10, <1>13, <1>14, <1>15, <1>16
<1> QED
  BY <1>17 DEF Report

\* Nor than under one of its profiles, where lines are not crowded.
LEMMA OtherProfilesAddNothing ==
  ASSUME InputOK, NEW f \in Files, Alike(f), NEW p \in Runs, ~Crowded(f, p)
  PROVE  Len(FileRows(f)) <= Len(Finalised(RowsUnder(f, {p}))) /\ Len(Finalised(RowsUnder(f, {p}))) \in Nat
<1>1. Len(Finalised(RowsUnder(f, {p}))) \in Nat
  <2>1. {p} \in SUBSET Runs
    OBVIOUS
  <2>2. Lists(RowsUnder(f, {p}), FoundRows(f, {p})) /\ Good(FoundRows(f, {p}))
    BY <2>1, RowsAreListed
  <2> QED  BY <2>2, FinalisedLength
<1>2. CASE profiles = {}
  <2>1. p = 0 /\ Runs = {0} /\ {p} = Runs
    BY <1>2 DEF Runs
  <2>2. OverProfiles(Rows(f)) = RowsUnder(f, {p})
    BY <1>2, <2>1 DEF OverProfiles, Rows
  <2>3. FileRows(f) = Finalised(RowsUnder(f, {p}))
    BY <2>2 DEF FileRows
  <2> QED  BY <1>1, <2>3
<1>3. CASE profiles # {}
  <2>1. p \in profiles
    BY <1>3 DEF Runs
  <2> QED  BY <1>1, <1>3, <2>1, UncrowdedRepeats
<1> QED
  BY <1>2, <1>3

\* So the report has no more rows than any of the files.
LEMMA RowsAreNotRepeated == RowsCollected => RepeatsAddNoRow
<1> SUFFICES ASSUME RowsCollected, finished, dedup, NEW f \in Reporting,
                    \A g, h \in Reporting : \A p, q \in Runs : raw[g][p] = raw[h][q]
             PROVE  /\ Len(report) <= counted[f]
                    /\ \A p \in Runs : ~Crowded(f, p) => Len(report) <= Len(Finalised(RowsUnder(f, {p})))
  BY DEF RepeatsAddNoRow
<1>1. InputOK /\ arrived = Files /\ report = Report(candidates) /\ f \in Files /\ f \in arrived \ failed
  BY DEF RowsCollected, CollectedOK, Reporting
<1>2. Len(report) <= counted[f] /\ counted[f] = Len(FileRows(f)) /\ counted[f] \in Nat
  BY <1>1, OtherFilesAddNothing DEF RowsCollected
<1>3. Len(report) \in Nat
  <2>1. Lists(candidates, CollectedRows) /\ Good(CollectedRows)
    BY CollectedRowsAre DEF RowsCollected
  <2>2. report = Finalised(candidates)
    BY <1>1 DEF Report
  <2> QED  BY <2>1, <2>2, FinalisedLength
<1>4. Alike(f)
  BY DEF Alike
<1>5. ASSUME NEW p \in Runs, ~Crowded(f, p)  PROVE Len(report) <= Len(Finalised(RowsUnder(f, {p})))
  <2>1. Len(FileRows(f)) <= Len(Finalised(RowsUnder(f, {p}))) /\ Len(Finalised(RowsUnder(f, {p}))) \in Nat
    BY <1>1, <1>4, <1>5, OtherProfilesAddNothing
  <2> QED  BY <1>2, <1>3, <2>1
<1> QED
  BY <1>2, <1>5

\* Nor does what is found again make a row conditional.
LEMMA RowsAreUnconditional == RowsCollected => RepeatsAreUnconditional
<1> SUFFICES ASSUME RowsCollected, finished, profiles # {}, NEW r \in ToSet(report), NEW f \in Reporting,
                    FoundUnder(r, f) # {}, \A p, q \in profiles : raw[f][p] = raw[f][q] /\ ~Crowded(f, p)
             PROVE  r.under = {Unconditional}
  BY DEF RepeatsAreUnconditional
<1>1. InputOK /\ arrived = Files /\ report = Report(candidates) /\ f \in Files /\ f \in arrived \ failed
  BY DEF RowsCollected, CollectedOK, Reporting
<1>2. Alike(f) /\ \E p \in profiles : ~Crowded(f, p)
  BY DEF Alike, Runs
<1>3. \A u \in RowsOfFile(f) : u.under = {Unconditional}
  BY <1>1, <1>2, UncrowdedRepeats
<1>4. PICK x \in r.of : x[1] = f
  BY DEF FoundUnder
<1>5. Lists(candidates, CollectedRows) /\ Good(CollectedRows)
  BY CollectedRowsAre DEF RowsCollected
<1>6. ASSUME NEW u \in CollectedRows, x \in u.of  PROVE u.under = {Unconditional}
  <2>1. PICK g \in arrived \ failed : u \in RowsOfFile(g)
    BY CollectedRowsAre
  <2>2. x \in Findings(g)
    BY <1>6, <2>1, CollectedRowsAre
  <2>3. g = f
    BY <1>4, <2>2 DEF Findings
  <2> QED  BY <1>3, <2>1, <2>3
<1>7. CASE dedup
  <2>1. Lists(report, MergedRows(candidates)) /\ MadeOf(MergedRows(candidates), CollectedRows)
    BY <1>1, <1>5, <1>7, FinalisedRows DEF Report
  <2>2. r \in MergedRows(candidates)
    BY <2>1, ListsAreFinite
  <2>3. PICK C \in SUBSET CollectedRows : C # {} /\ r = Merged(C)
    BY <2>1, <2>2 DEF MadeOf
  <2>4. C \in SUBSET RowSet /\ IsFiniteSet(C)
    BY <1>5, <2>3, ListsAreFinite, FS_Subset DEF Good
  <2>5. r.of = Covered(C)
    BY <2>3, <2>4, MergedRow
  <2>6. PICK u \in C : x \in u.of
    BY <2>5 DEF Covered
  <2>7. Unconditional \in u.under
    BY <1>6, <2>6
  <2> QED  BY <2>3, <2>4, <2>7, UnconditionalMerge
<1>8. CASE ~dedup
  <2>1. Lists(report, CollectedRows)
    BY <1>1, <1>5, <1>8, NumberedLists DEF Report, Good
  <2>2. r \in CollectedRows
    BY <2>1, ListsAreFinite
  <2> QED  BY <1>4, <1>6, <2>2
<1> QED
  BY <1>7, <1>8

\* The findings of every file are in the report, whatever the order in which
\* results arrive, whatever the profiles and with deduplication or without: each
\* in one row, at its own column or the row of a coarse one, naming the file; and
\* with deduplication one row for each precise column.
THEOREM EverySiteIsKept == Spec => []SitesAreKept
<1> QED
  BY CollectedInit, CollectedNext, CollectedSitesKept, PTL DEF Spec

\* A row of the report says that it is unconditional only if one file has a
\* finding of it under every profile of the scan; otherwise it names exactly the
\* profiles under which it was found, over all files and both finalisations.
THEOREM EveryLabelIsRight == Spec => []LabelsAreRight
<1> QED
  BY CollectedInit, CollectedNext, CollectedLabelsRight, PTL DEF Spec

\* What another file finds again, or the same file under another profile, adds
\* neither a row to the report nor a condition to one, for any number of files,
\* profiles, columns, messages and findings, except where lines are crowded.
THEOREM RepeatsAreMerged == Spec => []RepeatsAddNothing
<1>1. RowsCollected => RepeatsAddNothing
  BY RowsAreNotRepeated, RowsAreUnconditional DEF RepeatsAddNothing
<1> QED
  BY <1>1, RowsCollectedInit, RowsCollectedNext, PTL DEF Spec
=============================================================================
