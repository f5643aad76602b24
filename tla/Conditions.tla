------------------------------ MODULE Conditions ------------------------------
(***************************************************************************)
(* Symbolic preprocessor conditions (preprocessor/expressions.py): Boolean *)
(* constants, independent atoms, negation, conjunction and disjunction.    *)
(* Operands are a set: the code sorts them and drops repeated ones.        *)
(***************************************************************************)
EXTENDS Integers, FiniteSets

Const(b) == [k |-> "const", b |-> b]
Atom(a) == [k |-> "atom", a |-> a]
Not(e) == [k |-> "not", e |-> e]
And(s) == [k |-> "and", s |-> s]
Or(s) == [k |-> "or", s |-> s]

\* The reference: what a condition is worth when exactly the atoms `on` hold.
RECURSIVE Holds(_, _)
Holds(e, on) ==
  CASE e.k = "const" -> e.b
    [] e.k = "atom" -> e.a \in on
    [] e.k = "not" -> ~Holds(e.e, on)
    [] e.k = "and" -> \A x \in e.s : Holds(x, on)
    [] e.k = "or" -> \E x \in e.s : Holds(x, on)

-----------------------------------------------------------------------------
Complement(e) == IF e.k = "not" THEN e.e ELSE Not(e)

\* conjunction and disjunction of simplified operands; `zero` is the constant
\* that decides, `dual` the other connective, whose operands may be absorbed.
Joined(kind, dual, zero, s) ==
  LET ops == UNION {IF e.k = kind THEN e.s ELSE {e} : e \in s \ {Const(~zero)}}
      kept == {e \in ops : ~(e.k = dual /\ e.s \cap ops # {})}
  IN CASE Const(zero) \in s \/ (\E e \in ops : Complement(e) \in ops) -> Const(zero)
       [] OTHER -> CASE kept = {} -> Const(~zero)
                     [] Cardinality(kept) = 1 -> CHOOSE e \in kept : TRUE
                     [] OTHER -> [k |-> kind, s |-> kept]

RECURSIVE Simplify(_)
Simplify(e) ==
  CASE e.k \in {"const", "atom"} -> e
    [] e.k = "not" -> LET x == Simplify(e.e) IN
                      IF x.k = "const" THEN Const(~x.b) ELSE Complement(x)
    [] e.k = "and" -> Joined("and", "or", FALSE, {Simplify(x) : x \in e.s})
    [] e.k = "or" -> Joined("or", "and", TRUE, {Simplify(x) : x \in e.s})

Negated(e) == Simplify(Not(e))
Conjoined(s) == Simplify(And(s))
Disjoined(s) == Simplify(Or(s))
=============================================================================
