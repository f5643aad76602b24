----------------------------- MODULE CExecution -----------------------------
(***************************************************************************)
(* What the statements of a C function do to its pointers: the reference   *)
(* that the facts of LegacyDataflow are held against.  It is the           *)
(* language's semantics, not code of the repository.                       *)
(***************************************************************************)
EXTENDS CControl

CONSTANT Vars             \* the tracked pointer variables

-----------------------------------------------------------------------------
(* Memory: what each pointer holds (Null, Undefined, or an object) and what *)
(* has become of each object.  A pointer to an "opaque" object came from    *)
(* outside and may be null, as long as no test or use says otherwise.       *)

Undefined == 0
Null == -1
Objects == 1..Cardinality(Vars)

\* What code that was not seen may leave.
AnyMem == {[val |-> f, obj |-> [o \in Objects |-> state]] :
             f \in [Vars -> {Undefined, Null, 1}], state \in {"live", "dead"}}

\* When the function is called, each parameter holds an object of its own.
Called(params) ==
  LET held == CHOOSE f \in [params -> Objects] : \A x, y \in params : x # y => f[x] # f[y]
  IN [val |-> held @@ [v \in Vars |-> Undefined],
      obj |-> [o \in Objects |-> IF \E x \in params : held[x] = o THEN "opaque" ELSE "none"]]

Set(m, v, x) == [m EXCEPT !.val[v] = x]
Mark(m, o, state) == [m EXCEPT !.obj[o] = state]

\* v points to a new object; what it pointed to is lost.
Fresh(m, v, state) ==
  LET used == {m.val[w] : w \in Vars \ {v}}
      o == CHOOSE x \in Objects \ used : \A y \in Objects \ used : x <= y
  IN Mark(Set(m, v, o), o, state)

Holds(m, v, states) == m.val[v] \in Objects /\ m.obj[m.val[v]] \in states

\* The memories an operation may leave; none when it is undefined behaviour.
RECURSIVE Effect(_, _, _, _)
Effect(m, op, v, w) ==
  CASE op = "null" -> {Set(m, v, Null)}
    [] op = "alloc" -> {Set(m, v, Null), Fresh(m, v, "live")}
    [] op \in {"any", "source", "through", "either"} -> {Fresh(m, v, "opaque")}
    [] op = "copy" -> IF m.val[w] = Undefined THEN {} ELSE {Set(m, v, m.val[w])}
    [] op = "free" -> IF m.val[v] = Null THEN {m}
                      ELSE IF Holds(m, v, {"live", "opaque"})
                      THEN {Mark(m, m.val[v], "dead")} ELSE {}
    [] op = "perhaps" -> {m} \cup Effect(m, "free", v, w)
    [] op \in {"use", "assert", "store", "part"} -> IF Holds(m, v, {"live", "opaque"})
                                   THEN {Mark(m, m.val[v], "live")} ELSE {}
    [] op = "resize" ->
         IF m.val[w] = Null THEN {Set(m, v, Null), Fresh(m, v, "live")}
         ELSE IF Holds(m, w, {"live", "opaque"})
         THEN {Set(Mark(m, m.val[w], "live"), v, Null),
               Fresh(Mark(m, m.val[w], "dead"), v, "live")} ELSE {}
    [] OTHER -> {m}

\* How a condition may come out, and what is known of memory afterwards.
RECURSIVE Test(_, _)
Test(m, c) ==
  CASE c.k = "var" ->
         CASE m.val[c.v] = Undefined -> {}
           [] m.val[c.v] = Null -> {<<FALSE, m>>}
           [] Holds(m, c.v, {"opaque"}) -> {<<TRUE, Mark(m, m.val[c.v], "live")>>, <<FALSE, m>>}
           [] OTHER -> {<<TRUE, m>>}
    [] c.k = "check" -> LET t == Test(m, [c EXCEPT !.k = "var"])
                        IN t \cup {<<FALSE, r[2]>> : r \in t}
    [] c.k = "not" -> {<<~r[1], r[2]>> : r \in Test(m, c.e)}
    [] c.k \in {"and", "or"} ->
         UNION {IF r[1] = (c.k = "or") THEN {r} ELSE Test(r[2], c.r) : r \in Test(m, c.l)}
    [] OTHER -> {<<TRUE, m>>, <<FALSE, m>>}
=============================================================================
