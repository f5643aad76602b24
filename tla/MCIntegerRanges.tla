--------------------------- MODULE MCIntegerRanges ---------------------------
(* Translation units over a few integer variables: x, y, r are int, u and w  *)
(* unsigned, s short.                                                        *)
EXTENDS IntegerRanges

N(n) == [k |-> "const", n |-> n]
V(v) == [k |-> "var", v |-> v]
Neg(e) == [k |-> "neg", e |-> e]
Not(e) == [k |-> "not", e |-> e]
Two(k, l, r) == [k |-> k, l |-> l, r |-> r]
Cmp(op, l, r) == [k |-> "cmp", op |-> op, l |-> l, r |-> r]
Cast(t, e) == [k |-> "cast", t |-> t, e |-> e]
CallOf(g, args) == [k |-> "call", f |-> g, args |-> args]

Do(op, v, w) == [k |-> "do", op |-> op, v |-> v, w |-> w]
Assign(v, e) == Do("set", v, e)
Up(v) == Do("incr", v, 1)
Down(v) == Do("incr", v, -1)
Poke == Do("poke", "", 0)
Jump(kind) == [k |-> kind]
Goto(name) == [k |-> "goto", name |-> name]
Label(name, s) == [k |-> "label", name |-> name, body |-> s]
Give(e) == [k |-> "return", e |-> e]
Block(items) == [k |-> "block", items |-> items]
If(c, yes, no) == [k |-> "if", part |-> "cond", cond |-> c, yes |-> yes, no |-> no]
While(c, body) == [k |-> "while", cond |-> c, body |-> body]
DoWhile(c, body) == [k |-> "dowhile", cond |-> c, body |-> body]
For(init, c, step, body) == [k |-> "for", cond |-> c, init |-> init, step |-> step, body |-> body]
Case(items) == [default |-> FALSE, items |-> items]

\* Every statement gets its place.
RECURSIVE Placed(_, _)
Placed(s, place) ==
  LET in(part, i) == Placed(part, Append(place, i))
      items(seq, i) == [j \in DOMAIN seq |-> Placed(seq[j], place \o <<i, j>>)]
      t == s @@ [at |-> place]
  IN CASE s.k = "none" -> NoStmt
       [] s.k = "block" -> [t EXCEPT !.items = items(s.items, 1)]
       [] s.k = "if" -> [t EXCEPT !.yes = in(s.yes, 1), !.no = in(s.no, 2)]
       [] s.k \in {"while", "dowhile", "label"} -> [t EXCEPT !.body = in(s.body, 1)]
       [] s.k = "for" -> [t EXCEPT !.body = in(s.body, 1), !.init = in(s.init, 2), !.step = in(s.step, 3)]
       [] s.k = "switch" -> [t EXCEPT !.cases = [i \in DOMAIN s.cases |->
                               [s.cases[i] EXCEPT !.items = items(@, i)]]]
       [] OTHER -> t

VarTypes == [x |-> "int", y |-> "int", r |-> "int", u |-> "unsigned", w |-> "unsigned", s |-> "short"]
Function(ps, items) ==
  [body |-> Placed(Block(items), <<>>), params |-> ps, types |-> VarTypes, result |-> "int",
   static |-> TRUE, escapes |-> FALSE, volatile |-> {}, addressed |-> {}]
Alone(fn) == [main |-> fn]

\* F of every element of x with every element of y, in a sequence.  The CHOOSE
\* has TLC evaluate x and y once.
Pairs(F(_, _), x, y) ==
  CHOOSE p \in {<<>> \o [i \in 1..(Len(s) * Len(t)) |->
                           F(s[((i - 1) \div Len(t)) + 1], t[((i - 1) % Len(t)) + 1])] :
                  s \in {x}, t \in {y}} : TRUE

-----------------------------------------------------------------------------
(* One condition within another, on parameters and known values.           *)

Less == Cmp("<", V("x"), N(1))
Tests == <<Less, Cmp(">=", V("x"), N(0)), Cmp("==", V("x"), N(2)), Cmp("!=", N(2), V("x")),
           Cmp("<", N(-1), V("x")), Not(Less), Two("and", Less, Cmp(">", V("x"), N(-3))),
           Two("or", Less, Cmp(">", V("x"), N(2))), Two("or", Less, Cmp("<=", V("u"), N(2))),
           Not(Two("or", Less, Cmp(">", V("u"), N(3)))), Two("and", Cmp("==", V("x"), N(1)), Cmp("==", V("x"), N(2))),
           Cmp("<", V("x"), V("u")), Cmp("<", V("y"), V("w")), Cmp("<=", V("s"), V("y")),
           Cmp(">", V("x"), Cast("unsigned", N(1))), V("y"), Not(V("w")), Cmp("<", V("y"), N(0))>>

Inner == SubSeq(Tests, 1, 3) \o SubSeq(Tests, 8, 9) \o SubSeq(Tests, 12, 18)

Known == <<Assign("y", Neg(N(1))), Assign("w", N(1)), Assign("s", Cast("short", V("x")))>>
Nested(c, d) ==
  Alone(Function(<<"x", "u">>, Known \o
    <<If(c, If(d, Assign("r", V("y")), Assign("r", Two("sub", V("x"), N(1)))),
            If(d, Assign("r", V("x")), Assign("r", Cast("short", V("u"))))), Give(V("r"))>>))

-----------------------------------------------------------------------------
(* Loops.                                                                  *)

Bounds == <<Cmp("<", V("x"), N(3)), Cmp("!=", V("x"), N(3)), Two("and", Cmp("<", V("x"), N(3)), Cmp("<", V("u"), N(5))), N(1)>>
Leave(jump) == If(Cmp(">=", V("x"), N(2)), jump, NoStmt)
Bodies == <<Up("x"), Block(<<Up("x"), Leave(Jump("break"))>>), Block(<<Leave(Jump("break")), Up("x"), Leave(Jump("continue")), Up("u")>>),
            Block(<<Assign("y", V("x")), Up("x"), If(Cmp("<", V("y"), N(0)), Assign("r", N(1)), NoStmt)>>),
            Block(<<Leave(Goto("out")), Up("x")>>), Block(<<Assign("x", Two("add", V("x"), N(2))), Down("u")>>),
            Block(<<Leave(Goto("lost")), Up("x"), Down("r")>>),
            Block(<<[k |-> "switch", cond |-> V("x"), cases |-> <<Case(<<Up("x")>>), Case(<<Up("u"), Jump("break")>>)>>], Up("x")>>)>>
Kinds == <<"while", "dowhile", "for">>
Heads(kind, c) == [kind |-> kind, cond |-> c]
Looping(head, body) ==
  LET c == head.cond
      loop == CASE head.kind = "while" -> While(c, body) [] head.kind = "dowhile" -> DoWhile(c, body)
                [] OTHER -> For(Assign("r", N(2)), c, Down("r"), body)
  IN Alone(Function(<<"x">>, <<Assign("r", N(0)), Assign("u", N(2)), loop,
                               Label("out", If(Cmp("<", V("r"), N(1)), Up("r"), NoStmt)), Give(V("x"))>>))
Loops == Pairs(Looping, Pairs(Heads, Kinds, Bounds), Bodies)

-----------------------------------------------------------------------------
(* Storage that others change.                                             *)

Shared(fn) == [fn EXCEPT !.addressed = {"x"}, !.volatile = {"y"}]
Changes == <<Poke, Do("eval", "", CallOf("outside", <<>>)), Assign("r", CallOf("outside", <<>>)),
             Assign("y", N(1)), Up("y"), Assign("r", V("y")), Assign("x", CallOf("outside", <<>>))>>
Looks == <<Cmp("==", V("x"), N(1)), Cmp("==", V("y"), N(1)), Not(V("y")), Cmp("==", V("r"), N(1))>>
Look(c, d) == If(c, If(d, Assign("r", N(0)), NoStmt), NoStmt)
Outside(change, look) ==
  Alone(Shared(Function(<<>>, <<Assign("x", N(1)), Assign("y", N(1)), Assign("r", N(1)), change, Look(look, look),
                                While(Cmp("<", V("r"), N(3)), Block(<<Up("r"), change>>)), Give(V("x"))>>)))

-----------------------------------------------------------------------------
(* Helpers.                                                                *)

Helpers == <<<<Give(Two("add", V("x"), N(1)))>>,
             <<If(Cmp("<", V("x"), N(0)), Give(N(0)), NoStmt), Give(V("x"))>>,
             <<If(Cmp("==", V("x"), N(1)), Give(N(2)), NoStmt), Give(N(3))>>,
             <<If(Cmp("<", V("x"), N(1)), Give(N(0)), NoStmt), Assign("r", CallOf("helper", <<Two("sub", V("x"), N(1))>>)), Give(V("r"))>>,
             <<Up("x"), Assign("s", Cast("short", V("x"))), Give(V("s"))>>>>

\* A helper whose range shrinks by one value in every second round: more rounds
\* than there may be.
Shrinking == <<<<If(Cmp("<", V("x"), Neg(N(3))), Give(Neg(N(4))), NoStmt), Give(Two("sub", V("x"), N(1)))>>>>
Descent == <<<<Assign("r", CallOf("helper", <<Neg(N(4))>>)), Assign("r", CallOf("helper", <<V("r")>>))>>>>
Uses == <<<<Assign("r", CallOf("helper", <<N(1)>>))>>,
          <<Assign("r", CallOf("helper", <<N(1)>>)), Assign("r", CallOf("helper", <<N(2)>>))>>,
          <<Assign("r", CallOf("helper", <<N(0)>>)), Assign("r", CallOf("helper", <<V("r")>>))>>,
          <<Assign("r", N(0)), While(Cmp("<", V("r"), N(2)), Assign("r", CallOf("helper", <<V("r")>>)))>>,
          <<If(Cmp(">", V("y"), N(0)), Do("eval", "", CallOf("helper", <<V("y")>>)), NoStmt), Assign("u", CallOf("helper", <<N(2)>>)), Assign("r", V("u"))>>>>
Kept == <<[static |-> TRUE, escapes |-> FALSE], [static |-> FALSE, escapes |-> FALSE], [static |-> TRUE, escapes |-> TRUE]>>

Helper(kept, items) == kept @@ Function(<<"x">>, items)
Helped(helper, use) ==
  [helper |-> helper,
   main |-> Function(<<"y">>, use \o <<If(Cmp(">", V("r"), N(1)), Assign("r", N(1)), NoStmt), Give(V("r"))>>)]

AllPrograms == Pairs(Nested, Tests, Inner) \o Loops \o Pairs(Outside, Changes, Looks)
                 \o Pairs(Helped, Pairs(Helper, Kept, Helpers), Uses)
                 \o Pairs(Helped, Pairs(Helper, Kept, Shrinking), Descent)

\* A name for it: TLC computes the definition once, and what takes the place of
\* a constant at each use.
MCPrograms == AllPrograms

-----------------------------------------------------------------------------
\* An unsigned result compared with the -1 of a failure.
Failure == <<Alone(Function(<<"u">>, <<Assign("r", N(0)), If(Cmp("==", V("u"), Neg(N(1))), Assign("r", N(1)), NoStmt), Give(V("r"))>>))>>
=============================================================================
