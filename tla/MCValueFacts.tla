---------------------------- MODULE MCValueFacts ----------------------------
(* Translation units over the variables x and y, with one helper or two.   *)
EXTENDS ControlFlow

Str == [k |-> "str"]
Num == [k |-> "num"]
Source == [k |-> "source"]
Other == [k |-> "unknown"]
V(v) == [k |-> "var", v |-> v]
Plus(l, r) == [k |-> "plus", l |-> l, r |-> r]
Pick(l, r) == [k |-> "pick", l |-> l, r |-> r]
CallTo(f, args) == [k |-> "call", f |-> f, args |-> args]

Do(op, v, w) == [k |-> "do", op |-> op, v |-> v, w |-> w]
Assign(v, e) == Do("set", v, e)
Eval1(e) == Do("eval", "", e)
Fill(v) == Do("fill", v, Num)
Move(v, w) == Do("move", v, V(w))
Spoil(v) == Do("spoil", v, Num)
Give(e) == [k |-> "return", e |-> e]
Jump(kind) == [k |-> kind]
Opaque == [k |-> "opaque"]
Block(items) == [k |-> "block", items |-> items]
If(yes, no) == [k |-> "if", part |-> "cond", cond |-> Opaque, yes |-> yes, no |-> no]
While(body) == [k |-> "while", cond |-> Opaque, body |-> body]
DoWhile(body) == [k |-> "dowhile", cond |-> Opaque, body |-> body]
Switch(a, b) == [k |-> "switch", cases |-> <<[default |-> FALSE, items |-> a], [default |-> FALSE, items |-> b]>>]

\* Every statement gets its place.
RECURSIVE Placed(_, _)
Placed(s, place) ==
  LET in(part, i) == Placed(part, Append(place, i))
      items(seq, i) == [j \in DOMAIN seq |-> Placed(seq[j], place \o <<i, j>>)]
      t == s @@ [at |-> place]
  IN CASE s.k = "none" -> NoStmt
       [] s.k = "block" -> [t EXCEPT !.items = items(s.items, 1)]
       [] s.k = "if" -> [t EXCEPT !.yes = in(s.yes, 1), !.no = in(s.no, 2)]
       [] s.k \in {"while", "dowhile"} -> [t EXCEPT !.body = in(s.body, 1)]
       [] s.k = "switch" -> [t EXCEPT !.cases = [i \in DOMAIN s.cases |->
                               [s.cases[i] EXCEPT !.items = items(@, i)]]]
       [] OTHER -> t

Function(params, items) == [params |-> params, body |-> Placed(Block(items), <<>>)]

\* F of every element of x with every element of y, in a sequence.  The CHOOSE
\* has TLC evaluate x and y once.
Pairs(F(_, _), x, y) ==
  CHOOSE p \in {<<>> \o [i \in 1..(Len(s) * Len(t)) |->
                           F(s[((i - 1) \div Len(t)) + 1], t[((i - 1) % Len(t)) + 1])] :
                  s \in {x}, t \in {y}} : TRUE

-----------------------------------------------------------------------------
(* One function: an operation in a branch, a loop or a case, then another. *)

Alone(items) == [names |-> <<"main">>, functions |-> [main |-> Function(<<"x">>, items)]]

Writes == <<Assign("x", Str), Assign("x", Num), Assign("x", Source), Assign("x", Other), Assign("y", V("x")),
            Assign("x", V("y")), Assign("x", Plus(V("x"), Num)), Assign("y", Plus(Str, V("x"))),
            Assign("x", Pick(Str, V("y"))), Fill("x"), Fill("y"), Move("x", "y"), Move("y", "x"), Spoil("x")>>
Shape(s, t) ==
  <<If(s, t), If(s, NoStmt), While(Block(<<s, t>>)), DoWhile(Block(<<s, If(Jump("break"), NoStmt), t>>)),
    While(Block(<<s, If(Jump("continue"), NoStmt), t>>)), Switch(<<s>>, <<t>>), Switch(<<s, Jump("break")>>, <<t>>)>>
Starting(first, s) == Alone(<<first, s, Give(V("x"))>>)
Firsts == <<Assign("y", Str), Block(<<Assign("x", Source), Assign("y", V("x"))>>)>>
AloneUnits == Pairs(Starting, Firsts, FlattenSeq(Pairs(Shape, Writes, Writes)))

-----------------------------------------------------------------------------
(* A helper that is called with every kind of value, twice.                *)

Helped(params, items, calls) ==
  [names |-> <<"f", "main">>,
   functions |-> [f |-> Function(params, items), main |-> Function(<<"x">>, calls \o <<Give(V("y"))>>)]]

Again(e) == CallTo("f", <<e>>)
Bodies == <<<<Give(V("p"))>>, <<Give(Str)>>, <<Give(Num)>>, <<Give(Source)>>, <<Give(Other)>>, <<Give(Pick(V("p"), Str))>>,
            <<Give(Plus(V("p"), Num))>>, <<Give(Plus(Str, Num))>>, <<If(Give(V("p")), NoStmt), Give(Source)>>,
            <<Assign("q", V("p")), Give(V("q"))>>, <<Fill("p"), Give(Str)>>, <<Fill("p"), Give(V("p"))>>,
            <<If(Give(V("p")), NoStmt), Give(Again(V("p")))>>, <<If(Give(Str), NoStmt), Give(Again(Source))>>,
            <<If(Eval1(Again(Other)), NoStmt), Give(V("p"))>>,
            <<If(Block(<<Assign("q", Again(Str)), Give(V("q"))>>), NoStmt), Give(V("p"))>>>>
Arguments == <<Str, Num, Source, V("x"), Plus(Str, V("x")), Pick(Str, Num)>>
TwoCalls(a, b) == <<Assign("x", Again(a)), Assign("y", Again(b))>>
Helping(body, calls) == Helped(<<"p">>, body, calls)
HelpedUnits == Pairs(Helping, Bodies, Pairs(TwoCalls, Arguments, Arguments))

-----------------------------------------------------------------------------
(* Two helpers that may call each other, and swap their parameters.        *)

Cycle(f, g, calls) ==
  [names |-> <<"f", "g", "main">>,
   functions |-> [f |-> Function(<<"p", "q">>, f), g |-> Function(<<"p", "q">>, g),
                  main |-> Function(<<"x">>, calls)]]
To(f, a, b) == CallTo(f, <<a, b>>)
FBodies == <<<<Give(To("g", V("q"), V("p")))>>, <<If(Give(V("p")), NoStmt), Give(To("g", V("q"), Str))>>,
             <<Eval1(To("g", V("p"), Source)), Give(V("q"))>>, <<Assign("q", To("g", V("q"), V("p"))), Give(V("p"))>>>>
GBodies == <<<<Give(V("p"))>>, <<If(Give(V("q")), NoStmt), Give(To("f", V("p"), V("q")))>>,
             <<If(Eval1(To("g", V("q"), V("p"))), NoStmt), Give(Str)>>,
             <<If(Eval1(To("f", V("q"), V("p"))), NoStmt), Give(V("q"))>>,
             <<If(Give(To("f", V("q"), Source)), NoStmt), Give(To("g", V("q"), V("p")))>>>>
Mains == <<<<Assign("y", To("f", Str, Source)), Give(V("y"))>>, <<Assign("y", To("g", Str, Num)), Give(To("f", V("x"), V("y")))>>,
           <<Assign("y", To("f", Str, Str)), Assign("x", To("g", Str, V("y"))), Give(V("x"))>>>>
BothBodies(f, g) == <<f, g>>
Cycling(fg, calls) == Cycle(fg[1], fg[2], calls)
CycleUnits == Pairs(Cycling, Pairs(BothBodies, FBodies, GBodies), Mains)

-----------------------------------------------------------------------------
(* A helper that hands its parameters on from place to place, too many for *)
(* the rounds, and another that it passes one of them to.                  *)

Deep(e) == [names |-> <<"f", "h", "main">>,
  functions |-> [f |-> Function(<<"p", "q", "r">>,
                                <<Eval1(CallTo("h", <<V("p")>>)), If(Eval1(CallTo("f", <<V("q"), V("r"), e>>)), NoStmt),
                                  Give(V("p"))>>),
                 h |-> Function(<<"s">>, <<Give(V("s"))>>),
                 main |-> Function(<<"x">>, <<Assign("y", CallTo("f", <<Str, Str, Str>>)), Give(V("y"))>>)]]
DeepUnits == <<Deep(Source), Deep(Other), Deep(Num), Deep(Plus(V("p"), Num))>>

MCUnits == AloneUnits \o HelpedUnits \o CycleUnits \o DeepUnits
=============================================================================
