-------------------------- MODULE MCLegacyDataflow --------------------------
(* Functions over two pointers: loops, branches, switches, reallocations    *)
(* and gotos; what becomes of parameters; checked and unchecked input.      *)
EXTENDS SecurityDataflow

\* "copy" and "resize" take the other pointer.
Do(op, v) == [k |-> "do", op |-> op, v |-> v, w |-> IF v = "p" THEN "q" ELSE "p"]
Jump(kind) == [k |-> kind]
Goto(name) == [k |-> "goto", name |-> name]
Label(name, s) == [k |-> "label", name |-> name, body |-> s]
Block(items) == [k |-> "block", items |-> items]
If(c, yes, no) == [k |-> "if", part |-> "cond", cond |-> c, yes |-> yes, no |-> no]
Loop(kind, c, body) == [k |-> kind, cond |-> c, body |-> body]
For(c, step, body) == [k |-> "for", cond |-> c, init |-> Do("any", "q"), step |-> step, body |-> body]
Switch(cases) == [k |-> "switch", cases |-> cases]
Case(items) == [default |-> FALSE, items |-> items]
Default(items) == [default |-> TRUE, items |-> items]

\* Every statement gets its place.
RECURSIVE Placed(_, _)
Placed(s, place) ==
  LET in(part, i) == Placed(part, Append(place, i))
      items(seq, i) == [j \in DOMAIN seq |-> Placed(seq[j], place \o <<i, j>>)]
      t == s @@ [at |-> place]
  IN CASE s.k = "none" -> NoStmt
       [] s.k = "block" -> [t EXCEPT !.items = items(s.items, 1)]
       [] s.k = "if" -> [t EXCEPT !.yes = in(s.yes, 1), !.no = in(s.no, 2)]
       [] s.k \in {"while", "dowhile", "label"} -> [t EXCEPT !.body = in(s.body, 1)]
       [] s.k = "for" -> [t EXCEPT !.body = in(s.body, 1), !.init = in(s.init, 2), !.step = in(s.step, 3)]
       [] s.k = "switch" -> [t EXCEPT !.cases = [i \in DOMAIN s.cases |->
                               [s.cases[i] EXCEPT !.items = items(@, i)]]]
       [] OTHER -> t

Opaque == [k |-> "opaque"]
Var(v) == [k |-> "var", v |-> v]
Check(v) == [k |-> "check", v |-> v]
Not(e) == [k |-> "not", e |-> e]
And(l, r) == [k |-> "and", l |-> l, r |-> r]
Or(l, r) == [k |-> "or", l |-> l, r |-> r]
Tern(c, a, b) == [k |-> "tern", c |-> c, a |-> a, b |-> b]

Function(first, s, last) ==
  [body |-> Placed(Block(<<first, s, Label("out", last)>>), <<>>), summaries |-> TRUE, params |-> {}]

-----------------------------------------------------------------------------
\* F of every element of x with every element of y, in a sequence.  The CHOOSE
\* has TLC evaluate x and y once.
Pairs(F(_, _), x, y) ==
  CHOOSE r \in {<<>> \o [i \in 1..(Len(s) * Len(t)) |->
                           F(s[((i - 1) \div Len(t)) + 1], t[((i - 1) % Len(t)) + 1])] :
                  s \in {x}, t \in {y}} : TRUE

-----------------------------------------------------------------------------
(* Loops, whose bodies hold a jump that is taken or not.                   *)

Simple == <<Do("alloc", "p"), Do("free", "p"), Do("copy", "q")>>
Around == <<Jump("break"), Jump("continue")>>
Jumps == Around \o <<Jump("return"), Goto("out"), Goto("lost")>>
Perhaps(jump) == If(Opaque, jump, NoStmt)
JumpAfter(s, j) == Block(<<s, Perhaps(j), Do("use", "p")>>)
JumpBefore(s, j) == Block(<<Perhaps(j), s>>)
JumpAlways(s, j) == Block(<<s, j, Do("free", "p")>>)

\* The next round allocates while q holds the freed object of the last.
Rounds(v, j) == Block(<<Do("alloc", "p"), Perhaps(j), Do("copy", "q"), Do("free", v)>>)

Bodies == Simple \o <<Block(<<>>)>> \o Pairs(Rounds, <<"p", "q">>, Jumps) \o Pairs(JumpAfter, Simple, Jumps)
            \o Pairs(JumpBefore, Simple, Jumps) \o Pairs(JumpAlways, Simple, Around)

Kinds == <<"while", "dowhile", "for", "forstep">>
Looping(kind, body) ==
  CASE kind = "for" -> For(Opaque, NoStmt, body)
    [] kind = "forstep" -> For(Opaque, Do("free", "q"), body)
    [] OTHER -> Loop(kind, Opaque, body)

LoopFunction(kind, body) == Function(Do("alloc", "p"), Looping(kind, body), Do("use", "p"))
LoopFunctions == Pairs(LoopFunction, Kinds, Bodies)

-----------------------------------------------------------------------------
(* Tests of pointers, with ternaries too, and branches that free or leave. *)

Tests == <<Var("p"), Not(Var("p")), And(Var("p"), Opaque), Not(And(Var("p"), Opaque)),
           Or(Not(Var("p")), Opaque), And(Var("p"), Var("q")), Or(Var("p"), Var("q")), Check("p"),
           Tern(Opaque, Var("p"), Not(Var("p"))), Tern(Var("p"), Opaque, Var("q"))>>
Yes == <<Block(<<>>), Do("free", "p"), Do("null", "p"), Do("copy", "q"), Do("assert", "p"),
         Jump("exit"), Goto("out"), Label("in", Do("use", "q"))>>
No == <<NoStmt, Do("free", "q"), Do("alloc", "p")>>
Starts == <<Block(<<Do("alloc", "p"), Do("any", "q")>>), Block(<<Do("any", "p"), Do("copy", "q")>>),
            Block(<<Do("alloc", "p"), Do("copy", "q")>>)>>

Arms(yes, no) == <<yes, no>>
Branches == Pairs(Arms, Yes, No)
Branching(c, arms) == If(c, arms[1], arms[2])
Ifs == Pairs(Branching, Tests, Branches)
IfFunction(first, s) == Function(first, s, Do("use", "p"))
IfFunctions == Pairs(IfFunction, Starts, Ifs)

-----------------------------------------------------------------------------
(* Switches: cases that fall through or leave, with a default or without.  *)

Sections == <<<<>>, <<Do("free", "p")>>, <<Do("alloc", "p"), Jump("break")>>,
              <<Perhaps(Jump("break")), Do("null", "p")>>, <<Jump("return")>>,
              <<Do("copy", "q"), Jump("continue")>>, <<Goto("out")>>>>
TwoCases(a, b) == <<Case(a), Case(b)>>
DefaultFirst(a, b) == <<Default(a), Case(b)>>
DefaultLast(a, b) == <<Case(a), Default(b)>>
Switches == Pairs(TwoCases, Sections, Sections) \o Pairs(DefaultFirst, Sections, Sections)
              \o Pairs(DefaultLast, Sections, Sections)
SwitchFunction(start, cases) ==
  Function(start, Loop("dowhile", Opaque, Switch(cases)), Do("use", "p"))
SwitchFunctions == Pairs(SwitchFunction, <<Do("alloc", "p")>>, Switches)

-----------------------------------------------------------------------------
(* Reallocations whose outcome is tested, and loops made of gotos.         *)

Resized == <<Var("q"), Not(Var("q")), Opaque, And(Var("q"), Opaque)>>
After == <<NoStmt, Do("free", "p"), Do("free", "q"), Do("use", "p"), Do("use", "q"), Jump("return")>>
Outcome == Pairs(Arms, After, After)
Resizing(c, arms) == Block(<<Do("resize", "q"), If(c, arms[1], arms[2])>>)
Resizings == Pairs(Resizing, Resized, Outcome)
ResizeFunction(start, s) == Function(start, s, Do("use", "p"))
ResizeFunctions == Pairs(ResizeFunction, <<Do("alloc", "p"), Do("any", "p")>>, Resizings)

Again(s, c) == Label("again", Block(<<s, If(c, Goto("again"), NoStmt)>>))
AgainFunctions == Pairs(ResizeFunction, <<Do("alloc", "p"), Do("any", "p")>>,
                        Pairs(Again, Simple \o <<Do("resize", "q")>>, <<Opaque, Var("p"), Var("q")>>))

-----------------------------------------------------------------------------
(* What becomes of the parameters p and q: functions that end in a branch, *)
(* a loop or a switch, after a copy or not.                                *)

Return(v) == [k |-> "return", v |-> v]
Taking(params, first, s) ==
  [body |-> Placed(Block(<<first, s>>), <<>>), summaries |-> TRUE, params |-> params]
Owning(first, s) == Taking({"p", "q"}, first, s)

Fates == <<NoStmt, Do("free", "p"), Do("give", "p"), Do("keep", "p"), Do("lend", "p"), Do("perhaps", "p"),
           Do("resize", "q"), Do("store", "p"), Do("part", "p"), Do("null", "p"), Do("free", "q"),
           Do("use", "q"), Return("p"), Return("q")>>
Conditions == <<Opaque, Var("p")>>
Firsts == <<NoStmt, Do("copy", "q"), Do("store", "p"), Block(<<Do("resize", "q"), Do("keep", "q")>>)>>
Either(c, arms) == If(c, arms[1], arms[2])
Fated == Pairs(Arms, Fates, Fates)
FateBranches == Pairs(Owning, Firsts, Pairs(Either, <<Opaque>>, Fated))
                  \o Pairs(Owning, <<NoStmt>>, Pairs(Either, <<Var("p")>>, Fated))

\* The branch is followed by one more statement.
Then(arms, last) == Block(<<If(Opaque, arms[1], arms[2]), last>>)
Lasts == <<Do("free", "q"), Do("store", "p"), Block(<<Do("use", "q"), Return("p")>>)>>
FateThen == Pairs(Owning, <<NoStmt, Do("copy", "q")>>,
                  Pairs(Then, Pairs(Arms, Fates, <<NoStmt, Return("q")>>), Lasts))

FateLoop(kind, s) == Looping(kind, s)
FateBodies == Fates \o Pairs(JumpBefore, Fates, <<Jump("break"), Jump("return")>>)
FateLoops == Pairs(Owning, <<NoStmt, Do("copy", "q")>>, Pairs(FateLoop, <<"while", "dowhile", "for">>, FateBodies))

FateCases(a, b) == Switch(<<Case(a), Default(b)>>)
FateSections == <<<<Do("free", "p")>>, <<Do("give", "p"), Jump("break")>>, <<Return("p")>>, <<Jump("break")>>>>
FateSwitches == Pairs(Owning, <<NoStmt>>, Pairs(FateCases, FateSections, FateSections))

FateFunctions == FateBranches \o FateThen \o FateLoops \o FateSwitches

-----------------------------------------------------------------------------
(* Data from outside that is checked or not, and reaches a sink.           *)

Local(first, s) == Taking({}, first, s)
Inputs == <<Do("source", "p"), Block(<<Do("source", "q"), Do("copy", "p")>>),
            Block(<<Do("null", "q"), Do("either", "p")>>), Block(<<Do("source", "q"), Do("through", "p")>>)>>
Checks == <<Check("p"), Not(Check("p")), And(Check("p"), Opaque), Or(Check("p"), Opaque),
            Not(And(Opaque, Check("p"))), Or(Not(Check("p")), Opaque), Check("q"), Or(Check("p"), Check("q")),
            And(Check("p"), Check("p")), Not(Or(Not(Check("p")), Var("p"))),
            Tern(Opaque, Check("p"), Not(Check("p"))), Tern(Check("p"), Opaque, Check("p"))>>
Treatments == <<Block(<<>>), Do("lend", "q"), Do("sink", "p"), Do("copy", "p"), Do("copy", "q"), Do("null", "p"),
                Do("source", "p"), Do("through", "q"), Jump("return")>>
Guarded(c, arms) == Block(<<If(c, arms[1], arms[2]), Do("sink", "p")>>)
GuardedSinks == Pairs(Local, Inputs, Pairs(Guarded, Checks, Pairs(Arms, Treatments, <<NoStmt, Do("sink", "p"), Jump("return")>>)))

CheckLoop(kind, arms) ==
  Block(<<Loop(kind, Check("p"), Block(<<arms[1], arms[2]>>)), Do("sink", "p")>>)
CheckLoops == Pairs(Local, Inputs, Pairs(CheckLoop, <<"while", "dowhile">>,
                      Pairs(Arms, Treatments, <<Do("sink", "p"), Do("sink", "q"), Perhaps(Jump("break"))>>)))

Validating == If(Check("p"), Do("lend", "p"), Jump("return"))
InLoop(c, s) == Block(<<Loop("while", c, Block(<<Validating, s>>)), Do("sink", "p")>>)
ValidatedInLoops == Pairs(Local, Inputs, Pairs(InLoop, <<Opaque, Check("p")>>, Treatments))

InCase(a, b) == Block(<<Switch(<<Case(<<Validating>> \o a), Default(b)>>), Do("sink", "p")>>)
ValidatedInCases == Pairs(Local, Inputs, Pairs(InCase, <<<<>>, <<Jump("break")>>, <<Do("source", "p")>>>>,
                      <<<<>>, <<Validating>>, <<Do("null", "p")>>, <<Jump("return")>>>>))

Retry(s, c) == Block(<<Again(Block(<<s, Do("sink", "p")>>), c), Do("null", "p"), Goto("lost"), Do("sink", "p")>>)
Retries == Pairs(Local, Inputs, Pairs(Retry, Treatments, <<Check("p"), Not(Check("p"))>>))

SecurityFunctions == GuardedSinks \o CheckLoops \o ValidatedInLoops \o ValidatedInCases \o Retries

MCFunctions == LoopFunctions \o IfFunctions \o SwitchFunctions \o ResizeFunctions \o AgainFunctions
                 \o FateFunctions \o SecurityFunctions
=============================================================================
