------------------------ MODULE MCConditionalBranches ------------------------
(* Sources of nested, broken and unbalanced chains over four atoms of two macros. *)
EXTENDS Conditions, TLC

NoCondition == [k |-> "malformed"]

DefA == [t |-> "defined", m |-> "A"]
DefB == [t |-> "defined", m |-> "B"]
BigA == [t |-> "predicate", m |-> "A"]
VarA == [t |-> "variable", m |-> "A"]
MCOrder == <<DefA, DefB, BigA, VarA>>

Tests == <<Atom(VarA), Or({Atom(DefB), Not(Atom(VarA))}), And({Atom(DefA), Atom(DefB)}),
           Or({Not(Atom(DefA)), Atom(DefB), Atom(BigA)}), NoCondition>>

If(c) == [k |-> "if", c |-> c]
Elif(c) == [k |-> "elif", c |-> c]
Else == [k |-> "else", c |-> NoCondition]
Endif == [k |-> "endif", c |-> NoCondition]

\* A chain with a nested one, and sources whose structure is at fault.
Nested(c1, c2, c3) == <<If(c1), If(c2), Else, Endif, Elif(c3), If(c2), Endif, Else, Endif>>
Broken(c) == <<<<If(c), Else, Elif(c), Endif>>, <<If(c), Else, Else, Endif>>, <<Endif, If(c), Endif>>,
               <<If(c), If(c)>>, <<Else, If(c), Elif(c), Endif>>>>

\* A source is named by the conditions in it.
MCSources == [s \in (1..5) \X (1..5) \X {1, 3, 5} |-> Nested(Tests[s[1]], Tests[s[2]], Tests[s[3]])]
               @@ [s \in {0} \X (1..5) \X (1..5) |-> Broken(Tests[s[2]])[s[3]]]

\* A budget no query exceeds, and one that the larger queries do.
MCScenarios == [source : DOMAIN MCSources, budget : {60}, consumer : {"rules", "witnesses"}]
                 \cup [source : {s \in DOMAIN MCSources : s[3] = 3}, budget : {7, 12}, consumer : {"rules", "witnesses"}]

MCProfiles == <<[A |-> "absent", B |-> "absent"], [A |-> "none", B |-> "absent"], [A |-> "zero", B |-> "true"],
                [A |-> "one", B |-> "absent"], [A |-> "text", B |-> "false"], [A |-> "absent", B |-> "absent"]>>
=============================================================================
