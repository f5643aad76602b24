------------------------- MODULE MCIncludeExpansion ------------------------
(* Three headers that include each other in every way, under one tight limit *)
(* at most, and expanded three times in two scans; and one file with any few *)
(* conditional directives before an include, expanded once without limits.   *)
EXTENDS IncludeExpansion

CONSTANTS a, b, c
Headers == {a, b, c}

Chain == {<<Text>>} \cup {<<Include(f), Text>> : f \in Headers}
           \cup {<<Include(a), Include(b), Text>>, <<Include(b), Include(a), Include(b), Text>>}
Chains == [Headers -> Chain]

Directives == {If(TRUE), If(FALSE), Elif(TRUE), Elif(FALSE), Else, Endif}
BranchesOf(s) == [f \in Headers |-> IF f = a THEN s \o <<Include(b), Text>> ELSE <<Text>>]
Branches == {BranchesOf(s) : s \in BoundedSeq(Directives, 5)}

First(f) == [unit |-> f, fresh |-> TRUE]
Then(f) == [unit |-> f, fresh |-> FALSE]
Again == <<First(a), First(b), Then(a)>>
Once == <<First(a)>>

Inputs == Chains \cup Branches
Lists == {Again, Once}

MCInit ==
  /\ Init
  /\ \/ /\ body \in Chains /\ scan = Again /\ (depth = 2 => budget = 9)
        /\ kind[a] # "unreadable" /\ kind[b] # "unreadable"
     \/ /\ body \in Branches /\ scan = Once /\ depth = 5 /\ budget = 9
        /\ \A f \in Files : kind[f] = "plain"

MCSpec == MCInit /\ [][Next]_vars /\ WF_vars(Next)
=============================================================================
