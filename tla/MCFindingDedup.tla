--------------------------- MODULE MCFindingDedup ---------------------------
(* One line of a header, with up to two precise sites and two messages.     *)
EXTENDS FindingDedup

Few(n) == {s \in RawFindings : Len(s) <= n}
Scan(ps, found) == [profiles |-> ps, raw |-> found]

\* Two files without profiles.
NoProfiles == {Scan({}, r) : r \in [Files -> [{0} -> RawFindings]]}

\* One file under two profiles.
TwoProfiles == {Scan({1, 2}, [f \in Files |-> IF f = 2 THEN r ELSE [p \in {1, 2} |-> Nothing]]) : r \in [{1, 2} -> RawFindings]}

\* Two files under two profiles, and three profiles that find the same.
FewOfEach == {Scan({1, 2}, r) : r \in [Files -> [{1, 2} -> Few(1)]]}
AllTheSame == {Scan({1, 2, 3}, [f \in Files |-> [p \in {1, 2, 3} |-> s]]) : s \in RawFindings}

MCInputs == NoProfiles \cup TwoProfiles \cup FewOfEach \cup AllTheSame
=============================================================================
