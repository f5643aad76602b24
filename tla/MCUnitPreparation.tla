------------------------- MODULE MCUnitPreparation -------------------------
(* Three sources under two profiles; one unit cannot be expanded and one    *)
(* cannot be parsed. The first source starts with any two units; the others *)
(* with units in the same state under both profiles.                        *)
EXTENDS UnitPreparation

CONSTANTS a, b

OneBadExpansion == {<<1, a>>}
OneBadParse == {<<2, a>>}

MCInit == Init /\ \A p \in Paths \ {1} : before[<<p, a>>] = before[<<p, b>>]
MCSpec == MCInit /\ [][Next]_vars /\ Fairness
=============================================================================
