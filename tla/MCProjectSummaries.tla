------------------------- MODULE MCProjectSummaries -------------------------
(* Three units.  A unit's summary is a constant, one more than what it      *)
(* imports, the opposite of what it imports (which never settles on a       *)
(* cycle), bound to its own globals (not exportable), or an exception once  *)
(* an import says "s1".                                                     *)
EXTENDS ProjectSummaries

UnitBodies == {"constant", "counts", "flips", "globals", "raises"}
UnitSummaries == {"s0", "s1", "s2", "global"}
IsExportable(s) == s # "global"

Above == [s \in UnitSummaries \cup {None} |->
            CASE s = "s0" -> "s1" [] s = "s1" -> "s2" [] s = "s2" -> "s2" [] OTHER -> "s0"]

Summary(b, imp) ==
  LET seen == {imp[q] : q \in DOMAIN imp}
  IN  CASE b = "constant" -> "s0"
        [] b = "counts" -> Above[IF "s2" \in seen THEN "s2" ELSE IF "s1" \in seen THEN "s1"
                                 ELSE IF "s0" \in seen THEN "s0" ELSE None]
        [] b = "flips" -> IF "s0" \in seen THEN "s1" ELSE "s0"
        [] b = "globals" -> "global"
        [] b = "raises" -> IF "s1" \in seen THEN "fails" ELSE "s0"
=============================================================================
