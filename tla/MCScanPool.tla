----------------------------- MODULE MCScanPool -----------------------------
(* Instances of ScanPool: three files, of which one is scanned, one has a   *)
(* row with status "failed" and one raises in its worker.                   *)
EXTENDS ScanPool

MCOutcome == <<"success", "failed", "raised">>
=============================================================================
