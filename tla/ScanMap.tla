------------------------------ MODULE ScanMap ------------------------------
(***************************************************************************)
(* What one call of _scan_files_parallel or _scan_files_sequential         *)
(* promises to scan_path, whatever schedule produced it: every file gets   *)
(* one row, a row is never taken back, the call returns only once all the  *)
(* rows are there, and a row that is not the file's own can only be a      *)
(* "failed" row of a scan in which some worker was lost.                   *)
(***************************************************************************)
CONSTANTS Files,        \* the files handed to the call
          Row           \* [Files -> {"success", "failed"}], the status of each file's own row

VARIABLES rows,         \* the rows appended so far: a function on the files done
          call,         \* "running", "returned" or "raised"
          lost          \* some worker process was lost during the call

vars == <<rows, call, lost>>

Init == rows = [f \in {} |-> "failed"] /\ call = "running" /\ lost = FALSE

\* The file's own row, or a failed row standing in for a lost worker.
Deliver(f) ==
  /\ call = "running" /\ f \notin DOMAIN rows
  /\ \E r \in {Row[f]} \cup (IF lost THEN {"failed"} ELSE {}) :
       rows' = [g \in DOMAIN rows \cup {f} |-> IF g = f THEN r ELSE rows[g]]
  /\ UNCHANGED <<call, lost>>

LoseWorker == ~lost /\ lost' = TRUE /\ UNCHANGED <<rows, call>>

Return == call = "running" /\ DOMAIN rows = Files /\ call' = "returned"
          /\ UNCHANGED <<rows, lost>>

Raise == call = "running" /\ call' = "raised" /\ UNCHANGED <<rows, lost>>

Next == (\E f \in Files : Deliver(f)) \/ LoseWorker \/ Return \/ Raise

Spec == Init /\ [][Next]_vars
=============================================================================
