---------------------------- MODULE ScanPromise -----------------------------
(***************************************************************************)
(* What the scan of a file promises to the command that asked for it,      *)
(* without engines, archives or quarantine: it ends, with a report or with *)
(* an exception; the report tells of every conviction; and the file leaves *)
(* its place only after one, only on request, and never without a trace in *)
(* the report.  FileScan and ArchiveScan both implement it; a directory    *)
(* scan and the scan command need no more of them.                         *)
(***************************************************************************)
CONSTANT Statuses

VARIABLES
  mayMove,   (* Whether a move into quarantine was asked for, not a dry run. *)
  phase,     (* "scanning", "done" with a report, "raised" without.          *)
  convicted, (* Whether an engine is certain of malice in the file or in     *)
             (* what it contains.                                            *)
  moved,     (* Whether the file is in quarantine.                           *)
  report     (* [status, performed], once it is done.                        *)

vars == <<mayMove, phase, convicted, moved, report>>

NoReport == [status |-> "none", performed |-> FALSE]

Init ==
  /\ mayMove \in BOOLEAN
  /\ phase = "scanning"
  /\ convicted = FALSE
  /\ moved = FALSE
  /\ report = NoReport

(* The file stays where it is, or it is convicted and goes into quarantine.*)
StayOrLeave == moved' = moved \/ (mayMove /\ convicted' /\ moved')

(* The engines look on; what one of them found stays found.                *)
Look ==
  /\ phase = "scanning"
  /\ convicted' \in BOOLEAN /\ (convicted => convicted')
  /\ StayOrLeave
  /\ UNCHANGED <<mayMove, phase, report>>

(* A conviction is known_malicious or hidden by scan_error, nothing else   *)
(* is known_malicious, and a file that left says so or is a scan_error.    *)
Honest(r) ==
  /\ r.status = "known_malicious" => convicted
  /\ convicted => r.status \in {"known_malicious", "scan_error"}
  /\ r.performed => moved'
  /\ moved' => r.performed \/ r.status = "scan_error"

Report ==
  /\ phase = "scanning"
  /\ phase' = "done"
  /\ StayOrLeave
  /\ report' \in [status : Statuses, performed : BOOLEAN]
  /\ Honest(report')
  /\ UNCHANGED <<mayMove, convicted>>

Raise ==
  /\ phase = "scanning"
  /\ phase' = "raised"
  /\ StayOrLeave
  /\ UNCHANGED <<mayMove, convicted, report>>

Next == Look \/ Report \/ Raise

Ends == <>(phase # "scanning")

Safety == Init /\ [][Next]_vars
Spec == Safety /\ Ends
=============================================================================
