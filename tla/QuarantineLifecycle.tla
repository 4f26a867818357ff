------------------------ MODULE QuarantineLifecycle ------------------------
(***************************************************************************)
(* What the quarantine promises about each scan id, without files, slots   *)
(* or processes: an entry is quarantined at most once and leaves by one    *)
(* restore or one delete; its audit follows what happened to the file and  *)
(* never runs ahead of it.  While the audit is being written it cannot be  *)
(* read ("torn").                                                          *)
(***************************************************************************)
CONSTANT ScanIds

VARIABLES
  life,   (* What has happened to the file of each scan id. *)
  audit   (* What the audit of each scan id says of it.     *)

vars == <<life, audit>>

Lives == {"none", "quarantined", "restored", "deleted"}

LifecycleTypeOK ==
  /\ life \in [ScanIds -> Lives]
  /\ audit \in [ScanIds -> Lives \cup {"torn"}]

Init ==
  /\ life = [id \in ScanIds |-> "none"]
  /\ audit = [id \in ScanIds |-> "none"]

Quarantine(id) ==
  /\ life[id] = "none"
  /\ life' = [life EXCEPT ![id] = "quarantined"]
  /\ UNCHANGED audit

(* Only an entry whose audit says quarantined can be taken out.            *)
TakeOut(id, how) ==
  /\ life[id] = "quarantined"
  /\ audit[id] = "quarantined"
  /\ life' = [life EXCEPT ![id] = how]
  /\ UNCHANGED audit

(* The audit is rewritten only when it lags behind the file.               *)
Rewrite(id) ==
  /\ audit[id] \notin {"torn", life[id]}
  /\ audit' = [audit EXCEPT ![id] = "torn"]
  /\ UNCHANGED life

Record(id) ==
  /\ audit[id] = "torn"
  /\ audit' = [audit EXCEPT ![id] = life[id]]
  /\ UNCHANGED life

Next ==
  \E id \in ScanIds :
    \/ Quarantine(id)
    \/ \E how \in {"restored", "deleted"} : TakeOut(id, how)
    \/ Rewrite(id)
    \/ Record(id)

Spec == Init /\ [][Next]_vars

(* A file that was moved, restored or deleted is, sooner or later, audited *)
(* as such.                                                                *)
AuditCatchesUp ==
  \A id \in ScanIds : audit[id] # life[id] ~> audit[id] = life[id]
=============================================================================
