-------------------------- MODULE QuarantineRecords --------------------------
(***************************************************************************)
(* What quarantine/records.py makes of the files in the quarantine         *)
(* directory: the record of one audit sidecar with its issues, the record  *)
(* of a scan id, and the listing.  Nothing here changes a file.            *)
(*                                                                         *)
(* A file in the directory is named after the second in which it was moved *)
(* there; a name is that second and how many times `.audit.json` ends it.  *)
(* The sidecar of <<t, k>> is <<t, k + 1>>, and a file that was called     *)
(* something.audit.json is itself at <<t, 1>>, a name that the listing     *)
(* takes for a sidecar.                                                    *)
(***************************************************************************)
EXTENDS Integers, SequencesExt

CONSTANTS
  Seconds,   (* The seconds of the moves.                                 *)
  Outside,   (* Paths outside the quarantine directory.                   *)
  Blobs,     (* Files that are not audits.                                *)
  Torn,      (* A sidecar opened for writing and not yet written.         *)
  None       (* No file, no value.                                        *)

Names == Seconds \X (0 .. 2)
Places == Outside \cup Names

ASSUME SecondsAssumption == Seconds \subseteq Nat /\ IsFiniteSet(Seconds)
ASSUME OutsideAssumption == Outside \cap Names = {} /\ None \notin Places

(* Names ending in .audit.json.                                            *)
Sidecars == {n \in Names : n[2] > 0}
SidecarOf(n) == <<n[1], n[2] + 1>>
PayloadOf(n) == <<n[1], n[2] - 1>>

RecordStates == {"quarantined", "restored", "deleted"}
EventActions == {"quarantine_move", "restore", "delete"}

(* What is read of an audit.  Versions before the lifecycle wrote no state *)
(* and no events; `other` is a string that is no state at all.             *)
Audit == [scan_id : Nat,
          state : RecordStates \cup {"none", "other"},
          original_path : Places \cup {None},
          quarantine_path : {"here", "elsewhere", "none"},
          events : Seq(EventActions)]

ASSUME ContentAssumption ==
  /\ Blobs \cap ({Torn, None} \cup Audit) = {}
  /\ Torn # None /\ Torn \notin Audit /\ None \notin Audit

Content == Blobs \cup {Torn, None} \cup Audit
IsAudit(content) == content \notin Blobs \cup {Torn, None}

-----------------------------------------------------------------------------
(* load_quarantine_record: the state and the issues of a record, from what *)
(* the sidecar says and whether the payload exists.                        *)

StateOf(audit, exists) ==
  IF audit.state \in RecordStates THEN audit.state
  ELSE IF audit.state = "none" /\ exists THEN "quarantined"
  ELSE "unknown"

(* Mutant of RecordIssues: a payload that is missing is not missed.        *)
RecordIssuesWithoutMissing(audit, exists) ==
  LET state == StateOf(audit, exists)
      found == [invalid_state_value |-> audit.state = "other",
                legacy_state_missing |-> audit.state = "none" /\ ~exists,
                payload_still_present |-> state \in {"restored", "deleted"} /\ exists,
                quarantine_path_mismatch |-> audit.quarantine_path = "elsewhere"]
  IN  {issue \in DOMAIN found : found[issue]}

RecordIssues(audit, exists) ==
  LET state == StateOf(audit, exists)
      found == [invalid_state_value |-> audit.state = "other",
                legacy_state_missing |-> audit.state = "none" /\ ~exists,
                payload_missing |-> state = "quarantined" /\ ~exists,
                payload_still_present |-> state \in {"restored", "deleted"} /\ exists,
                quarantine_path_mismatch |-> audit.quarantine_path = "elsewhere"]
  IN  {issue \in DOMAIN found : found[issue]}

RecordOf(audit, exists) ==
  [loaded |-> TRUE, scan_id |-> audit.scan_id, state |-> StateOf(audit, exists),
   payload_exists |-> exists, issues |-> RecordIssues(audit, exists)]

(* It is not JSON, not an object, or has no scan id; or it is gone.        *)
LoadFailed == [loaded |-> FALSE, issues |-> {"audit_load_failed"}]

Reading(content, exists) ==
  IF IsAudit(content) THEN RecordOf(content, exists) ELSE LoadFailed

Load(fs, n) == Reading(fs[n], fs[PayloadOf(n)] # None)

-----------------------------------------------------------------------------
(* find_quarantine_record.                                                 *)

Present(fs) == {n \in Sidecars : fs[n] # None}
Matches(fs, id) == {n \in Present(fs) : IsAudit(fs[n]) /\ fs[n].scan_id = id}

FindIssues(fs, id) ==
  (IF \E n \in Present(fs) : ~IsAudit(fs[n]) THEN {"audit_load_failed"} ELSE {})
  \cup (IF Matches(fs, id) = {} THEN {"scan_id_not_found"}
        ELSE IF Cardinality(Matches(fs, id)) > 1 THEN {"duplicate_scan_id"}
        ELSE UNION {Load(fs, n).issues : n \in Matches(fs, id)})

(* Mutant of FindRecord: the first of several records will do.             *)
FindRecordFirst(fs, id) ==
  IF Matches(fs, id) = {} THEN None
  ELSE CHOOSE n \in Matches(fs, id) : \A m \in Matches(fs, id) : n[1] <= m[1]

FindRecord(fs, id) ==
  IF Cardinality(Matches(fs, id)) = 1 THEN CHOOSE n \in Matches(fs, id) : TRUE
  ELSE None

-----------------------------------------------------------------------------
(* list_quarantine_records.                                                *)

NameBefore(m, n) == m[1] < n[1] \/ (m[1] = n[1] /\ m[2] < n[2])

AuditPaths(fs) ==
  {s \in [1 .. Cardinality(Present(fs)) -> Present(fs)] :
     /\ Range(s) = Present(fs)
     /\ \A j, k \in DOMAIN s : j < k => NameBefore(s[j], s[k])}

(* Mutant of Listed: an unreadable sidecar is not in the requested state.  *)
ListedWithoutFailures(reading, filter) ==
  reading.loaded /\ (filter = None \/ reading.state = filter)

(* What cannot be loaded is told of under every filter; the issues of a    *)
(* record only with the record.                                            *)
Listed(reading, filter) ==
  reading.loaded => filter = None \/ reading.state = filter

(* The records are in the order of the readings, one for each name.        *)
Response(readings, filter) ==
  LET listed == {r \in readings : Listed(r.reading, filter)}
      records == {r \in listed : r.reading.loaded}
  IN  [records |-> records,
       issues |-> UNION {{r} \X r.reading.issues : r \in listed},
       summary |-> [s \in RecordStates \cup {"unknown"} |->
                      Cardinality({r \in records : r.reading.state = s})]]
=============================================================================
