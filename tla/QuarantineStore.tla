--------------------------- MODULE QuarantineStore ---------------------------
(***************************************************************************)
(* The quarantine directory of ScanBox and the processes that use it.      *)
(*                                                                         *)
(* A process is one CLI invocation: a scanner runs `scan --quarantine`     *)
(* and may move its target into quarantine, a restorer runs `quarantine    *)
(* restore`, a deleter runs `quarantine delete`.  Nothing locks the        *)
(* directory, so every file-system call is a step of its own and the steps *)
(* of several processes interleave.  A process may stop after any of them. *)
(*                                                                         *)
(* A quarantine entry is a payload and, next to it, an audit sidecar; both *)
(* are named after the second of the move and the base name of the file.   *)
(* That pair is a slot.  The scan_id of an entry is the scanner that made  *)
(* it (core.models gives every report a fresh one).                        *)
(***************************************************************************)
EXTENDS Naturals, Sequences

CONSTANTS
  Scanners,   (* Invocations of `scan`; also the scan ids.               *)
  Restorers,  (* Invocations of `quarantine restore`.                    *)
  Deleters,   (* Invocations of `quarantine delete`.                     *)
  Paths,      (* Paths outside the quarantine directory.                 *)
  NoParent,   (* Those whose directory does not exist.                   *)
  Remote,     (* Those on another volume than the quarantine directory.  *)
  Names,      (* Base names of files.                                    *)
  NameOf,     (* The base name of each path.                             *)
  Files,      (* File contents.                                          *)
  Malicious,  (* The contents some engine knows to be malicious.         *)
  ScanModes,  (* The <<--quarantine mode, --quarantine-dry-run>> in use. *)
  Fallible,   (* The processes an OSError or a kill may stop.            *)
  MaxClock,   (* Bound on the clock, in seconds.                         *)
  MaxEdits,   (* Bound on the changes users make to their own files.     *)
  None,       (* No file, no sidecar, no value.                          *)
  Partial,    (* The content of a file that is still being copied.       *)
  Torn,       (* A sidecar opened for writing and not yet written.       *)
  Original    (* No --output: restore to the recorded original path.     *)

Mutators == Restorers \cup Deleters
Procs == Scanners \cup Mutators
Slots == (0 .. MaxClock) \X Names
Content == Files \cup {Partial}

ASSUME ProcsAssumption ==
  /\ Scanners \cap Mutators = {}
  /\ Restorers \cap Deleters = {}
  /\ None \notin Procs

ASSUME PathsAssumption ==
  /\ NoParent \subseteq Paths
  /\ Remote \subseteq Paths
  /\ NameOf \in [Paths -> Names]
  /\ Original \notin Paths
  /\ None \notin Slots

ASSUME ContentAssumption ==
  /\ Malicious \subseteq Files
  /\ None \notin Content
  /\ Partial \notin Files

ASSUME BoundsAssumption ==
  /\ MaxClock \in Nat
  /\ MaxEdits \in Nat
  /\ ScanModes \subseteq {"off", "ask", "move"} \X BOOLEAN

(* What the lifecycle reads of a sidecar; `events` keeps the sequence of   *)
(* the events' actions.                                                    *)
EventActions == {"quarantine_move", "restore", "delete"}
RecordStates == {"quarantined", "restored", "deleted"}
AuditRecord == [scan_id : Scanners, original_path : Paths,
                state : RecordStates, events : Seq(EventActions)]

ASSUME SidecarAssumption ==
  /\ None \notin AuditRecord
  /\ Torn \notin AuditRecord
  /\ None # Torn

VARIABLES
  clock,    (* The current second.                                         *)
  user,     (* The file at each path outside the quarantine directory.     *)
  edits,    (* How many changes users have made.                           *)
  payload,  (* The payload at each slot.                                   *)
  sidecar,  (* The sidecar at each slot.                                   *)
  request,  (* The command line of each process.                           *)
  pc,       (* What each process does next, or how it ended.               *)
  hit,      (* Whether the scan of a scanner found its target malicious.   *)
  slot,     (* The slot each process works on.                             *)
  data,     (* The content a process is copying between volumes.           *)
  draft,    (* The record a mutator has read.                              *)
  claimed,  (* History: the scanners that have put a file at their slot.   *)
  acted     (* History: the processes whose move or unlink is complete.    *)

files == <<user, payload>>
history == <<claimed, acted>>
vars == <<clock, user, edits, payload, sidecar, request, pc, hit, slot, data,
          draft, claimed, acted>>

ScanRequest == [path : Paths, mode : ScanModes]
RestoreRequest == [scan_id : Scanners, output : Paths \cup {Original}]
DeleteRequest == [scan_id : Scanners, confirmed : BOOLEAN]

ScanPcs == {"hash", "engines", "apply", "declined", "move", "copying",
            "copied", "open", "write", "done", "failed"}
RestorePcs == {"find", "refused", "check", "move", "copying", "copied",
               "read", "open", "write", "done", "failed"}
DeletePcs == {"confirm", "find", "refused", "unlink", "read", "open",
              "write", "done", "failed"}

Init ==
  /\ clock = 0
  /\ user \in {u \in [Paths -> Files \cup {None}] :
                 \A p \in NoParent : u[p] = None}
  /\ edits = 0
  /\ payload = [s \in Slots |-> None]
  /\ sidecar = [s \in Slots |-> None]
  /\ \E scan \in [Scanners -> ScanRequest],
        restore \in [Restorers -> RestoreRequest],
        delete \in [Deleters -> DeleteRequest] :
       request = [i \in Procs |-> IF i \in Scanners THEN scan[i]
                                  ELSE IF i \in Restorers THEN restore[i]
                                  ELSE delete[i]]
  /\ pc = [i \in Procs |-> IF i \in Scanners THEN "hash"
                           ELSE IF i \in Restorers THEN "find"
                           ELSE "confirm"]
  /\ hit = [i \in Scanners |-> FALSE]
  /\ slot = [i \in Procs |-> None]
  /\ data = [i \in Procs |-> None]
  /\ draft = [i \in Mutators |-> None]
  /\ claimed = {}
  /\ acted = {}

Goto(i, from, to) ==
  /\ pc[i] = from
  /\ pc' = [pc EXCEPT ![i] = to]

-----------------------------------------------------------------------------
(* A scanner: hash the target, run the engines, apply the quarantine mode. *)

PathOf(i) == request[i].path

(* The target is opened and hashed; a target that is not there is refused. *)
Hash(i) ==
  /\ Goto(i, "hash", IF user[PathOf(i)] = None THEN "failed" ELSE "engines")
  /\ UNCHANGED <<clock, files, edits, sidecar, request, hit, slot, data, draft,
                 history>>

(* The engines open the target by its path, some time after it was hashed. *)
RunEngines(i) ==
  /\ Goto(i, "engines", "apply")
  /\ hit' = [hit EXCEPT ![i] = user[PathOf(i)] \in Malicious]
  /\ UNCHANGED <<clock, files, edits, sidecar, request, slot, data, draft,
                 history>>

(* The destination is named before the mode and the verdict are looked at; *)
(* only `move`, not dry, of a known malicious target goes on.              *)
MaybeApply(i) ==
  /\ Goto(i, "apply", IF hit[i] /\ request[i].mode = <<"move", FALSE>>
                      THEN "move" ELSE "declined")
  /\ slot' = [slot EXCEPT ![i] = <<clock, NameOf[PathOf(i)]>>]
  /\ UNCHANGED <<clock, files, edits, sidecar, request, hit, data, draft,
                 history>>

(* Mutant of MoveIn: the move is the end, no audit is written.             *)
MoveInWithoutAudit(i) ==
  /\ Goto(i, "move", "done")
  /\ PathOf(i) \notin Remote
  /\ user[PathOf(i)] # None
  /\ payload' = [payload EXCEPT ![slot[i]] = user[PathOf(i)]]
  /\ user' = [user EXCEPT ![PathOf(i)] = None]
  /\ claimed' = claimed \cup {i}
  /\ acted' = acted \cup {i}
  /\ UNCHANGED <<clock, edits, sidecar, request, hit, slot, data, draft>>

(* shutil.move on one volume: a rename, which replaces its destination.    *)
MoveIn(i) ==
  /\ Goto(i, "move", "open")
  /\ PathOf(i) \notin Remote
  /\ user[PathOf(i)] # None
  /\ payload' = [payload EXCEPT ![slot[i]] = user[PathOf(i)]]
  /\ user' = [user EXCEPT ![PathOf(i)] = None]
  /\ claimed' = claimed \cup {i}
  /\ acted' = acted \cup {i}
  /\ UNCHANGED <<clock, edits, sidecar, request, hit, slot, data, draft>>

(* shutil.move between volumes: copy over the destination, then unlink.    *)
BeginCopyIn(i) ==
  /\ Goto(i, "move", "copying")
  /\ PathOf(i) \in Remote
  /\ user[PathOf(i)] # None
  /\ data' = [data EXCEPT ![i] = user[PathOf(i)]]
  /\ payload' = [payload EXCEPT ![slot[i]] = Partial]
  /\ claimed' = claimed \cup {i}
  /\ UNCHANGED <<clock, user, edits, sidecar, request, hit, slot, draft, acted>>

EndCopyIn(i) ==
  /\ Goto(i, "copying", "copied")
  /\ payload' = [payload EXCEPT ![slot[i]] = data[i]]
  /\ UNCHANGED <<clock, user, edits, sidecar, request, hit, slot, data, draft,
                 history>>

UnlinkSource(i) ==
  /\ Goto(i, "copied", "open")
  /\ user[PathOf(i)] # None
  /\ user' = [user EXCEPT ![PathOf(i)] = None]
  /\ acted' = acted \cup {i}
  /\ UNCHANGED <<clock, edits, payload, sidecar, request, hit, slot, data,
                 draft, claimed>>

(* write_text truncates the sidecar when it opens it ...                   *)
OpenAudit(i) ==
  /\ Goto(i, "open", "write")
  /\ sidecar' = [sidecar EXCEPT ![slot[i]] = Torn]
  /\ UNCHANGED <<clock, files, edits, request, hit, slot, data, draft, history>>

(* Mutant of NewRecord: the state is named after the event.                *)
NewRecordMoved(i) ==
  [scan_id |-> i, original_path |-> PathOf(i), state |-> "quarantine_move",
   events |-> <<"quarantine_move">>]

(* ... and then writes a new record, whatever was there before.            *)
NewRecord(i) ==
  [scan_id |-> i, original_path |-> PathOf(i), state |-> "quarantined",
   events |-> <<"quarantine_move">>]

WriteAudit(i) ==
  /\ Goto(i, "write", "done")
  /\ sidecar' = [sidecar EXCEPT ![slot[i]] = NewRecord(i)]
  /\ UNCHANGED <<clock, files, edits, request, hit, slot, data, draft, history>>

-----------------------------------------------------------------------------
(* Loading records.  A sidecar that is torn cannot be loaded and is        *)
(* reported and skipped.                                                   *)

Loadable(s) == sidecar[s] \notin {None, Torn}

Matches(id) == {s \in Slots : Loadable(s) /\ sidecar[s].scan_id = id}

RecordIssues(s) ==
  (IF sidecar[s].state = "quarantined" /\ payload[s] = None
   THEN {"payload_missing"} ELSE {})
  \cup
  (IF sidecar[s].state # "quarantined" /\ payload[s] # None
   THEN {"payload_still_present"} ELSE {})

(* Only a quarantined record whose payload is there may be changed.        *)
Mutable(s) == sidecar[s].state = "quarantined" /\ payload[s] # None

(* The one record that has the requested scan_id, if it may be changed.    *)
Found(j, s) == Matches(request[j].scan_id) = {s} /\ Mutable(s)

FindRecord(j, s) ==
  /\ Goto(j, "find", IF j \in Restorers THEN "check" ELSE "unlink")
  /\ Found(j, s)
  /\ slot' = [slot EXCEPT ![j] = s]
  /\ draft' = [draft EXCEPT ![j] = sidecar[s]]
  /\ UNCHANGED <<clock, files, edits, sidecar, request, hit, data, history>>

FindNothing(j) ==
  /\ Goto(j, "find", "refused")
  /\ ~ \E s \in Slots : Found(j, s)
  /\ UNCHANGED <<clock, files, edits, sidecar, request, hit, slot, data, draft,
                 history>>

-----------------------------------------------------------------------------
(* A restorer: find the record, look at the target, move, update the audit.*)

TargetOf(r) == IF request[r].output = Original THEN draft[r].original_path
               ELSE request[r].output

CheckTarget(r) ==
  /\ Goto(r, "check", IF user[TargetOf(r)] # None \/ TargetOf(r) \in NoParent
                      THEN "refused" ELSE "move")
  /\ UNCHANGED <<clock, files, edits, sidecar, request, hit, slot, data, draft,
                 history>>

(* Mutant of MoveOut: the payload is copied and stays.                     *)
MoveOutCopies(r) ==
  /\ Goto(r, "move", "read")
  /\ TargetOf(r) \notin Remote
  /\ payload[slot[r]] # None
  /\ user' = [user EXCEPT ![TargetOf(r)] = payload[slot[r]]]
  /\ acted' = acted \cup {r}
  /\ UNCHANGED <<clock, payload, edits, sidecar, request, hit, slot, data,
                 draft, claimed>>

(* The target is not looked at again: a rename replaces what is there now. *)
MoveOut(r) ==
  /\ Goto(r, "move", "read")
  /\ TargetOf(r) \notin Remote
  /\ payload[slot[r]] # None
  /\ user' = [user EXCEPT ![TargetOf(r)] = payload[slot[r]]]
  /\ payload' = [payload EXCEPT ![slot[r]] = None]
  /\ acted' = acted \cup {r}
  /\ UNCHANGED <<clock, edits, sidecar, request, hit, slot, data, draft,
                 claimed>>

BeginCopyOut(r) ==
  /\ Goto(r, "move", "copying")
  /\ TargetOf(r) \in Remote
  /\ payload[slot[r]] # None
  /\ data' = [data EXCEPT ![r] = payload[slot[r]]]
  /\ user' = [user EXCEPT ![TargetOf(r)] = Partial]
  /\ UNCHANGED <<clock, edits, payload, sidecar, request, hit, slot, draft,
                 history>>

EndCopyOut(r) ==
  /\ Goto(r, "copying", "copied")
  /\ user' = [user EXCEPT ![TargetOf(r)] = data[r]]
  /\ UNCHANGED <<clock, edits, payload, sidecar, request, hit, slot, data,
                 draft, history>>

(* Mutant of UnlinkPayload: unlink with missing_ok.                        *)
UnlinkPayloadMissingOk(j) ==
  /\ Goto(j, IF j \in Restorers THEN "copied" ELSE "unlink", "read")
  /\ payload' = [payload EXCEPT ![slot[j]] = None]
  /\ acted' = acted \cup {j}
  /\ UNCHANGED <<clock, user, edits, sidecar, request, hit, slot, data, draft,
                 claimed>>

(* The payload goes: the end of a copy out, or the whole of a delete.      *)
UnlinkPayload(j) ==
  /\ Goto(j, IF j \in Restorers THEN "copied" ELSE "unlink", "read")
  /\ payload[slot[j]] # None
  /\ payload' = [payload EXCEPT ![slot[j]] = None]
  /\ acted' = acted \cup {j}
  /\ UNCHANGED <<clock, user, edits, sidecar, request, hit, slot, data, draft,
                 claimed>>

(* Mutant of Confirm: --yes is not looked at.                              *)
ConfirmAnyway(d) ==
  /\ Goto(d, "confirm", "find")
  /\ UNCHANGED <<clock, files, edits, sidecar, request, hit, slot, data, draft,
                 history>>

(* Without --yes nothing is even looked up.                                *)
Confirm(d) ==
  /\ Goto(d, "confirm", IF request[d].confirmed THEN "find" ELSE "refused")
  /\ UNCHANGED <<clock, files, edits, sidecar, request, hit, slot, data, draft,
                 history>>

(* update_audit_state reads the sidecar again and appends one event.  It   *)
(* does not look at the state it replaces.                                 *)
ReadAudit(j) ==
  /\ Goto(j, "read", "open")
  /\ Loadable(slot[j])
  /\ draft' = [draft EXCEPT ![j] = sidecar[slot[j]]]
  /\ UNCHANGED <<clock, files, edits, sidecar, request, hit, slot, data,
                 history>>

ReadAuditFails(j) ==
  /\ Goto(j, "read", "failed")
  /\ ~Loadable(slot[j])
  /\ UNCHANGED <<clock, files, edits, sidecar, request, hit, slot, data, draft,
                 history>>

(* Mutant of EndState: the two end states are confused.                    *)
EndStateSwapped(j) == IF j \in Restorers THEN "deleted" ELSE "restored"

EndState(j) == IF j \in Restorers THEN "restored" ELSE "deleted"
EndEvent(j) == IF j \in Restorers THEN "restore" ELSE "delete"

(* Mutants of UpdatedRecord: the state stays as it was read; the history   *)
(* starts anew.                                                            *)
UpdatedRecordKeepsState(j) ==
  [scan_id |-> draft[j].scan_id,
   original_path |-> draft[j].original_path,
   state |-> draft[j].state,
   events |-> Append(draft[j].events, EndEvent(j))]

UpdatedRecordNewHistory(j) ==
  [scan_id |-> draft[j].scan_id,
   original_path |-> draft[j].original_path,
   state |-> EndState(j),
   events |-> <<EndEvent(j)>>]

UpdatedRecord(j) ==
  [scan_id |-> draft[j].scan_id,
   original_path |-> draft[j].original_path,
   state |-> EndState(j),
   events |-> Append(draft[j].events, EndEvent(j))]

UpdateAudit(j) ==
  /\ Goto(j, "write", "done")
  /\ sidecar' = [sidecar EXCEPT ![slot[j]] = UpdatedRecord(j)]
  /\ UNCHANGED <<clock, files, edits, request, hit, slot, data, draft, history>>

-----------------------------------------------------------------------------
(* Failures and the world around the processes.                            *)

(* The file to move, copy or unlink is gone: an OSError.                   *)
SourceGone(i) ==
  \/ i \in Scanners /\ pc[i] \in {"move", "copied"} /\ user[PathOf(i)] = None
  \/ i \in Mutators /\ pc[i] \in {"move", "copied", "unlink"}
                    /\ payload[slot[i]] = None

SourceMissing(i) ==
  /\ SourceGone(i)
  /\ pc' = [pc EXCEPT ![i] = "failed"]
  /\ UNCHANGED <<clock, files, edits, sidecar, request, hit, slot, data, draft,
                 history>>

(* Any other OSError of a system call, or the end of the process.          *)
Working(i) == pc[i] \in {"move", "copying", "copied", "unlink", "read", "open",
                         "write"}

Fault(i) ==
  /\ i \in Fallible
  /\ Working(i)
  /\ pc' = [pc EXCEPT ![i] = "failed"]
  /\ UNCHANGED <<clock, files, edits, sidecar, request, hit, slot, data, draft,
                 history>>

(* Time goes on.  Only a scan that names its slot looks, so that a tick    *)
(* matters when one scan has done that and another, of a file of the same  *)
(* name, has it still to do.                                               *)
Tick ==
  /\ clock < MaxClock
  /\ \E i, k \in Scanners : /\ slot[i] # None
                            /\ pc[k] \in {"hash", "engines", "apply"}
                            /\ NameOf[PathOf(i)] = NameOf[PathOf(k)]
  /\ clock' = clock + 1
  /\ UNCHANGED <<files, edits, sidecar, request, pc, hit, slot, data, draft,
                 history>>

(* A user writes or removes a file; never inside the quarantine directory. *)
UserEdit(p) ==
  /\ edits < MaxEdits
  /\ p \notin NoParent
  /\ \E f \in (Files \cup {None}) \ {user[p]} :
       user' = [user EXCEPT ![p] = f]
  /\ edits' = edits + 1
  /\ UNCHANGED <<clock, payload, sidecar, request, pc, hit, slot, data, draft,
                 history>>

ScannerStep(i) ==
  \/ Hash(i) \/ RunEngines(i) \/ MaybeApply(i)
  \/ MoveIn(i) \/ BeginCopyIn(i) \/ EndCopyIn(i) \/ UnlinkSource(i)
  \/ OpenAudit(i) \/ WriteAudit(i)

RestorerStep(r) ==
  \/ CheckTarget(r) \/ MoveOut(r) \/ BeginCopyOut(r) \/ EndCopyOut(r)

MutatorStep(j) ==
  \/ FindNothing(j) \/ \E s \in Slots : FindRecord(j, s)
  \/ UnlinkPayload(j)
  \/ ReadAudit(j) \/ ReadAuditFails(j) \/ OpenAudit(j) \/ UpdateAudit(j)

Step(i) ==
  \/ i \in Scanners /\ ScannerStep(i)
  \/ i \in Restorers /\ RestorerStep(i)
  \/ i \in Deleters /\ Confirm(i)
  \/ i \in Mutators /\ MutatorStep(i)
  \/ SourceMissing(i)

Next ==
  \/ \E i \in Procs : Step(i) \/ Fault(i)
  \/ Tick
  \/ \E p \in Paths : UserEdit(p)

Spec == Init /\ [][Next]_vars

(* The operating system keeps running every process that has started.      *)
Fairness == \A i \in Procs : WF_vars(Step(i))
FairSpec == Spec /\ Fairness

-----------------------------------------------------------------------------
(* Correctness.                                                            *)

Cell == Content \cup {None}
Sidecar == AuditRecord \cup {None, Torn}

(* The type of every variable, with the program counters each kind of      *)
(* process can be at.                                                      *)
TypeOK ==
  /\ clock \in 0 .. MaxClock
  /\ user \in [Paths -> Cell]
  /\ edits \in 0 .. MaxEdits
  /\ payload \in [Slots -> Cell]
  /\ sidecar \in [Slots -> Sidecar]
  /\ request \in [Procs -> ScanRequest \cup RestoreRequest \cup DeleteRequest]
  /\ \A i \in Scanners : request[i] \in ScanRequest
  /\ \A r \in Restorers : request[r] \in RestoreRequest
  /\ \A d \in Deleters : request[d] \in DeleteRequest
  /\ pc \in [Procs -> ScanPcs \cup RestorePcs \cup DeletePcs]
  /\ \A i \in Scanners : pc[i] \in ScanPcs
  /\ \A r \in Restorers : pc[r] \in RestorePcs
  /\ \A d \in Deleters : pc[d] \in DeletePcs
  /\ hit \in [Scanners -> BOOLEAN]
  /\ slot \in [Procs -> Slots \cup {None}]
  /\ data \in [Procs -> Cell]
  /\ draft \in [Mutators -> AuditRecord \cup {None}]
  /\ claimed \subseteq Scanners
  /\ acted \subseteq Procs

(* Two files went to one slot: the same base name in the same second.  The *)
(* code has no guard against it, so what it promises holds only while this *)
(* has not happened.                                                       *)
NoCollision ==
  \A i, k \in claimed : slot[i] = slot[k] => i = k

(* The processes whose move or unlink of the payload of an entry is done.  *)
TookOut(s) == {j \in Mutators \cap acted : slot[j] = s}

(* No entry is taken out twice, by a restore and a delete or by two of the *)
(* same: the checks of restore and delete are made before the move and are *)
(* not repeated, so this rests on the move of a missing payload failing.   *)
TakenOutOnce ==
  NoCollision => \A s \in Slots : \A j, k \in TookOut(s) : j = k

(* A record that says restored or deleted has no payload any more: the     *)
(* listing never has to report payload_still_present.                      *)
TerminalMeansGone ==
  NoCollision =>
    \A s \in Slots : Loadable(s) => "payload_still_present" \notin RecordIssues(s)

(* What a process leaves between the two writes of an operation.           *)
InWindow(i) == pc[i] \in {"copying", "copied", "read", "open", "write", "failed"}

(* A payload always has a loadable record that says quarantined, unless a  *)
(* scanner is, or was stopped, between its move and its audit, or a        *)
(* mutator's rewrite left the sidecar torn after its unlink.               *)
PayloadAccounted ==
  NoCollision =>
    \A s \in Slots :
      payload[s] # None =>
        \/ Loadable(s) /\ sidecar[s].state = "quarantined"
        \/ \E i \in claimed : slot[i] = s /\ InWindow(i)

(* A record that says quarantined and has lost its payload: the process    *)
(* that took it is, or was stopped, between its unlink and its audit.      *)
MissingExplained ==
  NoCollision =>
    \A s \in Slots :
      Loadable(s) /\ "payload_missing" \in RecordIssues(s) =>
        \E j \in TookOut(s) : InWindow(j)

(* An operation that reported success is in the audit of its entry, at its *)
(* place in the history, unless a later one has opened the sidecar again.  *)
IdOf(i) == IF i \in Scanners THEN i ELSE request[i].scan_id
EventOf(i) == IF i \in Scanners THEN "quarantine_move" ELSE EndEvent(i)

Audited(i) ==
  /\ Loadable(slot[i])
  /\ sidecar[slot[i]].scan_id = IdOf(i)
  /\ LET n == IF i \in Scanners THEN 1 ELSE 2
     IN  Len(sidecar[slot[i]].events) >= n
         /\ sidecar[slot[i]].events[n] = EventOf(i)

SuccessIsAudited ==
  NoCollision =>
    \A i \in Procs :
      pc[i] = "done" =>
        \/ Audited(i)
        \/ sidecar[slot[i]] = Torn
           /\ \E j \in TookOut(slot[i]) \ {i} : pc[j] \in {"write", "failed"}

(* The end of a move between volumes whose source or copy is no longer     *)
(* what was copied.                                                        *)
CopyWentStale(i) ==
  /\ pc[i] = "copied" /\ i \in acted' \ acted
  /\ LET outside == IF i \in Scanners THEN PathOf(i) ELSE TargetOf(i)
     IN  {user[outside], payload[slot[i]]} # {data[i]}

Present == {user[p] : p \in Paths} \cup {payload[s] : s \in Slots}

(* Every content a step makes disappear is explained: a user's own edit, a *)
(* confirmed delete, a collision, a restore onto a file that appeared at   *)
(* its target after the check, or the end of a move between volumes whose  *)
(* source or copy was replaced meanwhile.                                  *)
LossExplained ==
  \/ (Files \cap Present) \subseteq Present'
  \/ edits' # edits
  \/ \E d \in Deleters : request[d].confirmed /\ d \in acted' \ acted
  \/ ~NoCollision'
  \/ \E p \in Paths : user[p] # None /\ user'[p] \notin {None, user[p]}
  \/ \E i \in Procs : CopyWentStale(i)

(* No content is lost silently.                                            *)
NoSilentLoss == [][LossExplained]_vars

(* operations.md 12.4: restore does not overwrite existing files.          *)
RestoreDoesNotOverwrite ==
  [][ \A p \in Paths :
        user[p] \in Files /\ user'[p] \notin {None, user[p]} => edits' # edits
    ]_vars

(* operations.md 12.6: previous events are preserved.  The record of a     *)
(* scan that reported its move stays, whole, while nobody rewrites it.     *)
PreviousEventsPreserved ==
  \A i \in Scanners :
    pc[i] = "done" =>
      \/ sidecar[slot[i]] = Torn
      \/ /\ sidecar[slot[i]].scan_id = i
         /\ sidecar[slot[i]].events[1] = "quarantine_move"

-----------------------------------------------------------------------------
(* The abstract specification, and the behaviours in which no two files    *)
(* are given one slot, which is what it takes to implement it.             *)

LifeOf(id) ==
  IF id \notin acted THEN "none"
  ELSE IF TookOut(slot[id]) \cap Restorers # {} THEN "restored"
  ELSE IF TookOut(slot[id]) # {} THEN "deleted"
  ELSE "quarantined"

AuditOf(id) ==
  IF id \notin claimed \/ sidecar[slot[id]] = None THEN "none"
  ELSE IF sidecar[slot[id]] = Torn THEN "torn"
  ELSE sidecar[slot[id]].state

Life == [id \in Scanners |-> LifeOf(id)]
Audit == [id \in Scanners |-> AuditOf(id)]

Lifecycle == INSTANCE QuarantineLifecycle
             WITH ScanIds <- Scanners, life <- Life, audit <- Audit

DistinctSlotsSpec == Init /\ [][Next /\ NoCollision']_vars
FairDistinctSlotsSpec == DistinctSlotsSpec /\ Fairness

(* Every behaviour without a collision is a behaviour of the lifecycle.    *)
ImplementsLifecycle == Lifecycle!Spec

(* When nothing stops a process between two of its steps, the audit of     *)
(* every entry catches up with what happened to its file.                  *)
AuditCatchesUp == Lifecycle!AuditCatchesUp
=============================================================================
