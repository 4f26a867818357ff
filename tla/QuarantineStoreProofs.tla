------------------------ MODULE QuarantineStoreProofs ------------------------
(***************************************************************************)
(* The safety properties of QuarantineStore, for every value of its        *)
(* constants, and that it implements QuarantineLifecycle.  IInv (module    *)
(* QuarantineInvariant) holds at the start and is kept by every action:    *)
(* one lemma per action that writes a variable, with one step for each     *)
(* part of IInv, and one lemma, PcStepInv, for all those that only move a  *)
(* program counter.  The invariants follow from IInv; that nothing is lost *)
(* silently needs one more invariant, LossInv.                             *)
(***************************************************************************)
EXTENDS QuarantineInvariant, TLAPS

USE ProcsAssumption, PathsAssumption, ContentAssumption, BoundsAssumption,
    SidecarAssumption

(* The records of an entry depend on nothing but the command lines, which  *)
(* never change.                                                           *)
LEMMA RecordsFixed ==
  ASSUME request' = request
  PROVE  \A k : NewRecord(k)' = NewRecord(k) /\ EndedRecord(k)' = EndedRecord(k)
BY DEF NewRecord, EndedRecord, PathOf, EndEvent, EndState

(* The empty quarantine directory satisfies the invariant.                 *)
LEMMA InitInv == Init => IInv
<1> SUFFICES ASSUME Init PROVE IInv
  OBVIOUS
<1>1. TypeOK
  BY DEF Init, TypeOK, Cell, Content, Sidecar, Procs, Mutators, ScanPcs,
     RestorePcs, DeletePcs
<1>2. ScannerInv
  BY DEF Init, ScannerInv, Procs, Mutators
<1>3. MutatorInv
  BY DEF Init, MutatorInv, Procs, Mutators
<1>4. SlotInv
  BY DEF Init, SlotInv, Loadable
<1>5. KeptInv /\ TakenInv
  BY DEF Init, KeptInv, TakenInv
<1>6. QED
  BY <1>1, <1>2, <1>3, <1>4, <1>5 DEF IInv

(* The steps that move only a program counter, from pc[i] to q.            *)
PcStep(i, q) ==
  \/ i \in Scanners /\ pc[i] \in {"hash", "engines"}
                    /\ q \in {"engines", "apply", "failed"}
  \/ i \in Mutators /\ pc[i] = "find" /\ q = "refused"
  \/ i \in Deleters /\ pc[i] = "confirm" /\ q \in {"find", "refused"}
  \/ i \in Restorers /\ pc[i] = "check" /\ q \in {"refused", "move"}
  \/ Working(i) /\ q = "failed"

(* A step that moves only a program counter, or a step of the engines,     *)
(* keeps the invariant: nothing a process knows of its slot changes.       *)
LEMMA PcStepInv ==
  ASSUME IInv, NEW i \in Procs, NEW q, PcStep(i, q), pc' = [pc EXCEPT ![i] = q],
         hit' \in [Scanners -> BOOLEAN],
         UNCHANGED <<clock, files, edits, sidecar, request, slot, data, draft, history>>
  PROVE  IInv'
<1> USE DEF PcStep, Working
<1>0. \A k : NewRecord(k)' = NewRecord(k) /\ EndedRecord(k)' = EndedRecord(k)
  BY RecordsFixed DEF files, history
<1>1. TypeOK'
  BY DEF IInv, TypeOK, Cell, Content, Sidecar, Procs, Mutators,
     ScanPcs, RestorePcs, DeletePcs, files, history
<1>2. ScannerInv'
  BY DEF IInv, TypeOK, ScannerInv, Procs, Mutators, files, history
<1>3. MutatorInv'
  BY DEF IInv, TypeOK, ScannerInv, MutatorInv, Procs, Mutators,
     files, history
<1>4. SlotInv'
  BY DEF IInv, TypeOK, ScannerInv, MutatorInv, SlotInv, Loadable,
     Procs, Mutators, files, history
<1>5. ASSUME NoCollision' PROVE KeptInv' /\ TakenInv'
  <2>1. NoCollision /\ KeptInv /\ TakenInv
    BY <1>5 DEF IInv, TypeOK, ScannerInv, NoCollision, Procs, files, history
  <2>2. KeptInv'
    <3>1. \A k \in claimed : pc'[k] = pc[k] \/ (k = i /\ q = "failed")
      BY DEF IInv, TypeOK, ScannerInv, Procs, Mutators, history
    <3>2. i \in claimed /\ q = "failed"
            => pc[i] \in {"copying", "copied", "open", "write"}
      BY DEF IInv, TypeOK, ScannerInv, ScanPcs
    <3>3. QED
      BY <1>0, <2>1, <3>1, <3>2 DEF KeptInv, files, history
  <2>3. TakenInv'
    BY <1>0, <2>1 DEF IInv, TypeOK, ScannerInv, MutatorInv, TakenInv,
       NoCollision, Procs, Mutators, files, history
  <2>4. QED
    BY <2>2, <2>3
<1>6. QED
  BY <1>1, <1>2, <1>3, <1>4, <1>5 DEF IInv

(* Naming the destination keeps the invariant: a slot is not claimed       *)
(* before something is written there.                                      *)
LEMMA MaybeApplyInv ==
  ASSUME IInv, NEW i \in Scanners, MaybeApply(i)
  PROVE  IInv'
<1> USE DEF MaybeApply, Goto, PathOf
<1>0. \A k : NewRecord(k)' = NewRecord(k) /\ EndedRecord(k)' = EndedRecord(k)
  BY RecordsFixed DEF files, history
<1>a. <<clock, NameOf[request[i].path]>> \in Slots
  BY DEF IInv, TypeOK, Slots, ScanRequest
<1>1. TypeOK'
  BY <1>a DEF IInv, TypeOK, Cell, Content, Sidecar, Procs, Mutators,
     ScanPcs, RestorePcs, DeletePcs, files, history
<1>2. ScannerInv'
  BY <1>a DEF IInv, TypeOK, ScannerInv, Procs, Mutators, files, history
<1>b. i \notin claimed /\ i \notin Mutators
  BY DEF IInv, ScannerInv, Mutators
<1>c. \A k \in Procs \ {i} : slot'[k] = slot[k] /\ pc'[k] = pc[k]
  BY DEF IInv, TypeOK
<1>3. MutatorInv'
  <2>1. UNCHANGED <<claimed, acted, draft, request>>
    BY DEF history
  <2>2. \A k \in claimed : slot'[k] = slot[k] /\ pc'[k] = pc[k]
    BY <1>b, <1>c DEF IInv, TypeOK, Procs
  <2>3. \A j \in Mutators : slot'[j] = slot[j] /\ pc'[j] = pc[j]
    BY <1>b, <1>c DEF Procs
  <2> HIDE DEF MaybeApply
  <2>4. QED
    BY <2>1, <2>2, <2>3 DEF IInv, MutatorInv
<1>4. SlotInv'
  BY DEF IInv, TypeOK, ScannerInv, MutatorInv, SlotInv, Loadable,
     Procs, Mutators, files, history
<1>5. ASSUME NoCollision' PROVE KeptInv' /\ TakenInv'
  <2>1. NoCollision /\ KeptInv /\ TakenInv
    BY <1>5 DEF IInv, TypeOK, ScannerInv, NoCollision, Procs, files, history
  <2>2. KeptInv'
    BY <1>0, <2>1 DEF IInv, TypeOK, ScannerInv, MutatorInv, SlotInv, KeptInv,
       NoCollision, Procs, Mutators, files, history
  <2>3. TakenInv'
    BY <1>0, <2>1 DEF IInv, TypeOK, ScannerInv, MutatorInv, TakenInv,
       NoCollision, Procs, Mutators, files, history
  <2>4. QED
    BY <2>2, <2>3
<1>6. QED
  BY <1>1, <1>2, <1>3, <1>4, <1>5 DEF IInv

(* The rename into quarantine keeps the invariant: the scanner is the only *)
(* one with this slot, whose sidecar does not exist yet.                   *)
LEMMA MoveInInv ==
  ASSUME IInv, NEW i \in Scanners, MoveIn(i)
  PROVE  IInv'
<1> USE DEF MoveIn, Goto, PathOf
<1>0. \A k : NewRecord(k)' = NewRecord(k) /\ EndedRecord(k)' = EndedRecord(k)
  BY RecordsFixed DEF files, history
<1>a. PathOf(i) \in Paths /\ slot[i] \in Slots
  BY DEF IInv, TypeOK, ScanRequest, ScannerInv
<1>1. TypeOK'
  BY <1>a DEF IInv, TypeOK, Cell, Content, Sidecar, Procs, Mutators,
     ScanPcs, RestorePcs, DeletePcs, files, history
<1>2. ScannerInv'
  BY DEF IInv, TypeOK, ScannerInv, Procs, Mutators, files, history
<1>3. MutatorInv'
  BY DEF IInv, TypeOK, ScannerInv, MutatorInv, Procs, Mutators,
     files, history
<1>4. SlotInv'
  BY DEF IInv, TypeOK, ScannerInv, MutatorInv, SlotInv, Loadable,
     Procs, Mutators, files, history
<1>5. ASSUME NoCollision' PROVE KeptInv' /\ TakenInv'
  <2>1. NoCollision /\ KeptInv /\ TakenInv
    BY <1>5 DEF IInv, TypeOK, NoCollision, Procs
  <2>2. \A k \in claimed : slot[k] # slot[i]
    BY <1>5 DEF NoCollision, IInv, ScannerInv
  <2>3. KeptInv'
    BY <1>0, <2>1, <2>2 DEF IInv, TypeOK, ScannerInv, SlotInv, KeptInv, Procs,
       Mutators
  <2>4. TakenInv'
    BY <1>0, <2>1, <2>2 DEF IInv, TypeOK, ScannerInv, MutatorInv, TakenInv,
       Procs, Mutators
  <2>5. QED
    BY <2>3, <2>4
<1>6. QED
  BY <1>1, <1>2, <1>3, <1>4, <1>5 DEF IInv

(* The first write of a copy into quarantine keeps the invariant: it       *)
(* claims the slot like a rename, but the source stays.                    *)
LEMMA BeginCopyInInv ==
  ASSUME IInv, NEW i \in Scanners, BeginCopyIn(i)
  PROVE  IInv'
<1> USE DEF BeginCopyIn, Goto, PathOf
<1>0. \A k : NewRecord(k)' = NewRecord(k) /\ EndedRecord(k)' = EndedRecord(k)
  BY RecordsFixed DEF files, history
<1>1. TypeOK'
  BY DEF IInv, TypeOK, Cell, Content, Sidecar, Procs, Mutators,
     ScanPcs, RestorePcs, DeletePcs, files, history
<1>2. ScannerInv'
  BY DEF IInv, TypeOK, ScannerInv, Procs, Mutators, files, history
<1>3. MutatorInv'
  BY DEF IInv, TypeOK, ScannerInv, MutatorInv, Procs, Mutators,
     files, history
<1>4. SlotInv'
  BY DEF IInv, TypeOK, ScannerInv, MutatorInv, SlotInv, Loadable,
     Procs, Mutators, files, history
<1>5. ASSUME NoCollision' PROVE KeptInv' /\ TakenInv'
  <2>1. NoCollision /\ KeptInv /\ TakenInv
    BY <1>5 DEF IInv, TypeOK, NoCollision, Procs
  <2>2. \A k \in claimed : slot[k] # slot[i]
    BY <1>5 DEF NoCollision, IInv, ScannerInv
  <2>a. slot[i] \in Slots /\ sidecar[slot[i]] = None
    BY <2>2 DEF IInv, ScannerInv, SlotInv
  <2>b. payload'[slot[i]] = Partial /\ Partial # None
    BY <2>a DEF IInv, TypeOK, Content
  <2>3. KeptInv'
    BY <1>0, <2>1, <2>2, <2>a, <2>b
       DEF IInv, TypeOK, ScannerInv, KeptInv, Procs, Mutators
  <2>4. TakenInv'
    BY <1>0, <2>1, <2>2 DEF IInv, TypeOK, ScannerInv, MutatorInv, TakenInv,
       Procs, Mutators
  <2>5. QED
    BY <2>3, <2>4
<1>6. QED
  BY <1>1, <1>2, <1>3, <1>4, <1>5 DEF IInv

(* The end of a copy into quarantine keeps the invariant: what was copied  *)
(* is a file.                                                              *)
LEMMA EndCopyInInv ==
  ASSUME IInv, NEW i \in Scanners, EndCopyIn(i)
  PROVE  IInv'
<1> USE DEF EndCopyIn, Goto, PathOf
<1>0. \A k : NewRecord(k)' = NewRecord(k) /\ EndedRecord(k)' = EndedRecord(k)
  BY RecordsFixed DEF files, history
<1>1. TypeOK'
  BY DEF IInv, TypeOK, Cell, Content, Sidecar, Procs, Mutators,
     ScanPcs, RestorePcs, DeletePcs, files, history
<1>2. ScannerInv'
  BY DEF IInv, TypeOK, ScannerInv, Procs, Mutators, files, history
<1>3. MutatorInv'
  BY DEF IInv, TypeOK, ScannerInv, MutatorInv, Procs, Mutators,
     files, history
<1>4. SlotInv'
  BY DEF IInv, TypeOK, ScannerInv, MutatorInv, SlotInv, Loadable,
     Procs, Mutators, files, history
<1>5. ASSUME NoCollision' PROVE KeptInv' /\ TakenInv'
  <2>1. NoCollision /\ KeptInv /\ TakenInv
    BY <1>5 DEF IInv, TypeOK, ScannerInv, NoCollision, Procs, files, history
  <2>2. KeptInv'
    BY <1>0, <2>1 DEF IInv, TypeOK, ScannerInv, MutatorInv, SlotInv, KeptInv,
       NoCollision, Procs, Mutators, files, history
  <2>3. TakenInv'
    BY <1>0, <2>1 DEF IInv, TypeOK, ScannerInv, MutatorInv, TakenInv,
       NoCollision, Procs, Mutators, files, history
  <2>4. QED
    BY <2>2, <2>3
<1>6. QED
  BY <1>1, <1>2, <1>3, <1>4, <1>5 DEF IInv

(* The unlink of the source after a copy keeps the invariant: the scanner  *)
(* has acted.                                                              *)
LEMMA UnlinkSourceInv ==
  ASSUME IInv, NEW i \in Scanners, UnlinkSource(i)
  PROVE  IInv'
<1> USE DEF UnlinkSource, Goto, PathOf
<1>0. \A k : NewRecord(k)' = NewRecord(k) /\ EndedRecord(k)' = EndedRecord(k)
  BY RecordsFixed DEF files, history
<1>1. TypeOK'
  BY DEF IInv, TypeOK, Cell, Content, Sidecar, Procs, Mutators,
     ScanPcs, RestorePcs, DeletePcs, files, history
<1>2. ScannerInv'
  BY DEF IInv, TypeOK, ScannerInv, Procs, Mutators, files, history
<1>3. MutatorInv'
  BY DEF IInv, TypeOK, ScannerInv, MutatorInv, Procs, Mutators,
     files, history
<1>4. SlotInv'
  BY DEF IInv, TypeOK, ScannerInv, MutatorInv, SlotInv, Loadable,
     Procs, Mutators, files, history
<1>5. ASSUME NoCollision' PROVE KeptInv' /\ TakenInv'
  <2>1. NoCollision /\ KeptInv /\ TakenInv
    BY <1>5 DEF IInv, TypeOK, ScannerInv, NoCollision, Procs, files, history
  <2>2. KeptInv'
    BY <1>0, <2>1 DEF IInv, TypeOK, ScannerInv, MutatorInv, SlotInv, KeptInv,
       NoCollision, Procs, Mutators, files, history
  <2>3. TakenInv'
    BY <1>0, <2>1 DEF IInv, TypeOK, ScannerInv, MutatorInv, TakenInv,
       NoCollision, Procs, Mutators, files, history
  <2>4. QED
    BY <2>2, <2>3
<1>6. QED
  BY <1>1, <1>2, <1>3, <1>4, <1>5 DEF IInv

(* Truncating a sidecar keeps the invariant: the process that does it is   *)
(* the scanner of the entry or the only mutator that took it.              *)
LEMMA OpenAuditInv ==
  ASSUME IInv, NEW i \in Procs, OpenAudit(i)
  PROVE  IInv'
<1> USE DEF OpenAudit, Goto, PathOf
<1>0. \A k : NewRecord(k)' = NewRecord(k) /\ EndedRecord(k)' = EndedRecord(k)
  BY RecordsFixed DEF files, history
<1>1. TypeOK'
  BY DEF IInv, TypeOK, Cell, Content, Sidecar, Procs, Mutators,
     ScanPcs, RestorePcs, DeletePcs, files, history
<1>2. ScannerInv'
  BY DEF IInv, TypeOK, ScannerInv, Procs, Mutators, files, history
<1>3. MutatorInv'
  BY DEF IInv, TypeOK, ScannerInv, MutatorInv, Procs, Mutators,
     files, history
<1>4. SlotInv'
  BY DEF IInv, TypeOK, ScannerInv, MutatorInv, SlotInv, Loadable,
     Procs, Mutators, files, history
<1>5. ASSUME NoCollision' PROVE KeptInv' /\ TakenInv'
  <2>1. NoCollision /\ KeptInv /\ TakenInv
    BY <1>5 DEF IInv, TypeOK, ScannerInv, NoCollision, Procs, files, history
  <2>2. KeptInv'
    BY <1>0, <2>1 DEF IInv, TypeOK, ScannerInv, MutatorInv, SlotInv, KeptInv,
       NoCollision, Procs, Mutators, files, history
  <2>3. TakenInv'
    BY <1>0, <2>1 DEF IInv, TypeOK, ScannerInv, MutatorInv, TakenInv,
       NoCollision, Procs, Mutators, files, history
  <2>4. QED
    BY <2>2, <2>3
<1>6. QED
  BY <1>1, <1>2, <1>3, <1>4, <1>5 DEF IInv

(* Writing a new record keeps the invariant: no mutator can have found the *)
(* entry before it.                                                        *)
LEMMA WriteAuditInv ==
  ASSUME IInv, NEW i \in Scanners, WriteAudit(i)
  PROVE  IInv'
<1> USE DEF WriteAudit, Goto
<1>0. \A k : NewRecord(k)' = NewRecord(k) /\ EndedRecord(k)' = EndedRecord(k)
  BY RecordsFixed DEF files, history
<1>a. NewRecord(i) \in AuditRecord
  BY DEF IInv, TypeOK, ScanRequest, NewRecord, AuditRecord, PathOf,
     RecordStates, EventActions
<1>b. NewRecord(i).scan_id = i
  BY DEF NewRecord
<1>1. TypeOK'
  BY <1>a DEF IInv, TypeOK, Cell, Content, Sidecar, Procs, Mutators,
     ScanPcs, RestorePcs, DeletePcs, files, history
<1>2. ScannerInv'
  BY DEF IInv, TypeOK, ScannerInv, Procs, Mutators, files, history
<1>3. MutatorInv'
  BY DEF IInv, TypeOK, ScannerInv, MutatorInv, Procs, Mutators,
     files, history
<1>4. SlotInv'
  BY <1>a, <1>b DEF IInv, TypeOK, ScannerInv, MutatorInv, SlotInv, Loadable,
     Procs, Mutators, files, history
<1>5. ASSUME NoCollision' PROVE KeptInv' /\ TakenInv'
  <2>1. NoCollision /\ KeptInv /\ TakenInv
    BY <1>5 DEF IInv, TypeOK, ScannerInv, NoCollision, Procs, files, history
  <2>2. KeptInv'
    BY <1>0, <2>1 DEF IInv, TypeOK, ScannerInv, MutatorInv, SlotInv, KeptInv,
       NoCollision, Procs, Mutators, files, history
  <2>3. TakenInv'
    BY <1>0, <2>1 DEF IInv, TypeOK, ScannerInv, MutatorInv, TakenInv,
       NoCollision, Procs, Mutators, files, history
  <2>4. QED
    BY <2>2, <2>3
<1>6. QED
  BY <1>1, <1>2, <1>3, <1>4, <1>5 DEF IInv

(* Finding a record keeps the invariant: a loadable record names the       *)
(* scanner of its slot, which is done.                                     *)
LEMMA FindRecordInv ==
  ASSUME IInv, NEW j \in Mutators, NEW s \in Slots, FindRecord(j, s)
  PROVE  IInv'
<1> USE DEF FindRecord, Goto
<1>0. \A k : NewRecord(k)' = NewRecord(k) /\ EndedRecord(k)' = EndedRecord(k)
  BY RecordsFixed DEF files, history
<1>a. sidecar[s] \in AuditRecord /\ sidecar[s].scan_id = request[j].scan_id
  BY DEF IInv, TypeOK, Sidecar, Found, Matches, Loadable
<1>b. /\ sidecar[s].scan_id \in claimed
      /\ slot[sidecar[s].scan_id] = s
      /\ pc[sidecar[s].scan_id] = "done"
  BY DEF IInv, SlotInv, Found, Matches, Loadable
<1>1. TypeOK'
  BY <1>a DEF IInv, TypeOK, Cell, Content, Sidecar, Procs, Mutators,
     ScanPcs, RestorePcs, DeletePcs, files, history
<1>2. ScannerInv'
  BY DEF IInv, TypeOK, ScannerInv, Procs, Mutators, files, history
<1>3. MutatorInv'
  BY <1>a, <1>b DEF IInv, TypeOK, ScannerInv, MutatorInv, Procs, Mutators,
     files, history
<1>4. SlotInv'
  BY DEF IInv, TypeOK, ScannerInv, MutatorInv, SlotInv, Loadable,
     Procs, Mutators, files, history
<1>5. ASSUME NoCollision' PROVE KeptInv' /\ TakenInv'
  <2>1. NoCollision /\ KeptInv /\ TakenInv
    BY <1>5 DEF IInv, TypeOK, ScannerInv, NoCollision, Procs, files, history
  <2>2. KeptInv'
    BY <1>0, <2>1 DEF IInv, TypeOK, ScannerInv, MutatorInv, SlotInv, KeptInv,
       NoCollision, Procs, Mutators, files, history
  <2>3. TakenInv'
    BY <1>0, <2>1 DEF IInv, TypeOK, ScannerInv, MutatorInv, TakenInv,
       NoCollision, Procs, Mutators, files, history
  <2>4. QED
    BY <2>2, <2>3
<1>6. QED
  BY <1>1, <1>2, <1>3, <1>4, <1>5 DEF IInv

(* The rename of a restore keeps the invariant: the payload was there, so  *)
(* no other mutator has taken it.                                          *)
LEMMA MoveOutInv ==
  ASSUME IInv, NEW r \in Restorers, MoveOut(r)
  PROVE  IInv'
<1> USE DEF MoveOut, Goto
<1>0. \A k : NewRecord(k)' = NewRecord(k) /\ EndedRecord(k)' = EndedRecord(k)
  BY RecordsFixed DEF files, history
<1>a. slot[r] \in Slots
  BY DEF IInv, TypeOK, MutatorInv, Mutators
<1>1. TypeOK'
  BY <1>a, ZenonT(60) DEF IInv, TypeOK, Cell, Content, Sidecar, Procs, Mutators,
     ScanPcs, RestorePcs, DeletePcs, files, history
<1>2. ScannerInv'
  BY DEF IInv, TypeOK, ScannerInv, Procs, Mutators, files, history
<1>3. MutatorInv'
  BY DEF IInv, TypeOK, ScannerInv, MutatorInv, Procs, Mutators,
     files, history
<1>4. SlotInv'
  BY DEF IInv, TypeOK, ScannerInv, MutatorInv, SlotInv, Loadable,
     Procs, Mutators, files, history
<1>5. ASSUME NoCollision' PROVE KeptInv' /\ TakenInv'
  <2>1. NoCollision /\ KeptInv /\ TakenInv
    BY <1>5 DEF IInv, TypeOK, ScannerInv, NoCollision, Procs, files, history
  <2>2. KeptInv'
    BY <1>0, <2>1 DEF IInv, TypeOK, ScannerInv, MutatorInv, SlotInv, KeptInv,
       NoCollision, Procs, Mutators, files, history
  <2>a. /\ slot[r] \in Slots
        /\ request[r].scan_id \in claimed
        /\ slot[request[r].scan_id] = slot[r]
        /\ pc[request[r].scan_id] = "done"
    BY DEF IInv, MutatorInv, Mutators
  <2>b. \A k \in Mutators \cap acted : slot[k] # slot[r]
    BY <2>1 DEF TakenInv
  <2>c. sidecar[slot[r]] = NewRecord(request[r].scan_id)
    BY <2>1, <2>a, <2>b DEF KeptInv
  <2>3. TakenInv'
    BY <1>0, <2>1, <2>a, <2>b, <2>c DEF IInv, TypeOK, ScannerInv, MutatorInv, TakenInv,
       NoCollision, Procs, Mutators, files, history
  <2>4. QED
    BY <2>2, <2>3
<1>6. QED
  BY <1>1, <1>2, <1>3, <1>4, <1>5 DEF IInv

(* The first write of a copy out of quarantine keeps the invariant: the    *)
(* entry is not touched.                                                   *)
LEMMA BeginCopyOutInv ==
  ASSUME IInv, NEW r \in Restorers, BeginCopyOut(r)
  PROVE  IInv'
<1> USE DEF BeginCopyOut, Goto
<1>0. \A k : NewRecord(k)' = NewRecord(k) /\ EndedRecord(k)' = EndedRecord(k)
  BY RecordsFixed DEF files, history
<1>a. slot[r] \in Slots
  BY DEF IInv, TypeOK, MutatorInv, Mutators
<1>1. TypeOK'
  BY <1>a DEF IInv, TypeOK, Cell, Content, Sidecar, Procs, Mutators,
     ScanPcs, RestorePcs, DeletePcs, files, history
<1>2. ScannerInv'
  BY DEF IInv, TypeOK, ScannerInv, Procs, Mutators, files, history
<1>3. MutatorInv'
  BY DEF IInv, TypeOK, ScannerInv, MutatorInv, Procs, Mutators,
     files, history
<1>4. SlotInv'
  BY DEF IInv, TypeOK, ScannerInv, MutatorInv, SlotInv, Loadable,
     Procs, Mutators, files, history
<1>5. ASSUME NoCollision' PROVE KeptInv' /\ TakenInv'
  <2>1. NoCollision /\ KeptInv /\ TakenInv
    BY <1>5 DEF IInv, TypeOK, ScannerInv, NoCollision, Procs, files, history
  <2>2. KeptInv'
    BY <1>0, <2>1 DEF IInv, TypeOK, ScannerInv, MutatorInv, SlotInv, KeptInv,
       NoCollision, Procs, Mutators, files, history
  <2>3. TakenInv'
    BY <1>0, <2>1 DEF IInv, TypeOK, ScannerInv, MutatorInv, TakenInv,
       NoCollision, Procs, Mutators, files, history
  <2>4. QED
    BY <2>2, <2>3
<1>6. QED
  BY <1>1, <1>2, <1>3, <1>4, <1>5 DEF IInv

(* The end of a copy out of quarantine keeps the invariant: the entry is   *)
(* not touched.                                                            *)
LEMMA EndCopyOutInv ==
  ASSUME IInv, NEW r \in Restorers, EndCopyOut(r)
  PROVE  IInv'
<1> USE DEF EndCopyOut, Goto
<1>0. \A k : NewRecord(k)' = NewRecord(k) /\ EndedRecord(k)' = EndedRecord(k)
  BY RecordsFixed DEF files, history
<1>1. TypeOK'
  BY DEF IInv, TypeOK, Cell, Content, Sidecar, Procs, Mutators,
     ScanPcs, RestorePcs, DeletePcs, files, history
<1>2. ScannerInv'
  BY DEF IInv, TypeOK, ScannerInv, Procs, Mutators, files, history
<1>3. MutatorInv'
  BY DEF IInv, TypeOK, ScannerInv, MutatorInv, Procs, Mutators,
     files, history
<1>4. SlotInv'
  BY DEF IInv, TypeOK, ScannerInv, MutatorInv, SlotInv, Loadable,
     Procs, Mutators, files, history
<1>5. ASSUME NoCollision' PROVE KeptInv' /\ TakenInv'
  <2>1. NoCollision /\ KeptInv /\ TakenInv
    BY <1>5 DEF IInv, TypeOK, ScannerInv, NoCollision, Procs, files, history
  <2>2. KeptInv'
    BY <1>0, <2>1 DEF IInv, TypeOK, ScannerInv, MutatorInv, SlotInv, KeptInv,
       NoCollision, Procs, Mutators, files, history
  <2>3. TakenInv'
    BY <1>0, <2>1 DEF IInv, TypeOK, ScannerInv, MutatorInv, TakenInv,
       NoCollision, Procs, Mutators, files, history
  <2>4. QED
    BY <2>2, <2>3
<1>6. QED
  BY <1>1, <1>2, <1>3, <1>4, <1>5 DEF IInv

(* The unlink of a payload keeps the invariant: the payload was there, so  *)
(* no other mutator has taken it.                                          *)
LEMMA UnlinkPayloadInv ==
  ASSUME IInv, NEW j \in Mutators, UnlinkPayload(j)
  PROVE  IInv'
<1> USE DEF UnlinkPayload, Goto
<1>0. \A k : NewRecord(k)' = NewRecord(k) /\ EndedRecord(k)' = EndedRecord(k)
  BY RecordsFixed DEF files, history
<1>1. TypeOK'
  BY ZenonT(60) DEF IInv, TypeOK, Cell, Content, Sidecar, Procs, Mutators,
     ScanPcs, RestorePcs, DeletePcs, files, history
<1>2. ScannerInv'
  BY DEF IInv, TypeOK, ScannerInv, Procs, Mutators, files, history
<1>3. MutatorInv'
  BY DEF IInv, TypeOK, ScannerInv, MutatorInv, Procs, Mutators,
     files, history
<1>4. SlotInv'
  BY DEF IInv, TypeOK, ScannerInv, MutatorInv, SlotInv, Loadable,
     Procs, Mutators, files, history
<1>5. ASSUME NoCollision' PROVE KeptInv' /\ TakenInv'
  <2>1. NoCollision /\ KeptInv /\ TakenInv
    BY <1>5 DEF IInv, TypeOK, ScannerInv, NoCollision, Procs, files, history
  <2>2. KeptInv'
    BY <1>0, <2>1 DEF IInv, TypeOK, ScannerInv, MutatorInv, SlotInv, KeptInv,
       NoCollision, Procs, Mutators, files, history
  <2>a. /\ slot[j] \in Slots
        /\ request[j].scan_id \in claimed
        /\ slot[request[j].scan_id] = slot[j]
        /\ pc[request[j].scan_id] = "done"
    BY DEF IInv, MutatorInv
  <2>b. \A k \in Mutators \cap acted : slot[k] # slot[j]
    BY <2>1 DEF TakenInv
  <2>c. sidecar[slot[j]] = NewRecord(request[j].scan_id)
    BY <2>1, <2>a, <2>b DEF KeptInv
  <2>3. TakenInv'
    BY <1>0, <2>1, <2>a, <2>b, <2>c DEF IInv, TypeOK, ScannerInv, MutatorInv, TakenInv,
       NoCollision, Procs, Mutators, files, history
  <2>4. QED
    BY <2>2, <2>3
<1>6. QED
  BY <1>1, <1>2, <1>3, <1>4, <1>5 DEF IInv

(* Reading the sidecar again keeps the invariant: what is read is still    *)
(* the record of the scanner.                                              *)
LEMMA ReadAuditInv ==
  ASSUME IInv, NEW j \in Mutators, ReadAudit(j)
  PROVE  IInv'
<1> USE DEF ReadAudit, Goto
<1>0. \A k : NewRecord(k)' = NewRecord(k) /\ EndedRecord(k)' = EndedRecord(k)
  BY RecordsFixed DEF files, history
<1>a. slot[j] \in Slots
  BY DEF IInv, MutatorInv
<1>b. sidecar[slot[j]] \in AuditRecord
  BY <1>a DEF IInv, TypeOK, Sidecar, Loadable
<1>c. LET id == sidecar[slot[j]].scan_id
      IN  id \in claimed /\ slot[id] = slot[j] /\ pc[id] = "done"
  BY <1>a DEF IInv, SlotInv
<1>1. TypeOK'
  BY <1>b DEF IInv, TypeOK, Cell, Content, Sidecar, Procs, Mutators,
     ScanPcs, RestorePcs, DeletePcs, files, history
<1>2. ScannerInv'
  BY DEF IInv, TypeOK, ScannerInv, Procs, Mutators, files, history
<1>3. MutatorInv'
  BY <1>b, <1>c DEF IInv, TypeOK, ScannerInv, MutatorInv, Procs, Mutators,
     files, history
<1>4. SlotInv'
  BY DEF IInv, TypeOK, ScannerInv, MutatorInv, SlotInv, Loadable,
     Procs, Mutators, files, history
<1>5. ASSUME NoCollision' PROVE KeptInv' /\ TakenInv'
  <2>1. NoCollision /\ KeptInv /\ TakenInv
    BY <1>5 DEF IInv, TypeOK, ScannerInv, NoCollision, Procs, files, history
  <2>2. KeptInv'
    BY <1>0, <2>1 DEF IInv, TypeOK, ScannerInv, MutatorInv, SlotInv, KeptInv,
       NoCollision, Procs, Mutators, files, history
  <2>3. TakenInv'
    BY <1>0, <2>1 DEF IInv, TypeOK, ScannerInv, MutatorInv, TakenInv,
       NoCollision, Procs, Mutators, files, history
  <2>4. QED
    BY <2>2, <2>3
<1>6. QED
  BY <1>1, <1>2, <1>3, <1>4, <1>5 DEF IInv

(* Writing the end state keeps the invariant: the new record is the one    *)
(* that the entry ends with.                                               *)
LEMMA UpdateAuditInv ==
  ASSUME IInv, NEW j \in Mutators, UpdateAudit(j)
  PROVE  IInv'
<1> USE DEF UpdateAudit, Goto
<1>0. \A k : NewRecord(k)' = NewRecord(k) /\ EndedRecord(k)' = EndedRecord(k)
  BY RecordsFixed DEF files, history
<1>a. /\ draft[j] \in AuditRecord
      /\ slot[j] \in Slots
  BY DEF IInv, MutatorInv
<1>b. UpdatedRecord(j) \in AuditRecord
  <2>1. EndState(j) \in RecordStates /\ EndEvent(j) \in EventActions
    BY DEF EndState, EndEvent, RecordStates, EventActions
  <2>2. QED
    BY <1>a, <2>1 DEF UpdatedRecord, AuditRecord
<1>c. UpdatedRecord(j).scan_id = draft[j].scan_id
  BY <1>a DEF UpdatedRecord, AuditRecord
<1>d. draft[j] = NewRecord(request[j].scan_id)
        => UpdatedRecord(j) = EndedRecord(j)
  BY DEF UpdatedRecord, EndedRecord, NewRecord
<1>1. TypeOK'
  BY <1>b DEF IInv, TypeOK, Cell, Content, Sidecar, Procs, Mutators,
     ScanPcs, RestorePcs, DeletePcs, files, history
<1>2. ScannerInv'
  BY DEF IInv, TypeOK, ScannerInv, Procs, Mutators, files, history
<1>3. MutatorInv'
  BY DEF IInv, TypeOK, ScannerInv, MutatorInv, Procs, Mutators,
     files, history
<1>4. SlotInv'
  BY <1>a, <1>b, <1>c DEF IInv, TypeOK, ScannerInv, MutatorInv, SlotInv, Loadable,
     Procs, Mutators, files, history
<1>5. ASSUME NoCollision' PROVE KeptInv' /\ TakenInv'
  <2>1. NoCollision /\ KeptInv /\ TakenInv
    BY <1>5 DEF IInv, TypeOK, ScannerInv, NoCollision, Procs, files, history
  <2>2. KeptInv'
    BY <1>0, <2>1 DEF IInv, TypeOK, ScannerInv, MutatorInv, SlotInv, KeptInv,
       NoCollision, Procs, Mutators, files, history
  <2>3. TakenInv'
    BY <1>0, <1>d, <2>1 DEF IInv, TypeOK, ScannerInv, MutatorInv, TakenInv,
       NoCollision, Procs, Mutators, files, history
  <2>4. QED
    BY <2>2, <2>3
<1>6. QED
  BY <1>1, <1>2, <1>3, <1>4, <1>5 DEF IInv

(* The clock keeps the invariant: slots are named once and for all.        *)
LEMMA TickInv ==
  ASSUME IInv, Tick, TRUE
  PROVE  IInv'
<1> USE DEF Tick
<1>0. \A k : NewRecord(k)' = NewRecord(k) /\ EndedRecord(k)' = EndedRecord(k)
  BY RecordsFixed DEF files, history
<1>1. TypeOK'
  BY DEF IInv, TypeOK, Cell, Content, Sidecar, Procs, Mutators,
     ScanPcs, RestorePcs, DeletePcs, files, history
<1>2. ScannerInv'
  BY DEF IInv, TypeOK, ScannerInv, Procs, Mutators, files, history
<1>3. MutatorInv'
  BY DEF IInv, TypeOK, ScannerInv, MutatorInv, Procs, Mutators,
     files, history
<1>4. SlotInv'
  BY DEF IInv, TypeOK, ScannerInv, MutatorInv, SlotInv, Loadable,
     Procs, Mutators, files, history
<1>5. ASSUME NoCollision' PROVE KeptInv' /\ TakenInv'
  <2>1. NoCollision /\ KeptInv /\ TakenInv
    BY <1>5 DEF IInv, TypeOK, ScannerInv, NoCollision, Procs, files, history
  <2>2. KeptInv'
    BY <1>0, <2>1 DEF IInv, TypeOK, ScannerInv, MutatorInv, SlotInv, KeptInv,
       NoCollision, Procs, Mutators, files, history
  <2>3. TakenInv'
    BY <1>0, <2>1 DEF IInv, TypeOK, ScannerInv, MutatorInv, TakenInv,
       NoCollision, Procs, Mutators, files, history
  <2>4. QED
    BY <2>2, <2>3
<1>6. QED
  BY <1>1, <1>2, <1>3, <1>4, <1>5 DEF IInv

(* A user's edit keeps the invariant: it never reaches into the quarantine *)
(* directory.                                                              *)
LEMMA UserEditInv ==
  ASSUME IInv, NEW p \in Paths, UserEdit(p)
  PROVE  IInv'
<1> USE DEF UserEdit
<1>0. \A k : NewRecord(k)' = NewRecord(k) /\ EndedRecord(k)' = EndedRecord(k)
  BY RecordsFixed DEF files, history
<1>1. TypeOK'
  BY DEF IInv, TypeOK, Cell, Content, Sidecar, Procs, Mutators,
     ScanPcs, RestorePcs, DeletePcs, files, history
<1>2. ScannerInv'
  BY DEF IInv, TypeOK, ScannerInv, Procs, Mutators, files, history
<1>3. MutatorInv'
  BY DEF IInv, TypeOK, ScannerInv, MutatorInv, Procs, Mutators,
     files, history
<1>4. SlotInv'
  BY DEF IInv, TypeOK, ScannerInv, MutatorInv, SlotInv, Loadable,
     Procs, Mutators, files, history
<1>5. ASSUME NoCollision' PROVE KeptInv' /\ TakenInv'
  <2>1. NoCollision /\ KeptInv /\ TakenInv
    BY <1>5 DEF IInv, TypeOK, ScannerInv, NoCollision, Procs, files, history
  <2>2. KeptInv'
    BY <1>0, <2>1 DEF IInv, TypeOK, ScannerInv, MutatorInv, SlotInv, KeptInv,
       NoCollision, Procs, Mutators, files, history
  <2>3. TakenInv'
    BY <1>0, <2>1 DEF IInv, TypeOK, ScannerInv, MutatorInv, TakenInv,
       NoCollision, Procs, Mutators, files, history
  <2>4. QED
    BY <2>2, <2>3
<1>6. QED
  BY <1>1, <1>2, <1>3, <1>4, <1>5 DEF IInv

(* The actions that only move a program counter, and the step of the       *)
(* engines, are instances of PcStepInv.                                    *)
LEMMA ScannerStepInv ==
  ASSUME IInv, NEW i \in Scanners, ScannerStep(i)
  PROVE  IInv'
<1>0. i \in Procs
  BY DEF Procs
<1>h. hit \in [Scanners -> BOOLEAN]
  BY DEF IInv, TypeOK
<1>1. CASE Hash(i)
  <2>1. PICK q \in {"failed", "engines"} : pc' = [pc EXCEPT ![i] = q]
    BY <1>1 DEF Hash, Goto
  <2>2. PcStep(i, q)
    BY <1>1 DEF Hash, Goto, PcStep
  <2>3. QED
    BY <1>0, <1>1, <1>h, <2>1, <2>2, PcStepInv DEF Hash
<1>2. CASE RunEngines(i)
  <2>1. hit' \in [Scanners -> BOOLEAN]
    BY <1>2, <1>h DEF RunEngines
  <2>2. PcStep(i, "apply") /\ pc' = [pc EXCEPT ![i] = "apply"]
    BY <1>2 DEF RunEngines, Goto, PcStep
  <2>3. QED
    BY <1>0, <1>2, <2>1, <2>2, PcStepInv DEF RunEngines
<1>3. CASE MaybeApply(i)
  BY <1>3, MaybeApplyInv
<1>4. CASE MoveIn(i)
  BY <1>4, MoveInInv
<1>5. CASE BeginCopyIn(i)
  BY <1>5, BeginCopyInInv
<1>6. CASE EndCopyIn(i)
  BY <1>6, EndCopyInInv
<1>7. CASE UnlinkSource(i)
  BY <1>7, UnlinkSourceInv
<1>8. CASE OpenAudit(i)
  BY <1>0, <1>8, OpenAuditInv
<1>9. CASE WriteAudit(i)
  BY <1>9, WriteAuditInv
<1>10. QED
  BY <1>1, <1>2, <1>3, <1>4, <1>5, <1>6, <1>7, <1>8, <1>9 DEF ScannerStep

(* Every step that only a restorer takes keeps the invariant.              *)
LEMMA RestorerStepInv ==
  ASSUME IInv, NEW r \in Restorers, RestorerStep(r)
  PROVE  IInv'
<1>0. r \in Procs /\ hit \in [Scanners -> BOOLEAN]
  BY DEF Procs, Mutators, IInv, TypeOK
<1>1. CASE CheckTarget(r)
  <2>1. PICK q \in {"refused", "move"} : pc' = [pc EXCEPT ![r] = q]
    BY <1>1 DEF CheckTarget, Goto
  <2>2. PcStep(r, q)
    BY <1>1 DEF CheckTarget, Goto, PcStep
  <2>3. QED
    BY <1>0, <1>1, <2>1, <2>2, PcStepInv DEF CheckTarget
<1>2. CASE MoveOut(r)
  BY <1>2, MoveOutInv
<1>3. CASE BeginCopyOut(r)
  BY <1>3, BeginCopyOutInv
<1>4. CASE EndCopyOut(r)
  BY <1>4, EndCopyOutInv
<1>5. QED
  BY <1>1, <1>2, <1>3, <1>4 DEF RestorerStep

(* Every step that restorers and deleters share keeps the invariant.       *)
LEMMA MutatorStepInv ==
  ASSUME IInv, NEW j \in Mutators, MutatorStep(j)
  PROVE  IInv'
<1>0. j \in Procs /\ hit \in [Scanners -> BOOLEAN]
  BY DEF Procs, IInv, TypeOK
<1>1. CASE FindNothing(j)
  <2>1. PcStep(j, "refused") /\ pc' = [pc EXCEPT ![j] = "refused"]
    BY <1>1 DEF FindNothing, Goto, PcStep
  <2>2. QED
    BY <1>0, <1>1, <2>1, PcStepInv DEF FindNothing
<1>2. CASE \E s \in Slots : FindRecord(j, s)
  BY <1>2, FindRecordInv
<1>3. CASE UnlinkPayload(j)
  BY <1>3, UnlinkPayloadInv
<1>4. CASE ReadAudit(j)
  BY <1>4, ReadAuditInv
<1>5. CASE ReadAuditFails(j)
  <2>1. PcStep(j, "failed") /\ pc' = [pc EXCEPT ![j] = "failed"]
    BY <1>5 DEF ReadAuditFails, Goto, PcStep, Working
  <2>2. QED
    BY <1>0, <1>5, <2>1, PcStepInv DEF ReadAuditFails
<1>6. CASE OpenAudit(j)
  BY <1>0, <1>6, OpenAuditInv
<1>7. CASE UpdateAudit(j)
  BY <1>7, UpdateAuditInv
<1>8. QED
  BY <1>1, <1>2, <1>3, <1>4, <1>5, <1>6, <1>7 DEF MutatorStep

(* The invariant is inductive: every step of any process, of the clock or  *)
(* of a user keeps it.                                                     *)
LEMMA NextInv == IInv /\ [Next]_vars => IInv'
<1> SUFFICES ASSUME IInv, [Next]_vars PROVE IInv'
  OBVIOUS
<1>h. hit \in [Scanners -> BOOLEAN]
  BY DEF IInv, TypeOK
<1>1. ASSUME NEW i \in Procs, Step(i) PROVE IInv'
  <2>1. CASE i \in Scanners /\ ScannerStep(i)
    BY <2>1, ScannerStepInv
  <2>2. CASE i \in Restorers /\ RestorerStep(i)
    BY <2>2, RestorerStepInv
  <2>3. CASE i \in Deleters /\ Confirm(i)
    <3>1. PICK q \in {"find", "refused"} : pc' = [pc EXCEPT ![i] = q]
      BY <2>3 DEF Confirm, Goto
    <3>2. PcStep(i, q)
      BY <2>3 DEF Confirm, Goto, PcStep
    <3>3. QED
      BY <1>h, <2>3, <3>1, <3>2, PcStepInv DEF Confirm
  <2>4. CASE i \in Mutators /\ MutatorStep(i)
    BY <2>4, MutatorStepInv
  <2>5. CASE SourceMissing(i)
    <3>1. PcStep(i, "failed") /\ pc' = [pc EXCEPT ![i] = "failed"]
      BY <2>5 DEF SourceMissing, SourceGone, PcStep, Working
    <3>2. QED
      BY <1>h, <2>5, <3>1, PcStepInv DEF SourceMissing
  <2>6. QED
    BY <1>1, <2>1, <2>2, <2>3, <2>4, <2>5 DEF Step
<1>2. ASSUME NEW i \in Procs, Fault(i) PROVE IInv'
  <2>1. PcStep(i, "failed") /\ pc' = [pc EXCEPT ![i] = "failed"]
    BY <1>2 DEF Fault, PcStep
  <2>2. QED
    BY <1>h, <1>2, <2>1, PcStepInv DEF Fault
<1>3. CASE Tick
  BY <1>3, TickInv
<1>4. ASSUME NEW p \in Paths, UserEdit(p) PROVE IInv'
  BY <1>4, UserEditInv
<1>5. CASE UNCHANGED vars
  <2> USE <1>5 DEF vars
  <2>1. UNCHANGED <<TypeOK, ScannerInv>>
    BY DEF TypeOK, ScannerInv
  <2>2. UNCHANGED <<MutatorInv, SlotInv>>
    BY DEF MutatorInv, SlotInv, Loadable
  <2>3. UNCHANGED <<NoCollision, KeptInv>>
    BY DEF NoCollision, KeptInv, NewRecord, PathOf
  <2>4. UNCHANGED TakenInv
    BY DEF TakenInv, NewRecord, EndedRecord, PathOf
  <2>5. QED
    BY <2>1, <2>2, <2>3, <2>4 DEF IInv
<1>6. QED
  BY <1>1, <1>2, <1>3, <1>4, <1>5 DEF Next

(* The invariant holds in every state that the quarantine directory can    *)
(* get into, for any number of processes, paths, names and contents.       *)
THEOREM Invariance == Spec => []IInv
BY InitInv, NextInv, PTL DEF Spec

-----------------------------------------------------------------------------
(* What follows from the invariant.                                        *)

(* Every variable keeps its type, whatever the processes do.               *)
THEOREM TypeCorrect == Spec => []TypeOK
BY Invariance, PTL DEF IInv

(* No two restores or deletes of one entry both take its payload.          *)
THEOREM TakenOutAtMostOnce == Spec => []TakenOutOnce
<1>1. IInv => TakenOutOnce
  BY DEF IInv, TakenInv, TakenOutOnce, TookOut
<1>2. QED
  BY <1>1, Invariance, PTL

(* The slot of a loadable record belongs to the scanner it names, which    *)
(* has finished; the record is still the one it wrote, or one mutator has  *)
(* taken the payload.                                                      *)
LEMMA RecordOwner ==
  ASSUME IInv, NoCollision, NEW s \in Slots, Loadable(s),
         NEW i, i = sidecar[s].scan_id
  PROVE  /\ i \in claimed /\ slot[i] = s /\ pc[i] = "done"
         /\ TookOut(s) = {} => sidecar[s] = NewRecord(i) /\ payload[s] # None
         /\ \A j \in TookOut(s) :
              /\ request[j].scan_id = i
              /\ payload[s] = None
              /\ pc[j] = "done" => sidecar[s] = EndedRecord(j)
              /\ pc[j] # "done" => sidecar[s] = NewRecord(i)
              /\ pc[j] \in {"read", "open", "write", "done", "failed"}
<1>1. i \in claimed /\ slot[i] = s /\ pc[i] = "done"
  BY DEF IInv, SlotInv
<1>2. TookOut(s) = {} => sidecar[s] = NewRecord(i) /\ payload[s] # None
  BY <1>1 DEF IInv, KeptInv, TookOut
<1>3. ASSUME NEW j \in TookOut(s)
      PROVE  /\ request[j].scan_id = i
             /\ payload[s] = None
             /\ pc[j] = "done" => sidecar[s] = EndedRecord(j)
             /\ pc[j] # "done" => sidecar[s] = NewRecord(i)
             /\ pc[j] \in {"read", "open", "write", "done", "failed"}
  <2>1. j \in Mutators /\ j \in acted /\ slot[j] = s
    BY DEF TookOut
  <2>2. request[j].scan_id = i
    BY <1>1, <2>1 DEF IInv, MutatorInv, NoCollision
  <2>3. pc[j] \in {"read", "open", "write", "done", "failed"}
    BY <2>1 DEF IInv, TypeOK, MutatorInv, RestorePcs, DeletePcs, Mutators
  <2>4. sidecar[s] # Torn
    BY DEF Loadable
  <2>5. QED
    BY <2>1, <2>2, <2>3, <2>4 DEF IInv, TakenInv
<1>4. QED
  BY <1>1, <1>2, <1>3

(* The state and the events of the two records an entry can have.          *)
LEMMA RecordState ==
  /\ \A i : NewRecord(i).state = "quarantined"
  /\ \A i : NewRecord(i).scan_id = i
  /\ \A i : NewRecord(i).events = <<"quarantine_move">>
  /\ \A j : EndedRecord(j).state \in {"restored", "deleted"}
  /\ \A j : EndedRecord(j).scan_id = request[j].scan_id
  /\ \A j : EndedRecord(j).events = <<"quarantine_move", EndEvent(j)>>
BY DEF NewRecord, EndedRecord, EndState

(* A record that was written can be loaded: it is neither missing nor      *)
(* torn.                                                                   *)
LEMMA RecordsAreLoadable ==
  ASSUME IInv, NEW i \in Scanners
  PROVE  /\ NewRecord(i) \notin {None, Torn}
         /\ \A j \in Mutators :
              request[j].scan_id = i => EndedRecord(j) \notin {None, Torn}
<1>1. PathOf(i) \in Paths
  BY DEF IInv, TypeOK, ScanRequest, PathOf
<1>2. NewRecord(i) \in AuditRecord
  BY <1>1 DEF NewRecord, AuditRecord, RecordStates, EventActions
<1>3. ASSUME NEW j \in Mutators, request[j].scan_id = i
      PROVE  EndedRecord(j) \in AuditRecord
  <2>1. EndState(j) \in RecordStates /\ EndEvent(j) \in EventActions
    BY DEF EndState, EndEvent, RecordStates, EventActions
  <2>2. <<"quarantine_move", EndEvent(j)>> \in Seq(EventActions)
    BY <2>1 DEF EventActions
  <2>3. QED
    BY <1>1, <1>3, <2>1, <2>2 DEF EndedRecord, AuditRecord
<1>4. QED
  BY <1>2, <1>3

(* The listing never shows a restored or deleted record with a payload.    *)
THEOREM TerminalRecordsHaveNoPayload == Spec => []TerminalMeansGone
<1>1. ASSUME IInv PROVE TerminalMeansGone
  <2>1. SUFFICES ASSUME NoCollision, NEW s \in Slots, Loadable(s),
                        sidecar[s].state # "quarantined"
                 PROVE  payload[s] = None
    BY DEF TerminalMeansGone, RecordIssues
  <2>2. TookOut(s) # {}
    BY <1>1, <2>1, RecordOwner, RecordState
  <2>3. QED
    BY <1>1, <2>1, <2>2, RecordOwner
<1>2. QED
  BY <1>1, Invariance, PTL

(* A payload is listed as quarantined, or a stopped or running process     *)
(* accounts for its missing record.                                        *)
THEOREM PayloadsAreAccountedFor == Spec => []PayloadAccounted
<1>1. ASSUME IInv PROVE PayloadAccounted
  <2>1. SUFFICES ASSUME NoCollision, NEW s \in Slots, payload[s] # None
                 PROVE  \/ Loadable(s) /\ sidecar[s].state = "quarantined"
                        \/ \E i \in claimed : slot[i] = s /\ InWindow(i)
    BY DEF PayloadAccounted
  <2>2. PICK i \in claimed : slot[i] = s
    BY <1>1, <2>1 DEF IInv, SlotInv
  <2>3. pc[i] = "done" \/ InWindow(i)
    BY <1>1, <2>2 DEF IInv, TypeOK, ScannerInv, ScanPcs, InWindow
  <2>4. \A j \in Mutators \cap acted : slot[j] # s
    BY <1>1, <2>1 DEF IInv, TakenInv
  <2>5. ASSUME pc[i] = "done"
        PROVE  Loadable(s) /\ sidecar[s].state = "quarantined"
    <3>1. sidecar[s] = NewRecord(i)
      BY <1>1, <2>1, <2>2, <2>4, <2>5 DEF IInv, KeptInv
    <3>2. NewRecord(i) \notin {None, Torn}
      BY <1>1, <2>2, RecordsAreLoadable DEF IInv, TypeOK
    <3>3. QED
      BY <3>1, <3>2, RecordState DEF Loadable
  <2>6. QED
    BY <2>2, <2>3, <2>5
<1>2. QED
  BY <1>1, Invariance, PTL

(* A record that lost its payload while it says quarantined is explained   *)
(* by the process that took the payload.                                   *)
THEOREM MissingPayloadsAreExplained == Spec => []MissingExplained
<1>1. ASSUME IInv PROVE MissingExplained
  <2>1. SUFFICES ASSUME NoCollision, NEW s \in Slots, Loadable(s),
                        sidecar[s].state = "quarantined", payload[s] = None
                 PROVE  \E j \in TookOut(s) : InWindow(j)
    BY DEF MissingExplained, RecordIssues
  <2>2. PICK j : j \in TookOut(s)
    BY <1>1, <2>1, RecordOwner
  <2>3. pc[j] \in {"read", "open", "write", "failed"}
    BY <1>1, <2>1, <2>2, RecordOwner, RecordState
  <2>4. QED
    BY <2>2, <2>3 DEF InWindow
<1>2. QED
  BY <1>1, Invariance, PTL

(* What an invocation reported as done stays in the audit of its entry.    *)
THEOREM SuccessesAreAudited == Spec => []SuccessIsAudited
<1>1. ASSUME IInv PROVE SuccessIsAudited
  <2>1. SUFFICES ASSUME NoCollision, NEW i \in Procs, pc[i] = "done"
                 PROVE  \/ Audited(i)
                        \/ /\ sidecar[slot[i]] = Torn
                           /\ \E j \in TookOut(slot[i]) \ {i} :
                                pc[j] \in {"write", "failed"}
    BY DEF SuccessIsAudited
  <2>n. ASSUME NEW k \in Scanners PROVE NewRecord(k) \notin {None, Torn}
    BY <1>1, RecordsAreLoadable
  <2>2. CASE i \in Scanners
    <3>1. i \in claimed /\ slot[i] \in Slots /\ i \notin Mutators
      BY <1>1, <2>1, <2>2 DEF IInv, ScannerInv
    <3>2. sidecar[slot[i]] = NewRecord(i) => Audited(i)
      BY <2>2, <2>n, RecordState DEF Audited, Loadable, IdOf, EventOf
    <3>3. CASE TookOut(slot[i]) = {}
      BY <1>1, <2>1, <3>1, <3>2, <3>3 DEF IInv, KeptInv, TookOut
    <3>4. CASE TookOut(slot[i]) # {}
      <4>1. PICK j \in TookOut(slot[i]) : TRUE
        BY <3>4
      <4>2. j \in Mutators /\ j \in acted /\ slot[j] = slot[i] /\ j # i
        BY <3>1, <4>1 DEF TookOut
      <4>3. request[j].scan_id = i
        BY <1>1, <2>1, <3>1, <4>2 DEF IInv, MutatorInv, NoCollision
      <4>4. pc[j] \in {"read", "open", "write", "done", "failed"}
        BY <1>1, <4>2 DEF IInv, TypeOK, MutatorInv, RestorePcs, DeletePcs,
           Mutators
      <4>5. CASE sidecar[slot[i]] = NewRecord(i)
        BY <3>2, <4>5
      <4>6. CASE pc[j] = "done"
        <5>1. sidecar[slot[i]] = EndedRecord(j)
          BY <1>1, <2>1, <4>2, <4>6 DEF IInv, TakenInv
        <5>2. EndedRecord(j) \notin {None, Torn}
          BY <1>1, <2>2, <4>2, <4>3, RecordsAreLoadable
        <5>3. QED
          BY <2>2, <4>3, <5>1, <5>2, RecordState
             DEF Audited, Loadable, IdOf, EventOf
      <4>7. CASE sidecar[slot[i]] = Torn /\ pc[j] \in {"write", "failed"}
        BY <4>1, <4>2, <4>7
      <4>8. QED
        BY <1>1, <2>1, <4>2, <4>3, <4>4, <4>5, <4>6, <4>7 DEF IInv, TakenInv
    <3>5. QED
      BY <3>3, <3>4
  <2>3. CASE i \in Mutators
    <3>1. i \in acted /\ slot[i] \in Slots /\ i \notin Scanners
          /\ request[i].scan_id \in Scanners
      BY <1>1, <2>1, <2>3 DEF IInv, TypeOK, MutatorInv
    <3>2. sidecar[slot[i]] = EndedRecord(i)
      BY <1>1, <2>1, <2>3, <3>1 DEF IInv, TakenInv
    <3>3. EndedRecord(i) \notin {None, Torn}
      BY <1>1, <2>3, <3>1, RecordsAreLoadable
    <3>4. QED
      BY <3>1, <3>2, <3>3, RecordState DEF Audited, Loadable, IdOf, EventOf
  <2>4. QED
    BY <2>2, <2>3 DEF Procs
<1>2. QED
  BY <1>1, Invariance, PTL

-----------------------------------------------------------------------------
(* NoSilentLoss: each content that a step makes disappear is explained.    *)
(* LossInv says what is known, beyond IInv, where a content is about to be *)
(* written over.                                                           *)

LossInv ==
  /\ NoCollision =>
       \A i \in Scanners : pc[i] = "copying" => payload[slot[i]] = Partial
  /\ \A r \in Restorers : pc[r] = "copying" => data[r] # None
  /\ \A d \in Deleters : pc[d] \in {"find", "unlink"} => request[d].confirmed

(* The steps that write neither a user's file nor a payload, and the steps *)
(* that write a slot or a claim.                                           *)
Quiet == UNCHANGED <<files, data, claimed, request>>

(* A step is one of the store's actions, or changes nothing that matters.  *)
LEMMA StepKinds ==
  ASSUME Next
  PROVE  \/ Quiet /\ UNCHANGED slot
         \/ \E i \in Scanners : \/ MaybeApply(i) \/ MoveIn(i) \/ BeginCopyIn(i)
                                \/ EndCopyIn(i) \/ UnlinkSource(i)
         \/ \E r \in Restorers : MoveOut(r) \/ BeginCopyOut(r) \/ EndCopyOut(r)
         \/ \E j \in Mutators : \/ UnlinkPayload(j)
                                \/ \E s \in Slots : FindRecord(j, s)
         \/ \E p \in Paths : UserEdit(p)
<1>1. ASSUME NEW i \in Procs, Step(i) \/ Fault(i)
      PROVE  \/ Quiet /\ UNCHANGED slot
             \/ i \in Scanners /\ \/ MaybeApply(i) \/ MoveIn(i) \/ BeginCopyIn(i)
                                  \/ EndCopyIn(i) \/ UnlinkSource(i)
             \/ i \in Restorers /\ (MoveOut(i) \/ BeginCopyOut(i) \/ EndCopyOut(i))
             \/ i \in Mutators /\ \/ UnlinkPayload(i)
                                  \/ \E s \in Slots : FindRecord(i, s)
  BY <1>1 DEF Step, ScannerStep, RestorerStep, MutatorStep, Fault, SourceMissing, Hash,
     RunEngines, OpenAudit, WriteAudit, CheckTarget, Confirm, FindNothing, ReadAudit,
     ReadAuditFails, UpdateAudit, Quiet, files, history
<1>2. Tick => Quiet /\ UNCHANGED slot
  BY DEF Tick, Quiet, files, history
<1>3. QED
  BY <1>1, <1>2 DEF Next

(* No step undoes a claim or moves it to another slot, so none undoes a    *)
(* collision.                                                              *)
LEMMA ClaimsStay ==
  ASSUME IInv, Next, NEW i \in claimed
  PROVE  i \in claimed' /\ slot'[i] = slot[i]
<1>1. ASSUME NEW k \in Scanners, MaybeApply(k)
      PROVE  claimed' = claimed /\ slot'[i] = slot[i]
  BY <1>1 DEF IInv, TypeOK, ScannerInv, MaybeApply, Goto, Procs, history
<1>2. ASSUME NEW j \in Mutators, NEW s \in Slots, FindRecord(j, s)
      PROVE  claimed' = claimed /\ slot'[i] = slot[i]
  BY <1>2 DEF IInv, TypeOK, FindRecord, Procs, history
<1>3. ASSUME NEW k \in Scanners, MoveIn(k) \/ BeginCopyIn(k) \/ EndCopyIn(k) \/ UnlinkSource(k)
      PROVE  claimed \subseteq claimed' /\ slot' = slot
  BY <1>3 DEF MoveIn, BeginCopyIn, EndCopyIn, UnlinkSource, history
<1>4. ASSUME NEW j \in Mutators,
             MoveOut(j) \/ BeginCopyOut(j) \/ EndCopyOut(j) \/ UnlinkPayload(j)
      PROVE  claimed' = claimed /\ slot' = slot
  BY <1>4 DEF MoveOut, BeginCopyOut, EndCopyOut, UnlinkPayload, history
<1>5. (\E p \in Paths : UserEdit(p)) \/ (Quiet /\ UNCHANGED slot) => claimed' = claimed /\ slot' = slot
  BY DEF UserEdit, Quiet, history
<1>6. QED
  BY <1>1, <1>2, <1>3, <1>4, <1>5, StepKinds DEF Mutators

(* If nothing collides after a step, nothing did before.                   *)
LEMMA CollisionsStay ==
  ASSUME IInv, Next, NoCollision'
  PROVE  NoCollision
BY ClaimsStay DEF NoCollision

(* What a scanner writes to its slot replaces nothing, unless another one  *)
(* has claimed the slot too.                                               *)
LEMMA SlotIsFree ==
  ASSUME IInv, Next, NEW i \in Scanners, i \notin claimed, i \in claimed',
         slot'[i] = slot[i], slot[i] \in Slots, NoCollision'
  PROVE  payload[slot[i]] = None
<1>1. SUFFICES ASSUME NEW k \in claimed, slot[k] = slot[i] PROVE FALSE
  BY DEF IInv, SlotInv
<1>2. k \in claimed' /\ slot'[k] = slot'[i] /\ k # i
  BY <1>1, ClaimsStay
<1>3. QED
  BY <1>2 DEF NoCollision

(* A mutator's slot is not one that a scanner is still copying to.         *)
LEMMA CopyIsAlone ==
  ASSUME IInv, NoCollision, NEW i \in Scanners, pc[i] = "copying",
         NEW k \in Procs \ {i}, slot[k] = slot[i], k \in Mutators \/ k \in claimed
  PROVE  FALSE
<1>1. i \in claimed /\ slot[i] \in Slots
  BY DEF IInv, ScannerInv
<1>2. CASE k \in claimed
  BY <1>1, <1>2 DEF NoCollision
<1>3. CASE k \in Mutators
  <2>1. slot[k] # None
    BY <1>1
  <2>2. request[k].scan_id \in claimed /\ slot[request[k].scan_id] = slot[i]
        /\ pc[request[k].scan_id] = "done"
    BY <1>3, <2>1 DEF IInv, MutatorInv
  <2>3. QED
    BY <1>1, <2>2 DEF NoCollision
<1>4. QED
  BY <1>2, <1>3

(* The initial states satisfy the invariant.                               *)
LEMMA LossInit == Init => LossInv
BY DEF Init, LossInv, Procs, Mutators

(* A process is copying only after the step that began it, and about to    *)
(* delete only when that was confirmed.                                    *)
LEMMA PcHistory ==
  ASSUME IInv, LossInv, Next, NEW i \in Procs
  PROVE  /\ pc'[i] = "copying" => \/ pc[i] = "copying"
                                  \/ i \in Scanners /\ BeginCopyIn(i)
                                  \/ i \in Restorers /\ BeginCopyOut(i)
         /\ i \in Deleters /\ pc'[i] \in {"find", "unlink"} => request[i].confirmed
<1>1. ASSUME NEW k \in Procs, k # i, Step(k) \/ Fault(k) PROVE pc'[i] = pc[i]
  BY <1>1 DEF Step, ScannerStep, RestorerStep, MutatorStep, Fault, SourceMissing, Goto,
     Hash, RunEngines, MaybeApply, MoveIn, BeginCopyIn, EndCopyIn, UnlinkSource, OpenAudit,
     WriteAudit, CheckTarget, MoveOut, BeginCopyOut, EndCopyOut, Confirm, FindNothing,
     FindRecord, UnlinkPayload, ReadAudit, ReadAuditFails, UpdateAudit, IInv, TypeOK
<1>2. Tick \/ (\E p \in Paths : UserEdit(p)) => pc'[i] = pc[i]
  BY DEF UserEdit, Tick
<1>3. ASSUME Step(i) \/ Fault(i), pc'[i] = "copying"
      PROVE  \/ i \in Scanners /\ BeginCopyIn(i)
             \/ i \in Restorers /\ BeginCopyOut(i)
  BY <1>3 DEF Step, ScannerStep, RestorerStep, MutatorStep, Fault, SourceMissing, Goto,
     Hash, RunEngines, MaybeApply, MoveIn, EndCopyIn, UnlinkSource, OpenAudit,
     WriteAudit, CheckTarget, MoveOut, EndCopyOut, Confirm, FindNothing,
     FindRecord, UnlinkPayload, ReadAudit, ReadAuditFails, UpdateAudit, IInv, TypeOK
<1>4. ASSUME Step(i) \/ Fault(i), i \in Deleters, pc'[i] \in {"find", "unlink"}
      PROVE  request[i].confirmed
  BY <1>4 DEF Step, MutatorStep, Fault, SourceMissing, Goto, Confirm, FindNothing,
     FindRecord, UnlinkPayload, ReadAudit, ReadAuditFails, OpenAudit, UpdateAudit,
     IInv, TypeOK, LossInv, Mutators
<1>5. pc'[i] = pc[i] \/ Step(i) \/ Fault(i)
  <2>1. ASSUME NEW k \in Procs, Step(k) \/ Fault(k)
        PROVE  pc'[i] = pc[i] \/ Step(i) \/ Fault(i)
    <3>1. CASE k = i
      BY <2>1, <3>1
    <3>2. CASE k # i
      BY <1>1, <2>1, <3>2
    <3>3. QED
      BY <3>1, <3>2
  <2>2. QED
    BY <1>2, <2>1 DEF Next
<1>6. QED
  BY <1>3, <1>4, <1>5 DEF LossInv

(* LossInv stays: while a scanner copies, only its own steps change what   *)
(* is in its slot.                                                         *)
LEMMA LossNext ==
  ASSUME IInv, LossInv, Next
  PROVE  LossInv'
<1>r. request' = request
  BY StepKinds DEF Quiet, MaybeApply, MoveIn, BeginCopyIn, EndCopyIn, UnlinkSource, MoveOut,
     BeginCopyOut, EndCopyOut, UnlinkPayload, FindRecord, UserEdit
<1>1. ASSUME NoCollision', NEW i \in Scanners, pc'[i] = "copying"
      PROVE  payload'[slot'[i]] = Partial
  <2>1. CASE BeginCopyIn(i)
    BY <2>1 DEF BeginCopyIn, Goto, IInv, TypeOK, ScannerInv
  <2>2. CASE pc[i] = "copying"
    <3>1. NoCollision /\ payload[slot[i]] = Partial /\ i \in claimed /\ i \in Procs
          /\ slot[i] \in Slots
      BY <1>1, <2>2, CollisionsStay DEF LossInv, IInv, ScannerInv, Procs
    <3>2. slot'[i] = slot[i]
      BY <3>1, ClaimsStay
    <3>3. SUFFICES payload'[slot[i]] = payload[slot[i]]
      BY <3>1, <3>2
    <3>4. ASSUME NEW k \in Scanners \ {i}, MoveIn(k) \/ BeginCopyIn(k) \/ EndCopyIn(k)
          PROVE  payload'[slot[i]] = payload[slot[i]]
      <4>1. k \in claimed' /\ slot'[k] = slot[k] /\ i \in claimed'
        BY <3>1, <3>4, ClaimsStay DEF MoveIn, BeginCopyIn, EndCopyIn, history, IInv, ScannerInv, Goto
      <4>2. slot[k] # slot[i]
        BY <1>1, <3>2, <4>1 DEF NoCollision
      <4>3. QED
        BY <3>1, <3>4, <4>2 DEF MoveIn, BeginCopyIn, EndCopyIn, IInv, TypeOK
    <3>5. ASSUME NEW j \in Mutators, MoveOut(j) \/ UnlinkPayload(j)
          PROVE  payload'[slot[i]] = payload[slot[i]]
      <4>1. slot[j] # slot[i]
        BY <2>2, <3>1, CopyIsAlone DEF Procs
      <4>2. QED
        BY <3>1, <3>5, <4>1 DEF MoveOut, UnlinkPayload, IInv, TypeOK
    <3>6. pc'[i] = "copying" => ~MoveIn(i) /\ ~BeginCopyIn(i) /\ ~EndCopyIn(i)
      BY <2>2, <3>1 DEF MoveIn, BeginCopyIn, EndCopyIn, Goto, IInv, TypeOK
    <3>7. QED
      BY <1>1, <3>4, <3>5, <3>6, StepKinds DEF Quiet, files, history, MaybeApply, UnlinkSource,
         BeginCopyOut, EndCopyOut, FindRecord, UserEdit, Mutators
  <2>3. QED
    BY <1>1, <2>1, <2>2, PcHistory DEF Procs, BeginCopyOut, Mutators
<1>2. ASSUME NEW r \in Restorers, pc'[r] = "copying" PROVE data'[r] # None
  <2>1. r \in Procs /\ r \notin Scanners
    BY DEF Procs, Mutators
  <2>2. CASE BeginCopyOut(r)
    BY <2>1, <2>2 DEF BeginCopyOut, IInv, TypeOK
  <2>3. CASE pc[r] = "copying"
    <3>1. ASSUME NEW k \in Procs, BeginCopyIn(k) \/ BeginCopyOut(k)
          PROVE  data'[r] = data[r]
      BY <2>1, <2>3, <3>1 DEF BeginCopyIn, BeginCopyOut, Goto, IInv, TypeOK
    <3>2. data'[r] = data[r]
      BY <3>1, StepKinds DEF Quiet, MaybeApply, MoveIn, EndCopyIn, UnlinkSource, MoveOut,
         EndCopyOut, UnlinkPayload, FindRecord, UserEdit, Procs, Mutators
    <3>3. QED
      BY <2>3, <3>2 DEF LossInv
  <2>4. QED
    BY <1>2, <2>1, <2>2, <2>3, PcHistory
<1>3. ASSUME NEW d \in Deleters, pc'[d] \in {"find", "unlink"} PROVE request'[d].confirmed
  BY <1>r, <1>3, PcHistory DEF Procs, Mutators
<1>4. QED
  BY <1>1, <1>2, <1>3 DEF LossInv

(* In every state, for any processes, paths, names and contents.           *)
THEOREM LossInvariance == Spec => [](IInv /\ LossInv)
<1>1. LossInv /\ UNCHANGED vars => LossInv'
  BY DEF LossInv, NoCollision, vars, history
<1>2. QED
  BY <1>1, LossInit, LossNext, Invariance, PTL DEF Spec

-----------------------------------------------------------------------------
(* The steps that make a content disappear, one after the other.           *)

(* A rename or the beginning of a copy into the quarantine: it moves the   *)
(* file, or begins to write where nothing was.                             *)
LEMMA ComingIn ==
  ASSUME IInv, Next, NEW i \in Scanners, MoveIn(i) \/ BeginCopyIn(i)
  PROVE  LossExplained
<1>1. /\ i \notin claimed /\ i \in claimed' /\ slot'[i] = slot[i] /\ slot[i] \in Slots
      /\ PathOf(i) \in Paths
  BY DEF IInv, TypeOK, ScannerInv, MoveIn, BeginCopyIn, Goto, PathOf, ScanRequest
<1>2. CASE NoCollision'
  <2>1. payload[slot[i]] = None
    BY <1>1, <1>2, SlotIsFree
  <2>2. None \notin Files
    BY DEF Content
  <2>3. CASE MoveIn(i)
    <3>1. \A p \in Paths : user'[p] = user[p] \/ user[p] = payload'[slot[i]]
      BY <1>1, <2>3 DEF MoveIn, IInv, TypeOK
    <3>2. \A s \in Slots : payload'[s] = payload[s] \/ payload[s] = None
      BY <1>1, <2>1, <2>3 DEF MoveIn, IInv, TypeOK
    <3>3. QED
      BY <1>1, <2>2, <3>1, <3>2 DEF LossExplained, Present
  <2>4. CASE BeginCopyIn(i)
    <3>1. user' = user
      BY <2>4 DEF BeginCopyIn
    <3>2. \A s \in Slots : payload'[s] = payload[s] \/ payload[s] = None
      BY <1>1, <2>1, <2>4 DEF BeginCopyIn, IInv, TypeOK
    <3>3. QED
      BY <2>2, <3>1, <3>2 DEF LossExplained, Present
  <2>5. QED
    BY <2>3, <2>4
<1>3. QED
  BY <1>2 DEF LossExplained

(* The end of a copy into the quarantine replaces a partial file.          *)
LEMMA CopiedIn ==
  ASSUME IInv, LossInv, Next, NEW i \in Scanners, EndCopyIn(i)
  PROVE  LossExplained
<1>1. CASE NoCollision'
  <2>1. NoCollision /\ pc[i] = "copying" /\ slot[i] \in Slots
    BY <1>1, CollisionsStay DEF EndCopyIn, Goto, IInv, ScannerInv
  <2>2. payload[slot[i]] \notin Files
    BY <2>1 DEF LossInv
  <2>3. user' = user /\ \A s \in Slots \ {slot[i]} : payload'[s] = payload[s]
    BY <2>1 DEF EndCopyIn, IInv, TypeOK
  <2>4. QED
    BY <2>2, <2>3 DEF LossExplained, Present
<1>2. QED
  BY <1>1 DEF LossExplained

(* The unlink at the end of a copy takes away what the copy holds, or the  *)
(* copy went stale.                                                        *)
LEMMA CopyEnds ==
  ASSUME IInv, NEW i \in Procs,
         \/ i \in Scanners /\ UnlinkSource(i)
         \/ i \in Restorers /\ UnlinkPayload(i)
  PROVE  LossExplained
<1>1. CASE i \in Scanners /\ UnlinkSource(i)
  <2>1. /\ pc[i] = "copied" /\ i \in acted' \ acted /\ slot[i] \in Slots
        /\ PathOf(i) \in Paths
    BY <1>1 DEF UnlinkSource, Goto, IInv, TypeOK, ScannerInv, PathOf, ScanRequest
  <2>2. payload' = payload /\ \A p \in Paths \ {PathOf(i)} : user'[p] = user[p]
    BY <1>1, <2>1 DEF UnlinkSource, IInv, TypeOK
  <2>3. CASE user[PathOf(i)] = payload[slot[i]]
    BY <2>1, <2>2, <2>3 DEF LossExplained, Present
  <2>4. CASE user[PathOf(i)] # payload[slot[i]]
    <3>1. {user[PathOf(i)], payload[slot[i]]} # {data[i]}
      BY <2>4
    <3>2. CopyWentStale(i)
      BY <1>1, <2>1, <3>1 DEF CopyWentStale
    <3>3. QED
      BY <3>2 DEF LossExplained
  <2>5. QED
    BY <2>3, <2>4
<1>2. CASE i \in Restorers /\ UnlinkPayload(i)
  <2>1. /\ pc[i] = "copied" /\ i \in acted' \ acted /\ slot[i] \in Slots
        /\ i \notin Scanners
    BY <1>2 DEF UnlinkPayload, Goto, IInv, TypeOK, MutatorInv, Mutators
  <2>2. TargetOf(i) \in Paths
    BY <1>2, <2>1 DEF IInv, TypeOK, MutatorInv, Mutators, TargetOf, RestoreRequest, AuditRecord
  <2>3. user' = user /\ \A s \in Slots \ {slot[i]} : payload'[s] = payload[s]
    BY <1>2, <2>1 DEF UnlinkPayload, IInv, TypeOK
  <2>4. CASE user[TargetOf(i)] = payload[slot[i]]
    BY <2>2, <2>3, <2>4 DEF LossExplained, Present
  <2>5. CASE user[TargetOf(i)] # payload[slot[i]]
    <3>1. {user[TargetOf(i)], payload[slot[i]]} # {data[i]}
      BY <2>5
    <3>2. CopyWentStale(i)
      BY <1>2, <2>1, <3>1 DEF CopyWentStale
    <3>3. QED
      BY <3>2 DEF LossExplained
  <2>6. QED
    BY <2>4, <2>5
<1>3. QED
  BY <1>1, <1>2

(* A restore that writes to its target finds it empty, or what it replaces *)
(* came there after the check.                                             *)
LEMMA ComingOut ==
  ASSUME IInv, LossInv, NEW r \in Restorers, MoveOut(r) \/ BeginCopyOut(r) \/ EndCopyOut(r)
  PROVE  LossExplained
<1>1. /\ r \in Procs /\ r \in Mutators /\ slot[r] \in Slots
      /\ None \notin Files /\ Partial # None
  BY DEF MoveOut, BeginCopyOut, EndCopyOut, Goto, IInv, MutatorInv, Procs, Mutators, Content
<1>2. TargetOf(r) \in Paths
  BY <1>1 DEF IInv, TypeOK, MutatorInv, TargetOf, RestoreRequest, AuditRecord
<1>3. \A p \in Paths \ {TargetOf(r)} : user'[p] = user[p]
  BY <1>2 DEF MoveOut, BeginCopyOut, EndCopyOut, IInv, TypeOK
<1>4. user'[TargetOf(r)] # None
  BY <1>1, <1>2 DEF MoveOut, BeginCopyOut, EndCopyOut, Goto, IInv, TypeOK, LossInv
<1>5. CASE user[TargetOf(r)] \notin {None, user'[TargetOf(r)]}
  BY <1>2, <1>4, <1>5 DEF LossExplained
<1>6. CASE user[TargetOf(r)] \in {None, user'[TargetOf(r)]}
  <2>1. \A p \in Paths : user'[p] = user[p] \/ user[p] = None
    BY <1>3, <1>6
  <2>2. \A s \in Slots : payload'[s] = payload[s] \/ payload[s] = user'[TargetOf(r)]
    BY <1>1, <1>2 DEF MoveOut, BeginCopyOut, EndCopyOut, IInv, TypeOK
  <2>3. QED
    BY <1>1, <1>2, <2>1, <2>2 DEF LossExplained, Present
<1>7. QED
  BY <1>5, <1>6

(* A delete was confirmed.                                                 *)
LEMMA Deleting ==
  ASSUME IInv, LossInv, NEW d \in Deleters, UnlinkPayload(d)
  PROVE  LossExplained
BY DEF UnlinkPayload, Goto, IInv, MutatorInv, LossInv, LossExplained, Mutators

(* No content disappears from the paths and the quarantine unexplained,    *)
(* however the commands interleave, fail and stop.                         *)
THEOREM NothingIsLostSilently == Spec => NoSilentLoss
<1>1. ASSUME UNCHANGED files PROVE LossExplained
  BY <1>1 DEF files, LossExplained, Present
<1>2. ASSUME NEW p \in Paths, UserEdit(p), IInv PROVE LossExplained
  BY <1>2 DEF UserEdit, IInv, TypeOK, LossExplained
<1>3. IInv /\ LossInv /\ Next => LossExplained
  <2> SUFFICES ASSUME IInv, LossInv, Next PROVE LossExplained
    OBVIOUS
  <2>1. ASSUME NEW i \in Scanners,
               MaybeApply(i) \/ MoveIn(i) \/ BeginCopyIn(i) \/ EndCopyIn(i) \/ UnlinkSource(i)
        PROVE  LossExplained
    BY <1>1, <2>1, ComingIn, CopiedIn, CopyEnds DEF MaybeApply, Procs
  <2>2. ASSUME NEW j \in Mutators, UnlinkPayload(j) \/ \E s \in Slots : FindRecord(j, s)
        PROVE  LossExplained
    BY <1>1, <2>2, CopyEnds, Deleting DEF FindRecord, Procs, Mutators
  <2>3. QED
    BY <1>1, <1>2, <2>1, <2>2, ComingOut, StepKinds DEF Quiet
<1>4. UNCHANGED vars => LossExplained
  BY <1>1 DEF vars, files
<1>5. QED
  BY <1>3, <1>4, LossInvariance, PTL DEF Spec, NoSilentLoss

-----------------------------------------------------------------------------
(* Every behaviour of QuarantineStore in which no two files get one slot   *)
(* is a behaviour of QuarantineLifecycle.  The move of a scanner is the    *)
(* abstract Quarantine, the move or unlink of a mutator TakeOut, the       *)
(* truncation of a sidecar Rewrite and its writing Record; every other     *)
(* step changes neither Life nor Audit.                                    *)

(* LifeOf and AuditOf of an entry read only the history, the slots of the  *)
(* processes in it, and its sidecar.                                       *)
LEMMA LifeFrame ==
  ASSUME NEW k \in Scanners,
         k \in acted' <=> k \in acted,
         k \in acted => slot'[k] = slot[k],
         \A j \in Mutators : j \in acted' <=> j \in acted,
         \A j \in Mutators \cap acted : slot'[j] = slot[j]
  PROVE  LifeOf(k)' = LifeOf(k)
<1>1. CASE k \notin acted
  BY <1>1 DEF LifeOf
<1>2. CASE k \in acted
  <2>1. TookOut(slot[k])' = TookOut(slot[k])
    BY <1>2 DEF TookOut
  <2>2. QED
    BY <1>2, <2>1 DEF LifeOf
<1>3. QED
  BY <1>1, <1>2

(* The life of an entry is told by whoever has acted on it: nobody, its    *)
(* scanner, or the one mutator that took it out.                           *)
LEMMA LifeOfEntry ==
  ASSUME IInv, NoCollision, NEW k \in Scanners
  PROVE  /\ k \notin acted => LifeOf(k) = "none"
         /\ k \in acted /\ TookOut(slot[k]) = {} => LifeOf(k) = "quarantined"
         /\ \A j \in Mutators \cap acted :
              request[j].scan_id = k => /\ LifeOf(k) = EndState(j)
                                        /\ k \in acted /\ slot[k] = slot[j]
<1>1. ASSUME NEW j \in Mutators \cap acted, request[j].scan_id = k
      PROVE  LifeOf(k) = EndState(j) /\ k \in acted /\ slot[k] = slot[j]
  <2>1. k \in acted /\ slot[k] = slot[j]
    BY <1>1 DEF IInv, MutatorInv, ScannerInv
  <2>2. TookOut(slot[k]) = {j}
    BY <1>1, <2>1 DEF IInv, TakenInv, TookOut
  <2>3. QED
    BY <1>1, <2>1, <2>2 DEF LifeOf, EndState
<1>2. QED
  BY <1>1 DEF LifeOf

(* The abstract actions, from what they do to Life and Audit.              *)
LEMMA QuarantineStep ==
  ASSUME NEW k \in Scanners, LifeOf(k) = "none", LifeOf(k)' = "quarantined",
         \A x \in Scanners \ {k} : LifeOf(x)' = LifeOf(x),
         \A x \in Scanners : AuditOf(x)' = AuditOf(x)
  PROVE  Lifecycle!Next
BY DEF Lifecycle!Next, Lifecycle!Quarantine, Life, Audit

(* TakeOut, from what it does to Life and Audit.                           *)
LEMMA TakeOutStep ==
  ASSUME NEW k \in Scanners, NEW how \in {"restored", "deleted"},
         LifeOf(k) = "quarantined", AuditOf(k) = "quarantined",
         LifeOf(k)' = how,
         \A x \in Scanners \ {k} : LifeOf(x)' = LifeOf(x),
         \A x \in Scanners : AuditOf(x)' = AuditOf(x)
  PROVE  Lifecycle!Next
BY DEF Lifecycle!Next, Lifecycle!TakeOut, Life, Audit

(* Rewrite, from what it does to Life and Audit.                           *)
LEMMA RewriteStep ==
  ASSUME NEW k \in Scanners, AuditOf(k) \notin {"torn", LifeOf(k)},
         AuditOf(k)' = "torn",
         \A x \in Scanners \ {k} : AuditOf(x)' = AuditOf(x),
         \A x \in Scanners : LifeOf(x)' = LifeOf(x)
  PROVE  Lifecycle!Next
BY DEF Lifecycle!Next, Lifecycle!Rewrite, Life, Audit

(* Record, from what it does to Life and Audit.                            *)
LEMMA RecordStep ==
  ASSUME NEW k \in Scanners, AuditOf(k) = "torn", AuditOf(k)' = LifeOf(k),
         \A x \in Scanners \ {k} : AuditOf(x)' = AuditOf(x),
         \A x \in Scanners : LifeOf(x)' = LifeOf(x)
  PROVE  Lifecycle!Next
BY DEF Lifecycle!Next, Lifecycle!Record, Life, Audit

(* A step that leaves every LifeOf and AuditOf alone is a stutter.         *)
LEMMA StutterStep ==
  ASSUME \A x \in Scanners : LifeOf(x)' = LifeOf(x),
         \A x \in Scanners : AuditOf(x)' = AuditOf(x)
  PROVE  UNCHANGED Lifecycle!vars
BY DEF Lifecycle!vars, Life, Audit

(* The empty quarantine directory is the initial state of the lifecycle.   *)
LEMMA InitRefines == Init => Lifecycle!Init
BY DEF Init, Lifecycle!Init, Life, Audit, LifeOf, AuditOf

(* Steps that leave the sidecars and the set of acted processes alone.     *)
LEMMA QuietStep ==
  ASSUME IInv, NoCollision, acted' = acted, sidecar' = sidecar,
         \A k \in claimed : k \in claimed' /\ slot'[k] = slot[k],
         \A k \in claimed' \ claimed :
           k \in Scanners /\ sidecar[slot'[k]] = None,
         \A j \in Mutators \cap acted : slot'[j] = slot[j]
  PROVE  UNCHANGED Lifecycle!vars
<1>1. ASSUME NEW k \in Scanners PROVE LifeOf(k)' = LifeOf(k)
  BY LifeFrame DEF IInv, ScannerInv
<1>2. ASSUME NEW k \in Scanners PROVE AuditOf(k)' = AuditOf(k)
  BY DEF AuditOf
<1>3. QED
  BY <1>1, <1>2, StutterStep

(* The scanner's target is gone from its path: Quarantine.                 *)
LEMMA ScannerActs ==
  ASSUME IInv, NoCollision, NEW i \in Scanners, i \notin acted,
         pc[i] # "done", acted' = acted \cup {i}, slot' = slot,
         sidecar' = sidecar, claimed' = claimed \cup {i},
         i \notin claimed => sidecar[slot[i]] = None,
         \A j \in Mutators \cap acted : slot[j] # slot[i]
  PROVE  Lifecycle!Next
<1>0. i \notin Mutators
  BY ProcsAssumption DEF Mutators
<1>1. LifeOf(i) = "none"
  BY DEF LifeOf
<1>2. TookOut(slot[i])' = {}
  BY <1>0 DEF TookOut
<1>3. LifeOf(i)' = "quarantined"
  BY <1>2 DEF LifeOf
<1>4. \A x \in Scanners \ {i} : LifeOf(x)' = LifeOf(x)
  BY <1>0, LifeFrame
<1>5. \A x \in Scanners : AuditOf(x)' = AuditOf(x)
  BY DEF AuditOf
<1>6. QED
  BY <1>1, <1>3, <1>4, <1>5, QuarantineStep

(* A mutator takes the payload of an entry: TakeOut.                       *)
LEMMA MutatorActs ==
  ASSUME IInv, NoCollision, IInv', NoCollision', NEW j \in Mutators,
         j \notin acted, slot[j] # None, payload[slot[j]] # None,
         acted' = acted \cup {j}, slot' = slot, sidecar' = sidecar,
         claimed' = claimed, request' = request
  PROVE  Lifecycle!Next
<1> DEFINE id == request[j].scan_id
<1>1. id \in claimed /\ id \in Scanners /\ slot[id] = slot[j]
      /\ pc[id] = "done" /\ slot[j] \in Slots /\ id \in acted
  BY DEF IInv, TypeOK, MutatorInv, ScannerInv
<1>2. \A k \in Mutators \cap acted : slot[k] # slot[j]
  BY DEF IInv, TakenInv
<1>3. sidecar[slot[id]] = NewRecord(id)
  BY <1>1, <1>2 DEF IInv, KeptInv
<1>4. NewRecord(id) \notin {None, Torn} /\ NewRecord(id).state = "quarantined"
  BY <1>1, RecordsAreLoadable, RecordState
<1>5. AuditOf(id) = "quarantined"
  BY <1>1, <1>3, <1>4 DEF AuditOf
<1>6. TookOut(slot[id]) = {}
  BY <1>1, <1>2 DEF TookOut
<1>7. LifeOf(id) = "quarantined"
  BY <1>1, <1>6 DEF LifeOf
<1>8. LifeOf(id)' = EndState(j)
  <2>1. TookOut(slot[id])' = {j}
    BY <1>1, <1>2 DEF TookOut
  <2>2. QED
    BY <1>1, <2>1 DEF LifeOf, EndState
<1>9. ASSUME NEW x \in Scanners \ {id} PROVE LifeOf(x)' = LifeOf(x)
  <2>1. x \in acted => slot[x] # slot[j]
    BY <1>1 DEF NoCollision, IInv, ScannerInv
  <2>2. x \in acted => TookOut(slot[x])' = TookOut(slot[x])
    BY <2>1 DEF TookOut
  <2>3. x \in acted' <=> x \in acted
    BY ProcsAssumption
  <2>4. QED
    BY <2>2, <2>3 DEF LifeOf
<1>10. \A x \in Scanners : AuditOf(x)' = AuditOf(x)
  BY DEF AuditOf
<1>11. EndState(j) \in {"restored", "deleted"}
  BY DEF EndState
<1>12. QED
  BY <1>1, <1>5, <1>7, <1>8, <1>9, <1>10, <1>11, TakeOutStep

(* A write to the sidecar of an entry changes the audit of no other.       *)
LEMMA SidecarWrite ==
  ASSUME IInv, NoCollision, NEW k \in claimed, NEW v,
         sidecar' = [sidecar EXCEPT ![slot[k]] = v],
         slot' = slot, claimed' = claimed, acted' = acted
  PROVE  /\ sidecar'[slot[k]] = v
         /\ \A x \in Scanners \ {k} : AuditOf(x)' = AuditOf(x)
         /\ \A x \in Scanners : LifeOf(x)' = LifeOf(x)
<1>1. sidecar'[slot[k]] = v
  BY DEF IInv, TypeOK, ScannerInv
<1>2. ASSUME NEW x \in Scanners \ {k} PROVE AuditOf(x)' = AuditOf(x)
  <2>1. x \in claimed => slot[x] # slot[k] /\ slot[x] \in Slots
    BY DEF NoCollision, IInv, TypeOK, ScannerInv
  <2>2. x \in claimed => sidecar'[slot[x]] = sidecar[slot[x]]
    BY <2>1 DEF IInv, TypeOK
  <2>3. QED
    BY <2>2 DEF AuditOf
<1>3. \A x \in Scanners : LifeOf(x)' = LifeOf(x)
  BY LifeFrame
<1>4. QED
  BY <1>1, <1>2, <1>3

(* Truncating the sidecar is Rewrite, for scanners and mutators.           *)
LEMMA OpenAuditRefines ==
  ASSUME IInv, NoCollision, NEW i \in Procs, OpenAudit(i)
  PROVE  Lifecycle!Next
<1> USE SidecarAssumption
<1>0. /\ sidecar' = [sidecar EXCEPT ![slot[i]] = Torn]
      /\ slot' = slot /\ claimed' = claimed /\ acted' = acted
      /\ pc[i] = "open"
  BY DEF OpenAudit, Goto, history
<1>1. CASE i \in Scanners
  <2>1. i \in claimed /\ i \in acted
    BY <1>0, <1>1 DEF IInv, ScannerInv
  <2>2. TookOut(slot[i]) = {}
    BY <1>0, <2>1 DEF TookOut, IInv, MutatorInv, NoCollision
  <2>3. LifeOf(i) = "quarantined"
    BY <2>1, <2>2 DEF LifeOf
  <2>4. AuditOf(i) = "none"
    BY <1>0, <2>1, <2>2 DEF IInv, KeptInv, TookOut, AuditOf
  <2>5. /\ sidecar'[slot[i]] = Torn
        /\ \A x \in Scanners \ {i} : AuditOf(x)' = AuditOf(x)
        /\ \A x \in Scanners : LifeOf(x)' = LifeOf(x)
    BY <1>0, <2>1, SidecarWrite
  <2>6. AuditOf(i)' = "torn"
    BY <1>0, <2>1, <2>5 DEF AuditOf
  <2>7. QED
    BY <1>1, <2>3, <2>4, <2>5, <2>6, RewriteStep
<1>2. CASE i \in Mutators
  <2>i. PICK id \in Scanners : id = request[i].scan_id
    BY <1>2 DEF IInv, TypeOK, Mutators, RestoreRequest, DeleteRequest
  <2>1. i \in acted /\ id \in claimed /\ slot[id] = slot[i]
    BY <1>0, <1>2, <2>i DEF IInv, MutatorInv
  <2>2. LifeOf(id) = EndState(i)
    BY <1>2, <2>1, <2>i, LifeOfEntry
  <2>3. sidecar[slot[id]] = NewRecord(id)
    BY <1>0, <1>2, <2>1, <2>i DEF IInv, TakenInv
  <2>4. AuditOf(id) = "quarantined"
    BY <2>1, <2>3, RecordsAreLoadable, RecordState DEF AuditOf
  <2>5. AuditOf(id) \notin {"torn", LifeOf(id)}
    BY <2>2, <2>4 DEF EndState
  <2>6. /\ sidecar'[slot[id]] = Torn
        /\ \A x \in Scanners \ {id} : AuditOf(x)' = AuditOf(x)
        /\ \A x \in Scanners : LifeOf(x)' = LifeOf(x)
    BY <1>0, <2>1, SidecarWrite
  <2>7. AuditOf(id)' = "torn"
    BY <1>0, <2>1, <2>6 DEF AuditOf
  <2>8. QED
    BY <2>5, <2>6, <2>7, RewriteStep
<1>3. QED
  BY <1>1, <1>2 DEF Procs

(* The new record of a scanner is Record: the audit says quarantined.      *)
LEMMA WriteAuditRefines ==
  ASSUME IInv, NoCollision, NEW i \in Scanners, WriteAudit(i)
  PROVE  Lifecycle!Next
<1> USE SidecarAssumption
<1>0. /\ sidecar' = [sidecar EXCEPT ![slot[i]] = NewRecord(i)]
      /\ slot' = slot /\ claimed' = claimed /\ acted' = acted
      /\ pc[i] = "write"
  BY DEF WriteAudit, Goto, history
<1>1. i \in claimed /\ i \in acted
  BY <1>0 DEF IInv, ScannerInv
<1>2. TookOut(slot[i]) = {}
  BY <1>0, <1>1 DEF TookOut, IInv, MutatorInv, NoCollision
<1>3. LifeOf(i) = "quarantined"
  BY <1>1, <1>2 DEF LifeOf
<1>4. AuditOf(i) = "torn"
  BY <1>0, <1>1, <1>2 DEF IInv, KeptInv, TookOut, AuditOf
<1>5. AuditOf(i)' = "quarantined"
  <2>1. sidecar'[slot[i]] = NewRecord(i)
    BY <1>0, <1>1, SidecarWrite
  <2>2. QED
    BY <1>0, <1>1, <2>1, RecordsAreLoadable, RecordState DEF AuditOf
<1>6. QED
  BY <1>0, <1>1, <1>3, <1>4, <1>5, SidecarWrite, RecordStep

(* The record of a mutator is Record: the audit says what it did.          *)
LEMMA UpdateAuditRefines ==
  ASSUME IInv, NoCollision, NEW j \in Mutators, UpdateAudit(j)
  PROVE  Lifecycle!Next
<1> USE SidecarAssumption
<1>i. PICK id \in Scanners : id = request[j].scan_id
  BY DEF IInv, TypeOK, Mutators, RestoreRequest, DeleteRequest
<1>0. /\ sidecar' = [sidecar EXCEPT ![slot[j]] = UpdatedRecord(j)]
      /\ slot' = slot /\ claimed' = claimed /\ acted' = acted
      /\ pc[j] = "write"
  BY DEF UpdateAudit, Goto, history
<1>1. j \in acted /\ id \in claimed /\ id \in Scanners /\ slot[id] = slot[j]
  BY <1>0, <1>i DEF IInv, TypeOK, MutatorInv
<1>2. LifeOf(id) = EndState(j)
  BY <1>1, <1>i, LifeOfEntry
<1>3. draft[j] = NewRecord(id) /\ sidecar[slot[id]] = Torn
  BY <1>0, <1>1, <1>i DEF IInv, TakenInv
<1>4. UpdatedRecord(j) = EndedRecord(j)
  BY <1>3, <1>i DEF UpdatedRecord, EndedRecord, NewRecord
<1>5. EndedRecord(j) \notin {None, Torn} /\ EndedRecord(j).state = EndState(j)
  BY <1>1, <1>i, RecordsAreLoadable DEF EndedRecord
<1>6. AuditOf(id) = "torn"
  BY <1>1, <1>3 DEF AuditOf
<1>7. AuditOf(id)' = EndState(j)
  <2>1. sidecar'[slot[id]] = EndedRecord(j)
    BY <1>0, <1>1, <1>4, SidecarWrite
  <2>2. slot'[id] = slot[id] /\ id \in claimed'
    BY <1>0, <1>1
  <2>3. request' = request
    BY DEF UpdateAudit
  <2>4. AuditOf(id)' = sidecar'[slot[id]].state
    BY <1>5, <2>1, <2>2, <2>3 DEF AuditOf
  <2>5. QED
    BY <1>5, <2>1, <2>4
<1>8. /\ \A x \in Scanners \ {id} : AuditOf(x)' = AuditOf(x)
      /\ \A x \in Scanners : LifeOf(x)' = LifeOf(x)
  BY <1>0, <1>1, SidecarWrite
<1>9. QED
  BY <1>1, <1>2, <1>6, <1>7, <1>8, RecordStep

(* Every step of the detailed specification is an abstract step or leaves  *)
(* the abstract variables alone.                                           *)
LEMMA NextRefines ==
  ASSUME IInv, NoCollision, IInv', NoCollision', Next
  PROVE  [Lifecycle!Next]_(Lifecycle!vars)
<1> USE DEF Goto, files, history
<1>1. ASSUME NEW i \in Scanners, ScannerStep(i)
      PROVE  [Lifecycle!Next]_(Lifecycle!vars)
  <2>0. i \in Procs /\ i \notin Mutators
    BY ProcsAssumption DEF Procs
  <2>1. CASE Hash(i) \/ RunEngines(i) \/ EndCopyIn(i)
    BY <2>1, QuietStep DEF Hash, RunEngines, EndCopyIn
  <2>2. CASE MaybeApply(i)
    <3>1. i \notin claimed
      BY <2>2 DEF MaybeApply, IInv, ScannerInv
    <3>2. \A k \in Procs \ {i} : slot'[k] = slot[k]
      BY <2>2 DEF MaybeApply, IInv, TypeOK
    <3>3. /\ \A k \in claimed : slot'[k] = slot[k]
          /\ \A j \in Mutators \cap acted : slot'[j] = slot[j]
      BY <2>0, <3>1, <3>2 DEF IInv, TypeOK, Procs
    <3>4. QED
      BY <2>2, <3>3, QuietStep DEF MaybeApply
  <2>3. CASE MoveIn(i) \/ BeginCopyIn(i)
    <3>1. i \notin claimed /\ i \notin acted /\ slot[i] \in Slots
      BY <2>3 DEF MoveIn, BeginCopyIn, IInv, ScannerInv
    <3>2. slot' = slot /\ claimed' = claimed \cup {i} /\ pc[i] = "move"
      BY <2>3 DEF MoveIn, BeginCopyIn
    <3>3. \A k \in claimed : slot[k] # slot[i]
      BY <3>1, <3>2 DEF NoCollision
    <3>4. sidecar[slot[i]] = None
      BY <3>1, <3>3 DEF IInv, SlotInv
    <3>5. \A j \in Mutators \cap acted : slot[j] # slot[i]
      BY <3>3 DEF IInv, MutatorInv
    <3>6. CASE MoveIn(i)
      BY <3>1, <3>2, <3>4, <3>5, <3>6, ScannerActs DEF MoveIn
    <3>7. CASE BeginCopyIn(i)
      BY <3>1, <3>2, <3>4, <3>7, QuietStep DEF BeginCopyIn
    <3>8. QED
      BY <2>3, <3>6, <3>7
  <2>4. CASE UnlinkSource(i)
    <3>1. i \in claimed /\ i \notin acted /\ pc[i] = "copied"
      BY <2>4 DEF UnlinkSource, IInv, ScannerInv
    <3>2. \A j \in Mutators \cap acted : slot[j] # slot[i]
      BY <3>1 DEF IInv, MutatorInv, NoCollision
    <3>3. claimed' = claimed \cup {i}
      BY <2>4, <3>1 DEF UnlinkSource
    <3>4. QED
      BY <2>4, <3>1, <3>2, <3>3, ScannerActs DEF UnlinkSource
  <2>5. CASE OpenAudit(i)
    BY <2>0, <2>5, OpenAuditRefines
  <2>6. CASE WriteAudit(i)
    BY <2>6, WriteAuditRefines
  <2>7. QED
    BY <1>1, <2>1, <2>2, <2>3, <2>4, <2>5, <2>6 DEF ScannerStep
<1>2. ASSUME NEW r \in Restorers, RestorerStep(r)
      PROVE  [Lifecycle!Next]_(Lifecycle!vars)
  <2>1. CASE CheckTarget(r) \/ BeginCopyOut(r) \/ EndCopyOut(r)
    BY <2>1, QuietStep DEF CheckTarget, BeginCopyOut, EndCopyOut
  <2>2. CASE MoveOut(r)
    <3>1. r \in Mutators /\ r \notin acted /\ slot[r] # None
      BY <2>2 DEF MoveOut, IInv, MutatorInv, Mutators
    <3>2. QED
      BY <2>2, <3>1, MutatorActs DEF MoveOut
  <2>3. QED
    BY <1>2, <2>1, <2>2 DEF RestorerStep
<1>3. ASSUME NEW j \in Mutators, MutatorStep(j)
      PROVE  [Lifecycle!Next]_(Lifecycle!vars)
  <2>0. j \in Procs /\ j \notin Scanners
    BY ProcsAssumption DEF Procs
  <2>1. CASE FindNothing(j) \/ ReadAudit(j) \/ ReadAuditFails(j)
    BY <2>1, QuietStep DEF FindNothing, ReadAudit, ReadAuditFails
  <2>2. CASE \E s \in Slots : FindRecord(j, s)
    <3>1. PICK s \in Slots : FindRecord(j, s)
      BY <2>2
    <3>2. j \notin acted
      BY <3>1 DEF FindRecord, IInv, MutatorInv
    <3>3. \A k \in Procs \ {j} : slot'[k] = slot[k]
      BY <3>1 DEF FindRecord, IInv, TypeOK
    <3>4. /\ \A k \in claimed : slot'[k] = slot[k]
          /\ \A k \in Mutators \cap acted : slot'[k] = slot[k]
      BY <2>0, <3>2, <3>3 DEF IInv, TypeOK, Procs
    <3>5. QED
      BY <3>1, <3>4, QuietStep DEF FindRecord
  <2>3. CASE UnlinkPayload(j)
    <3>1. j \notin acted /\ slot[j] # None
      BY <2>3 DEF UnlinkPayload, IInv, MutatorInv
    <3>2. QED
      BY <2>3, <3>1, MutatorActs DEF UnlinkPayload
  <2>4. CASE OpenAudit(j)
    BY <2>0, <2>4, OpenAuditRefines
  <2>5. CASE UpdateAudit(j)
    BY <2>5, UpdateAuditRefines
  <2>6. QED
    BY <1>3, <2>1, <2>2, <2>3, <2>4, <2>5 DEF MutatorStep
<1>4. ASSUME NEW i \in Procs,
             Confirm(i) \/ SourceMissing(i) \/ Fault(i)
      PROVE  [Lifecycle!Next]_(Lifecycle!vars)
  BY <1>4, QuietStep DEF Confirm, SourceMissing, Fault
<1>5. ASSUME Tick \/ \E p \in Paths : UserEdit(p)
      PROVE  [Lifecycle!Next]_(Lifecycle!vars)
  BY <1>5, QuietStep DEF Tick, UserEdit
<1>6. QED
  BY <1>1, <1>2, <1>3, <1>4, <1>5 DEF Next, Step

(* A stutter of the store is a stutter of the lifecycle.                   *)
LEMMA StutterRefines == UNCHANGED vars => UNCHANGED Lifecycle!vars
BY DEF vars, Lifecycle!vars, Life, Audit, LifeOf, AuditOf, TookOut

(* No two files have one slot at the start.                                *)
LEMMA NoCollisionInit == Init => NoCollision
BY DEF Init, NoCollision

(* A stutter brings no two files to one slot.                              *)
LEMMA NoCollisionStutter ==
  NoCollision /\ UNCHANGED vars => NoCollision'
BY DEF NoCollision, vars

(* Without collisions the store implements the lifecycle.                  *)
THEOREM Implementation == DistinctSlotsSpec => ImplementsLifecycle
<1>1. DistinctSlotsSpec => Spec
  <2>1. [Next /\ NoCollision']_vars => [Next]_vars
    OBVIOUS
  <2>2. QED
    BY <2>1, PTL DEF DistinctSlotsSpec, Spec
<1>2. DistinctSlotsSpec => []NoCollision
  <2>1. NoCollision /\ [Next /\ NoCollision']_vars => NoCollision'
    BY NoCollisionStutter
  <2>2. QED
    BY <2>1, NoCollisionInit, PTL DEF DistinctSlotsSpec
<1>3. IInv /\ NoCollision /\ IInv' /\ NoCollision'
        /\ [Next /\ NoCollision']_vars
      => [Lifecycle!Next]_(Lifecycle!vars)
  BY NextRefines, StutterRefines
<1>4. QED
  BY <1>1, <1>2, <1>3, Invariance, InitRefines, PTL
     DEF DistinctSlotsSpec, ImplementsLifecycle, Lifecycle!Spec
=============================================================================
