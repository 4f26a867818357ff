------------------------ MODULE QuarantineInvariant ------------------------
(***************************************************************************)
(* The inductive invariant behind the safety properties of                 *)
(* QuarantineStore.  It says which process owns each slot, and what the    *)
(* payload and the sidecar of a slot are at every point of the scanner     *)
(* that filled it and of the mutator that emptied it.                      *)
(***************************************************************************)
EXTENDS QuarantineStore

(* A scanner claims its slot with its first write there, and acts when the *)
(* target is gone from its path.                                           *)
ScannerInv ==
  \A i \in Scanners :
    /\ pc[i] \in {"hash", "engines", "apply", "declined", "move"}
         => i \notin claimed
    /\ pc[i] \in {"copying", "copied", "open", "write", "done"} => i \in claimed
    /\ pc[i] \in {"copying", "copied"} => i \notin acted
    /\ pc[i] \in {"open", "write", "done"} => i \in acted
    /\ pc[i] \in {"move", "copying", "copied", "open", "write", "done"}
         => slot[i] \in Slots
    /\ i \in acted => i \in claimed
    /\ i \in claimed => slot[i] \in Slots
    /\ pc[i] \in {"copying", "copied"} => data[i] # None

(* The slot and the record a mutator works with come from its scan id.     *)
MutatorInv ==
  \A j \in Mutators :
    /\ pc[j] \in {"check", "move", "copying", "copied", "unlink", "read",
                  "open", "write", "done"} => slot[j] # None
    /\ pc[j] \in {"confirm", "find", "refused", "check", "move", "copying",
                  "copied", "unlink"} => j \notin acted
    /\ pc[j] \in {"read", "open", "write", "done"} => j \in acted
    /\ j \in acted => slot[j] # None
    /\ pc[j] \in {"confirm", "find"} => slot[j] = None
    /\ slot[j] # None =>
         /\ slot[j] \in Slots
         /\ draft[j] \in AuditRecord
         /\ request[j].scan_id \in claimed
         /\ slot[request[j].scan_id] = slot[j]
         /\ pc[request[j].scan_id] = "done"
         /\ draft[j].scan_id \in claimed
         /\ slot[draft[j].scan_id] = slot[j]
         /\ pc[draft[j].scan_id] = "done"

(* Nothing is in a slot that no scanner has claimed, and a record names a  *)
(* scanner that has finished there.                                        *)
SlotInv ==
  \A s \in Slots :
    /\ payload[s] # None \/ sidecar[s] # None
         => \E i \in claimed : slot[i] = s
    /\ Loadable(s) => /\ sidecar[s].scan_id \in claimed
                      /\ slot[sidecar[s].scan_id] = s
                      /\ pc[sidecar[s].scan_id] = "done"

(* The entry of a scanner while nobody has taken it out.                   *)
KeptInv ==
  \A i \in claimed :
    (\A j \in Mutators \cap acted : slot[j] # slot[i]) =>
      /\ payload[slot[i]] # None
      /\ pc[i] \in {"copying", "copied", "open"} => sidecar[slot[i]] = None
      /\ pc[i] = "write" => sidecar[slot[i]] = Torn
      /\ pc[i] = "done" => sidecar[slot[i]] = NewRecord(i)
      /\ pc[i] = "failed" => sidecar[slot[i]] \in {None, Torn}

(* The entry of a scanner once a mutator has taken it out.                 *)
EndedRecord(j) ==
  [scan_id |-> request[j].scan_id,
   original_path |-> PathOf(request[j].scan_id),
   state |-> EndState(j),
   events |-> <<"quarantine_move", EndEvent(j)>>]

TakenInv ==
  \A j \in Mutators \cap acted :
    /\ payload[slot[j]] = None
    /\ \A k \in Mutators \cap acted : slot[k] = slot[j] => k = j
    /\ pc[j] \in {"read", "open"} =>
         sidecar[slot[j]] = NewRecord(request[j].scan_id)
    /\ pc[j] \in {"open", "write"} => draft[j] = NewRecord(request[j].scan_id)
    /\ pc[j] = "write" => sidecar[slot[j]] = Torn
    /\ pc[j] = "done" => sidecar[slot[j]] = EndedRecord(j)
    /\ pc[j] = "failed" =>
         sidecar[slot[j]] \in {NewRecord(request[j].scan_id), Torn}

IInv ==
  /\ TypeOK
  /\ ScannerInv
  /\ MutatorInv
  /\ SlotInv
  /\ NoCollision => KeptInv /\ TakenInv
=============================================================================
