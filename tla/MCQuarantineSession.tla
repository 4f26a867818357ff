------------------------ MODULE MCQuarantineSession ------------------------
(* Instances of QuarantineSession for TLC.                                 *)
EXTENDS QuarantineSession

CONSTANTS p, q, r, blob

A(id, state, where, events) ==
  [scan_id |-> id, state |-> state, original_path |-> p, quarantine_path |-> where,
   events |-> events]

Moved == <<"quarantine_move">>

(* The entries there may be: an audit, its payload, and its fate.          *)
Entry(audit, payload, fateOf) == [audit |-> audit, payload |-> payload, fate |-> fateOf]

Lost(id) == Entry(A(id, "quarantined", "here", Moved), None, "lost")

Entries(id) ==
  {Lost(id),
   Entry(A(id, "restored", "here", Moved \o <<"restore">>), None, "restored"),
   Entry(A(id, "deleted", "here", Moved \o <<"delete">>), blob, "deleted"),
   Entry([A(id, "none", "elsewhere", << >>) EXCEPT !.original_path = None], blob,
         "quarantined"),
   Entry(A(id, "none", "here", << >>), None, "lost"),
   Entry(A(id, "other", "none", Moved), blob, "quarantined")}

(* Two entries, of different scans or with copies of one sidecar; a file   *)
(* to scan, whose name may end in .audit.json, and one that may be in the  *)
(* way.                                                                    *)
Tree(e1, e2, atP, atQ) ==
  [fs |-> [x \in Places |->
             CASE x = p -> atP [] x = q -> atQ
               [] x = <<1, 0>> -> e1.payload [] x = <<1, 1>> -> e1.audit
               [] x = <<2, 0>> -> e2.payload [] x = <<2, 1>> -> e2.audit
               [] OTHER -> None],
   fate |-> [n \in Sidecars |-> CASE n = <<1, 1>> -> e1.fate [] n = <<2, 1>> -> e2.fate
                                  [] OTHER -> "none"]]

Usual == Entry(A(1, "quarantined", "here", Moved), blob, "quarantined")

Copies ==
  {Usual, Entry(A(1, "restored", "here", Moved \o <<"restore">>), None, "restored")}

TestDirectories ==
  {Tree(Usual, e, blob, None) : e \in Entries(2) \cup Copies}
  \cup {Tree(Usual, Lost(2), None, blob)}
=============================================================================
