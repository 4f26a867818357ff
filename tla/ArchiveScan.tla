----------------------------- MODULE ArchiveScan -----------------------------
(***************************************************************************)
(* The scan of one file and, when it is an archive, of what is in it:      *)
(* ScanOrchestrator._scan_file_target_with_archive_expansion, which is     *)
(* recursive, with archive_expansion._expand_archive_members between one   *)
(* level and the next.                                                     *)
(*                                                                         *)
(* A node is a file: the target of the scan (Root) or the content of an    *)
(* archive member.  The stack holds the archives that are open, the        *)
(* outermost first, each with the part of its report that is finished.     *)
(* All of them spend one budget.  A report is kept as what its ancestors   *)
(* read of it: the statuses and the archive issues in its tree, the        *)
(* members that convict the container, and the accounting.                 *)
(*                                                                         *)
(* The scan of a node itself is the module FileScan; here it is one step   *)
(* with any verdict.  A file is convicted exactly when its engines give    *)
(* known_malicious (FileScan!ConvictionDecides); only for the root may a   *)
(* failing quarantine then make a scan_error of it.  An archive may hold   *)
(* itself: a node may be among its own members.                            *)
(***************************************************************************)
EXTENDS Verdicts, FiniteSets

CONSTANTS
  Nodes,       (* The files.                                              *)
  Root,        (* The target of the scan.                                 *)
  Trees,       (* The contents in use: functions of Nodes to what each    *)
               (* file is: [kind, size, form, name, members], the name    *)
               (* being that in its archive.                              *)
  Enabled,     (* zip_expansion_enabled.                                  *)
  MaxDepth,    (* max_archive_expansion_depth.                            *)
  MaxMembers,  (* max_archive_member_count.                               *)
  MaxBytes,    (* max_archive_total_bytes.                                *)
  ScanModes,   (* The <<--quarantine mode, --quarantine-dry-run>> in use. *)
  NodeStatuses (* The verdicts in use for one file.                       *)

Kinds == {"plain", "zip_archive", "tar_archive"}
ArchiveKinds == {"zip_archive", "tar_archive"}

(* How a member stands in its archive; only zip members have a password.   *)
Forms == {"regular", "unsupported", "password"}

File == [kind : Kinds, size : Nat, form : Forms, name : STRING, members : Seq(Nodes)]

ASSUME TreesAssumption ==
  /\ Root \in Nodes
  /\ Trees \subseteq [Nodes -> File]

(* validate_config refuses any other limits.                               *)
ASSUME LimitsAssumption ==
  /\ Enabled \in BOOLEAN
  /\ MaxDepth \in Nat
  /\ MaxMembers \in Nat \ {0}
  /\ MaxBytes \in Nat \ {0}

ASSUME StatusesAssumption ==
  /\ ScanModes \subseteq QuarantineModes
  /\ NodeStatuses \subseteq VerdictStatuses

(* Mutant of PartialCodes: one code is forgotten.                          *)
PartialCodesWithoutDepth ==
  {"archive_password_protected", "archive_member_unsupported",
   "archive_member_limit_exceeded", "archive_byte_budget_exceeded"}

PartialCodes == {"archive_password_protected", "archive_member_unsupported",
                 "archive_depth_limit_exceeded", "archive_member_limit_exceeded",
                 "archive_byte_budget_exceeded"}
ArchiveCodes == PartialCodes \cup {"archive_corrupt"}

VARIABLES
  tree,      (* What each file is.                                         *)
  mode,      (* The quarantine mode.                                       *)
  pc,        (* Who goes on: the scan of `node`, the archive on the top of *)
             (* the stack, the report that `node` returns; or the end.     *)
  node,      (* The file being scanned.                                    *)
  stack,     (* The open archives.                                         *)
  result,    (* The report that is returned to the archive on the top.     *)
  budget,    (* What has been extracted: [members, bytes].                 *)
  performed, (* The root's report.quarantine.performed.                    *)
  moved,     (* Whether the root is in the quarantine directory.           *)
  seen,      (* History: the outcome of every file that was scanned.       *)
  lost       (* History: the archives whose member reports were dropped.   *)

vars == <<tree, mode, pc, node, stack, result, budget, performed, moved, seen,
          lost>>

(* A report without member reports.                                        *)
Report(n, status, convicted) ==
  [node |-> n, own |-> status, convicted |-> convicted, status |-> status,
   nested |-> {}, codes |-> {}, triggers |-> {},
   members |-> 0, scanned |-> 0, bytes |-> 0]

Init ==
  /\ tree \in Trees
  /\ mode \in ScanModes
  /\ pc = "scan"
  /\ node = Root
  /\ stack = << >>
  /\ result = Report(Root, "scan_error", FALSE)
  /\ budget = [members |-> 0, bytes |-> 0]
  /\ performed = FALSE
  /\ moved = FALSE
  /\ seen = << >>
  /\ lost = {}

IsArchive(n) == tree[n].kind \in ArchiveKinds
Depth == Len(stack)

-----------------------------------------------------------------------------
(* Resolving and expanding.                                                *)

(* Mutant of ArchiveAwareStatus: the members speak for their archive.      *)
ArchiveAwareStatusOfMembers(r) ==
  Overall((IF r.nested = {} THEN {r.own} ELSE r.nested)
          \cup (IF "archive_corrupt" \in r.codes THEN {"scan_error"} ELSE {})
          \cup (IF r.codes \cap PartialCodes # {} THEN {"partial_scan"} ELSE {}))

(* _resolve_archive_aware_overall_status.                                  *)
ArchiveAwareStatus(r) ==
  Overall({r.own} \cup r.nested
          \cup (IF "archive_corrupt" \in r.codes THEN {"scan_error"} ELSE {})
          \cup (IF r.codes \cap PartialCodes # {} THEN {"partial_scan"} ELSE {}))

Resolved(r) == [r EXCEPT !.status = ArchiveAwareStatus(r)]

InArchive == stack # << >>
Expandable(n) == Enabled /\ IsArchive(n) /\ Depth < MaxDepth

(* The report of a file that is not expanded: as it is, or, for an archive *)
(* inside an archive, with an issue, since it is too deep.                 *)
Unexpanded(r) ==
  IF Enabled /\ IsArchive(r.node) /\ InArchive
  THEN Resolved([r EXCEPT !.codes = {"archive_depth_limit_exceeded"}])
  ELSE r

(* Mutant of Corrupt: the issue is not added.                              *)
CorruptWithoutIssue(r) == Resolved(Report(r.node, r.own, r.convicted))

(* The result of an exception of an expansion: what the members reported   *)
(* is dropped, the file's own verdict stays.                               *)
Corrupt(r) ==
  Resolved([Report(r.node, r.own, r.convicted) EXCEPT !.codes = {"archive_corrupt"}])

(* The archive on the top of the stack, and the ways to change it.         *)
Top == Last(stack).report
Member == tree[Top.node].members[Last(stack).next]
MoreMembers == Last(stack).next <= Len(tree[Top.node].members)
PutTop(r, next) == stack' = Append(Front(stack), [report |-> r, next |-> next])
PopTop(r) == stack' = Front(stack) /\ result' = r /\ pc' = "return"

-----------------------------------------------------------------------------
(* The file itself.                                                        *)

(* The verdict is in: expand the file, or return its report.               *)
Scanned(status, convicted) ==
  LET r == Report(node, status, convicted)
  IN  IF Expandable(node) THEN pc' = "open" /\ result' = r
      ELSE pc' = "return" /\ result' = Unexpanded(r)

(* The same file is given the same verdict every time.                     *)
Gives(status) ==
  /\ node \in DOMAIN seen => seen[node] = status
  /\ seen' = [n \in DOMAIN seen \cup {node} |-> IF n = node THEN status ELSE seen[n]]

(* A member is never quarantined, the target only when it is convicted.    *)
ScanNode(status) ==
  /\ pc = "scan"
  /\ InArchive \/ Decision(mode, status) # "move"
  /\ Gives(status)
  /\ Scanned(status, status = "known_malicious")
  /\ UNCHANGED <<tree, mode, node, stack, budget, performed, moved, lost>>

ScanAndMove ==
  /\ pc = "scan"
  /\ ~InArchive /\ Decision(mode, "known_malicious") = "move"
  /\ Gives("known_malicious")
  /\ Scanned("known_malicious", TRUE)
  /\ performed' = TRUE
  /\ moved' = TRUE
  /\ UNCHANGED <<tree, mode, node, stack, budget, lost>>

(* A QuarantineError here is caught and becomes a scan_error.              *)
ScanAndFailToMove ==
  /\ pc = "scan"
  /\ ~InArchive /\ Decision(mode, "known_malicious") = "move"
  /\ Gives("known_malicious")
  /\ Scanned("scan_error", TRUE)
  /\ moved' \in BOOLEAN
  /\ UNCHANGED <<tree, mode, node, stack, budget, performed, lost>>

(* An OSError goes up to the expansion that asked for the scan.            *)
OSErrorInScan ==
  /\ pc = "scan"
  /\ IF InArchive
     THEN PopTop(Corrupt(Top)) /\ lost' = lost \cup {Top.node}
     ELSE pc' = "raised" /\ UNCHANGED <<stack, result, lost>>
  /\ UNCHANGED <<tree, mode, node, budget, performed, moved, seen>>

(* Any other exception goes up through every expansion; zlib.error and     *)
(* EOFError of a damaged archive are such, and so is a bad answer of capa. *)
Raise ==
  /\ pc \in {"scan", "open", "members"}
  /\ pc' = "raised"
  /\ UNCHANGED <<tree, mode, node, stack, result, budget, performed, moved, seen,
                 lost>>

-----------------------------------------------------------------------------
(* The expansion of one archive.                                           *)

(* The archive is opened by its path and its members are listed.           *)
OpenArchive ==
  /\ pc = "open"
  /\ moved => InArchive
  /\ stack' = Append(stack, [next |-> 1, report |->
                 [result EXCEPT !.members = Len(tree[node].members)]])
  /\ pc' = "members"
  /\ UNCHANGED <<tree, mode, node, result, budget, performed, moved, seen, lost>>

(* It is not one, it is damaged, or it is no longer there.                 *)
OpenFails ==
  /\ pc = "open"
  /\ result' = Corrupt(result)
  /\ pc' = "return"
  /\ UNCHANGED <<tree, mode, node, stack, budget, performed, moved, seen, lost>>

(* Mutant of SkipCode: a code that the aggregation does not know.          *)
SkipCodeUnknown == [unsupported |-> "archive_member_unsupported",
                    password |-> "password_protected"]

SkipCode == [unsupported |-> "archive_member_unsupported",
             password |-> "archive_password_protected"]

(* Mutant of SkipMember: the loop does not go on to the next member.       *)
SkipMemberAgain ==
  /\ pc = "members" /\ MoreMembers
  /\ tree[Member].form # "regular"
  /\ PutTop([Top EXCEPT !.codes = @ \cup {SkipCode[tree[Member].form]}],
            Last(stack).next)
  /\ UNCHANGED <<tree, mode, pc, node, result, budget, performed, moved, seen, lost>>

SkipMember ==
  /\ pc = "members" /\ MoreMembers
  /\ tree[Member].form # "regular"
  /\ PutTop([Top EXCEPT !.codes = @ \cup {SkipCode[tree[Member].form]}],
            Last(stack).next + 1)
  /\ UNCHANGED <<tree, mode, pc, node, result, budget, performed, moved, seen, lost>>

(* The loop ends early, with an issue.                                     *)
BreakWith(code) ==
  /\ PopTop(Resolved([Top EXCEPT !.codes = @ \cup {code}]))
  /\ UNCHANGED <<tree, mode, node, budget, performed, moved, seen, lost>>

AtMemberLimit == budget.members >= MaxMembers

(* Mutant of AtByteLimit: the member that is next is not counted in.       *)
AtByteLimitLate == budget.bytes > MaxBytes

AtByteLimit == budget.bytes + tree[Member].size > MaxBytes

MemberLimit ==
  /\ pc = "members" /\ MoreMembers
  /\ tree[Member].form = "regular"
  /\ AtMemberLimit
  /\ BreakWith("archive_member_limit_exceeded")

ByteLimit ==
  /\ pc = "members" /\ MoreMembers
  /\ tree[Member].form = "regular"
  /\ ~AtMemberLimit /\ AtByteLimit
  /\ BreakWith("archive_byte_budget_exceeded")

Extractable ==
  /\ pc = "members" /\ MoreMembers
  /\ tree[Member].form = "regular"
  /\ ~AtMemberLimit /\ ~AtByteLimit

(* A member is opened by its name, and of several members with one name the*)
(* last is opened every time.  (If that is a link or the like, its node is *)
(* what opening it gives.)                                                 *)
Namesakes(t, n, k) ==
  {j \in DOMAIN t[n].members : t[t[n].members[j]].name = t[t[n].members[k]].name}

Opens(t, n, k) == t[n].members[Max(Namesakes(t, n, k))]

Opened == Opens(tree, Top.node, Last(stack).next)

(* The directory of a member cannot be made, or the temporary directory    *)
(* cannot be removed: an OSError that only the caller of the loop catches. *)
ExpansionFails ==
  /\ pc = "members"
  /\ PopTop(Corrupt(Top))
  /\ lost' = lost \cup {Top.node}
  /\ UNCHANGED <<tree, mode, node, budget, performed, moved, seen>>

ExtractFails ==
  /\ Extractable
  /\ BreakWith("archive_corrupt")

(* The member has no password, but the last of its name has.               *)
ExtractLocked ==
  /\ Extractable
  /\ tree[Opened].form = "password"
  /\ BreakWith("archive_corrupt")

(* The budget is charged before the member is scanned, with the size that  *)
(* the archive gives for it.                                               *)
Charge == [members |-> budget.members + 1,
           bytes |-> budget.bytes + tree[Member].size]

(* Mutant of Extract: the member is charged when it was scanned, if at all.*)
ExtractUncharged ==
  /\ Extractable
  /\ tree[Opened].form # "password"
  /\ UNCHANGED budget
  /\ PutTop([Top EXCEPT !.bytes = @ + tree[Member].size], Last(stack).next)
  /\ node' = Opened
  /\ pc' = "scan"
  /\ UNCHANGED <<tree, mode, result, performed, moved, seen, lost>>

Extract ==
  /\ Extractable
  /\ tree[Opened].form # "password"
  /\ budget' = Charge
  /\ PutTop([Top EXCEPT !.bytes = @ + tree[Member].size], Last(stack).next)
  /\ node' = Opened
  /\ pc' = "scan"
  /\ UNCHANGED <<tree, mode, result, performed, moved, seen, lost>>

(* What an archive keeps of the report of a member.                        *)
Convicts(r) == r.status = "known_malicious" /\ r.convicted

(* Mutants of Absorb: what a nested archive found, or what it extracted,   *)
(* is not handed on.                                                       *)
AbsorbWithoutTriggers(r, child) ==
  [r EXCEPT !.nested = @ \cup {child.status} \cup child.nested,
            !.codes = @ \cup child.codes,
            !.triggers = @ \cup (IF Convicts(child) THEN {child.node} ELSE {}),
            !.members = @ + child.members,
            !.scanned = @ + 1 + child.scanned,
            !.bytes = @ + child.bytes]

AbsorbWithoutCounts(r, child) ==
  [r EXCEPT !.nested = @ \cup {child.status} \cup child.nested,
            !.codes = @ \cup child.codes,
            !.triggers = @ \cup child.triggers
                           \cup (IF Convicts(child) THEN {child.node} ELSE {}),
            !.scanned = @ + 1]

Absorb(r, child) ==
  [r EXCEPT !.nested = @ \cup {child.status} \cup child.nested,
            !.codes = @ \cup child.codes,
            !.triggers = @ \cup child.triggers
                           \cup (IF Convicts(child) THEN {child.node} ELSE {}),
            !.members = @ + child.members,
            !.scanned = @ + 1 + child.scanned,
            !.bytes = @ + child.bytes]

ReturnToArchive ==
  /\ pc = "return" /\ InArchive
  /\ PutTop(Absorb(Top, result), Last(stack).next + 1)
  /\ pc' = "members"
  /\ UNCHANGED <<tree, mode, node, result, budget, performed, moved, seen, lost>>

CloseArchive ==
  /\ pc = "members" /\ ~MoreMembers
  /\ PopTop(Resolved(Top))
  /\ UNCHANGED <<tree, mode, node, budget, performed, moved, seen, lost>>

-----------------------------------------------------------------------------
(* The report of the target is complete.  A zip file that was not itself   *)
(* convicted is quarantined for its members.                               *)

Triggered ==
  /\ tree[Root].kind = "zip_archive"
  /\ result.own # "known_malicious"
  /\ result.triggers # {}

ToBeMoved == Triggered /\ Decision(mode, result.status) = "move"

Deliver ==
  /\ pc = "return" /\ ~InArchive
  /\ ~ToBeMoved
  /\ pc' = "done"
  /\ UNCHANGED <<tree, mode, node, stack, result, budget, performed, moved, seen,
                 lost>>

MoveForMembers ==
  /\ pc = "return" /\ ~InArchive
  /\ ToBeMoved
  /\ performed' = TRUE
  /\ moved' = TRUE
  /\ pc' = "done"
  /\ UNCHANGED <<tree, mode, node, stack, result, budget, seen, lost>>

(* Nothing catches a QuarantineError here: the report is lost.             *)
MoveForMembersFails ==
  /\ pc = "return" /\ ~InArchive
  /\ ToBeMoved
  /\ moved' \in BOOLEAN
  /\ pc' = "raised"
  /\ UNCHANGED <<tree, mode, node, stack, result, budget, performed, seen, lost>>

(* What the code does when nothing goes wrong that has not already: an     *)
(* archive that was moved cannot be opened.                                *)
Proceed ==
  \/ \E status \in NodeStatuses : ScanNode(status)
  \/ ScanAndMove
  \/ OpenArchive \/ OpenFails
  \/ SkipMember \/ MemberLimit \/ ByteLimit
  \/ Extract \/ ExtractLocked
  \/ ReturnToArchive \/ CloseArchive
  \/ Deliver \/ MoveForMembers

Fail ==
  \/ ScanAndFailToMove
  \/ OSErrorInScan \/ Raise
  \/ ExpansionFails \/ ExtractFails
  \/ MoveForMembersFails

Next == Proceed \/ Fail

(* One thread does all of it, and it keeps running; no failure is bound to *)
(* happen.                                                                 *)
Spec == Init /\ [][Next]_vars /\ WF_vars(Proceed)

-----------------------------------------------------------------------------
(* Correctness.                                                            *)

Pcs == {"scan", "open", "members", "return", "done", "raised"}

ReportType ==
  [node : Nodes, own : VerdictStatuses, convicted : BOOLEAN,
   status : VerdictStatuses, nested : SUBSET VerdictStatuses,
   codes : SUBSET ArchiveCodes, triggers : SUBSET Nodes,
   members : Nat, scanned : Nat, bytes : Nat]

(* The type of every variable.                                             *)
TypeOK ==
  /\ tree \in Trees
  /\ mode \in ScanModes
  /\ pc \in Pcs
  /\ node \in Nodes
  /\ stack \in Seq([report : ReportType, next : Nat \ {0}])
  /\ result \in ReportType
  /\ budget \in [members : Nat, bytes : Nat]
  /\ performed \in BOOLEAN
  /\ moved \in BOOLEAN
  /\ DOMAIN seen \subseteq Nodes
  /\ \A n \in DOMAIN seen : seen[n] \in VerdictStatuses
  /\ lost \subseteq Nodes

(* The archives that are open together never extract more members, nor more*)
(* bytes by the sizes they give for them, than one target is allowed,      *)
(* however they are nested, and are never nested deeper.                   *)
LimitsHold ==
  /\ budget.members <= MaxMembers
  /\ budget.bytes <= MaxBytes
  /\ InArchive => Depth <= MaxDepth

Done == pc = "done"
Complete == Done /\ Enabled /\ MaxDepth > 0

(* A clean verdict on an archive covers what is in it: every file that was *)
(* scanned was clean, and of every archive among them all members were     *)
(* scanned.  No limit, password, odd member or error passes silently.  One *)
(* thing does: a member is opened by its name, so one whose name a later   *)
(* member of the same archive has is never scanned (the later one is, once *)
(* for each), is counted as scanned all the same, and has no issue.        *)
Shadowed(n, k) == \E j \in Namesakes(tree, n, k) : j > k

CleanCoversEverything ==
  Complete /\ result.status = "clean_by_known_checks" =>
    /\ Root \in DOMAIN seen
    /\ \A n \in DOMAIN seen :
         /\ seen[n] = "clean_by_known_checks"
         /\ IsArchive(n) => \A k \in DOMAIN tree[n].members :
              tree[n].members[k] \in DOMAIN seen \/ Shadowed(n, k)

Convictions == {n \in DOMAIN seen : seen[n] = "known_malicious"}

(* A malicious file found at any depth shows in the status of the target,  *)
(* or is hidden by scan_error, even when the report that found it was      *)
(* dropped; and known_malicious comes of nothing else.                     *)
FindingsSurface ==
  Done =>
    /\ Convictions # {} => result.status \in {"known_malicious", "scan_error"}
    /\ result.status = "known_malicious" => Convictions # {}

(* A zip file is in quarantine when the report says known_malicious and a  *)
(* move was asked for; nothing is ever moved without a conviction, and a   *)
(* tar file only for its own.                                              *)
QuarantineFollowsFindings ==
  /\ Done /\ result.status = "known_malicious" /\ mode = <<"move", FALSE>>
       /\ tree[Root].kind = "zip_archive" => performed
  /\ performed => moved
  /\ moved =>
       /\ mode = <<"move", FALSE>>
       /\ Convictions # {}
       /\ tree[Root].kind # "zip_archive" => Root \in Convictions

(* The accounting in the summary is what was charged to the budget, unless *)
(* an expansion was dropped, and then it is less.                          *)
AccountingMatchesBudget ==
  Done =>
    /\ result.scanned <= budget.members /\ result.bytes <= budget.bytes
    /\ lost = {} => result.scanned = budget.members /\ result.bytes = budget.bytes

(* What is left to do: members to extract; then whether a file is being    *)
(* scanned or opened; the archives to return to; and the members of the    *)
(* one on the top.                                                         *)
PhaseLeft == CASE pc = "scan" -> 3
               [] pc = "open" -> 2
               [] pc \in {"members", "return"} -> 1
               [] OTHER -> 0

MembersLeft ==
  IF InArchive THEN Len(tree[Top.node].members) + 1 - Last(stack).next ELSE 0

StepsLeft == <<MaxMembers - budget.members, PhaseLeft, Depth, MembersLeft>>

Precedes(m, n) ==
  \E k \in 1 .. 4 : m[k] < n[k] /\ \A j \in 1 .. k - 1 : m[j] = n[j]

(* The recursion goes round in no circle, even in an archive that holds    *)
(* itself and with any failures: every step leaves less to do, in the      *)
(* order of tuples, in which nothing decreases for ever.                   *)
StepsRunOut == [][Precedes(StepsLeft', StepsLeft)]_vars

(* The --quarantine option is for known-malicious results (the help of the *)
(* command line, main.py 55): a report that says `performed` says so under *)
(* known_malicious.                                                        *)
PerformedOnKnownMalicious ==
  Done /\ performed => result.status = "known_malicious"

(* A scan ends, with a report or an exception, even of an archive that     *)
(* holds itself, as long as either limit stops it.                         *)
ScanEnds == <>(pc \in {"done", "raised"})

-----------------------------------------------------------------------------
(* The scan of a target with everything in it, as its caller sees it.      *)

Ended == pc \in {"done", "raised"}

Promise ==
  INSTANCE ScanPromise WITH
    Statuses <- VerdictStatuses,
    mayMove <- mode = <<"move", FALSE>>,
    phase <- IF Ended THEN pc ELSE "scanning",
    convicted <- Convictions # {},
    report <- IF Done THEN [status |-> result.status, performed |-> performed]
              ELSE [status |-> "none", performed |-> FALSE]

(* With everything an archive may hold the scan keeps the promise of the   *)
(* scan of one file: a conviction at any depth reaches the report of the   *)
(* target through every expansion that fails, and the target is moved only *)
(* after one, on request, and not unreported.                              *)
KeepsPromise == Promise!Spec
=============================================================================
