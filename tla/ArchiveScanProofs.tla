-------------------------- MODULE ArchiveScanProofs --------------------------
(***************************************************************************)
(* The safety properties of ArchiveScan, and that it implements            *)
(* ScanPromise, for every tree of archives, every limit and any failures.  *)
(*                                                                         *)
(* Whatever was found is told by a report on its way to the target: by one *)
(* of the open archives, or by the report that is about to be returned to  *)
(* the innermost.  IInv says that of convictions (FindingInv), of anything *)
(* that is not clean (CoverInv) and of the accounting (BudgetInv); the     *)
(* other parts say where a report stands (ChainInv), what it may claim     *)
(* (ReportInv), and what was done with the target (MoveInv).               *)
(***************************************************************************)
EXTENDS ArchiveScan, VerdictProofs, SequenceTheorems

Frames == [report : ReportType, next : Nat \ {0}]

ToMove == <<"move", FALSE>>

(* Whether `result` is the report of a file that has been scanned.         *)
Carried == pc \in {"open", "return", "done"}

Frame(k) == stack[k].report

(* The file that is opened for the member of the k-th open archive that is *)
(* being looked at.                                                        *)
MemberAt(k) == Opens(tree, Frame(k).node, stack[k].next)

(* What is being scanned, or was, on the way to the archive on the top.    *)
Awaited == IF stack = << >> THEN Root ELSE MemberAt(Len(stack))

ChainInv ==
  /\ pc = "scan" => node = Awaited
  /\ Carried => result.node = Awaited
  /\ pc = "open" => node = result.node /\ Expandable(node)
  /\ pc = "members" => stack # << >>
  /\ pc = "done" => stack = << >>
  /\ Len(stack) <= MaxDepth
  /\ \A k \in 1 .. Len(stack) :
       Frame(k).node = IF k = 1 THEN Root ELSE MemberAt(k - 1)

(* A report claims known_malicious only after a conviction, and then by    *)
(* its own verdict or with the members to show for it.                     *)
Sound(r) ==
  /\ r.node \in DOMAIN seen
  /\ r.own = "known_malicious" => r.convicted /\ Convictions # {}
  /\ "known_malicious" \in r.nested => r.triggers # {}
  /\ r.triggers # {} => Convictions # {}
  /\ r.status = "known_malicious" => "known_malicious" \in {r.own} \cup r.nested

(* A report that tells of a conviction, or hides one; and one that has     *)
(* nothing to tell.                                                        *)
Marked(r) ==
  \/ r.own \in {"known_malicious", "scan_error"}
  \/ \E s \in r.nested : s \in {"known_malicious", "scan_error"}
  \/ "archive_corrupt" \in r.codes

Spotless(r) ==
  /\ r.own = "clean_by_known_checks"
  /\ \A s \in r.nested : s = "clean_by_known_checks"
  /\ r.codes = {}

(* The status of a finished report is that of all it tells.                *)
Settled(r) ==
  /\ Marked(r) => r.status \in {"known_malicious", "scan_error"}
  /\ r.own = "scan_error" => r.status = "scan_error"
  /\ r.status = "clean_by_known_checks" => Spotless(r)

ReportInv ==
  /\ \A k \in 1 .. Len(stack) : Sound(Frame(k))
  /\ Carried => Sound(result)
  /\ pc \in {"return", "done"} => Settled(result)
  /\ pc = "open" => result = Report(result.node, result.own, result.convicted)

FindingInv ==
  pc # "raised" /\ Convictions # {} =>
    \/ \E k \in 1 .. Len(stack) : Marked(Frame(k))
    \/ Carried /\ Marked(result)

(* The verdict on the target itself, once there is one.                    *)
RootOwn == IF stack = << >> THEN result.own ELSE Frame(1).own

MoveInv ==
  /\ performed => moved
  /\ moved =>
       /\ mode = ToMove
       /\ Convictions # {}
       /\ tree[Root].kind # "zip_archive" => Root \in Convictions
  /\ pc = "scan" /\ stack = << >> => ~moved /\ DOMAIN seen = {}
  /\ pc # "raised" /\ (stack # << >> \/ Carried) =>
       /\ RootOwn = "known_malicious" /\ mode = ToMove => performed
       /\ moved /\ ~performed => RootOwn = "scan_error"
       /\ performed /\ pc # "done" => RootOwn = "known_malicious"
  /\ pc = "done" /\ result.status = "known_malicious" /\ mode = ToMove
       /\ tree[Root].kind = "zip_archive" => performed

(* What is opened for any member of an archive has been scanned; or the    *)
(* archive is open.                                                        *)
Covered(n) == \A j \in 1 .. Len(tree[n].members) : Opens(tree, n, j) \in DOMAIN seen
Open(n) ==
  \/ \E k \in 1 .. Len(stack) : Frame(k).node = n
  \/ pc = "open" /\ node = n

AllSpotless ==
  /\ \A k \in 1 .. Len(stack) : Spotless(Frame(k))
  /\ Carried => Spotless(result)

CoverInv ==
  pc # "raised" =>
    /\ \A k \in 1 .. Len(stack) :
         Frame(k).codes = {} =>
           \A j \in 1 .. stack[k].next - 1 :
             Opens(tree, Frame(k).node, j) \in DOMAIN seen
    /\ Enabled /\ MaxDepth > 0 /\ AllSpotless =>
         \A n \in DOMAIN seen :
           /\ seen[n] = "clean_by_known_checks"
           /\ IsArchive(n) => Covered(n) \/ Open(n)

(* What the open archives report together, from the outermost on; the      *)
(* member that each is waiting for is counted in.                          *)
Sums(scanned, bytes) ==
  /\ scanned \in [0 .. Len(stack) -> Nat]
  /\ bytes \in [0 .. Len(stack) -> Nat]
  /\ scanned[0] = 0 /\ bytes[0] = 0
  /\ \A k \in 1 .. Len(stack) :
       /\ scanned[k] = scanned[k - 1] + Frame(k).scanned + 1
       /\ bytes[k] = bytes[k - 1] + Frame(k).bytes

(* Of what was charged, what no report tells of was lost.                  *)
Balanced(scanned, bytes) ==
  /\ scanned <= budget.members /\ bytes <= budget.bytes
  /\ lost = {} => scanned = budget.members /\ bytes = budget.bytes

Balance(scanned, bytes) ==
  LET last == Len(stack)
  IN  /\ pc = "scan" => Balanced(scanned[last], bytes[last])
      /\ pc = "members" => Balanced(scanned[last] - 1, bytes[last])
      /\ Carried => Balanced(scanned[last] + result.scanned, bytes[last] + result.bytes)

BudgetInv ==
  /\ budget.members <= MaxMembers
  /\ budget.bytes <= MaxBytes
  /\ \E scanned, bytes : Sums(scanned, bytes) /\ Balance(scanned, bytes)

IInv == /\ TypeOK /\ ChainInv /\ ReportInv /\ FindingInv /\ MoveInv /\ CoverInv
        /\ BudgetInv

-----------------------------------------------------------------------------
(* Statuses.                                                               *)

(* A move is decided only for known_malicious, and on request.             *)
LEMMA DecisionFacts ==
  \A m \in QuarantineModes : \A s :
    Decision(m, s) = "move" <=> s = "known_malicious" /\ m = ToMove
<1> SUFFICES ASSUME NEW m \in QuarantineModes, NEW s
             PROVE  Decision(m, s) = "move" <=> s = "known_malicious" /\ m = ToMove
  OBVIOUS
<1>1. PICK asked \in {"off", "ask", "move"}, dry \in BOOLEAN : m = <<asked, dry>>
  BY DEF QuarantineModes
<1>2. m[1] = asked /\ m[2] = dry
  BY <1>1
<1>3. m = ToMove <=> asked = "move" /\ dry = FALSE
  BY <1>1 DEF ToMove
<1>4. QED
  BY <1>2, <1>3 DEF Decision

-----------------------------------------------------------------------------
(* Reports.                                                                *)

LEMMA CodesListed ==
  ArchiveCodes = {"archive_password_protected", "archive_member_unsupported",
                  "archive_depth_limit_exceeded", "archive_member_limit_exceeded",
                  "archive_byte_budget_exceeded", "archive_corrupt"}
BY DEF ArchiveCodes, PartialCodes

(* A new report tells the verdict on its file and nothing else.            *)
LEMMA ReportFacts ==
  ASSUME NEW n \in Nodes, NEW s \in VerdictStatuses, NEW c \in BOOLEAN
  PROVE  Report(n, s, c) \in ReportType /\ Settled(Report(n, s, c))
<1>1. Report(n, s, c) \in ReportType
  BY DEF Report, ReportType
<1>2. /\ Report(n, s, c).own = s /\ Report(n, s, c).status = s
      /\ Report(n, s, c).nested = {} /\ Report(n, s, c).codes = {}
  BY DEF Report
<1>3. QED
  BY <1>1, <1>2 DEF Settled, Marked, Spotless

(* Resolving a report changes its status to that of all it tells.          *)
LEMMA ResolvedFacts ==
  ASSUME NEW r \in ReportType
  PROVE  /\ Resolved(r) \in ReportType
         /\ Resolved(r) = [r EXCEPT !.status = Resolved(r).status]
         /\ Settled(Resolved(r))
         /\ Resolved(r).status = "known_malicious" => "known_malicious" \in {r.own} \cup r.nested
<1> DEFINE corrupt == IF "archive_corrupt" \in r.codes THEN {"scan_error"} ELSE {}
           partial == IF r.codes \cap PartialCodes # {} THEN {"partial_scan"} ELSE {}
           told == {r.own} \cup r.nested \cup corrupt \cup partial
           whole == Overall(told)
<1>1. r.own \in VerdictStatuses /\ r.nested \subseteq VerdictStatuses /\ r.codes \subseteq ArchiveCodes
  BY DEF ReportType
<1>2. told \in SUBSET VerdictStatuses /\ told # {}
  BY <1>1, StatusesListed
<1>3. /\ whole \in told
      /\ "scan_error" \in told => whole = "scan_error"
      /\ "known_malicious" \in told => whole \in {"scan_error", "known_malicious"}
      /\ whole = "clean_by_known_checks" => \A s \in told : s = "clean_by_known_checks"
  BY <1>2, OverallFacts
<1>4. Resolved(r) = [r EXCEPT !.status = whole]
  BY DEF Resolved, ArchiveAwareStatus
<1>5. /\ "known_malicious" \in told => "known_malicious" \in {r.own} \cup r.nested
      /\ "archive_corrupt" \in r.codes => "scan_error" \in told
      /\ r.own \in told /\ \A s \in r.nested : s \in told
  OBVIOUS
<1>6. (\A s \in told : s = "clean_by_known_checks") => Spotless(r)
  <2>1. r.codes # {} => "scan_error" \in told \/ "partial_scan" \in told
    BY <1>1 DEF ArchiveCodes
  <2>2. QED
    BY <1>5, <2>1 DEF Spotless
<1> HIDE DEF whole, told
<1>7. /\ Resolved(r) \in ReportType /\ Resolved(r).status = whole
      /\ Resolved(r).own = r.own /\ Resolved(r).nested = r.nested /\ Resolved(r).codes = r.codes
  BY <1>2, <1>3, <1>4 DEF ReportType
<1>8. Settled(Resolved(r))
  <2>1. Marked(r) => whole \in {"known_malicious", "scan_error"}
    BY <1>3, <1>5 DEF Marked
  <2>2. QED
    BY <1>3, <1>5, <1>6, <1>7, <2>1 DEF Settled, Marked, Spotless
<1>9. QED
  BY <1>3, <1>4, <1>5, <1>7, <1>8

(* What is left of a report when the expansion fails.                      *)
LEMMA CorruptFacts ==
  ASSUME NEW r \in ReportType
  PROVE  /\ Corrupt(r) \in ReportType
         /\ Corrupt(r).node = r.node /\ Corrupt(r).own = r.own
         /\ Corrupt(r).convicted = r.convicted
         /\ Corrupt(r).nested = {} /\ Corrupt(r).triggers = {}
         /\ Corrupt(r).codes = {"archive_corrupt"}
         /\ Corrupt(r).scanned = 0 /\ Corrupt(r).bytes = 0
         /\ Settled(Corrupt(r)) /\ Marked(Corrupt(r))
         /\ Corrupt(r).status = "known_malicious" => r.own = "known_malicious"
<1> DEFINE bare == [Report(r.node, r.own, r.convicted) EXCEPT !.codes = {"archive_corrupt"}]
<1>1. bare \in ReportType
  BY CodesListed DEF Report, ReportType
<1>2. /\ bare.node = r.node /\ bare.own = r.own /\ bare.convicted = r.convicted
      /\ bare.nested = {} /\ bare.triggers = {} /\ bare.codes = {"archive_corrupt"}
      /\ bare.scanned = 0 /\ bare.bytes = 0
  BY DEF Report
<1>3. Corrupt(r) = Resolved(bare)
  BY DEF Corrupt
<1> HIDE DEF bare
<1>4. /\ Resolved(bare) \in ReportType /\ Settled(Resolved(bare))
      /\ Resolved(bare) = [bare EXCEPT !.status = Resolved(bare).status]
      /\ Resolved(bare).status = "known_malicious" => "known_malicious" \in {r.own}
  BY <1>1, <1>2, ResolvedFacts
<1>5. /\ Resolved(bare).node = bare.node /\ Resolved(bare).own = bare.own
      /\ Resolved(bare).convicted = bare.convicted /\ Resolved(bare).nested = bare.nested
      /\ Resolved(bare).triggers = bare.triggers /\ Resolved(bare).codes = bare.codes
      /\ Resolved(bare).scanned = bare.scanned /\ Resolved(bare).bytes = bare.bytes
  BY <1>1, <1>4 DEF ReportType
<1>6. QED
  BY <1>2, <1>3, <1>4, <1>5 DEF Marked

(* The report of a file that is not expanded.                              *)
LEMMA UnexpandedFacts ==
  ASSUME NEW n \in Nodes, NEW s \in VerdictStatuses, NEW c \in BOOLEAN
  PROVE  LET r == Unexpanded(Report(n, s, c))
         IN  /\ r \in ReportType
             /\ r.node = n /\ r.own = s /\ r.convicted = c
             /\ r.nested = {} /\ r.triggers = {} /\ r.scanned = 0 /\ r.bytes = 0
             /\ r.codes = {} => ~(Enabled /\ IsArchive(n) /\ InArchive)
             /\ r.status = "known_malicious" => s = "known_malicious"
             /\ Settled(r)
<1> DEFINE report == Report(n, s, c)
           deep == [report EXCEPT !.codes = {"archive_depth_limit_exceeded"}]
<1>1. CASE Enabled /\ IsArchive(n) /\ InArchive
  <2>1. Unexpanded(report) = Resolved(deep)
    BY <1>1 DEF Unexpanded, Report
  <2>2. deep \in ReportType
    BY CodesListed DEF Report, ReportType
  <2>3. /\ deep.node = n /\ deep.own = s /\ deep.convicted = c /\ deep.nested = {}
        /\ deep.triggers = {} /\ deep.scanned = 0 /\ deep.bytes = 0 /\ deep.codes # {}
    BY DEF Report
  <2> HIDE DEF deep
  <2>4. /\ Resolved(deep) \in ReportType /\ Settled(Resolved(deep))
        /\ Resolved(deep) = [deep EXCEPT !.status = Resolved(deep).status]
        /\ Resolved(deep).status = "known_malicious" => "known_malicious" \in {s}
    BY <2>2, <2>3, ResolvedFacts
  <2>5. /\ Resolved(deep).node = deep.node /\ Resolved(deep).own = deep.own
        /\ Resolved(deep).convicted = deep.convicted /\ Resolved(deep).nested = deep.nested
        /\ Resolved(deep).triggers = deep.triggers /\ Resolved(deep).codes = deep.codes
        /\ Resolved(deep).scanned = deep.scanned /\ Resolved(deep).bytes = deep.bytes
    BY <2>2, <2>4 DEF ReportType
  <2>6. QED
    BY <2>1, <2>3, <2>4, <2>5
<1>2. CASE ~(Enabled /\ IsArchive(n) /\ InArchive)
  <2>1. Unexpanded(report) = report
    BY <1>2 DEF Unexpanded, Report
  <2>2. report \in ReportType /\ Settled(report)
    BY ReportFacts
  <2>3. QED
    BY <1>2, <2>1, <2>2 DEF Report
<1>3. QED
  BY <1>1, <1>2

(* An issue is added to the report of an archive whose loop ends early.    *)
LEMMA BrokenFacts ==
  ASSUME NEW r \in ReportType, NEW code \in ArchiveCodes
  PROVE  LET broken == Resolved([r EXCEPT !.codes = @ \cup {code}])
         IN  /\ broken \in ReportType /\ Settled(broken)
             /\ broken.node = r.node /\ broken.own = r.own /\ broken.convicted = r.convicted
             /\ broken.nested = r.nested /\ broken.triggers = r.triggers
             /\ broken.scanned = r.scanned /\ broken.bytes = r.bytes
             /\ broken.codes = r.codes \cup {code}
             /\ broken.status = "known_malicious" => "known_malicious" \in {r.own} \cup r.nested
<1> DEFINE told == [r EXCEPT !.codes = @ \cup {code}]
<1>1. told \in ReportType
  BY DEF ReportType
<1>2. /\ told.node = r.node /\ told.own = r.own /\ told.convicted = r.convicted
      /\ told.nested = r.nested /\ told.triggers = r.triggers /\ told.scanned = r.scanned
      /\ told.bytes = r.bytes /\ told.codes = r.codes \cup {code}
  BY DEF ReportType
<1> HIDE DEF told
<1>3. /\ Resolved(told) \in ReportType /\ Settled(Resolved(told))
      /\ Resolved(told) = [told EXCEPT !.status = Resolved(told).status]
      /\ Resolved(told).status = "known_malicious" => "known_malicious" \in {r.own} \cup r.nested
  BY <1>1, <1>2, ResolvedFacts
<1>4. /\ Resolved(told).node = told.node /\ Resolved(told).own = told.own
      /\ Resolved(told).convicted = told.convicted /\ Resolved(told).nested = told.nested
      /\ Resolved(told).triggers = told.triggers /\ Resolved(told).codes = told.codes
      /\ Resolved(told).scanned = told.scanned /\ Resolved(told).bytes = told.bytes
  BY <1>1, <1>3 DEF ReportType
<1>5. QED
  BY <1>2, <1>3, <1>4 DEF told

(* An archive takes over what its member reports.                          *)
LEMMA AbsorbFacts ==
  ASSUME NEW r \in ReportType, NEW child \in ReportType
  PROVE  LET sum == Absorb(r, child)
         IN  /\ sum \in ReportType
             /\ sum.node = r.node /\ sum.own = r.own /\ sum.convicted = r.convicted
             /\ sum.status = r.status
             /\ sum.nested = r.nested \cup {child.status} \cup child.nested
             /\ sum.codes = r.codes \cup child.codes
             /\ sum.triggers = r.triggers \cup child.triggers
                                 \cup (IF Convicts(child) THEN {child.node} ELSE {})
             /\ sum.scanned = r.scanned + 1 + child.scanned
             /\ sum.bytes = r.bytes + child.bytes
<1>1. /\ r.nested \cup {child.status} \cup child.nested \in SUBSET VerdictStatuses
      /\ r.codes \cup child.codes \in SUBSET ArchiveCodes
      /\ r.triggers \cup child.triggers \cup (IF Convicts(child) THEN {child.node} ELSE {})
           \in SUBSET Nodes
      /\ r.members + child.members \in Nat
      /\ r.scanned + 1 + child.scanned \in Nat /\ r.bytes + child.bytes \in Nat
  BY DEF ReportType
<1>2. QED
  BY <1>1 DEF Absorb, ReportType

-----------------------------------------------------------------------------
(* The stack.                                                              *)

(* All but the last element.                                               *)
LEMMA FrontFacts ==
  ASSUME NEW S, NEW s \in Seq(S), s # << >>
  PROVE  /\ Len(s) \in Nat \ {0}
         /\ Front(s) \in Seq(S) /\ Len(Front(s)) = Len(s) - 1
         /\ \A k \in 1 .. Len(s) - 1 : Front(s)[k] = s[k]
         /\ Front(s) = << >> <=> Len(s) = 1
<1>1. Len(s) \in Nat \ {0}
  BY EmptySeq
<1>2. \A k \in 1 .. Len(s) - 1 : s[k] \in S
  BY <1>1, ElementOfSeq
<1>3. Front(s) = SubSeq(s, 1, Len(s) - 1)
  BY DEF Front
<1> DEFINE n == Len(s) - 1
<1>4. n \in Int /\ n >= 0
  BY <1>1
<1> HIDE DEF n
<1>5. /\ SubSeq(s, 1, n) \in Seq(S)
      /\ Len(SubSeq(s, 1, n)) = IF 1 <= n THEN n - 1 + 1 ELSE 0
      /\ \A k \in 1 .. n - 1 + 1 : SubSeq(s, 1, n)[k] = s[1 + k - 1]
  BY <1>2, <1>4, SubSeqProperties DEF n
<1>6. /\ Len(SubSeq(s, 1, n)) = n
      /\ \A k \in 1 .. n : SubSeq(s, 1, n)[k] = s[k]
  <2>1. n - 1 + 1 = n /\ \A k \in 1 .. n : 1 + k - 1 = k
    BY <1>4
  <2>2. QED
    BY <1>4, <1>5, <2>1
<1>7. Front(s) = << >> <=> Len(Front(s)) = 0
  BY <1>3, <1>5, EmptySeq DEF n
<1>8. QED
  BY <1>1, <1>3, <1>5, <1>6, <1>7 DEF n

LEMMA PutFacts ==
  ASSUME stack \in Seq(Frames), stack # << >>, NEW r \in ReportType, NEW n \in Nat \ {0},
         PutTop(r, n)
  PROVE  /\ stack' \in Seq(Frames) /\ stack' # << >> /\ Len(stack') = Len(stack)
         /\ \A k \in 1 .. Len(stack) - 1 : stack'[k] = stack[k]
         /\ stack'[Len(stack)] = [report |-> r, next |-> n]
<1> DEFINE front == Front(stack)
           frame == [report |-> r, next |-> n]
<1>1. Len(stack) \in Nat \ {0}
  BY EmptySeq
<1>2. /\ front \in Seq(Frames) /\ Len(front) = Len(stack) - 1
      /\ \A k \in 1 .. Len(stack) - 1 : front[k] = stack[k]
  BY FrontFacts
<1>3. frame \in Frames
  BY DEF Frames
<1>4. stack' = Append(front, frame)
  BY DEF PutTop
<1> HIDE DEF front, frame
<1>5. /\ stack' \in Seq(Frames) /\ stack' # << >> /\ Len(stack') = Len(front) + 1
      /\ \A k \in 1 .. Len(front) : stack'[k] = front[k]
      /\ stack'[Len(front) + 1] = frame
  BY <1>2, <1>3, <1>4, AppendProperties
<1>6. QED
  BY <1>1, <1>2, <1>5 DEF frame

LEMMA PopFacts ==
  ASSUME stack \in Seq(Frames), stack # << >>, stack' = Front(stack)
  PROVE  /\ stack' \in Seq(Frames) /\ Len(stack') = Len(stack) - 1
         /\ \A k \in 1 .. Len(stack) - 1 : stack'[k] = stack[k]
         /\ stack' = << >> <=> Len(stack) = 1
BY FrontFacts

(* What the archive on the top is, for its index.                          *)
LEMMA TopFacts ==
  ASSUME stack \in Seq(Frames), stack # << >>
  PROVE  /\ Len(stack) \in Nat \ {0}
         /\ stack[Len(stack)] \in Frames
         /\ Top = Frame(Len(stack)) /\ Opened = MemberAt(Len(stack)) /\ Awaited = Opened
         /\ Top \in ReportType /\ Last(stack).next \in Nat \ {0}
         /\ Last(stack) = stack[Len(stack)]
<1>1. Len(stack) \in Nat \ {0}
  BY EmptySeq
<1>2. stack[Len(stack)] \in Frames
  BY <1>1, ElementOfSeq
<1>3. Last(stack) = stack[Len(stack)]
  BY DEF Last
<1>4. Top = Frame(Len(stack)) /\ Opened = MemberAt(Len(stack)) /\ Awaited = Opened
  BY <1>3 DEF Top, Opened, Frame, MemberAt, Awaited
<1>5. QED
  BY <1>1, <1>2, <1>3, <1>4 DEF Frame, Frames

(* There is a greatest among indices of a sequence: the one that is least  *)
(* when they are counted from the end.                                     *)
LEMMA GreatestIndex ==
  ASSUME NEW n \in Nat, NEW S \in SUBSET (1 .. n), S # {}
  PROVE  Max(S) \in S /\ \A j \in S : Max(S) >= j
<1> DEFINE down == {n - j : j \in S}
<1>1. down \in SUBSET Nat /\ down # {}
  <2>1. \A j \in S : n - j \in Nat
    OBVIOUS
  <2>2. PICK j \in S : TRUE
    OBVIOUS
  <2>3. n - j \in down
    OBVIOUS
  <2>4. QED
    BY <2>1, <2>3
<1>2. PICK d \in down : \A e \in down : d <= e
  <2> HIDE DEF down
  <2>1. QED
    BY <1>1, LeastNumber
<1>3. PICK top \in S : d = n - top
  BY <1>2
<1>4. \A j \in S : top >= j
  <2> SUFFICES ASSUME NEW j \in S PROVE top >= j
    OBVIOUS
  <2>1. n - j \in down
    OBVIOUS
  <2>2. n - top <= n - j
    BY <1>2, <1>3, <2>1
  <2>3. QED
    BY <2>2
<1>5. QED
  BY <1>4 DEF Max

(* What is opened for a member is a file of the archive, and the member    *)
(* itself unless a later one has its name.                                 *)
LEMMA OpensFacts ==
  ASSUME NEW t \in [Nodes -> File], NEW n \in Nodes, NEW k \in 1 .. Len(t[n].members)
  PROVE  /\ Opens(t, n, k) \in Nodes
         /\ Opens(t, n, k) = t[n].members[k] \/ \E j \in Namesakes(t, n, k) : j > k
<1>1. t[n].members \in Seq(Nodes)
  BY DEF File
<1>2. Len(t[n].members) \in Nat /\ DOMAIN t[n].members = 1 .. Len(t[n].members)
  BY <1>1, LenProperties
<1>3. k \in Namesakes(t, n, k) /\ Namesakes(t, n, k) \subseteq 1 .. Len(t[n].members)
  BY <1>2 DEF Namesakes
<1>4. PICK j \in Namesakes(t, n, k) : j = Max(Namesakes(t, n, k)) /\ j >= k
  BY <1>2, <1>3, GreatestIndex
<1>5. Opens(t, n, k) = t[n].members[j] /\ j \in 1 .. Len(t[n].members)
  BY <1>3, <1>4 DEF Opens
<1>6. t[n].members[j] \in Nodes
  BY <1>1, <1>5, ElementOfSeq
<1>7. j = k \/ j > k
  BY <1>2, <1>4, <1>5
<1>8. QED
  BY <1>4, <1>5, <1>6, <1>7

-----------------------------------------------------------------------------
(* The invariant is kept.                                                  *)

LEMMA InitInv == Init => IInv
<1> SUFFICES ASSUME Init PROVE IInv
  OBVIOUS
<1>1. /\ tree \in Trees /\ mode \in ScanModes /\ pc = "scan" /\ node = Root
      /\ stack = << >> /\ result = Report(Root, "scan_error", FALSE)
      /\ budget = [members |-> 0, bytes |-> 0] /\ performed = FALSE /\ moved = FALSE
      /\ DOMAIN seen = {} /\ lost = {}
  BY DEF Init
<1>2. stack \in Seq(Frames) /\ Len(stack) = 0 /\ Root \in Nodes
  BY <1>1, EmptySeq, TreesAssumption
<1>3. result \in ReportType
  BY <1>1, <1>2, ReportFacts, StatusesListed
<1>4. TypeOK
  BY <1>1, <1>2, <1>3 DEF TypeOK, Pcs, Frames
<1>5. Convictions = {} /\ ~Carried
  BY <1>1 DEF Convictions, Carried
<1>6. ChainInv
  <2>1. Len(stack) <= MaxDepth /\ 1 .. Len(stack) = {}
    BY <1>2, LimitsAssumption
  <2>2. QED
    BY <1>1, <1>5, <2>1 DEF ChainInv, Awaited
<1>7. ReportInv /\ FindingInv
  <2>1. 1 .. Len(stack) = {} /\ pc = "scan"
    BY <1>1, <1>2
  <2>2. QED
    BY <1>5, <2>1 DEF ReportInv, FindingInv
<1>8. MoveInv /\ CoverInv
  BY <1>1, <1>2, <1>5 DEF MoveInv, CoverInv
<1>9. BudgetInv
  <2> DEFINE none == [k \in 0 .. 0 |-> 0]
  <2>1. Sums(none, none)
    BY <1>2 DEF Sums
  <2>2. Balance(none, none)
    <3>1. pc = "scan" /\ Len(stack) = 0 /\ none[0] = 0
      BY <1>1, <1>2
    <3>2. budget.members = 0 /\ budget.bytes = 0
      BY <1>1
    <3> HIDE DEF none
    <3>3. QED
      BY <1>5, <3>1, <3>2 DEF Balance, Balanced
  <2>3. QED
    BY <1>1, <2>1, <2>2, LimitsAssumption DEF BudgetInv
<1>10. QED
  BY <1>4, <1>6, <1>7, <1>8, <1>9 DEF IInv

(* An exception that nothing catches ends it all.                          *)
LEMMA RaisedInv ==
  ASSUME IInv, pc' = "raised",
         UNCHANGED <<tree, mode, node, stack, result, budget, performed, seen, lost>>,
         moved' \in BOOLEAN, performed => moved',
         moved' => /\ mode = ToMove
                   /\ Convictions # {}
                   /\ tree[Root].kind # "zip_archive" => Root \in Convictions
  PROVE  IInv'
<1>1. TypeOK'
  BY DEF IInv, TypeOK, Pcs
<1>2. Convictions' = Convictions /\ ~Carried'
  BY DEF Convictions, Carried
<1>3. ChainInv'
  BY <1>2 DEF IInv, ChainInv, Frame, MemberAt
<1>4. ReportInv'
  BY <1>2 DEF IInv, ReportInv, Sound, Frame
<1>5. FindingInv' /\ CoverInv'
  BY DEF FindingInv, CoverInv
<1>6. MoveInv'
  BY <1>2 DEF MoveInv
<1>7. BudgetInv'
  <2>1. PICK scanned, bytes : Sums(scanned, bytes)
    BY DEF IInv, BudgetInv
  <2>2. Sums(scanned, bytes)'
    BY <2>1 DEF Sums, Frame
  <2>3. Balance(scanned, bytes)'
    BY <1>2 DEF Balance
  <2>4. QED
    BY <2>2, <2>3 DEF IInv, BudgetInv
<1>8. QED
  BY <1>1, <1>3, <1>4, <1>5, <1>6, <1>7 DEF IInv

(* What is remembered of a verdict.                                        *)
LEMMA SeenFacts ==
  ASSUME NEW status \in VerdictStatuses, Gives(status)
  PROVE  /\ DOMAIN seen' = DOMAIN seen \cup {node}
         /\ seen'[node] = status
         /\ \A n \in DOMAIN seen : seen'[n] = seen[n]
         /\ \A n \in DOMAIN seen' : n # node => seen'[n] = seen[n]
         /\ Convictions \subseteq Convictions'
         /\ status = "known_malicious" => node \in Convictions'
         /\ status # "known_malicious" => Convictions' = Convictions
<1>1. /\ seen' = [n \in DOMAIN seen \cup {node} |-> IF n = node THEN status ELSE seen[n]]
      /\ node \in DOMAIN seen => seen[node] = status
  BY DEF Gives
<1>2. /\ DOMAIN seen' = DOMAIN seen \cup {node} /\ seen'[node] = status
      /\ \A n \in DOMAIN seen : seen'[n] = seen[n]
      /\ \A n \in DOMAIN seen' : n # node => seen'[n] = seen[n]
  BY <1>1
<1>3. \A n : n \in Convictions' <=> n \in DOMAIN seen' /\ seen'[n] = "known_malicious"
  BY DEF Convictions
<1>4. \A n : n \in Convictions <=> n \in DOMAIN seen /\ seen[n] = "known_malicious"
  BY DEF Convictions
<1>5. QED
  BY <1>1, <1>2, <1>3, <1>4

(* A file has been scanned, with any verdict, and moved or not.            *)
LEMMA ScannedInv ==
  ASSUME IInv, pc = "scan",
         NEW status \in VerdictStatuses, NEW own \in VerdictStatuses, NEW convicted \in BOOLEAN,
         Gives(status), Scanned(own, convicted),
         own # status => status = "known_malicious" /\ own = "scan_error",
         convicted <=> status = "known_malicious",
         UNCHANGED <<tree, mode, node, stack, budget, lost>>,
         performed' \in BOOLEAN, moved' \in BOOLEAN,
         MoveInv'
  PROVE  IInv'
<1> DEFINE report == Report(node, own, convicted)
<1>1. /\ stack \in Seq(Frames) /\ node \in Nodes /\ tree \in Trees
      /\ Len(stack) \in Nat /\ DOMAIN seen \subseteq Nodes
  BY LenProperties DEF IInv, TypeOK, Frames
<1>2. \/ pc' = "open" /\ Expandable(node) /\ result' = report
      \/ pc' = "return" /\ ~Expandable(node) /\ result' = Unexpanded(report)
  BY DEF Scanned
<1>3. report \in ReportType /\ Settled(report)
  BY <1>1, ReportFacts
<1>4. /\ result' \in ReportType
      /\ result'.node = node /\ result'.own = own /\ result'.convicted = convicted
      /\ result'.nested = {} /\ result'.triggers = {}
      /\ result'.scanned = 0 /\ result'.bytes = 0
      /\ result'.status = "known_malicious" => own = "known_malicious"
      /\ Settled(result')
      /\ pc' = "return" /\ result'.codes = {} => ~(Enabled /\ IsArchive(node) /\ InArchive)
  <2>1. CASE pc' = "open" /\ result' = report
    BY <1>3, <2>1 DEF Report
  <2>2. CASE pc' = "return" /\ result' = Unexpanded(report)
    BY <1>1, <2>2, UnexpandedFacts
  <2>3. QED
    BY <1>2, <2>1, <2>2
<1>5. /\ DOMAIN seen' = DOMAIN seen \cup {node}
      /\ seen'[node] = status
      /\ \A n \in DOMAIN seen : seen'[n] = seen[n]
      /\ \A n \in DOMAIN seen' : n # node => seen'[n] = seen[n]
      /\ Convictions \subseteq Convictions'
      /\ status = "known_malicious" => node \in Convictions'
      /\ status # "known_malicious" => Convictions' = Convictions
  BY SeenFacts
<1>6. /\ Carried' /\ ~Carried /\ stack' = stack
      /\ \A k : Frame(k)' = Frame(k) /\ MemberAt(k)' = MemberAt(k)
      /\ Awaited' = Awaited /\ \A n : IsArchive(n)' = IsArchive(n)
  BY <1>2 DEF Carried, Frame, MemberAt, Awaited, IsArchive
<1>7. TypeOK'
  <2>1. \A n \in DOMAIN seen' : seen'[n] \in VerdictStatuses
    BY <1>5 DEF IInv, TypeOK
  <2>2. pc' \in Pcs /\ DOMAIN seen' \subseteq Nodes
    BY <1>1, <1>2, <1>5 DEF Pcs
  <2>3. QED
    BY <1>4, <2>1, <2>2 DEF IInv, TypeOK
<1>8. ChainInv'
  <2>1. Expandable(node)' = Expandable(node)
    BY <1>6 DEF Expandable, Depth
  <2>2. QED
    BY <1>2, <1>4, <1>6, <2>1 DEF IInv, ChainInv
<1>9. ReportInv'
  <2>1. \A k \in 1 .. Len(stack) : Sound(Frame(k))'
    BY <1>5, <1>6 DEF IInv, ReportInv, Sound
  <2>2. Sound(result)'
    BY <1>4, <1>5 DEF Sound
  <2>3. pc' = "open" => result' = Report(result'.node, result'.own, result'.convicted)
    BY <1>2, <1>4
  <2>4. QED
    BY <1>4, <1>6, <2>1, <2>2, <2>3 DEF ReportInv
<1>10. FindingInv'
  <2>1. CASE status = "known_malicious"
    BY <1>4, <1>6, <2>1 DEF FindingInv, Marked
  <2>2. CASE status # "known_malicious"
    BY <1>5, <1>6, <2>2 DEF IInv, FindingInv
  <2>3. QED
    BY <2>1, <2>2
<1>11. CoverInv'
  <2>1. \A k \in 1 .. Len(stack) : Frame(k).codes = {} =>
          \A j \in 1 .. stack[k].next - 1 : Opens(tree, Frame(k).node, j) \in DOMAIN seen'
    BY <1>5 DEF IInv, CoverInv
  <2>2. ASSUME Enabled, MaxDepth > 0, AllSpotless', NEW n \in DOMAIN seen'
        PROVE  /\ seen'[n] = "clean_by_known_checks"
               /\ IsArchive(n) => Covered(n)' \/ Open(n)'
    <3>1. AllSpotless /\ own = "clean_by_known_checks" /\ result'.codes = {}
      BY <1>4, <1>6, <2>2 DEF AllSpotless, Spotless
    <3>2. CASE n = node
      <4>1. seen'[n] = "clean_by_known_checks"
        BY <1>5, <3>1, <3>2
      <4>2. pc' = "return" => InArchive \/ ~IsArchive(node)
        BY <1>1, <1>2, <2>2, LimitsAssumption DEF Expandable, InArchive, Depth
      <4>3. pc' = "open" => Open(n)'
        BY <3>2 DEF Open
      <4>4. QED
        BY <1>2, <1>4, <2>2, <3>1, <3>2, <4>1, <4>2, <4>3
    <3>3. CASE n # node
      <4>1. n \in DOMAIN seen /\ seen'[n] = seen[n]
        BY <1>5, <3>3
      <4>2. seen[n] = "clean_by_known_checks" /\ (IsArchive(n) => Covered(n) \/ Open(n))
        BY <2>2, <3>1, <4>1 DEF IInv, CoverInv
      <4>3. (Covered(n) => Covered(n)') /\ (Open(n) => Open(n)')
        BY <1>5, <1>6 DEF Covered, Open
      <4>4. QED
        BY <4>1, <4>2, <4>3
    <3>4. QED
      BY <3>2, <3>3
  <2>3. QED
    BY <1>6, <2>1, <2>2 DEF CoverInv
<1>12. BudgetInv'
  <2>1. PICK scanned, bytes : Sums(scanned, bytes) /\ Balance(scanned, bytes)
    BY DEF IInv, BudgetInv
  <2>2. Sums(scanned, bytes)'
    BY <1>6, <2>1 DEF Sums
  <2>3. scanned[Len(stack)] \in Nat /\ bytes[Len(stack)] \in Nat
    BY <1>1, <2>1 DEF Sums
  <2>4. Balance(scanned, bytes)'
    BY <1>2, <1>4, <1>6, <2>1, <2>3 DEF Balance, Balanced
  <2>5. QED
    BY <2>2, <2>4 DEF IInv, BudgetInv
<1>13. QED
  BY <1>7, <1>8, <1>9, <1>10, <1>11, <1>12 DEF IInv

LEMMA ScannedFacts ==
  ASSUME TypeOK, NEW own \in VerdictStatuses, NEW convicted \in BOOLEAN,
         Scanned(own, convicted)
  PROVE  result'.own = own /\ pc' \in {"open", "return"} /\ Carried'
<1>1. node \in Nodes
  BY DEF TypeOK
<1>2. \/ pc' = "open" /\ result' = Report(node, own, convicted)
      \/ pc' = "return" /\ result' = Unexpanded(Report(node, own, convicted))
  BY DEF Scanned
<1>3. Unexpanded(Report(node, own, convicted)).own = own
  BY <1>1, UnexpandedFacts
<1>4. Report(node, own, convicted).own = own
  BY DEF Report
<1>5. QED
  BY <1>2, <1>3, <1>4 DEF Carried

(* What was moved follows from the verdict that has just been given.       *)
LEMMA ScanNodeInv ==
  ASSUME IInv, NEW status \in NodeStatuses, ScanNode(status)
  PROVE  IInv'
<1> DEFINE convicted == status = "known_malicious"
<1>1. /\ pc = "scan" /\ Gives(status) /\ Scanned(status, convicted)
      /\ InArchive \/ Decision(mode, status) # "move"
      /\ UNCHANGED <<tree, mode, node, stack, budget, performed, moved, lost>>
  BY DEF ScanNode
<1>2. status \in VerdictStatuses /\ mode \in QuarantineModes
  BY StatusesAssumption DEF IInv, TypeOK
<1>3. performed' \in BOOLEAN /\ moved' \in BOOLEAN
  BY <1>1 DEF IInv, TypeOK
<1>4. Convictions \subseteq Convictions'
  BY <1>1, <1>2, SeenFacts
<1>5. MoveInv'
  <2>1. performed' = performed /\ moved' = moved /\ stack' = stack /\ pc' \in {"open", "return"} /\ Carried'
    BY <1>1, <1>2, ScannedFacts DEF IInv
  <2>2. CASE InArchive
    <3>1. RootOwn' = RootOwn
      BY <1>1, <2>2 DEF RootOwn, InArchive, Frame
    <3>2. QED
      BY <1>1, <1>4, <2>1, <2>2, <3>1 DEF IInv, MoveInv, InArchive
  <2>3. CASE ~InArchive
    <3>1. ~(status = "known_malicious" /\ mode = ToMove)
      BY <1>1, <1>2, <2>3, DecisionFacts
    <3>2. ~moved /\ ~performed
      BY <1>1, <2>3 DEF IInv, MoveInv, InArchive
    <3>3. result'.own = status
      BY <1>1, <1>2, ScannedFacts DEF IInv
    <3>4. RootOwn' = status
      BY <1>1, <2>3, <3>3 DEF RootOwn, InArchive
    <3>5. QED
      BY <1>1, <2>1, <3>1, <3>2, <3>4 DEF MoveInv
  <2>4. QED
    BY <2>2, <2>3
<1>6. QED
  BY <1>1, <1>2, <1>3, <1>5, ScannedInv

LEMMA ScanAndMoveInv ==
  ASSUME IInv, ScanAndMove \/ ScanAndFailToMove
  PROVE  IInv'
<1> DEFINE own == IF ScanAndMove THEN "known_malicious" ELSE "scan_error"
<1>1. /\ pc = "scan" /\ Gives("known_malicious")
      /\ ~InArchive /\ Decision(mode, "known_malicious") = "move"
      /\ UNCHANGED <<tree, mode, node, stack, budget, lost>>
  BY DEF ScanAndMove, ScanAndFailToMove
<1>2. \E o \in {"known_malicious", "scan_error"} :
        /\ Scanned(o, TRUE)
        /\ o = "known_malicious" => performed' = TRUE /\ moved' = TRUE
        /\ o = "scan_error" => performed' = performed /\ moved' \in BOOLEAN
  BY DEF ScanAndMove, ScanAndFailToMove
<1>3. PICK o \in {"known_malicious", "scan_error"} :
        /\ Scanned(o, TRUE)
        /\ o = "known_malicious" => performed' = TRUE /\ moved' = TRUE
        /\ o = "scan_error" => performed' = performed /\ moved' \in BOOLEAN
  BY <1>2
<1>4. "known_malicious" \in VerdictStatuses /\ o \in VerdictStatuses
  BY StatusesListed
<1>5. mode = ToMove
  BY <1>1, StatusesAssumption, DecisionFacts DEF IInv, TypeOK
<1>6. stack = << >> /\ node = Root /\ ~moved /\ ~performed
  BY <1>1 DEF IInv, MoveInv, ChainInv, Awaited, InArchive
<1>7. Root \in Convictions'
  BY <1>1, <1>4, <1>6, SeenFacts
<1>8. performed' \in BOOLEAN /\ moved' \in BOOLEAN
  BY <1>3 DEF IInv, TypeOK
<1>9. MoveInv'
  <2>1. result'.own = o /\ pc' \in {"open", "return"} /\ Carried'
    BY <1>3, <1>4, ScannedFacts DEF IInv
  <2>2. RootOwn' = o
    BY <1>1, <1>6, <2>1 DEF RootOwn
  <2>3. QED
    BY <1>1, <1>3, <1>5, <1>6, <1>7, <2>1, <2>2 DEF MoveInv
<1>10. QED
  BY <1>1, <1>3, <1>4, <1>8, <1>9, ScannedInv

(* The archive on the top is left with a report, finished or what is left. *)
LEMMA PopInv ==
  ASSUME IInv, stack # << >>, pc \in {"scan", "members"},
         NEW r \in ReportType, PopTop(r), Settled(r),
         r.node = Top.node, r.own = Top.own, r.convicted = Top.convicted,
         r.status = "known_malicious" => "known_malicious" \in {r.own} \cup r.nested,
         Marked(Top) => Marked(r),
         \/ /\ r.nested = {} /\ r.triggers = {} /\ r.scanned = 0 /\ r.bytes = 0
            /\ r.codes = {"archive_corrupt"}
            /\ lost' = lost \cup {Top.node}
         \/ /\ pc = "members"
            /\ r.nested = Top.nested /\ r.triggers = Top.triggers
            /\ r.scanned = Top.scanned /\ r.bytes = Top.bytes
            /\ Top.codes \subseteq r.codes /\ (r.codes = {} => ~MoreMembers)
            /\ lost' = lost,
         UNCHANGED <<tree, mode, node, budget, performed, moved, seen>>
  PROVE  IInv'
<1> DEFINE last == Len(stack)
           dropped == /\ r.nested = {} /\ r.triggers = {} /\ r.scanned = 0 /\ r.bytes = 0
                      /\ r.codes = {"archive_corrupt"}
                      /\ lost' = lost \cup {Top.node}
           kept == /\ pc = "members"
                   /\ r.nested = Top.nested /\ r.triggers = Top.triggers
                   /\ r.scanned = Top.scanned /\ r.bytes = Top.bytes
                   /\ Top.codes \subseteq r.codes /\ (r.codes = {} => ~MoreMembers)
                   /\ lost' = lost
<1>1. stack \in Seq(Frames) /\ stack' = Front(stack) /\ result' = r /\ pc' = "return"
  BY DEF IInv, TypeOK, Frames, PopTop
<1>2. /\ last \in Nat \ {0} /\ Top = Frame(last) /\ Top \in ReportType
      /\ Opened = MemberAt(last) /\ Last(stack) = stack[last]
  BY <1>1, TopFacts
<1>3. /\ stack' \in Seq(Frames) /\ Len(stack') = last - 1
      /\ \A k \in 1 .. last - 1 : stack'[k] = stack[k]
      /\ stack' = << >> <=> last = 1
  BY <1>1, PopFacts
<1>4. Carried' /\ ~Carried /\ Convictions' = Convictions
  BY <1>1 DEF Carried, Convictions
<1>5. \A k \in 1 .. last - 1 : Frame(k)' = Frame(k) /\ MemberAt(k)' = MemberAt(k)
  BY <1>3 DEF Frame, MemberAt
<1>6. dropped \/ kept
  OBVIOUS
<1> HIDE DEF last, dropped, kept
<1>7. TypeOK'
  <2>1. lost' \subseteq Nodes
    BY <1>2, <1>6 DEF IInv, TypeOK, ReportType, dropped, kept
  <2>2. QED
    BY <1>1, <1>3, <2>1 DEF IInv, TypeOK, Frames, Pcs
<1>8. ChainInv'
  <2>1. Awaited' = IF last = 1 THEN Root ELSE MemberAt(last - 1)
    BY <1>2, <1>3, <1>5 DEF Awaited
  <2>2. result'.node = Awaited'
    <3>1. Frame(last).node = IF last = 1 THEN Root ELSE MemberAt(last - 1)
      <4>1. \A k \in 1 .. last : Frame(k).node = IF k = 1 THEN Root ELSE MemberAt(k - 1)
        BY DEF IInv, ChainInv, last
      <4>2. last \in 1 .. last
        BY <1>2
      <4>3. QED
        BY <4>1, <4>2
    <3>2. QED
      BY <1>1, <1>2, <2>1, <3>1
  <2>3. Len(stack') <= MaxDepth
    BY <1>2, <1>3, LimitsAssumption DEF IInv, ChainInv, last
  <2>4. \A k \in 1 .. last - 1 :
          Frame(k)'.node = IF k = 1 THEN Root ELSE MemberAt(k - 1)'
    BY <1>2, <1>5 DEF IInv, ChainInv, last
  <2>5. QED
    BY <1>1, <1>3, <2>2, <2>3, <2>4 DEF ChainInv
<1>9. ReportInv'
  <2>1. \A k \in 1 .. last - 1 : Sound(Frame(k))'
    BY <1>2, <1>4, <1>5 DEF IInv, ReportInv, Sound, last
  <2>2. Sound(r)'
    <3>1. Sound(Top)
      BY <1>2 DEF IInv, ReportInv, last
    <3>2. QED
      BY <1>4, <1>6, <3>1 DEF Sound, dropped, kept
  <2>3. QED
    BY <1>1, <1>3, <2>1, <2>2 DEF ReportInv
<1>10. FindingInv'
  <2>1. SUFFICES ASSUME Convictions # {}
                 PROVE  \/ \E k \in 1 .. last - 1 : Marked(Frame(k))
                        \/ Marked(r)
    BY <1>1, <1>3, <1>4, <1>5 DEF FindingInv
  <2>2. PICK k \in 1 .. last : Marked(Frame(k))
    BY <1>1, <1>4, <2>1 DEF IInv, FindingInv, last
  <2>3. QED
    BY <1>2, <2>2
<1>11. MoveInv'
  <2>1. RootOwn' = RootOwn
    BY <1>1, <1>2, <1>3, <1>5 DEF RootOwn, Frame
  <2>2. QED
    BY <1>1, <1>4, <2>1 DEF IInv, MoveInv
<1>12. CoverInv'
  <2>1. \A k \in 1 .. last - 1 : Frame(k)'.codes = {} =>
          \A j \in 1 .. stack'[k].next - 1 : Opens(tree, Frame(k)'.node, j) \in DOMAIN seen
    BY <1>1, <1>2, <1>3, <1>5 DEF IInv, CoverInv, last
  <2>2. ASSUME Enabled, MaxDepth > 0, AllSpotless', NEW n \in DOMAIN seen
        PROVE  /\ seen[n] = "clean_by_known_checks"
               /\ IsArchive(n) => Covered(n) \/ Open(n)'
    <3>1. Spotless(r) /\ \A k \in 1 .. last - 1 : Spotless(Frame(k))
      BY <1>1, <1>3, <1>4, <1>5, <2>2 DEF AllSpotless
    <3>2. kept
      BY <1>6, <3>1 DEF Spotless, dropped
    <3>3. Spotless(Top) /\ ~MoreMembers
      BY <3>1, <3>2 DEF Spotless, kept
    <3>4. AllSpotless
      BY <1>2, <1>4, <3>1, <3>3 DEF AllSpotless, last
    <3>5. seen[n] = "clean_by_known_checks" /\ (IsArchive(n) => Covered(n) \/ Open(n))
      BY <1>1, <2>2, <3>4 DEF IInv, CoverInv
    <3>6. Covered(Top.node)
      <4>1. \A j \in 1 .. stack[last].next - 1 : Opens(tree, Top.node, j) \in DOMAIN seen
        BY <1>1, <1>2, <3>3 DEF IInv, CoverInv, Spotless, last
      <4>2. ~(stack[last].next <= Len(tree[Top.node].members))
        BY <1>2, <3>3 DEF MoreMembers
      <4>3. stack[last].next \in Nat /\ Len(tree[Top.node].members) \in Nat
        <5>1. Top.node \in Nodes /\ tree \in [Nodes -> File]
          BY <1>2, TreesAssumption DEF ReportType, IInv, TypeOK
        <5>2. tree[Top.node].members \in Seq(Nodes)
          BY <5>1 DEF File
        <5>3. stack[last] \in Frames
          BY <1>1, TopFacts DEF last
        <5>4. QED
          BY <5>2, <5>3, LenProperties DEF Frames
      <4>4. QED
        BY <4>1, <4>2, <4>3 DEF Covered
    <3>7. Open(n) => n = Top.node \/ Open(n)'
      <4>1. SUFFICES ASSUME NEW k \in 1 .. last, Frame(k).node = n, n # Top.node
                     PROVE  \E m \in 1 .. Len(stack') : Frame(m)'.node = n
        BY DEF Open, last
      <4>2. k # last
        BY <1>2, <4>1
      <4>3. QED
        BY <1>2, <1>3, <1>5, <4>1, <4>2
    <3>8. QED
      BY <3>5, <3>6, <3>7
  <2>3. \A n : Covered(n)' = Covered(n) /\ IsArchive(n)' = IsArchive(n)
    BY DEF Covered, IsArchive
  <2>4. QED
    BY <1>3, <2>1, <2>2, <2>3 DEF CoverInv
<1>13. BudgetInv'
  <2>1. PICK scanned, bytes : Sums(scanned, bytes) /\ Balance(scanned, bytes)
    BY DEF IInv, BudgetInv
  <2> PICK s, b : /\ s = [k \in 0 .. last - 1 |-> scanned[k]]
                  /\ b = [k \in 0 .. last - 1 |-> bytes[k]]
    OBVIOUS
  <2>2. /\ scanned \in [0 .. last -> Nat] /\ bytes \in [0 .. last -> Nat]
        /\ scanned[0] = 0 /\ bytes[0] = 0
        /\ \A k \in 1 .. last :
             /\ scanned[k] = scanned[k - 1] + Frame(k).scanned + 1
             /\ bytes[k] = bytes[k - 1] + Frame(k).bytes
    BY <2>1 DEF Sums, last
  <2>3. Sums(s, b)'
    <3>1. s \in [0 .. last - 1 -> Nat] /\ b \in [0 .. last - 1 -> Nat]
      BY <1>2, <2>2
    <3>2. s[0] = 0 /\ b[0] = 0
      BY <1>2, <2>2
    <3>3. \A k \in 1 .. last - 1 :
            /\ s[k] = s[k - 1] + Frame(k)'.scanned + 1
            /\ b[k] = b[k - 1] + Frame(k)'.bytes
      BY <1>2, <1>5, <2>2
    <3>4. QED
      BY <1>3, <3>1, <3>2, <3>3 DEF Sums
  <2>4. /\ scanned[last] = s[last - 1] + Top.scanned + 1
        /\ bytes[last] = b[last - 1] + Top.bytes
        /\ s[last - 1] \in Nat /\ b[last - 1] \in Nat
    BY <1>2, <2>2
  <2>5. Balance(s, b)'
    <3>1. /\ pc = "scan" => Balanced(scanned[last], bytes[last])
          /\ pc = "members" => Balanced(scanned[last] - 1, bytes[last])
      BY <2>1 DEF Balance, last
    <3>2. budget.members \in Nat /\ budget.bytes \in Nat /\ Top.scanned \in Nat /\ Top.bytes \in Nat
      BY <1>2 DEF IInv, TypeOK, ReportType
    <3>3. /\ s[Len(stack')] + result'.scanned = s[last - 1] + r.scanned
          /\ b[Len(stack')] + result'.bytes = b[last - 1] + r.bytes
      BY <1>1, <1>3
    <3>4. Balanced(s[Len(stack)] + result.scanned, b[Len(stack)] + result.bytes)'
      <4>1. CASE dropped
        <5>1. lost' # {} /\ r.scanned = 0 /\ r.bytes = 0
          BY <4>1 DEF dropped
        <5>2. s[last - 1] <= budget.members /\ b[last - 1] <= budget.bytes
          <6>1. PICK p \in Nat, q \in Nat, t \in Nat, v \in Nat :
                  /\ p = s[last - 1] /\ q = b[last - 1] /\ t = Top.scanned /\ v = Top.bytes
            BY <2>4, <3>2
          <6>2. scanned[last] = p + t + 1 /\ bytes[last] = q + v
            BY <2>4, <6>1
          <6>3. \/ p + t + 1 <= budget.members /\ q + v <= budget.bytes
                \/ p + t + 1 - 1 <= budget.members /\ q + v <= budget.bytes
            BY <3>1, <6>2 DEF Balanced
          <6>4. PICK most \in Nat, size \in Nat : most = budget.members /\ size = budget.bytes
            BY <3>2
          <6>5. \/ p + t + 1 <= most /\ q + v <= size
                \/ p + t + 1 - 1 <= most /\ q + v <= size
            BY <6>3, <6>4
          <6>6. p <= most /\ q <= size
            BY <6>5
          <6>7. QED
            BY <6>1, <6>4, <6>6
        <5>3. QED
          BY <2>4, <3>3, <5>1, <5>2 DEF Balanced
      <4>2. CASE kept
        <5>1. r.scanned = Top.scanned /\ r.bytes = Top.bytes /\ lost' = lost
          BY <4>2 DEF kept
        <5>2. Balanced(s[last - 1] + r.scanned, b[last - 1] + r.bytes)
          BY <2>4, <3>1, <3>2, <4>2, <5>1 DEF Balanced, kept
        <5>3. QED
          BY <3>3, <5>1, <5>2 DEF Balanced
      <4>3. QED
        BY <1>6, <4>1, <4>2
    <3>5. QED
      BY <1>1, <3>4 DEF Balance, Carried
  <2>6. QED
    BY <2>3, <2>5 DEF IInv, BudgetInv
<1>14. QED
  BY <1>7, <1>8, <1>9, <1>10, <1>11, <1>12, <1>13 DEF IInv

(* An expansion that fails leaves the verdict on the archive itself.       *)
LEMMA DroppedInv ==
  ASSUME IInv, stack # << >>, pc \in {"scan", "members"},
         PopTop(Corrupt(Top)), lost' = lost \cup {Top.node},
         UNCHANGED <<tree, mode, node, budget, performed, moved, seen>>
  PROVE  IInv'
<1>1. Top \in ReportType /\ Sound(Top)
  <2>1. stack \in Seq(Frames)
    BY DEF IInv, TypeOK, Frames
  <2>2. QED
    BY <2>1, TopFacts DEF IInv, ReportInv
<1>2. PICK r : r = Corrupt(Top)
  OBVIOUS
<1>3. /\ r \in ReportType
      /\ r.node = Top.node /\ r.own = Top.own /\ r.convicted = Top.convicted
      /\ r.nested = {} /\ r.triggers = {} /\ r.codes = {"archive_corrupt"}
      /\ r.scanned = 0 /\ r.bytes = 0 /\ Settled(r) /\ Marked(r)
      /\ r.status = "known_malicious" => "known_malicious" \in {r.own} \cup r.nested
  BY <1>1, <1>2, CorruptFacts
<1>4. PopTop(r)
  BY <1>2
<1>5. QED
  BY <1>3, <1>4, PopInv

(* The loop over the members ends early.                                   *)
LEMMA BrokenInv ==
  ASSUME IInv, pc = "members", NEW code \in ArchiveCodes, BreakWith(code)
  PROVE  IInv'
<1>1. stack # << >> /\ stack \in Seq(Frames)
  BY DEF IInv, ChainInv, TypeOK, Frames
<1>2. Top \in ReportType
  BY <1>1, TopFacts
<1>3. PICK r : r = Resolved([Top EXCEPT !.codes = @ \cup {code}])
  OBVIOUS
<1>4. /\ r \in ReportType /\ Settled(r)
      /\ r.node = Top.node /\ r.own = Top.own /\ r.convicted = Top.convicted
      /\ r.nested = Top.nested /\ r.triggers = Top.triggers
      /\ r.scanned = Top.scanned /\ r.bytes = Top.bytes /\ r.codes = Top.codes \cup {code}
      /\ r.status = "known_malicious" => "known_malicious" \in {r.own} \cup r.nested
  BY <1>2, <1>3, BrokenFacts
<1>5. Marked(Top) => Marked(r)
  BY <1>4 DEF Marked
<1>6. PopTop(r) /\ UNCHANGED <<tree, mode, node, budget, performed, moved, seen, lost>>
  BY <1>3 DEF BreakWith
<1>7. Top.codes \subseteq r.codes /\ r.codes # {}
  BY <1>4
<1>8. QED
  BY <1>1, <1>4, <1>5, <1>6, <1>7, PopInv

LEMMA CloseInv ==
  ASSUME IInv, CloseArchive
  PROVE  IInv'
<1>1. stack # << >> /\ stack \in Seq(Frames)
  BY DEF IInv, ChainInv, TypeOK, Frames, CloseArchive
<1>2. Top \in ReportType
  BY <1>1, TopFacts
<1>3. PICK r : r = Resolved(Top)
  OBVIOUS
<1>4. /\ r \in ReportType /\ Settled(r) /\ r = [Top EXCEPT !.status = r.status]
      /\ r.status = "known_malicious" => "known_malicious" \in {Top.own} \cup Top.nested
  BY <1>2, <1>3, ResolvedFacts
<1>5. /\ r.node = Top.node /\ r.own = Top.own /\ r.convicted = Top.convicted
      /\ r.nested = Top.nested /\ r.triggers = Top.triggers
      /\ r.scanned = Top.scanned /\ r.bytes = Top.bytes /\ r.codes = Top.codes
  BY <1>2, <1>4 DEF ReportType
<1>6. Marked(Top) => Marked(r)
  BY <1>5 DEF Marked
<1>7. /\ pc = "members" /\ ~MoreMembers /\ PopTop(r)
      /\ UNCHANGED <<tree, mode, node, budget, performed, moved, seen, lost>>
  BY <1>3 DEF CloseArchive
<1>8. QED
  BY <1>1, <1>4, <1>5, <1>6, <1>7, PopInv

(* The archive on the top goes on with another report.                     *)
LEMMA PutShape ==
  ASSUME IInv, stack # << >>, NEW r \in ReportType, NEW n \in Nat \ {0}, PutTop(r, n),
         r.node = Top.node, r.own = Top.own, tree' = tree
  PROVE  /\ stack' \in Seq(Frames) /\ stack' # << >> /\ Len(stack') = Len(stack)
         /\ \A k \in 1 .. Len(stack) - 1 :
              Frame(k)' = Frame(k) /\ MemberAt(k)' = MemberAt(k) /\ stack'[k] = stack[k]
         /\ Frame(Len(stack))' = r /\ stack'[Len(stack)].next = n
         /\ \A k \in 1 .. Len(stack) :
              Frame(k)'.node = IF k = 1 THEN Root ELSE MemberAt(k - 1)'
         /\ Frame(1)'.own = Frame(1).own
         /\ Awaited' = Opens(tree, r.node, n)
<1> DEFINE last == Len(stack)
<1>1. stack \in Seq(Frames)
  BY DEF IInv, TypeOK, Frames
<1>2. /\ stack' \in Seq(Frames) /\ stack' # << >> /\ Len(stack') = last
      /\ \A k \in 1 .. last - 1 : stack'[k] = stack[k]
      /\ stack'[last] = [report |-> r, next |-> n]
  BY <1>1, PutFacts
<1>3. last \in Nat \ {0} /\ Top = Frame(last)
  BY <1>1, TopFacts
<1>4. \A k \in 1 .. last :
        Frame(k).node = IF k = 1 THEN Root ELSE MemberAt(k - 1)
  BY DEF IInv, ChainInv
<1> HIDE DEF last
<1>5. \A k \in 1 .. last - 1 : Frame(k)' = Frame(k) /\ MemberAt(k)' = MemberAt(k)
  BY <1>2 DEF Frame, MemberAt
<1>6. Frame(last)' = r /\ stack'[last].next = n
  <2>1. \A k : k = last => Frame(k)' = r /\ stack'[k].next = n
    BY <1>2 DEF Frame
  <2>2. QED
    BY <1>2, <2>1 DEF last, Frame
<1>7. \A k \in 1 .. last :
        Frame(k)'.node = IF k = 1 THEN Root ELSE MemberAt(k - 1)'
  <2> SUFFICES ASSUME NEW k \in 1 .. last
               PROVE  Frame(k)'.node = IF k = 1 THEN Root ELSE MemberAt(k - 1)'
    OBVIOUS
  <2>1. Frame(k)'.node = Frame(k).node
    <3>1. CASE k = last
      BY <1>2, <1>3, <3>1 DEF Frame
    <3>2. CASE k # last
      BY <1>3, <1>5, <3>2
    <3>3. QED
      BY <3>1, <3>2
  <2>2. k # 1 => MemberAt(k - 1)' = MemberAt(k - 1)
    BY <1>3, <1>5
  <2>3. QED
    BY <1>4, <2>1, <2>2
<1>8. Frame(1)'.own = Frame(1).own
  <2>1. CASE last = 1
    BY <1>2, <1>3, <2>1 DEF Frame
  <2>2. CASE last # 1
    BY <1>3, <1>5, <2>2
  <2>3. QED
    BY <2>1, <2>2
<1>9. Awaited' = Opens(tree, r.node, n)
  BY <1>2 DEF Awaited, MemberAt, Frame
<1>10. QED
  BY <1>2, <1>5, <1>6, <1>7, <1>8, <1>9 DEF last

LEMMA PutSums ==
  ASSUME IInv, stack # << >>, NEW r \in ReportType, NEW n \in Nat \ {0}, PutTop(r, n),
         r.node = Top.node, r.own = Top.own, tree' = tree,
         NEW scanned, NEW bytes, Sums(scanned, bytes)
  PROVE  \E s, b : /\ Sums(s, b)'
                   /\ s[Len(stack)] = scanned[Len(stack)] - Top.scanned + r.scanned
                   /\ b[Len(stack)] = bytes[Len(stack)] - Top.bytes + r.bytes
                   /\ scanned[Len(stack)] \in Nat /\ bytes[Len(stack)] \in Nat
                   /\ scanned[Len(stack)] > Top.scanned /\ bytes[Len(stack)] >= Top.bytes
<1>1. PICK last : last = Len(stack)
  OBVIOUS
<1>2. stack \in Seq(Frames)
  BY DEF IInv, TypeOK, Frames
<1>3. last \in Nat \ {0} /\ Top = Frame(last) /\ Top \in ReportType
  BY <1>1, <1>2, TopFacts
<1>4. /\ Len(stack') = last /\ Frame(last)' = r
      /\ \A k \in 1 .. last - 1 : Frame(k)' = Frame(k)
  <2>1. Frame(Len(stack))' = r /\ Len(stack') = last
    BY <1>1, PutShape
  <2>2. QED
    BY <1>1, <2>1, PutShape DEF Frame
<1>5. /\ scanned \in [0 .. last -> Nat] /\ bytes \in [0 .. last -> Nat]
      /\ scanned[0] = 0 /\ bytes[0] = 0
      /\ \A k \in 1 .. last :
           /\ scanned[k] = scanned[k - 1] + Frame(k).scanned + 1
           /\ bytes[k] = bytes[k - 1] + Frame(k).bytes
  BY <1>1 DEF Sums
<1>6. /\ r.scanned \in Nat /\ r.bytes \in Nat /\ Top.scanned \in Nat /\ Top.bytes \in Nat
  BY <1>3 DEF ReportType
<1>7. PICK s, b : /\ s = [scanned EXCEPT ![last] = scanned[last - 1] + r.scanned + 1]
                  /\ b = [bytes EXCEPT ![last] = bytes[last - 1] + r.bytes]
  OBVIOUS
<1>8. s \in [0 .. last -> Nat] /\ b \in [0 .. last -> Nat]
  <2>1. scanned[last - 1] \in Nat /\ bytes[last - 1] \in Nat
    BY <1>3, <1>5
  <2>2. /\ scanned[last - 1] + r.scanned + 1 \in Nat
        /\ bytes[last - 1] + r.bytes \in Nat
    BY <1>6, <2>1
  <2>3. QED
    BY <1>5, <1>7, <2>2
<1>9. s[0] = 0 /\ b[0] = 0
  BY <1>3, <1>5, <1>7
<1>10. \A k \in 1 .. last :
         /\ s[k] = s[k - 1] + Frame(k)'.scanned + 1
         /\ b[k] = b[k - 1] + Frame(k)'.bytes
  <2> SUFFICES ASSUME NEW k \in 1 .. last
               PROVE  /\ s[k] = s[k - 1] + Frame(k)'.scanned + 1
                      /\ b[k] = b[k - 1] + Frame(k)'.bytes
    OBVIOUS
  <2>1. s[k - 1] = scanned[k - 1] /\ b[k - 1] = bytes[k - 1]
    BY <1>3, <1>5, <1>7
  <2>2. CASE k = last
    <3>1. Frame(k)' = r
      BY <1>4, <2>2
    <3>2. k \in 0 .. last
      BY <1>3
    <3>3. s[k] = scanned[last - 1] + r.scanned + 1 /\ b[k] = bytes[last - 1] + r.bytes
      BY <1>5, <1>7, <2>2, <3>2
    <3>4. QED
      BY <2>1, <2>2, <3>1, <3>3
  <2>3. CASE k # last
    <3>1. k \in 1 .. last - 1 /\ k \in 0 .. last
      BY <1>3, <2>3
    <3>2. Frame(k)' = Frame(k)
      BY <1>4, <3>1
    <3>3. s[k] = scanned[k] /\ b[k] = bytes[k]
      BY <1>5, <1>7, <2>3, <3>1
    <3>4. /\ scanned[k] = scanned[k - 1] + Frame(k).scanned + 1
          /\ bytes[k] = bytes[k - 1] + Frame(k).bytes
      BY <1>5
    <3>5. QED
      BY <2>1, <3>2, <3>3, <3>4
  <2>4. QED
    BY <2>2, <2>3
<1>11. Sums(s, b)'
  BY <1>4, <1>8, <1>9, <1>10 DEF Sums
<1>12. /\ scanned[last] = scanned[last - 1] + Top.scanned + 1
       /\ bytes[last] = bytes[last - 1] + Top.bytes
       /\ scanned[last - 1] \in Nat /\ bytes[last - 1] \in Nat
       /\ s[last] = scanned[last - 1] + r.scanned + 1
       /\ b[last] = bytes[last - 1] + r.bytes
  <2>1. last \in 1 .. last /\ last \in 0 .. last /\ last - 1 \in 0 .. last
    BY <1>3
  <2>2. /\ scanned[last] = scanned[last - 1] + Frame(last).scanned + 1
        /\ bytes[last] = bytes[last - 1] + Frame(last).bytes
    BY <1>5, <2>1
  <2>3. scanned[last - 1] \in Nat /\ bytes[last - 1] \in Nat
    BY <1>5, <2>1
  <2>4. /\ s[last] = scanned[last - 1] + r.scanned + 1
        /\ b[last] = bytes[last - 1] + r.bytes
    BY <1>5, <1>7, <2>1
  <2>5. QED
    BY <1>3, <2>2, <2>3, <2>4
<1>13. /\ s[last] = scanned[last] - Top.scanned + r.scanned
       /\ b[last] = bytes[last] - Top.bytes + r.bytes
       /\ scanned[last] \in Nat /\ bytes[last] \in Nat
       /\ scanned[last] > Top.scanned /\ bytes[last] >= Top.bytes
  <2>1. \E p, q, t, v \in Nat :
          /\ p = scanned[last - 1] /\ q = bytes[last - 1] /\ t = Top.scanned /\ v = Top.bytes
    BY <1>6, <1>12
  <2>2. PICK p \in Nat, q \in Nat, t \in Nat, v \in Nat :
          /\ p = scanned[last - 1] /\ q = bytes[last - 1] /\ t = Top.scanned /\ v = Top.bytes
    BY <2>1
  <2>3. /\ scanned[last] = p + t + 1 /\ bytes[last] = q + v
        /\ s[last] = p + r.scanned + 1 /\ b[last] = q + r.bytes
    BY <1>12, <2>2
  <2>4. s[last] = scanned[last] - t + r.scanned
    <3>1. PICK w \in Nat : w = r.scanned
      BY <1>6
    <3>2. p + w + 1 = p + t + 1 - t + w
      OBVIOUS
    <3>3. QED
      BY <2>3, <3>1, <3>2
  <2>5. b[last] = bytes[last] - v + r.bytes
    BY <1>6, <2>3
  <2>6. /\ scanned[last] \in Nat /\ bytes[last] \in Nat
        /\ scanned[last] > t /\ bytes[last] >= v
    BY <2>3
  <2>7. QED
    BY <2>2, <2>4, <2>5, <2>6
<1>14. QED
  BY <1>1, <1>11, <1>13

LEMMA PutMoveInv ==
  ASSUME IInv, stack # << >>, NEW r \in ReportType, NEW n \in Nat \ {0}, PutTop(r, n),
         r.node = Top.node, r.own = Top.own,
         pc \notin {"raised", "done"}, pc' # "done", UNCHANGED <<tree, mode, performed, moved, seen>>
  PROVE  MoveInv'
<1>1. stack' # << >> /\ Frame(1)'.own = Frame(1).own
  BY PutShape
<1>2. RootOwn' = RootOwn /\ Convictions' = Convictions
  BY <1>1 DEF RootOwn, Convictions
<1>3. QED
  BY <1>1, <1>2 DEF IInv, MoveInv

(* The member that is next is one of the files.                            *)
LEMMA MemberFacts ==
  ASSUME TypeOK, stack # << >>, MoreMembers
  PROVE  Member \in Nodes /\ tree[Member] \in File /\ Opened \in Nodes
<1>1. stack \in Seq(Frames) /\ tree \in [Nodes -> File]
  BY TreesAssumption DEF TypeOK, Frames
<1>2. Top \in ReportType /\ Last(stack).next \in Nat \ {0}
  BY <1>1, TopFacts
<1>3. tree[Top.node].members \in Seq(Nodes)
  BY <1>1, <1>2 DEF ReportType, File
<1>4. Last(stack).next \in 1 .. Len(tree[Top.node].members)
  BY <1>2, <1>3, LenProperties DEF MoreMembers
<1>5. Member \in Nodes
  BY <1>3, <1>4, ElementOfSeq DEF Member
<1>6. Opened \in Nodes
  BY <1>1, <1>2, <1>4, OpensFacts DEF ReportType, Opened
<1>7. QED
  BY <1>1, <1>5, <1>6

(* A member that cannot be scanned leaves an issue.                        *)
LEMMA SkipInv ==
  ASSUME IInv, SkipMember
  PROVE  IInv'
<1>1. /\ pc = "members" /\ pc' = "members" /\ MoreMembers /\ tree[Member].form # "regular"
      /\ UNCHANGED <<tree, mode, node, result, budget, performed, moved, seen, lost>>
  BY DEF SkipMember
<1>2. PICK last : last = Len(stack)
  OBVIOUS
<1>3. stack # << >> /\ stack \in Seq(Frames)
  BY <1>1 DEF IInv, ChainInv, TypeOK, Frames
<1>4. /\ last \in Nat \ {0} /\ Top = Frame(last) /\ Top \in ReportType
      /\ Last(stack).next \in Nat \ {0}
  BY <1>2, <1>3, TopFacts
<1>5. PICK code, n, r : /\ code = SkipCode[tree[Member].form]
                        /\ n = Last(stack).next + 1
                        /\ r = [Top EXCEPT !.codes = @ \cup {code}]
  OBVIOUS
<1>6. code \in ArchiveCodes /\ n \in Nat \ {0}
  <2>1. tree[Member].form \in {"unsupported", "password"}
    BY <1>1, <1>3, MemberFacts DEF IInv, File, Forms
  <2>2. QED
    BY <1>4, <1>5, <2>1, CodesListed DEF SkipCode
<1>7. /\ r \in ReportType /\ PutTop(r, n)
      /\ r.node = Top.node /\ r.own = Top.own /\ r.convicted = Top.convicted
      /\ r.status = Top.status /\ r.nested = Top.nested /\ r.triggers = Top.triggers
      /\ r.scanned = Top.scanned /\ r.bytes = Top.bytes
      /\ r.codes = Top.codes \cup {code}
  BY <1>4, <1>5, <1>6 DEF ReportType, SkipMember
<1>8. /\ stack' \in Seq(Frames) /\ stack' # << >> /\ Len(stack') = last
      /\ \A k \in 1 .. last - 1 :
           Frame(k)' = Frame(k) /\ MemberAt(k)' = MemberAt(k) /\ stack'[k] = stack[k]
      /\ \A k \in 1 .. last :
           Frame(k)'.node = IF k = 1 THEN Root ELSE MemberAt(k - 1)'
      /\ stack'[last].report = r
  BY <1>1, <1>2, <1>3, <1>6, <1>7, PutShape DEF Frame
<1>9. ~Carried /\ ~Carried' /\ Convictions' = Convictions /\ Frame(last)' = r
  BY <1>1, <1>8 DEF Carried, Convictions, Frame
<1>10. TypeOK'
  BY <1>1, <1>8 DEF IInv, TypeOK, Frames
<1>11. ChainInv'
  BY <1>1, <1>2, <1>8, <1>9 DEF IInv, ChainInv
<1>12. ReportInv'
  <2>1. \A k \in 1 .. last : Sound(Frame(k))
    BY <1>2 DEF IInv, ReportInv
  <2>2. Sound(r)
    BY <1>4, <1>7, <2>1 DEF Sound
  <2>3. \A k \in 1 .. last : Sound(Frame(k))'
    BY <1>1, <1>4, <1>8, <1>9, <2>1, <2>2 DEF Sound
  <2>4. QED
    BY <1>1, <1>8, <1>9, <2>3 DEF ReportInv
<1>13. FindingInv'
  <2>1. SUFFICES ASSUME Convictions # {} PROVE \E k \in 1 .. last : Marked(Frame(k)')
    BY <1>8, <1>9 DEF FindingInv
  <2>2. PICK k \in 1 .. last : Marked(Frame(k))
    BY <1>1, <1>2, <1>9, <2>1 DEF IInv, FindingInv
  <2>3. Marked(Top) => Marked(r)
    BY <1>7 DEF Marked
  <2>4. QED
    BY <1>4, <1>8, <1>9, <2>2, <2>3
<1>14. MoveInv'
  BY <1>1, <1>3, <1>6, <1>7, PutMoveInv
<1>15. CoverInv'
  <2>1. \A k \in 1 .. last - 1 : Frame(k)'.codes = {} =>
          \A j \in 1 .. stack'[k].next - 1 : Opens(tree, Frame(k)'.node, j) \in DOMAIN seen
    BY <1>1, <1>2, <1>8 DEF IInv, CoverInv
  <2>2. Frame(last)'.codes # {} /\ ~Spotless(Frame(last)')
    BY <1>7, <1>9 DEF Spotless
  <2>3. ~AllSpotless'
    BY <1>4, <1>8, <2>2 DEF AllSpotless
  <2>4. \A k \in 1 .. last : k \in 1 .. last - 1 \/ k = last
    BY <1>4
  <2>5. \A k \in 1 .. last : Frame(k)'.codes = {} =>
          \A j \in 1 .. stack'[k].next - 1 : Opens(tree, Frame(k)'.node, j) \in DOMAIN seen
    BY <2>1, <2>2, <2>4
  <2>6. QED
    BY <1>1, <1>8, <2>3, <2>5 DEF CoverInv
<1>16. BudgetInv'
  <2>1. PICK scanned, bytes : Sums(scanned, bytes) /\ Balance(scanned, bytes)
    BY DEF IInv, BudgetInv
  <2>2. PICK s, b : /\ Sums(s, b)'
                    /\ s[last] = scanned[last] - Top.scanned + r.scanned
                    /\ b[last] = bytes[last] - Top.bytes + r.bytes
                    /\ scanned[last] \in Nat /\ bytes[last] \in Nat
    BY <1>1, <1>2, <1>3, <1>6, <1>7, <2>1, PutSums
  <2>3. s[last] = scanned[last] /\ b[last] = bytes[last]
    BY <1>4, <1>7, <2>2 DEF ReportType
  <2>4. Balance(s, b)'
    BY <1>1, <1>2, <1>8, <1>9, <2>1, <2>3 DEF Balance, Balanced
  <2>5. QED
    BY <1>1, <2>2, <2>4 DEF IInv, BudgetInv
<1>17. QED
  BY <1>10, <1>11, <1>12, <1>13, <1>14, <1>15, <1>16 DEF IInv

(* A member is extracted, and charged to the budget.                       *)
LEMMA ExtractInv ==
  ASSUME IInv, Extract
  PROVE  IInv'
<1>1. /\ pc = "members" /\ pc' = "scan" /\ MoreMembers
      /\ ~AtMemberLimit /\ ~AtByteLimit /\ node' = Opened /\ budget' = Charge
      /\ UNCHANGED <<tree, mode, result, performed, moved, seen, lost>>
  BY DEF Extract, Extractable
<1>2. PICK last : last = Len(stack)
  OBVIOUS
<1>3. stack # << >> /\ stack \in Seq(Frames)
  BY <1>1 DEF IInv, ChainInv, TypeOK, Frames
<1>4. /\ last \in Nat \ {0} /\ Top = Frame(last) /\ Top \in ReportType
      /\ Last(stack).next \in Nat \ {0} /\ Last(stack) = stack[last]
  BY <1>2, <1>3, TopFacts
<1>5. PICK size, n, r : /\ size = tree[Member].size
                        /\ n = Last(stack).next
                        /\ r = [Top EXCEPT !.bytes = @ + size]
  OBVIOUS
<1>6. Opened \in Nodes /\ size \in Nat
  BY <1>1, <1>3, <1>5, MemberFacts DEF IInv, File
<1>7. /\ r \in ReportType /\ PutTop(r, n) /\ n \in Nat \ {0}
      /\ r.node = Top.node /\ r.own = Top.own /\ r.convicted = Top.convicted
      /\ r.status = Top.status /\ r.nested = Top.nested /\ r.triggers = Top.triggers
      /\ r.scanned = Top.scanned /\ r.bytes = Top.bytes + size
      /\ r.codes = Top.codes
  BY <1>4, <1>5, <1>6 DEF ReportType, Extract
<1>8. /\ stack' \in Seq(Frames) /\ stack' # << >> /\ Len(stack') = last
      /\ \A k \in 1 .. last - 1 :
           Frame(k)' = Frame(k) /\ MemberAt(k)' = MemberAt(k) /\ stack'[k] = stack[k]
      /\ \A k \in 1 .. last :
           Frame(k)'.node = IF k = 1 THEN Root ELSE MemberAt(k - 1)'
      /\ stack'[last].report = r /\ stack'[last].next = n
      /\ Awaited' = Opens(tree, r.node, n)
  BY <1>1, <1>2, <1>3, <1>7, PutShape DEF Frame
<1>9. ~Carried /\ ~Carried' /\ Convictions' = Convictions /\ Frame(last)' = r
  BY <1>1, <1>8 DEF Carried, Convictions, Frame
<1>10. budget' = [members |-> budget.members + 1, bytes |-> budget.bytes + size]
  BY <1>1, <1>5 DEF Charge
<1>11. TypeOK'
  BY <1>1, <1>6, <1>8, <1>10 DEF IInv, TypeOK, Frames, Pcs
<1>12. ChainInv'
  <2>1. node' = Awaited'
    BY <1>1, <1>5, <1>7, <1>8 DEF Opened
  <2>2. QED
    BY <1>1, <1>2, <1>8, <1>9, <2>1 DEF IInv, ChainInv
<1>13. ReportInv'
  <2>1. \A k \in 1 .. last : Sound(Frame(k))
    BY <1>2 DEF IInv, ReportInv
  <2>2. Sound(r)
    BY <1>4, <1>7, <2>1 DEF Sound
  <2>3. \A k \in 1 .. last : Sound(Frame(k))'
    BY <1>1, <1>4, <1>8, <1>9, <2>1, <2>2 DEF Sound
  <2>4. QED
    BY <1>1, <1>8, <1>9, <2>3 DEF ReportInv
<1>14. FindingInv'
  <2>1. SUFFICES ASSUME Convictions # {} PROVE \E k \in 1 .. last : Marked(Frame(k)')
    BY <1>8, <1>9 DEF FindingInv
  <2>2. PICK k \in 1 .. last : Marked(Frame(k))
    BY <1>1, <1>2, <1>9, <2>1 DEF IInv, FindingInv
  <2>3. Marked(Top) => Marked(r)
    BY <1>7 DEF Marked
  <2>4. QED
    BY <1>4, <1>8, <1>9, <2>2, <2>3
<1>15. MoveInv'
  BY <1>1, <1>3, <1>7, PutMoveInv
<1>16. CoverInv'
  <2>1. \A k \in 1 .. last : Frame(k)'.codes = {} =>
          \A j \in 1 .. stack'[k].next - 1 : Opens(tree, Frame(k)'.node, j) \in DOMAIN seen
    <3>1. \A k \in 1 .. last : Frame(k).codes = {} =>
            \A j \in 1 .. stack[k].next - 1 : Opens(tree, Frame(k).node, j) \in DOMAIN seen
      BY <1>1, <1>2 DEF IInv, CoverInv
    <3>2. \A k \in 1 .. last : /\ Frame(k)'.codes = Frame(k).codes
                               /\ Frame(k)'.node = Frame(k).node
                               /\ stack'[k].next = stack[k].next
      <4>1. \A k \in 1 .. last : k \in 1 .. last - 1 \/ k = last
        BY <1>4
      <4>2. /\ Frame(last)'.codes = Frame(last).codes /\ Frame(last)'.node = Frame(last).node
            /\ stack'[last].next = stack[last].next
        BY <1>4, <1>5, <1>7, <1>8, <1>9
      <4>3. \A k \in 1 .. last - 1 : Frame(k)' = Frame(k) /\ stack'[k] = stack[k]
        BY <1>8
      <4>4. QED
        BY <4>1, <4>2, <4>3
    <3>3. QED
      BY <3>1, <3>2
  <2>2. AllSpotless' => AllSpotless
    <3>1. Spotless(r) => Spotless(Top)
      BY <1>7 DEF Spotless
    <3>2. QED
      BY <1>2, <1>4, <1>8, <1>9, <3>1 DEF AllSpotless
  <2>3. \A n1 : Open(n1) => Open(n1)'
    <3>1. \A k \in 1 .. last : Frame(k)'.node = Frame(k).node
      BY <1>4, <1>7, <1>8, <1>9
    <3>2. QED
      BY <1>1, <1>2, <1>8, <3>1 DEF Open
  <2>4. \A n1 : Covered(n1)' = Covered(n1) /\ IsArchive(n1)' = IsArchive(n1)
    BY <1>1 DEF Covered, IsArchive
  <2>5. QED
    BY <1>1, <1>8, <2>1, <2>2, <2>3, <2>4 DEF IInv, CoverInv
<1>17. BudgetInv'
  <2>1. PICK scanned, bytes : Sums(scanned, bytes) /\ Balance(scanned, bytes)
    BY DEF IInv, BudgetInv
  <2>2. PICK s, b : /\ Sums(s, b)'
                    /\ s[last] = scanned[last] - Top.scanned + r.scanned
                    /\ b[last] = bytes[last] - Top.bytes + r.bytes
                    /\ scanned[last] \in Nat /\ bytes[last] \in Nat
    BY <1>2, <1>3, <1>1, <1>7, <2>1, PutSums
  <2>3. s[last] = scanned[last] /\ b[last] = bytes[last] + size
    <3>1. Top.scanned \in Nat /\ Top.bytes \in Nat
      BY <1>4 DEF ReportType
    <3>2. QED
      BY <1>6, <1>7, <2>2, <3>1
  <2>4. budget.members \in Nat /\ budget.bytes \in Nat
    BY DEF IInv, TypeOK
  <2>5. Balance(s, b)'
    <3>1. Balanced(scanned[last] - 1, bytes[last])
      BY <1>1, <1>2, <2>1 DEF Balance
    <3>2. Balanced(s[last], b[last])'
      BY <1>1, <1>6, <1>10, <2>2, <2>3, <2>4, <3>1 DEF Balanced
    <3>3. QED
      BY <1>1, <1>8, <1>9, <3>2 DEF Balance, Balanced
  <2>6. budget'.members <= MaxMembers /\ budget'.bytes <= MaxBytes
    BY <1>1, <1>5, <1>6, <1>10, <2>4, LimitsAssumption DEF AtMemberLimit, AtByteLimit
  <2>7. QED
    BY <2>2, <2>5, <2>6 DEF BudgetInv
<1>18. QED
  BY <1>11, <1>12, <1>13, <1>14, <1>15, <1>16, <1>17 DEF IInv

(* The report of a member is absorbed by its archive.                      *)
LEMMA ReturnInv ==
  ASSUME IInv, ReturnToArchive
  PROVE  IInv'
<1>1. /\ pc = "return" /\ pc' = "members" /\ stack # << >>
      /\ UNCHANGED <<tree, mode, node, result, budget, performed, moved, seen, lost>>
  BY DEF ReturnToArchive, InArchive
<1>2. PICK last : last = Len(stack)
  OBVIOUS
<1>3. stack \in Seq(Frames) /\ result \in ReportType
  BY <1>1 DEF IInv, TypeOK, Frames
<1>4. /\ last \in Nat \ {0} /\ Top = Frame(last) /\ Top \in ReportType
      /\ Last(stack).next \in Nat \ {0} /\ Last(stack) = stack[last] /\ Awaited = Opened
  BY <1>2, <1>3, <1>1, TopFacts
<1>5. PICK child, n, r : child = result /\ n = Last(stack).next + 1 /\ r = Absorb(Top, child)
  OBVIOUS
<1>6. /\ r \in ReportType
      /\ r.node = Top.node /\ r.own = Top.own /\ r.convicted = Top.convicted
      /\ r.status = Top.status
      /\ r.nested = Top.nested \cup {child.status} \cup child.nested
      /\ r.codes = Top.codes \cup child.codes
      /\ r.triggers = Top.triggers \cup child.triggers
                        \cup (IF Convicts(child) THEN {child.node} ELSE {})
      /\ r.scanned = Top.scanned + 1 + child.scanned
      /\ r.bytes = Top.bytes + child.bytes
  BY <1>3, <1>4, <1>5, AbsorbFacts
<1>7. n \in Nat \ {0} /\ PutTop(r, n)
  BY <1>4, <1>5 DEF ReturnToArchive
<1>8. /\ stack' \in Seq(Frames) /\ stack' # << >> /\ Len(stack') = last
      /\ \A k \in 1 .. last - 1 :
           Frame(k)' = Frame(k) /\ MemberAt(k)' = MemberAt(k) /\ stack'[k] = stack[k]
      /\ \A k \in 1 .. last :
           Frame(k)'.node = IF k = 1 THEN Root ELSE MemberAt(k - 1)'
      /\ stack'[last].report = r /\ stack'[last].next = n
  BY <1>1, <1>2, <1>6, <1>7, PutShape DEF Frame
<1>9. Carried /\ ~Carried' /\ Convictions' = Convictions /\ Frame(last)' = r
  BY <1>1, <1>8 DEF Carried, Convictions, Frame
<1>10. Sound(Top) /\ Sound(child) /\ Settled(child) /\ child.node = Opened
  <2>1. \A k \in 1 .. last : Sound(Frame(k))
    BY <1>2 DEF IInv, ReportInv
  <2>2. QED
    BY <1>1, <1>4, <1>5, <1>9, <2>1 DEF IInv, ReportInv, ChainInv
<1>11. \A k \in 1 .. last : k \in 1 .. last - 1 \/ k = last
  BY <1>4
<1>12. TypeOK'
  BY <1>1, <1>8 DEF IInv, TypeOK, Frames, Pcs
<1>13. ChainInv'
  BY <1>1, <1>2, <1>8, <1>9 DEF IInv, ChainInv
<1>14. ReportInv'
  <2>1. Convicts(child) => "known_malicious" = child.status
    BY DEF Convicts
  <2>2. child.status = "known_malicious" => Convictions # {} /\ r.triggers # {}
    <3>1. ASSUME child.own = "known_malicious", child.status = "known_malicious"
          PROVE  Convictions # {} /\ r.triggers # {}
      BY <1>6, <1>10, <3>1 DEF Sound, Convicts
    <3>2. ASSUME "known_malicious" \in child.nested
          PROVE  Convictions # {} /\ r.triggers # {}
      BY <1>6, <1>10, <3>2 DEF Sound
    <3>3. QED
      BY <1>10, <3>1, <3>2 DEF Sound
  <2>3. "known_malicious" \in r.nested => r.triggers # {}
    BY <1>6, <1>10, <2>2 DEF Sound
  <2>4. r.triggers # {} => Convictions # {}
    BY <1>6, <1>10, <2>1, <2>2 DEF Sound
  <2>5. r.status = "known_malicious" => "known_malicious" \in {r.own} \cup r.nested
    BY <1>6, <1>10 DEF Sound
  <2>6. Sound(r)
    BY <1>6, <1>10, <2>3, <2>4, <2>5 DEF Sound
  <2>7. \A k \in 1 .. last - 1 : Sound(Frame(k))
    BY <1>2, <1>4 DEF IInv, ReportInv
  <2>8. \A k \in 1 .. last : Sound(Frame(k))'
    BY <1>1, <1>8, <1>9, <1>11, <2>6, <2>7 DEF Sound
  <2>9. QED
    BY <1>1, <1>8, <1>9, <2>8 DEF ReportInv
<1>15. FindingInv'
  <2>1. SUFFICES ASSUME Convictions # {} PROVE \E k \in 1 .. last : Marked(Frame(k)')
    BY <1>8, <1>9 DEF FindingInv
  <2>2. (\E k \in 1 .. last : Marked(Frame(k))) \/ Marked(child)
    BY <1>1, <1>2, <1>5, <1>9, <2>1 DEF IInv, FindingInv
  <2>3. Marked(Top) \/ Marked(child) => Marked(r)
    <3>1. Marked(Top) => Marked(r)
      BY <1>6 DEF Marked
    <3>2. Marked(child) => child.status \in {"known_malicious", "scan_error"}
      BY <1>10 DEF Settled
    <3>3. QED
      BY <1>6, <3>1, <3>2 DEF Marked
  <2>4. last \in 1 .. last
    BY <1>4
  <2>5. QED
    BY <1>4, <1>8, <1>9, <1>11, <2>2, <2>3, <2>4
<1>16. MoveInv'
  BY <1>1, <1>6, <1>7, PutMoveInv
<1>17. CoverInv'
  <2>1. \A k \in 1 .. last : Frame(k).codes = {} =>
          \A j \in 1 .. stack[k].next - 1 : Opens(tree, Frame(k).node, j) \in DOMAIN seen
    BY <1>1, <1>2 DEF IInv, CoverInv
  <2>2. ASSUME r.codes = {}, NEW j \in 1 .. n - 1
        PROVE  Opens(tree, r.node, j) \in DOMAIN seen
    <3>1. CASE j = Last(stack).next
      BY <1>6, <1>10, <3>1 DEF Sound, Opened
    <3>2. CASE j # Last(stack).next
      <4>1. Frame(last).codes = {} /\ last \in 1 .. last
        BY <1>4, <1>6, <2>2
      <4>2. j \in 1 .. stack[last].next - 1
        BY <1>4, <1>5, <3>2
      <4>3. QED
        BY <1>4, <1>6, <2>1, <4>1, <4>2
    <3>3. QED
      BY <3>1, <3>2
  <2>3. \A k \in 1 .. last : Frame(k)'.codes = {} =>
          \A j \in 1 .. stack'[k].next - 1 : Opens(tree, Frame(k)'.node, j) \in DOMAIN seen
    <3>1. \A k \in 1 .. last - 1 : Frame(k)'.codes = {} =>
            \A j \in 1 .. stack'[k].next - 1 : Opens(tree, Frame(k)'.node, j) \in DOMAIN seen
      BY <1>4, <1>8, <2>1
    <3>2. Frame(last)'.codes = {} =>
            \A j \in 1 .. stack'[last].next - 1 : Opens(tree, Frame(last)'.node, j) \in DOMAIN seen
      BY <1>8, <1>9, <2>2
    <3>3. QED
      BY <1>11, <3>1, <3>2
  <2>4. AllSpotless' => AllSpotless
    <3>1. ASSUME Spotless(r) PROVE Spotless(Top) /\ Spotless(child)
      <4>1. child.status = "clean_by_known_checks"
        BY <1>6, <3>1 DEF Spotless
      <4>2. QED
        BY <1>6, <1>10, <3>1, <4>1 DEF Spotless, Settled
    <3>2. AllSpotless' => Spotless(r) /\ \A k \in 1 .. last - 1 : Spotless(Frame(k))
      BY <1>4, <1>8, <1>9 DEF AllSpotless
    <3>3. QED
      BY <1>2, <1>4, <1>5, <1>11, <3>1, <3>2 DEF AllSpotless
  <2>5. \A m : Open(m) => Open(m)'
    <3>1. \A k \in 1 .. last : Frame(k)'.node = Frame(k).node
      BY <1>4, <1>6, <1>8, <1>9, <1>11
    <3>2. QED
      BY <1>1, <1>2, <1>8, <3>1 DEF Open
  <2>6. \A m : Covered(m)' = Covered(m) /\ IsArchive(m)' = IsArchive(m)
    BY <1>1 DEF Covered, IsArchive
  <2>7. QED
    BY <1>1, <1>8, <2>3, <2>4, <2>5, <2>6 DEF IInv, CoverInv
<1>18. BudgetInv'
  <2>1. PICK scanned, bytes : Sums(scanned, bytes) /\ Balance(scanned, bytes)
    BY DEF IInv, BudgetInv
  <2>2. PICK s, b : /\ Sums(s, b)'
                    /\ s[last] = scanned[last] - Top.scanned + r.scanned
                    /\ b[last] = bytes[last] - Top.bytes + r.bytes
                    /\ scanned[last] \in Nat /\ bytes[last] \in Nat
    BY <1>1, <1>2, <1>6, <1>7, <2>1, PutSums
  <2>3. s[last] - 1 = scanned[last] + child.scanned /\ b[last] = bytes[last] + child.bytes
    <3>1. /\ Top.scanned \in Nat /\ Top.bytes \in Nat
          /\ child.scanned \in Nat /\ child.bytes \in Nat
      BY <1>3, <1>4, <1>5 DEF ReportType
    <3>2. PICK x \in Nat, t \in Nat, c \in Nat :
            x = scanned[last] /\ t = Top.scanned /\ c = child.scanned
      BY <2>2, <3>1
    <3>3. x - t + (t + 1 + c) - 1 = x + c
      OBVIOUS
    <3>4. s[last] - 1 = scanned[last] + child.scanned
      BY <1>6, <2>2, <3>2, <3>3
    <3>5. PICK y \in Nat, u \in Nat, d \in Nat :
            y = bytes[last] /\ u = Top.bytes /\ d = child.bytes
      BY <2>2, <3>1
    <3>6. y - u + (u + d) = y + d
      OBVIOUS
    <3>7. QED
      BY <1>6, <2>2, <3>4, <3>5, <3>6
  <2>4. Balanced(scanned[last] + child.scanned, bytes[last] + child.bytes)
    BY <1>2, <1>5, <1>9, <2>1 DEF Balance
  <2>5. Balance(s, b)'
    BY <1>1, <1>8, <1>9, <2>3, <2>4 DEF Balance, Balanced
  <2>6. QED
    BY <1>1, <2>2, <2>5 DEF IInv, BudgetInv
<1>19. QED
  BY <1>12, <1>13, <1>14, <1>15, <1>16, <1>17, <1>18 DEF IInv

(* An archive is opened: its report goes on the stack.                     *)
LEMMA OpenInv ==
  ASSUME IInv, OpenArchive
  PROVE  IInv'
<1>1. /\ pc = "open" /\ pc' = "members"
      /\ UNCHANGED <<tree, mode, node, result, budget, performed, moved, seen, lost>>
  BY DEF OpenArchive
<1>2. PICK last : last = Len(stack)
  OBVIOUS
<1>3. /\ stack \in Seq(Frames) /\ result \in ReportType /\ node \in Nodes
      /\ tree \in [Nodes -> File]
  BY TreesAssumption DEF IInv, TypeOK, Frames
<1>4. last \in Nat
  BY <1>2, <1>3, LenProperties
<1>5. PICK r, frame : /\ r = [result EXCEPT !.members = Len(tree[node].members)]
                      /\ frame = [next |-> 1, report |-> r]
  OBVIOUS
<1>6. Len(tree[node].members) \in Nat
  <2>1. tree[node].members \in Seq(Nodes)
    BY <1>3 DEF File
  <2>2. QED
    BY <2>1, LenProperties
<1>7. /\ r \in ReportType
      /\ r.node = result.node /\ r.own = result.own /\ r.convicted = result.convicted
      /\ r.status = result.status /\ r.nested = result.nested /\ r.triggers = result.triggers
      /\ r.codes = result.codes /\ r.scanned = result.scanned /\ r.bytes = result.bytes
  BY <1>3, <1>5, <1>6 DEF ReportType
<1>8. frame \in Frames /\ frame.report = r /\ frame.next = 1
  BY <1>5, <1>7 DEF Frames
<1>9. stack' = Append(stack, frame)
  BY <1>5 DEF OpenArchive
<1>10. /\ stack' \in Seq(Frames) /\ stack' # << >> /\ Len(stack') = last + 1
       /\ \A k \in 1 .. last : stack'[k] = stack[k]
       /\ stack'[last + 1] = frame
  BY <1>2, <1>3, <1>8, <1>9, AppendProperties
<1>11. /\ Carried /\ ~Carried' /\ Convictions' = Convictions
       /\ Frame(last + 1)' = r
       /\ \A k \in 1 .. last : Frame(k)' = Frame(k) /\ MemberAt(k)' = MemberAt(k)
  BY <1>1, <1>8, <1>10 DEF Carried, Convictions, Frame, MemberAt
<1>12. \A k \in 1 .. last + 1 : k \in 1 .. last \/ k = last + 1
  BY <1>4
<1>13. TypeOK'
  BY <1>1, <1>10 DEF IInv, TypeOK, Frames, Pcs
<1>14. ChainInv'
  <2>1. last + 1 <= MaxDepth
    BY <1>1, <1>2, <1>4, LimitsAssumption DEF IInv, ChainInv, Expandable, Depth
  <2>2. r.node = IF last = 0 THEN Root ELSE MemberAt(last)
    <3>1. stack = << >> <=> last = 0
      BY <1>2, <1>3, EmptySeq
    <3>2. QED
      BY <1>2, <1>7, <1>11, <3>1 DEF IInv, ChainInv, Awaited
  <2>3. \A k \in 1 .. last + 1 :
          Frame(k)'.node = IF k = 1 THEN Root ELSE MemberAt(k - 1)'
    <3>1. \A k \in 1 .. last :
            Frame(k).node = IF k = 1 THEN Root ELSE MemberAt(k - 1)
      BY <1>2 DEF IInv, ChainInv
    <3>2. \A k \in 1 .. last :
            Frame(k)'.node = IF k = 1 THEN Root ELSE MemberAt(k - 1)'
      BY <1>4, <1>11, <3>1
    <3>3. Frame(last + 1)'.node = IF last + 1 = 1 THEN Root ELSE MemberAt(last)'
      BY <1>4, <1>11, <2>2
    <3>4. QED
      BY <1>4, <1>12, <3>2, <3>3
  <2>4. QED
    BY <1>1, <1>10, <1>11, <2>1, <2>3 DEF ChainInv
<1>15. ReportInv'
  <2>1. (\A k \in 1 .. last : Sound(Frame(k))) /\ Sound(result)
    BY <1>2, <1>11 DEF IInv, ReportInv
  <2>2. Sound(r)
    BY <1>7, <2>1 DEF Sound
  <2>3. \A k \in 1 .. last + 1 : Sound(Frame(k))'
    BY <1>1, <1>11, <1>12, <2>1, <2>2 DEF Sound
  <2>4. QED
    BY <1>1, <1>10, <1>11, <2>3 DEF ReportInv
<1>16. FindingInv'
  <2>1. SUFFICES ASSUME Convictions # {} PROVE \E k \in 1 .. last + 1 : Marked(Frame(k)')
    BY <1>10, <1>11 DEF FindingInv
  <2>2. (\E k \in 1 .. last : Marked(Frame(k))) \/ Marked(result)
    BY <1>1, <1>2, <2>1 DEF IInv, FindingInv
  <2>3. Marked(result) => Marked(r)
    BY <1>7 DEF Marked
  <2>4. last + 1 \in 1 .. last + 1 /\ 1 .. last \subseteq 1 .. last + 1
    BY <1>4
  <2>5. QED
    BY <1>11, <2>2, <2>3, <2>4
<1>17. MoveInv'
  <2>1. RootOwn' = RootOwn
    <3>1. CASE last = 0
      <4>1. stack = << >> /\ Frame(1)' = r
        <5>1. stack = << >> /\ last + 1 = 1
          <6>1. stack = << >>
            BY <1>2, <1>3, <3>1, EmptySeq
          <6>2. QED
            BY <3>1, <6>1
        <5>2. QED
          BY <1>8, <1>10, <5>1 DEF Frame
      <4>2. QED
        BY <1>7, <1>10, <4>1 DEF RootOwn
    <3>2. CASE last # 0
      <4>1. stack # << >> /\ 1 \in 1 .. last
        BY <1>2, <1>4, <3>2, EmptySeq
      <4>2. QED
        BY <1>10, <1>11, <4>1 DEF RootOwn
    <3>3. QED
      BY <3>1, <3>2
  <2>2. QED
    BY <1>1, <1>10, <1>11, <2>1 DEF IInv, MoveInv
<1>18. CoverInv'
  <2>1. \A k \in 1 .. last + 1 : Frame(k)'.codes = {} =>
          \A j \in 1 .. stack'[k].next - 1 : Opens(tree, Frame(k)'.node, j) \in DOMAIN seen
    <3>1. \A k \in 1 .. last : Frame(k).codes = {} =>
            \A j \in 1 .. stack[k].next - 1 : Opens(tree, Frame(k).node, j) \in DOMAIN seen
      BY <1>1, <1>2 DEF IInv, CoverInv
    <3>2. 1 .. stack'[last + 1].next - 1 = {}
      BY <1>8, <1>10
    <3>3. QED
      BY <1>10, <1>11, <1>12, <3>1, <3>2
  <2>2. AllSpotless' => AllSpotless
    <3>1. Spotless(r) => Spotless(result)
      BY <1>7 DEF Spotless
    <3>2. last + 1 \in 1 .. last + 1 /\ 1 .. last \subseteq 1 .. last + 1
      BY <1>4
    <3>3. QED
      BY <1>2, <1>10, <1>11, <3>1, <3>2 DEF AllSpotless
  <2>3. \A m : Open(m) => Open(m)'
    <3>1. r.node = node
      BY <1>1, <1>7 DEF IInv, ChainInv
    <3>2. last + 1 \in 1 .. last + 1 /\ 1 .. last \subseteq 1 .. last + 1
      BY <1>4
    <3>3. QED
      BY <1>2, <1>10, <1>11, <3>1, <3>2 DEF Open
  <2>4. \A m : Covered(m)' = Covered(m) /\ IsArchive(m)' = IsArchive(m)
    BY <1>1 DEF Covered, IsArchive
  <2>5. QED
    BY <1>1, <1>10, <2>1, <2>2, <2>3, <2>4 DEF IInv, CoverInv
<1>19. BudgetInv'
  <2>1. PICK scanned, bytes : Sums(scanned, bytes) /\ Balance(scanned, bytes)
    BY DEF IInv, BudgetInv
  <2>2. result.scanned = 0 /\ result.bytes = 0
    BY <1>1 DEF IInv, ReportInv, Report
  <2>3. /\ scanned \in [0 .. last -> Nat] /\ bytes \in [0 .. last -> Nat]
        /\ scanned[0] = 0 /\ bytes[0] = 0
        /\ \A k \in 1 .. last :
             /\ scanned[k] = scanned[k - 1] + Frame(k).scanned + 1
             /\ bytes[k] = bytes[k - 1] + Frame(k).bytes
    BY <1>2, <2>1 DEF Sums
  <2>4. scanned[last] \in Nat /\ bytes[last] \in Nat
    BY <1>4, <2>3
  <2>5. PICK s, b :
          /\ s = [k \in 0 .. last + 1 |-> IF k = last + 1 THEN scanned[last] + 1 ELSE scanned[k]]
          /\ b = [k \in 0 .. last + 1 |-> IF k = last + 1 THEN bytes[last] ELSE bytes[k]]
    OBVIOUS
  <2>6. s \in [0 .. last + 1 -> Nat] /\ b \in [0 .. last + 1 -> Nat]
    BY <1>4, <2>3, <2>4, <2>5
  <2>7. s[0] = 0 /\ b[0] = 0
    BY <1>4, <2>3, <2>5
  <2>8. \A k \in 1 .. last + 1 :
          /\ s[k] = s[k - 1] + Frame(k)'.scanned + 1
          /\ b[k] = b[k - 1] + Frame(k)'.bytes
    <3>1. ASSUME NEW k \in 1 .. last
          PROVE  /\ s[k] = s[k - 1] + Frame(k)'.scanned + 1
                 /\ b[k] = b[k - 1] + Frame(k)'.bytes
      <4>1. /\ k \in 0 .. last + 1 /\ k # last + 1
            /\ k - 1 \in 0 .. last + 1 /\ k - 1 # last + 1
        BY <1>4
      <4>2. /\ s[k] = scanned[k] /\ s[k - 1] = scanned[k - 1]
            /\ b[k] = bytes[k] /\ b[k - 1] = bytes[k - 1]
        BY <2>5, <4>1
      <4>3. Frame(k)' = Frame(k)
        BY <1>11
      <4>4. QED
        BY <2>3, <4>2, <4>3
    <3>2. /\ s[last + 1] = scanned[last] + 1 /\ s[last] = scanned[last]
          /\ b[last + 1] = bytes[last] /\ b[last] = bytes[last]
      BY <1>4, <2>5
    <3>3. Frame(last + 1)'.scanned = 0 /\ Frame(last + 1)'.bytes = 0
      BY <1>7, <1>11, <2>2
    <3>4. /\ s[last + 1] = s[last + 1 - 1] + Frame(last + 1)'.scanned + 1
          /\ b[last + 1] = b[last + 1 - 1] + Frame(last + 1)'.bytes
      BY <1>4, <2>4, <3>2, <3>3
    <3>5. SUFFICES ASSUME NEW k \in 1 .. last + 1, k = last + 1
                   PROVE  /\ s[k] = s[k - 1] + Frame(k)'.scanned + 1
                          /\ b[k] = b[k - 1] + Frame(k)'.bytes
      BY <1>12, <3>1
    <3>6. Frame(k)' = Frame(last + 1)' /\ s[k] = s[last + 1] /\ b[k] = b[last + 1]
      BY <3>5
    <3>7. s[k - 1] = s[last + 1 - 1] /\ b[k - 1] = b[last + 1 - 1]
      <4>1. k - 1 = last + 1 - 1
        BY <1>4, <3>5
      <4>2. QED
        BY <4>1
    <3>8. QED
      BY <3>4, <3>6, <3>7
  <2>9. Sums(s, b)'
    BY <1>10, <2>6, <2>7, <2>8 DEF Sums
  <2>10. s[last + 1] - 1 = scanned[last] /\ b[last + 1] = bytes[last]
    BY <1>4, <2>4, <2>5
  <2>11. Balanced(scanned[last], bytes[last])
    BY <1>2, <1>11, <2>1, <2>2, <2>4 DEF Balance
  <2>12. Balance(s, b)'
    BY <1>1, <1>10, <1>11, <2>10, <2>11 DEF Balance, Balanced
  <2>13. QED
    BY <1>1, <2>9, <2>12 DEF IInv, BudgetInv
<1>20. QED
  BY <1>13, <1>14, <1>15, <1>16, <1>17, <1>18, <1>19 DEF IInv

(* An archive that cannot be opened keeps its own verdict.                 *)
LEMMA OpenFailsInv ==
  ASSUME IInv, OpenFails
  PROVE  IInv'
<1>1. /\ pc = "open" /\ pc' = "return" /\ result' = Corrupt(result)
      /\ UNCHANGED <<tree, mode, node, stack, budget, performed, moved, seen, lost>>
  BY DEF OpenFails
<1>2. result \in ReportType
  BY DEF IInv, TypeOK
<1>3. /\ result' \in ReportType
      /\ result'.node = result.node /\ result'.own = result.own
      /\ result'.convicted = result.convicted
      /\ result'.nested = {} /\ result'.triggers = {} /\ result'.codes = {"archive_corrupt"}
      /\ result'.scanned = 0 /\ result'.bytes = 0
      /\ Settled(result') /\ Marked(result')
      /\ result'.status = "known_malicious" => result.own = "known_malicious"
  BY <1>1, <1>2, CorruptFacts
<1>4. /\ Carried /\ Carried' /\ Convictions' = Convictions
      /\ \A k : Frame(k)' = Frame(k) /\ MemberAt(k)' = MemberAt(k)
      /\ Awaited' = Awaited
  BY <1>1 DEF Carried, Convictions, Frame, MemberAt, Awaited
<1>5. TypeOK'
  BY <1>1, <1>3 DEF IInv, TypeOK, Pcs
<1>6. ChainInv'
  BY <1>1, <1>3, <1>4 DEF IInv, ChainInv
<1>7. ReportInv'
  <2>1. Sound(result) /\ \A k \in 1 .. Len(stack) : Sound(Frame(k))
    BY <1>4 DEF IInv, ReportInv
  <2>2. Sound(result)'
    BY <1>1, <1>3, <1>4, <2>1 DEF Sound
  <2>3. \A k \in 1 .. Len(stack) : Sound(Frame(k))'
    BY <1>1, <1>4, <2>1 DEF Sound
  <2>4. QED
    BY <1>1, <1>3, <1>4, <2>2, <2>3 DEF ReportInv
<1>8. FindingInv'
  BY <1>3, <1>4 DEF FindingInv
<1>9. MoveInv'
  <2>1. RootOwn' = RootOwn
    BY <1>1, <1>3, <1>4 DEF RootOwn
  <2>2. QED
    BY <1>1, <1>4, <2>1 DEF IInv, MoveInv
<1>10. CoverInv'
  <2>1. ~AllSpotless'
    BY <1>3, <1>4 DEF AllSpotless, Spotless
  <2>2. QED
    BY <1>1, <1>4, <2>1 DEF IInv, CoverInv
<1>11. BudgetInv'
  <2>1. PICK scanned, bytes : Sums(scanned, bytes) /\ Balance(scanned, bytes)
    BY DEF IInv, BudgetInv
  <2>2. Sums(scanned, bytes)'
    BY <1>1, <1>4, <2>1 DEF Sums
  <2>3. result.scanned = 0 /\ result.bytes = 0
    BY <1>1 DEF IInv, ReportInv, Report
  <2>4. Balance(scanned, bytes)'
    BY <1>1, <1>3, <1>4, <2>1, <2>3 DEF Balance, Balanced
  <2>5. QED
    BY <1>1, <2>2, <2>4 DEF IInv, BudgetInv
<1>12. QED
  BY <1>5, <1>6, <1>7, <1>8, <1>9, <1>10, <1>11 DEF IInv

(* A target is moved for its members only on request and after a finding.  *)
LEMMA TriggerFacts ==
  ASSUME IInv, pc = "return", ~InArchive, ToBeMoved
  PROVE  /\ mode = ToMove /\ result.status = "known_malicious"
         /\ Convictions # {} /\ tree[Root].kind = "zip_archive"
         /\ ~moved /\ ~performed
<1>1. Decision(mode, result.status) = "move" /\ Triggered
  BY DEF ToBeMoved
<1>2. mode = ToMove /\ result.status = "known_malicious"
  BY <1>1, StatusesAssumption, DecisionFacts DEF IInv, TypeOK
<1>3. result.triggers # {} /\ tree[Root].kind = "zip_archive"
  BY <1>1 DEF Triggered
<1>4. Convictions # {}
  BY <1>3 DEF IInv, ReportInv, Carried, Sound
<1>5. RootOwn = result.own /\ result.own # "known_malicious"
  BY <1>1 DEF RootOwn, InArchive, Triggered
<1>6. result.own # "scan_error"
  BY <1>2 DEF IInv, ReportInv, Settled
<1>7. ~performed /\ ~moved
  BY <1>5, <1>6 DEF IInv, MoveInv, Carried
<1>8. QED
  BY <1>2, <1>3, <1>4, <1>7

(* The report of the target is delivered.                                  *)
LEMMA DeliveredInv ==
  ASSUME IInv, Deliver \/ MoveForMembers
  PROVE  IInv'
<1>1. /\ pc = "return" /\ pc' = "done" /\ stack = << >>
      /\ UNCHANGED <<tree, mode, node, stack, result, budget, seen, lost>>
  BY DEF Deliver, MoveForMembers, InArchive
<1>2. \/ performed' = performed /\ moved' = moved /\ ~ToBeMoved
      \/ performed' = TRUE /\ moved' = TRUE /\ ToBeMoved
  BY DEF Deliver, MoveForMembers
<1>3. /\ Carried /\ Carried' /\ Convictions' = Convictions
      /\ \A k : Frame(k)' = Frame(k) /\ MemberAt(k)' = MemberAt(k)
      /\ Awaited' = Awaited
  BY <1>1 DEF Carried, Convictions, Frame, MemberAt, Awaited
<1>4. TypeOK'
  BY <1>1, <1>2 DEF IInv, TypeOK, Pcs
<1>5. ChainInv'
  BY <1>1, <1>3 DEF IInv, ChainInv
<1>6. ReportInv'
  BY <1>1, <1>3 DEF IInv, ReportInv, Sound
<1>7. FindingInv'
  BY <1>1, <1>3 DEF IInv, FindingInv
<1>8. MoveInv'
  <2>1. RootOwn' = RootOwn
    BY <1>1, <1>3 DEF RootOwn
  <2>2. CASE performed' = performed /\ moved' = moved /\ ~ToBeMoved
    <3>1. ASSUME result.status = "known_malicious", mode = ToMove,
                 tree[Root].kind = "zip_archive"
          PROVE  performed
      <4>1. Decision(mode, result.status) = "move"
        BY <3>1, StatusesAssumption, DecisionFacts DEF IInv, TypeOK
      <4>2. ~Triggered
        BY <2>2, <4>1 DEF ToBeMoved
      <4>3. result.own = "known_malicious" \/ result.triggers = {}
        BY <3>1, <4>2 DEF Triggered
      <4>4. Sound(result)
        BY <1>3 DEF IInv, ReportInv
      <4>5. result.own = "known_malicious"
        BY <3>1, <4>3, <4>4 DEF Sound
      <4>6. RootOwn = "known_malicious"
        BY <1>1, <4>5 DEF RootOwn
      <4>7. QED
        BY <1>1, <1>3, <3>1, <4>6 DEF IInv, MoveInv
    <3>2. QED
      BY <1>1, <1>3, <2>1, <2>2, <3>1 DEF IInv, MoveInv
  <2>3. CASE performed' = TRUE /\ moved' = TRUE /\ ToBeMoved
    BY <1>1, <1>3, <2>3, TriggerFacts DEF MoveInv, InArchive
  <2>4. QED
    BY <1>2, <2>2, <2>3
<1>9. CoverInv'
  <2>1. \A m : /\ Covered(m)' = Covered(m) /\ IsArchive(m)' = IsArchive(m)
               /\ Open(m)' = Open(m)
    BY <1>1, <1>3 DEF Covered, IsArchive, Open
  <2>2. AllSpotless' = AllSpotless
    BY <1>1, <1>3 DEF AllSpotless
  <2>3. QED
    BY <1>1, <1>3, <2>1, <2>2 DEF IInv, CoverInv
<1>10. BudgetInv'
  <2>1. PICK scanned, bytes : Sums(scanned, bytes) /\ Balance(scanned, bytes)
    BY DEF IInv, BudgetInv
  <2>2. Sums(scanned, bytes)' /\ Balance(scanned, bytes)'
    BY <1>1, <1>3, <2>1 DEF Sums, Balance, Balanced
  <2>3. QED
    BY <1>1, <2>2 DEF IInv, BudgetInv
<1>11. QED
  BY <1>4, <1>5, <1>6, <1>7, <1>8, <1>9, <1>10 DEF IInv

(* Every exception keeps what is known of the target.                      *)
LEMMA AllRaisedInv ==
  ASSUME IInv, Raise \/ MoveForMembersFails \/ (OSErrorInScan /\ ~InArchive)
  PROVE  IInv'
<1>1. /\ pc' = "raised"
      /\ UNCHANGED <<tree, mode, node, stack, result, budget, performed, seen, lost>>
  BY DEF Raise, MoveForMembersFails, OSErrorInScan
<1>2. CASE moved' = moved
  BY <1>1, <1>2, RaisedInv DEF IInv, TypeOK, MoveInv
<1>3. CASE MoveForMembersFails
  <2>1. /\ mode = ToMove /\ Convictions # {} /\ tree[Root].kind = "zip_archive"
        /\ ~performed
    BY <1>3, TriggerFacts DEF MoveForMembersFails
  <2>2. moved' \in BOOLEAN
    BY <1>3 DEF MoveForMembersFails
  <2>3. QED
    BY <1>1, <2>1, <2>2, RaisedInv
<1>4. QED
  BY <1>2, <1>3 DEF Raise, OSErrorInScan

LEMMA NextInv ==
  ASSUME IInv, [Next]_vars
  PROVE  IInv'
<1>1. ASSUME NEW status \in NodeStatuses, ScanNode(status) PROVE IInv'
  BY <1>1, ScanNodeInv
<1>2. CASE ScanAndMove \/ ScanAndFailToMove
  BY <1>2, ScanAndMoveInv
<1>3. CASE OpenArchive
  BY <1>3, OpenInv
<1>4. CASE OpenFails
  BY <1>4, OpenFailsInv
<1>5. CASE SkipMember
  BY <1>5, SkipInv
<1>6. CASE MemberLimit \/ ByteLimit \/ ExtractFails \/ ExtractLocked
  <2>1. PICK code \in ArchiveCodes : pc = "members" /\ BreakWith(code)
    BY <1>6, CodesListed DEF MemberLimit, ByteLimit, ExtractFails, ExtractLocked, Extractable
  <2>2. QED
    BY <2>1, BrokenInv
<1>7. CASE Extract
  BY <1>7, ExtractInv
<1>8. CASE ReturnToArchive
  BY <1>8, ReturnInv
<1>9. CASE CloseArchive
  BY <1>9, CloseInv
<1>10. CASE Deliver \/ MoveForMembers
  BY <1>10, DeliveredInv
<1>11. CASE ExpansionFails
  BY <1>11, DroppedInv DEF ExpansionFails, IInv, ChainInv
<1>12. CASE OSErrorInScan
  <2>1. CASE InArchive
    BY <1>12, <2>1, DroppedInv DEF OSErrorInScan, InArchive
  <2>2. CASE ~InArchive
    BY <1>12, <2>2, AllRaisedInv
  <2>3. QED
    BY <2>1, <2>2
<1>13. CASE Raise \/ MoveForMembersFails
  BY <1>13, AllRaisedInv
<1>14. CASE UNCHANGED vars
  <2>1. /\ UNCHANGED <<tree, mode, pc, node, stack, result, budget, performed, moved, seen,
                       lost>>
    BY <1>14 DEF vars
  <2>2. /\ Carried' = Carried /\ Convictions' = Convictions /\ Awaited' = Awaited
        /\ \A k : Frame(k)' = Frame(k) /\ MemberAt(k)' = MemberAt(k)
    BY <2>1 DEF Carried, Convictions, Awaited, Frame, MemberAt
  <2>3. TypeOK' /\ ReportInv' /\ FindingInv'
    BY <2>1, <2>2 DEF IInv, TypeOK, ReportInv, Sound, FindingInv
  <2>4. ChainInv'
    BY <2>1, <2>2 DEF IInv, ChainInv, Expandable, IsArchive, Depth
  <2>5. MoveInv'
    BY <2>1, <2>2 DEF IInv, MoveInv, RootOwn
  <2>6. CoverInv'
    <3>1. \A m : /\ Covered(m)' = Covered(m) /\ IsArchive(m)' = IsArchive(m)
                 /\ Open(m)' = Open(m)
      BY <2>1, <2>2 DEF Covered, IsArchive, Open
    <3>2. AllSpotless' = AllSpotless
      BY <2>1, <2>2 DEF AllSpotless
    <3>3. QED
      BY <2>1, <2>2, <3>1, <3>2 DEF IInv, CoverInv
  <2>7. BudgetInv'
    <3>1. PICK scanned, bytes : Sums(scanned, bytes) /\ Balance(scanned, bytes)
      BY DEF IInv, BudgetInv
    <3>2. Sums(scanned, bytes)' /\ Balance(scanned, bytes)'
      BY <2>1, <2>2, <3>1 DEF Sums, Balance, Balanced
    <3>3. QED
      BY <2>1, <3>2 DEF IInv, BudgetInv
  <2>8. QED
    BY <2>3, <2>4, <2>5, <2>6, <2>7 DEF IInv
<1>15. QED
  BY <1>1, <1>2, <1>3, <1>4, <1>5, <1>6, <1>7, <1>8, <1>9, <1>10, <1>11, <1>12, <1>13, <1>14
  DEF Next, Proceed, Fail

(* What the scan keeps to, in every state of every behaviour.              *)
THEOREM Invariance == Spec => []IInv
<1>1. Init => IInv
  BY InitInv
<1>2. IInv /\ [Next]_vars => IInv'
  BY NextInv
<1>3. QED
  BY <1>1, <1>2, PTL DEF Spec

-----------------------------------------------------------------------------
(* The properties.                                                         *)

(* Every variable keeps its type.                                          *)
THEOREM TypeCorrect == Spec => []TypeOK
<1>1. IInv => TypeOK
  BY DEF IInv
<1>2. QED
  BY <1>1, Invariance, PTL

(* However archives are nested, one target never makes the expansion       *)
(* extract more, or go deeper, than it is allowed.                         *)
THEOREM LimitsKept == Spec => []LimitsHold
<1>1. IInv => LimitsHold
  BY DEF IInv, BudgetInv, ChainInv, LimitsHold, Depth
<1>2. QED
  BY <1>1, Invariance, PTL

(* What a finished scan has left behind.                                   *)
LEMMA DoneFacts ==
  ASSUME IInv, Done
  PROVE  /\ Len(stack) = 0 /\ Carried /\ result.node = Root
         /\ Sound(result) /\ Settled(result)
         /\ Convictions # {} => Marked(result)
         /\ RootOwn = result.own
<1>1. pc = "done" /\ stack = << >> /\ Carried
  BY DEF IInv, ChainInv, Done, Carried
<1>2. Len(stack) = 0 /\ 1 .. Len(stack) = {}
  BY <1>1
<1>3. result.node = Root
  BY <1>1 DEF IInv, ChainInv, Awaited
<1>4. Sound(result) /\ Settled(result)
  BY <1>1 DEF IInv, ReportInv
<1>5. Convictions # {} => Marked(result)
  BY <1>1, <1>2 DEF IInv, FindingInv
<1>6. RootOwn = result.own
  BY <1>1 DEF RootOwn
<1>7. QED
  BY <1>1, <1>2, <1>3, <1>4, <1>5, <1>6

(* A conviction at any depth shows in the status of the target, through    *)
(* every expansion that fails and drops what its members reported.         *)
THEOREM FindingsShown == Spec => []FindingsSurface
<1>1. IInv => FindingsSurface
  <2> SUFFICES ASSUME IInv, Done
               PROVE  /\ Convictions # {} =>
                           result.status \in {"known_malicious", "scan_error"}
                      /\ result.status = "known_malicious" => Convictions # {}
    BY DEF FindingsSurface
  <2>1. /\ Sound(result) /\ Settled(result)
        /\ Convictions # {} => Marked(result)
    BY DoneFacts
  <2>2. QED
    BY <2>1 DEF Sound, Settled
<1>2. QED
  BY <1>1, Invariance, PTL

(* The quarantine follows the findings: a convicted zip file is moved when *)
(* that was asked for, and nothing is moved without a conviction.          *)
THEOREM QuarantineFollows == Spec => []QuarantineFollowsFindings
<1>1. IInv => QuarantineFollowsFindings
  BY DEF IInv, MoveInv, QuarantineFollowsFindings, Done, ToMove
<1>2. QED
  BY <1>1, Invariance, PTL

(* A clean verdict covers every member of every archive, but for those     *)
(* whose name a later member of the same archive has: of these it is that  *)
(* later member which was opened.                                          *)
THEOREM CleanCovers == Spec => []CleanCoversEverything
<1>1. IInv => CleanCoversEverything
  <2> SUFFICES ASSUME IInv, Complete, result.status = "clean_by_known_checks"
               PROVE  /\ Root \in DOMAIN seen
                      /\ \A n \in DOMAIN seen :
                           /\ seen[n] = "clean_by_known_checks"
                           /\ IsArchive(n) => \A k \in DOMAIN tree[n].members :
                                tree[n].members[k] \in DOMAIN seen \/ Shadowed(n, k)
    BY DEF CleanCoversEverything
  <2>1. /\ Len(stack) = 0 /\ result.node = Root /\ Sound(result) /\ Settled(result)
        /\ pc = "done"
    BY DoneFacts DEF Complete, Done
  <2>2. Spotless(result) /\ Root \in DOMAIN seen
    BY <2>1 DEF Settled, Sound
  <2>3. 1 .. Len(stack) = {}
    BY <2>1
  <2>4. AllSpotless /\ \A n : ~Open(n)
    BY <2>1, <2>2, <2>3 DEF AllSpotless, Open
  <2>5. /\ \A n \in DOMAIN seen : seen[n] = "clean_by_known_checks"
        /\ \A n \in DOMAIN seen : IsArchive(n) => Covered(n)
    BY <2>1, <2>4 DEF IInv, CoverInv, Complete
  <2>6. ASSUME NEW n \in DOMAIN seen, Covered(n), NEW k \in DOMAIN tree[n].members
        PROVE  tree[n].members[k] \in DOMAIN seen \/ Shadowed(n, k)
    <3>1. n \in Nodes /\ tree \in [Nodes -> File]
      BY TreesAssumption DEF IInv, TypeOK
    <3>2. tree[n].members \in Seq(Nodes)
      BY <3>1 DEF File
    <3>3. DOMAIN tree[n].members = 1 .. Len(tree[n].members)
      BY <3>2, LenProperties
    <3>4. Opens(tree, n, k) \in DOMAIN seen
      BY <2>6, <3>3 DEF Covered
    <3>5. Opens(tree, n, k) = tree[n].members[k] \/ \E j \in Namesakes(tree, n, k) : j > k
      BY <2>6, <3>1, <3>3, OpensFacts
    <3>6. QED
      BY <3>4, <3>5 DEF Shadowed
  <2>7. QED
    BY <2>2, <2>5, <2>6
<1>2. QED
  BY <1>1, Invariance, PTL

(* The accounting of the report is what was charged, unless a report was   *)
(* dropped on the way.                                                     *)
THEOREM AccountingMatches == Spec => []AccountingMatchesBudget
<1>1. IInv => AccountingMatchesBudget
  <2> SUFFICES ASSUME IInv, Done PROVE Balanced(result.scanned, result.bytes)
    BY DEF AccountingMatchesBudget, Balanced
  <2>1. Len(stack) = 0 /\ Carried
    BY DoneFacts
  <2>2. PICK scanned, bytes : Sums(scanned, bytes) /\ Balance(scanned, bytes)
    BY DEF IInv, BudgetInv
  <2>3. scanned[0] = 0 /\ bytes[0] = 0
    BY <2>2 DEF Sums
  <2>4. Balanced(0 + result.scanned, 0 + result.bytes)
    BY <2>1, <2>2, <2>3 DEF Balance
  <2>5. result.scanned \in Nat /\ result.bytes \in Nat
    BY DEF IInv, TypeOK, ReportType
  <2>6. 0 + result.scanned = result.scanned /\ 0 + result.bytes = result.bytes
    BY <2>5
  <2>7. QED
    BY <2>4, <2>6
<1>2. QED
  BY <1>1, Invariance, PTL

-----------------------------------------------------------------------------
(* The scan ends.                                                          *)

(* How many members the k-th open archive has.                             *)
Room(k) == Len(tree[Frame(k).node].members)

(* An archive that waits for a member has one; so there is one less to do  *)
(* when that is done.                                                      *)
AwaitInv ==
  \A k \in 1 .. Len(stack) :
    /\ stack[k].next <= Room(k) + 1
    /\ k < Len(stack) \/ pc \in {"scan", "open", "return"} => stack[k].next <= Room(k)

LEMMA RoomFacts ==
  IInv => /\ Len(stack) \in Nat
          /\ \A k \in 1 .. Len(stack) : Room(k) \in Nat /\ stack[k].next \in Nat \ {0}
<1> SUFFICES ASSUME IInv
             PROVE  /\ Len(stack) \in Nat
                    /\ \A k \in 1 .. Len(stack) :
                         Room(k) \in Nat /\ stack[k].next \in Nat \ {0}
  OBVIOUS
<1>1. stack \in Seq(Frames) /\ tree \in [Nodes -> File]
  BY TreesAssumption DEF IInv, TypeOK, Frames
<1>2. Len(stack) \in Nat
  BY <1>1, LenProperties
<1>3. ASSUME NEW k \in 1 .. Len(stack)
      PROVE  Room(k) \in Nat /\ stack[k].next \in Nat \ {0}
  <2>1. stack[k] \in Frames
    BY <1>1, <1>3, ElementOfSeq
  <2>2. stack[k].next \in Nat \ {0} /\ Frame(k).node \in Nodes
    BY <2>1 DEF Frames, Frame, ReportType
  <2>3. tree[Frame(k).node].members \in Seq(Nodes)
    BY <1>1, <2>2 DEF File
  <2>4. QED
    BY <2>2, <2>3, LenProperties DEF Room
<1>4. QED
  BY <1>2, <1>3

LEMMA RoomsAreNumbers ==
  IInv => \A k \in 1 .. Len(stack) : Room(k) \in Nat
BY RoomFacts

(* What is left, in terms of the archive on the top.                       *)
LEMMA LeftFacts ==
  ASSUME IInv
  PROVE  /\ Depth = Len(stack)
         /\ stack = << >> => MembersLeft = 0
         /\ stack # << >> => /\ Len(stack) \in Nat \ {0}
                             /\ MembersLeft = Room(Len(stack)) + 1 - stack[Len(stack)].next
                             /\ Top = Frame(Len(stack))
                             /\ Last(stack) = stack[Len(stack)]
<1>1. stack \in Seq(Frames)
  BY DEF IInv, TypeOK, Frames
<1>2. ASSUME stack # << >>
      PROVE  /\ Len(stack) \in Nat \ {0}
             /\ MembersLeft = Room(Len(stack)) + 1 - stack[Len(stack)].next
             /\ Top = Frame(Len(stack))
             /\ Last(stack) = stack[Len(stack)]
  BY <1>1, <1>2, TopFacts DEF MembersLeft, Room, InArchive
<1>3. QED
  BY <1>2 DEF Depth, MembersLeft, InArchive

(* The archive on the top goes on to the member n.                         *)
LEMMA PutLeavesLess ==
  ASSUME IInv, IInv', AwaitInv, stack # << >>, NEW r \in ReportType, NEW n \in Nat \ {0},
         PutTop(r, n), r.node = Top.node, tree' = tree,
         n <= Room(Len(stack)) + 1,
         pc' \notin {"scan", "open", "return"} \/ n <= Room(Len(stack))
  PROVE  AwaitInv' /\ Depth' = Depth /\ MembersLeft' = Room(Len(stack)) + 1 - n
<1> DEFINE last == Len(stack)
<1>1. stack \in Seq(Frames)
  BY DEF IInv, TypeOK, Frames
<1>2. /\ last \in Nat \ {0} /\ Top = Frame(last)
      /\ stack' \in Seq(Frames) /\ stack' # << >> /\ Len(stack') = last
      /\ \A k \in 1 .. last - 1 : stack'[k] = stack[k]
      /\ stack'[last] = [report |-> r, next |-> n]
  BY <1>1, PutFacts, TopFacts
<1>3. \A k \in 1 .. last - 1 : Room(k)' = Room(k)
  BY <1>2 DEF Room, Frame
<1>4. Room(last)' = Room(last) /\ stack'[last].next = n
  BY <1>2 DEF Room, Frame
<1>5. AwaitInv'
  BY <1>2, <1>3, <1>4 DEF AwaitInv
<1>6. Depth' = Depth
  BY <1>2 DEF Depth
<1>7. MembersLeft' = Room(last) + 1 - n
  <2>1. Last(stack') = stack'[last] /\ InArchive'
    BY <1>2 DEF Last, InArchive
  <2>2. QED
    BY <1>2, <2>1 DEF MembersLeft, Room, Top, Frame
<1>8. QED
  BY <1>5, <1>6, <1>7

(* The archive on the top is closed, and the one below has waited for it.  *)
LEMMA PopLeavesLess ==
  ASSUME IInv, AwaitInv, stack # << >>, NEW r, PopTop(r), tree' = tree
  PROVE  AwaitInv' /\ Depth' < Depth /\ PhaseLeft' = 1
<1> DEFINE last == Len(stack)
<1>1. stack \in Seq(Frames)
  BY DEF IInv, TypeOK, Frames
<1>2. /\ last \in Nat \ {0} /\ Len(stack') = last - 1
      /\ \A k \in 1 .. last - 1 : stack'[k] = stack[k]
  BY <1>1, PopFacts, FrontFacts DEF PopTop
<1>3. \A k \in 1 .. last - 1 : Room(k)' = Room(k)
  BY <1>2 DEF Room, Frame
<1>4. \A k \in 1 .. last - 1 : stack[k].next <= Room(k) /\ stack[k].next <= Room(k) + 1
  BY <1>2 DEF AwaitInv
<1>5. AwaitInv'
  BY <1>2, <1>3, <1>4 DEF AwaitInv
<1>6. Depth' < Depth
  BY <1>2 DEF Depth
<1>7. PhaseLeft' = 1
  BY DEF PopTop, PhaseLeft
<1>8. QED
  BY <1>5, <1>6, <1>7

(* A step that leaves the stack alone.                                     *)
LEMMA StayAwaits ==
  ASSUME AwaitInv, UNCHANGED <<tree, stack>>,
         pc \in {"scan", "open", "return"} \/ pc' \notin {"scan", "open", "return"}
  PROVE  AwaitInv' /\ Depth' = Depth
<1>1. \A k : Room(k)' = Room(k)
  BY DEF Room, Frame
<1>2. QED
  BY <1>1 DEF AwaitInv, Depth

-----------------------------------------------------------------------------
(* The order of tuples.                                                    *)

LEMMA PrecedesFacts ==
  ASSUME NEW a1, NEW a2, NEW a3, NEW a4, NEW b1, NEW b2, NEW b3, NEW b4
  PROVE  LET m == <<a1, a2, a3, a4>>
             n == <<b1, b2, b3, b4>>
         IN  /\ a1 < b1 => Precedes(m, n)
             /\ a1 = b1 /\ a2 < b2 => Precedes(m, n)
             /\ a1 = b1 /\ a2 = b2 /\ a3 < b3 => Precedes(m, n)
             /\ a1 = b1 /\ a2 = b2 /\ a3 = b3 /\ a4 < b4 => Precedes(m, n)
<1> DEFINE m == <<a1, a2, a3, a4>>
           n == <<b1, b2, b3, b4>>
<1>1. /\ m[1] = a1 /\ m[2] = a2 /\ m[3] = a3 /\ m[4] = a4
      /\ n[1] = b1 /\ n[2] = b2 /\ n[3] = b3 /\ n[4] = b4
  OBVIOUS
<1> HIDE DEF m, n
<1>2. 1 .. 0 = {} /\ 1 .. 1 = {1} /\ 1 .. 2 = {1, 2} /\ 1 .. 3 = {1, 2, 3}
      /\ 1 .. 4 = {1, 2, 3, 4} /\ 1 - 1 = 0 /\ 2 - 1 = 1 /\ 3 - 1 = 2 /\ 4 - 1 = 3
  OBVIOUS
<1>3. a1 < b1 => Precedes(m, n)
  BY <1>1, <1>2 DEF Precedes
<1>4. a1 = b1 /\ a2 < b2 => Precedes(m, n)
  BY <1>1, <1>2 DEF Precedes
<1>5. a1 = b1 /\ a2 = b2 /\ a3 < b3 => Precedes(m, n)
  BY <1>1, <1>2 DEF Precedes
<1>6. a1 = b1 /\ a2 = b2 /\ a3 = b3 /\ a4 < b4 => Precedes(m, n)
  BY <1>1, <1>2 DEF Precedes
<1>7. QED
  BY <1>3, <1>4, <1>5, <1>6 DEF m, n

Tuples == Nat \X Nat \X Nat \X Nat

LEMMA LeastIn ==
  ASSUME NEW T \in SUBSET Tuples, T # {}
  PROVE  /\ \E x \in T : \A y \in T : x[1] <= y[1]
         /\ \E x \in T : \A y \in T : x[2] <= y[2]
         /\ \E x \in T : \A y \in T : x[3] <= y[3]
         /\ \E x \in T : \A y \in T : x[4] <= y[4]
<1>1. ASSUME NEW k \in 1 .. 4
      PROVE  \E x \in T : \A y \in T : x[k] <= y[k]
  <2> DEFINE S == {t[k] : t \in T}
  <2>1. S \in SUBSET Nat /\ S # {}
    BY <1>1 DEF Tuples
  <2>2. PICK n \in S : \A m \in S : n <= m
    <3> HIDE DEF S
    <3>1. QED
      BY <2>1, LeastNumber
  <2>3. PICK x \in T : x[k] = n
    OBVIOUS
  <2>4. \A y \in T : y[k] \in S
    OBVIOUS
  <2>5. QED
    BY <2>2, <2>3, <2>4
<1>2. QED
  BY <1>1

(* Tuples of numbers do not decrease for ever.                             *)
THEOREM NothingDecreasesForEver ==
  IsWellFoundedOn({pair \in Tuples \X Tuples : Precedes(pair[1], pair[2])}, Tuples)
<1> DEFINE R == {pair \in Tuples \X Tuples : Precedes(pair[1], pair[2])}
<1>1. SUFFICES ASSUME NEW T \in SUBSET Tuples, T # {}
               PROVE  \E x \in T : \A y \in T : ~(<<y, x>> \in R)
  BY MinWF
<1>2. \A t \in Tuples : t[1] \in Nat /\ t[2] \in Nat /\ t[3] \in Nat /\ t[4] \in Nat
  BY DEF Tuples
<1>3. PICK a \in T : \A y \in T : a[1] <= y[1]
  BY <1>1, LeastIn
<1> DEFINE T2 == {t \in T : t[1] = a[1]}
<1>4. PICK b \in T2 : \A y \in T2 : b[2] <= y[2]
  <2>1. T2 \in SUBSET Tuples /\ T2 # {}
    BY <1>1
  <2>2. QED
    BY <2>1, LeastIn
<1> DEFINE T3 == {t \in T2 : t[2] = b[2]}
<1>5. PICK c \in T3 : \A y \in T3 : c[3] <= y[3]
  <2>1. T3 \in SUBSET Tuples /\ T3 # {}
    BY <1>1
  <2>2. QED
    BY <2>1, LeastIn
<1> DEFINE T4 == {t \in T3 : t[3] = c[3]}
<1>6. PICK d \in T4 : \A y \in T4 : d[4] <= y[4]
  <2>1. T4 \in SUBSET Tuples /\ T4 # {}
    BY <1>1
  <2>2. QED
    BY <2>1, LeastIn
<1>7. ASSUME NEW y \in T, Precedes(y, d)
      PROVE  FALSE
  <2>1. PICK k \in 1 .. 4 : y[k] < d[k] /\ \A j \in 1 .. k - 1 : y[j] = d[j]
    BY <1>7 DEF Precedes
  <2>2. d[1] = a[1] /\ d[2] = b[2] /\ d[3] = c[3] /\ d \in Tuples /\ y \in Tuples
    BY <1>1
  <2>3. /\ d[1] \in Nat /\ d[2] \in Nat /\ d[3] \in Nat /\ d[4] \in Nat
        /\ y[1] \in Nat /\ y[2] \in Nat /\ y[3] \in Nat /\ y[4] \in Nat
    BY <1>2, <2>2
  <2>4. ~(y[1] < d[1])
    BY <1>3, <2>2, <2>3
  <2>5. y[1] = d[1] => ~(y[2] < d[2])
    BY <1>4, <2>2, <2>3
  <2>6. y[1] = d[1] /\ y[2] = d[2] => ~(y[3] < d[3])
    BY <1>5, <2>2, <2>3
  <2>7. y[1] = d[1] /\ y[2] = d[2] /\ y[3] = d[3] => ~(y[4] < d[4])
    BY <1>6, <2>2, <2>3
  <2>8. /\ k = 1 \/ k = 2 \/ k = 3 \/ k = 4
        /\ k > 1 => y[1] = d[1]
        /\ k > 2 => y[2] = d[2]
        /\ k > 3 => y[3] = d[3]
    BY <2>1
  <2>9. QED
    BY <2>1, <2>4, <2>5, <2>6, <2>7, <2>8
<1>8. \A y \in T : ~(<<y, d>> \in R)
  BY <1>7
<1>9. d \in T
  OBVIOUS
<1>10. QED
  BY <1>8, <1>9

-----------------------------------------------------------------------------
(* Every step leaves less to do.                                           *)

LEMMA PhaseFacts ==
  /\ pc = "scan" => PhaseLeft = 3
  /\ pc = "open" => PhaseLeft = 2
  /\ pc \in {"members", "return"} => PhaseLeft = 1
  /\ pc \in {"done", "raised"} => PhaseLeft = 0
BY DEF PhaseLeft

LEMMA NextPhaseFacts ==
  /\ pc' = "scan" => PhaseLeft' = 3
  /\ pc' = "open" => PhaseLeft' = 2
  /\ pc' \in {"members", "return"} => PhaseLeft' = 1
  /\ pc' \in {"done", "raised"} => PhaseLeft' = 0
BY DEF PhaseLeft

LEMMA LowerPhase ==
  ASSUME budget' = budget, PhaseLeft' < PhaseLeft
  PROVE  Precedes(StepsLeft', StepsLeft)
BY PrecedesFacts DEF StepsLeft

LEMMA LowerDepth ==
  ASSUME budget' = budget, PhaseLeft' = PhaseLeft, Depth' < Depth
  PROVE  Precedes(StepsLeft', StepsLeft)
BY PrecedesFacts DEF StepsLeft

LEMMA LowerMembers ==
  ASSUME budget' = budget, PhaseLeft' = PhaseLeft, Depth' = Depth, MembersLeft' < MembersLeft
  PROVE  Precedes(StepsLeft', StepsLeft)
BY PrecedesFacts DEF StepsLeft

(* A member that is done with, or cannot be scanned.                       *)
LEMMA GoingOnLeavesLess ==
  ASSUME IInv, IInv', AwaitInv, stack # << >>, NEW r \in ReportType, r.node = Top.node,
         PutTop(r, Last(stack).next + 1), pc \in {"members", "return"}, pc' = "members",
         UNCHANGED <<tree, budget>>,
         Last(stack).next <= Room(Len(stack))
  PROVE  AwaitInv' /\ Precedes(StepsLeft', StepsLeft)
<1>1. PICK next \in Nat \ {0}, room \in Nat : next = Last(stack).next /\ room = Room(Len(stack))
  BY LeftFacts, RoomFacts
<1>2. MembersLeft = room + 1 - next
  BY <1>1, LeftFacts
<1>3. next + 1 \in Nat \ {0} /\ next + 1 <= room + 1
  BY <1>1
<1>4. AwaitInv' /\ Depth' = Depth /\ MembersLeft' = room + 1 - (next + 1)
  BY <1>1, <1>3, PutLeavesLess
<1>5. MembersLeft' < MembersLeft
  BY <1>1, <1>2, <1>4
<1>6. PhaseLeft = 1 /\ PhaseLeft' = 1
  BY PhaseFacts, NextPhaseFacts
<1>7. QED
  BY <1>4, <1>5, <1>6, LowerMembers

(* An archive that is done with, or given up.                              *)
LEMMA ClosingLeavesLess ==
  ASSUME IInv, AwaitInv, stack # << >>, NEW r, PopTop(r), pc = "members",
         UNCHANGED <<tree, budget>>
  PROVE  AwaitInv' /\ Precedes(StepsLeft', StepsLeft)
BY PopLeavesLess, PhaseFacts, LowerDepth

LEMMA OpeningAwaits ==
  ASSUME IInv, IInv', AwaitInv, OpenArchive
  PROVE  AwaitInv'
<1>1. PICK last \in Nat : last = Len(stack)
  BY RoomFacts
<1>2. stack \in Seq(Frames) /\ stack' \in Seq(Frames)
  BY DEF IInv, TypeOK, Frames
<1>3. PICK frame : stack' = Append(stack, frame) /\ frame.next = 1
  BY DEF OpenArchive
<1>4. /\ Len(stack') = last + 1 /\ stack'[last + 1].next = 1
      /\ \A k \in 1 .. last : stack'[k] = stack[k]
  BY <1>1, <1>2, <1>3
<1>5. pc = "open" /\ pc' = "members" /\ tree' = tree
  BY DEF OpenArchive
<1>6. \A k \in 1 .. last : Room(k)' = Room(k)
  BY <1>4, <1>5 DEF Room, Frame
<1>7. (\A k \in 1 .. Len(stack) : Room(k) \in Nat)'
  BY RoomsAreNumbers, PTL
<1>8. Room(last + 1)' \in Nat
  BY <1>1, <1>4, <1>7
<1>9. \A k \in 1 .. last : stack[k].next <= Room(k) /\ stack[k].next <= Room(k) + 1
  BY <1>1, <1>5 DEF AwaitInv
<1>10. ASSUME NEW k \in 1 .. last + 1
       PROVE  /\ stack'[k].next <= Room(k)' + 1
              /\ k < last + 1 => stack'[k].next <= Room(k)'
  <2>1. CASE k = last + 1
    BY <1>1, <1>4, <1>8, <2>1
  <2>2. CASE k \in 1 .. last
    BY <1>1, <1>4, <1>6, <1>9, <2>2
  <2>3. QED
    BY <1>1, <2>1, <2>2
<1>11. QED
  BY <1>4, <1>5, <1>10 DEF AwaitInv

LEMMA StepLeavesLess ==
  ASSUME IInv, IInv', AwaitInv, Next
  PROVE  AwaitInv' /\ Precedes(StepsLeft', StepsLeft)
<1> DEFINE Less == AwaitInv' /\ Precedes(StepsLeft', StepsLeft)
<1>1. CASE \/ \E status \in NodeStatuses : ScanNode(status)
           \/ ScanAndMove \/ ScanAndFailToMove
  <2>1. /\ pc = "scan" /\ pc' \in {"open", "return"}
        /\ UNCHANGED <<tree, stack, budget>>
    BY <1>1 DEF ScanNode, ScanAndMove, ScanAndFailToMove, Scanned
  <2>2. PhaseLeft' < PhaseLeft
    BY <2>1, PhaseFacts, NextPhaseFacts
  <2>3. QED
    BY <2>1, <2>2, StayAwaits, LowerPhase
<1>2. CASE \/ OSErrorInScan /\ ~InArchive
           \/ Raise \/ Deliver \/ MoveForMembers \/ MoveForMembersFails
  <2>1. /\ pc \in {"scan", "open", "members", "return"} /\ pc' \in {"done", "raised"}
        /\ UNCHANGED <<tree, stack, budget>>
    BY <1>2 DEF OSErrorInScan, Raise, Deliver, MoveForMembers, MoveForMembersFails
  <2>2. PhaseLeft' < PhaseLeft
    BY <2>1, PhaseFacts, NextPhaseFacts
  <2>3. QED
    BY <2>1, <2>2, StayAwaits, LowerPhase
<1>3. CASE OSErrorInScan /\ InArchive
  <2>1. /\ pc = "scan" /\ PopTop(Corrupt(Top)) /\ stack # << >>
        /\ UNCHANGED <<tree, budget>>
    BY <1>3 DEF OSErrorInScan, InArchive
  <2>2. AwaitInv' /\ PhaseLeft' = 1
    BY <2>1, PopLeavesLess
  <2>3. PhaseLeft' < PhaseLeft
    BY <2>1, <2>2, PhaseFacts
  <2>4. QED
    BY <2>1, <2>2, <2>3, LowerPhase
<1>4. CASE OpenArchive
  <2>1. pc = "open" /\ pc' = "members" /\ budget' = budget
    BY <1>4 DEF OpenArchive
  <2>2. PhaseLeft' < PhaseLeft
    BY <2>1, PhaseFacts, NextPhaseFacts
  <2>3. QED
    BY <1>4, <2>1, <2>2, OpeningAwaits, LowerPhase
<1>5. CASE OpenFails
  <2>1. pc = "open" /\ pc' = "return" /\ UNCHANGED <<tree, stack, budget>>
    BY <1>5 DEF OpenFails
  <2>2. PhaseLeft' < PhaseLeft
    BY <2>1, PhaseFacts, NextPhaseFacts
  <2>3. QED
    BY <2>1, <2>2, StayAwaits, LowerPhase
<1>6. pc = "members" => stack # << >> /\ Top \in ReportType
  <2>1. stack \in Seq(Frames)
    BY DEF IInv, TypeOK, Frames
  <2>2. QED
    BY <2>1, TopFacts DEF IInv, ChainInv
<1>7. stack # << >> /\ MoreMembers => Last(stack).next <= Room(Len(stack))
  BY LeftFacts DEF MoreMembers, Room
<1>8. CASE SkipMember
  <2>1. /\ pc = "members" /\ pc' = "members" /\ stack # << >> /\ MoreMembers
        /\ UNCHANGED <<tree, budget>>
    BY <1>6, <1>8 DEF SkipMember
  <2>2. PICK r : /\ r = [Top EXCEPT !.codes = @ \cup {SkipCode[tree[Member].form]}]
                 /\ PutTop(r, Last(stack).next + 1)
    BY <1>8 DEF SkipMember
  <2>3. SkipCode[tree[Member].form] \in ArchiveCodes
    <3>1. tree[Member].form \in {"unsupported", "password"}
      BY <1>8, <2>1, MemberFacts DEF IInv, File, Forms, SkipMember
    <3>2. QED
      BY <3>1, CodesListed DEF SkipCode
  <2>4. r \in ReportType /\ r.node = Top.node
    BY <1>6, <2>1, <2>2, <2>3 DEF ReportType
  <2>5. QED
    BY <1>7, <2>1, <2>2, <2>4, GoingOnLeavesLess
<1>9. CASE ReturnToArchive
  <2>1. /\ pc = "return" /\ pc' = "members" /\ stack # << >>
        /\ PutTop(Absorb(Top, result), Last(stack).next + 1)
        /\ UNCHANGED <<tree, budget>>
    BY <1>9 DEF ReturnToArchive, InArchive
  <2>2. Top \in ReportType /\ result \in ReportType
    BY <2>1, TopFacts DEF IInv, TypeOK, Frames
  <2>3. Absorb(Top, result) \in ReportType /\ Absorb(Top, result).node = Top.node
    BY <2>2, AbsorbFacts
  <2>4. Last(stack).next <= Room(Len(stack))
    BY <2>1, LeftFacts DEF AwaitInv
  <2>5. QED
    BY <2>1, <2>3, <2>4, GoingOnLeavesLess
<1>10. CASE \/ MemberLimit \/ ByteLimit \/ ExtractFails \/ ExtractLocked
            \/ ExpansionFails \/ CloseArchive
  <2>1. pc = "members" /\ (\E r : PopTop(r)) /\ UNCHANGED <<tree, budget>>
    BY <1>10 DEF MemberLimit, ByteLimit, ExtractFails, ExtractLocked, Extractable,
                 ExpansionFails, CloseArchive, BreakWith
  <2>2. QED
    BY <1>6, <2>1, ClosingLeavesLess
<1>11. CASE Extract
  <2>1. /\ pc = "members" /\ stack # << >> /\ MoreMembers /\ ~AtMemberLimit
        /\ budget' = Charge /\ tree' = tree
    BY <1>6, <1>11 DEF Extract, Extractable
  <2>2. PICK r : r = [Top EXCEPT !.bytes = @ + tree[Member].size] /\ PutTop(r, Last(stack).next)
    BY <1>11 DEF Extract
  <2>3. r \in ReportType /\ r.node = Top.node
    <3>1. tree[Member].size \in Nat /\ Top.bytes \in Nat
      BY <1>6, <2>1, MemberFacts DEF IInv, File, ReportType
    <3>2. QED
      BY <1>6, <2>1, <2>2, <3>1 DEF ReportType
  <2>4. PICK next \in Nat \ {0}, room \in Nat :
          next = Last(stack).next /\ room = Room(Len(stack)) /\ next <= room
    BY <1>7, <2>1, LeftFacts, RoomFacts
  <2>5. next <= room + 1
    BY <2>4
  <2>6. AwaitInv'
    BY <2>1, <2>2, <2>3, <2>4, <2>5, PutLeavesLess
  <2>7. budget.members \in Nat /\ budget'.members = budget.members + 1
    BY <2>1 DEF IInv, TypeOK, Charge
  <2>8. MaxMembers - budget'.members < MaxMembers - budget.members
    BY <2>7, LimitsAssumption
  <2>9. QED
    BY <2>6, <2>8, PrecedesFacts DEF StepsLeft
<1>12. QED
  BY <1>1, <1>2, <1>3, <1>4, <1>5, <1>8, <1>9, <1>10, <1>11 DEF Next, Proceed, Fail

LEMMA LeftIsTuple == IInv /\ AwaitInv => StepsLeft \in Tuples
<1> SUFFICES ASSUME IInv, AwaitInv PROVE StepsLeft \in Tuples
  OBVIOUS
<1>1. MaxMembers - budget.members \in Nat
  BY LimitsAssumption DEF IInv, TypeOK, BudgetInv
<1>2. PhaseLeft \in Nat
  BY PhaseFacts DEF IInv, TypeOK, Pcs
<1>3. Depth \in Nat
  BY LeftFacts, RoomFacts
<1>4. MembersLeft \in Nat
  <2>1. CASE stack = << >>
    BY <2>1, LeftFacts
  <2>2. CASE stack # << >>
    <3>1. PICK next \in Nat \ {0}, room \in Nat :
            /\ next = stack[Len(stack)].next /\ room = Room(Len(stack)) /\ next <= room + 1
      BY <2>2, LeftFacts, RoomFacts DEF AwaitInv
    <3>2. QED
      BY <2>2, <3>1, LeftFacts
  <2>3. QED
    BY <2>1, <2>2
<1>5. QED
  BY <1>1, <1>2, <1>3, <1>4 DEF StepsLeft, Tuples

(* Every step of a scan leaves less to do, and what is left are numbers,   *)
(* in an order in which nothing decreases for ever: whatever the archive,  *)
(* holding itself or not, and whatever fails, the recursion is over after  *)
(* finitely many steps.                                                    *)
THEOREM ScanRunsOut == Spec => [](StepsLeft \in Tuples) /\ StepsRunOut
<1>1. Init => AwaitInv
  <2> SUFFICES ASSUME Init PROVE AwaitInv
    OBVIOUS
  <2>1. Len(stack) = 0
    BY DEF Init
  <2>2. QED
    BY <2>1 DEF AwaitInv
<1>2. IInv /\ IInv' /\ AwaitInv /\ [Next]_vars => AwaitInv' /\ [Precedes(StepsLeft', StepsLeft)]_vars
  <2> SUFFICES ASSUME IInv, IInv', AwaitInv, [Next]_vars
               PROVE  AwaitInv' /\ [Precedes(StepsLeft', StepsLeft)]_vars
    OBVIOUS
  <2>1. CASE Next
    BY <2>1, StepLeavesLess
  <2>2. CASE UNCHANGED vars
    <3>1. UNCHANGED <<tree, stack, pc>>
      BY <2>2 DEF vars
    <3>2. AwaitInv'
      BY <3>1 DEF AwaitInv, Room, Frame
    <3>3. QED
      BY <2>2, <3>2
  <2>3. QED
    BY <2>1, <2>2
<1>3. QED
  BY <1>1, <1>2, Invariance, LeftIsTuple, PTL DEF Spec, StepsRunOut

-----------------------------------------------------------------------------
(* The promise.                                                            *)

LEMMA PromiseInit == Init => Promise!Init
<1> SUFFICES ASSUME Init PROVE Promise!Init
  OBVIOUS
<1>1. pc = "scan" /\ ~Ended /\ ~Done /\ moved = FALSE
  BY DEF Init, Ended, Done
<1>2. Convictions = {}
  BY DEF Init, Convictions
<1>3. QED
  BY <1>1, <1>2 DEF Promise!Init, Promise!NoReport

(* What every step does of what the promise sees: convictions only grow,   *)
(* and not with the step that ends the scan; what was moved stays moved.   *)
LEMMA StepFacts ==
  ASSUME IInv, Next
  PROVE  /\ ~Ended /\ mode' = mode /\ (moved => moved')
         /\ Convictions \subseteq Convictions'
         /\ Ended' => Convictions' = Convictions
<1>1. ASSUME NEW status \in NodeStatuses, ScanNode(status)
      PROVE  /\ ~Ended /\ ~Ended' /\ mode' = mode /\ moved' = moved
             /\ Convictions \subseteq Convictions'
  <2>1. status \in VerdictStatuses /\ Gives(status)
    BY <1>1, StatusesAssumption DEF ScanNode
  <2>2. Convictions \subseteq Convictions'
    BY <2>1, SeenFacts
  <2>3. QED
    BY <1>1, <2>2 DEF ScanNode, Scanned, Ended
<1>2. ASSUME ScanAndMove \/ ScanAndFailToMove
      PROVE  /\ ~Ended /\ ~Ended' /\ mode' = mode /\ (moved => moved')
             /\ Convictions \subseteq Convictions'
  <2>1. Gives("known_malicious") /\ pc = "scan" /\ ~InArchive
    BY <1>2 DEF ScanAndMove, ScanAndFailToMove
  <2>2. Convictions \subseteq Convictions'
    BY <2>1, StatusesListed, SeenFacts
  <2>3. ~moved
    BY <2>1 DEF IInv, MoveInv, InArchive
  <2>4. QED
    BY <1>2, <2>2, <2>3 DEF ScanAndMove, ScanAndFailToMove, Scanned, Ended
<1>3. ASSUME MoveForMembers \/ MoveForMembersFails
      PROVE  ~Ended /\ mode' = mode /\ (moved => moved') /\ seen' = seen
  <2>1. pc = "return" /\ ~InArchive /\ ToBeMoved /\ mode' = mode /\ seen' = seen
    BY <1>3 DEF MoveForMembers, MoveForMembersFails
  <2>2. QED
    BY <2>1, TriggerFacts DEF Ended
<1>4. ASSUME \/ OpenArchive \/ OpenFails \/ SkipMember \/ MemberLimit \/ ByteLimit
             \/ Extract \/ ReturnToArchive \/ CloseArchive \/ Deliver
             \/ OSErrorInScan \/ Raise \/ ExpansionFails \/ ExtractFails \/ ExtractLocked
      PROVE  ~Ended /\ mode' = mode /\ moved' = moved /\ seen' = seen
  BY <1>4
  DEF OpenArchive, OpenFails, SkipMember, MemberLimit, ByteLimit, Extract, ReturnToArchive,
      CloseArchive, Deliver, OSErrorInScan, Raise, ExpansionFails, ExtractFails, ExtractLocked,
      BreakWith, Extractable, Ended
<1>5. seen' = seen => Convictions' = Convictions
  BY DEF Convictions
<1>6. QED
  BY <1>1, <1>2, <1>3, <1>4, <1>5 DEF Next, Proceed, Fail

(* What the report of the target tells of convictions and of the move.     *)
LEMMA DonePromise ==
  IInv /\ Done =>
    /\ result.status = "known_malicious" => Convictions # {}
    /\ Convictions # {} => result.status \in {"known_malicious", "scan_error"}
    /\ performed => moved
    /\ moved => performed \/ result.status = "scan_error"
<1> SUFFICES ASSUME IInv, Done
             PROVE  /\ result.status = "known_malicious" => Convictions # {}
                    /\ Convictions # {} => result.status \in {"known_malicious", "scan_error"}
                    /\ performed => moved
                    /\ moved => performed \/ result.status = "scan_error"
  OBVIOUS
<1>1. /\ Sound(result) /\ Settled(result) /\ Carried
      /\ Convictions # {} => Marked(result)
      /\ RootOwn = result.own
  BY DoneFacts
<1>2. moved /\ ~performed => result.own = "scan_error"
  BY <1>1 DEF IInv, MoveInv, Done
<1>3. performed => moved
  BY DEF IInv, MoveInv
<1>4. QED
  BY <1>1, <1>2, <1>3 DEF Sound, Settled

LEMMA PromiseStep == IInv /\ IInv' /\ [Next]_vars => [Promise!Next]_(Promise!vars)
<1> SUFFICES ASSUME IInv, IInv', [Next]_vars PROVE [Promise!Next]_(Promise!vars)
  OBVIOUS
<1>1. CASE UNCHANGED vars
  <2>1. UNCHANGED <<mode, pc, moved, seen, result, performed>>
    BY <1>1 DEF vars
  <2>2. Convictions' = Convictions
    BY <2>1 DEF Convictions
  <2>3. UNCHANGED Promise!vars
    BY <2>1, <2>2 DEF Promise!vars, Ended, Done
  <2>4. QED
    BY <2>3
<1>2. CASE Next
  <2>1. /\ ~Ended /\ mode' = mode /\ (moved => moved')
        /\ Convictions \subseteq Convictions'
        /\ Ended' => Convictions' = Convictions
    BY <1>2, StepFacts
  <2>2. /\ moved' => mode = <<"move", FALSE>> /\ Convictions' # {}
        /\ moved \in BOOLEAN /\ moved' \in BOOLEAN
    BY <2>1 DEF IInv, MoveInv, TypeOK, ToMove
  <2>3. moved' = moved \/ (mode = <<"move", FALSE>> /\ (Convictions # {})' /\ moved')
    BY <2>1, <2>2
  <2>4. /\ (Convictions # {})' \in BOOLEAN
        /\ Convictions # {} => (Convictions # {})'
        /\ (mode' = <<"move", FALSE>>) = (mode = <<"move", FALSE>>)
    BY <2>1
  <2>5. CASE ~Ended'
    <3>1. pc # "done" /\ pc' # "done"
      BY <2>1, <2>5 DEF Ended
    <3>2. Promise!StayOrLeave
      BY <2>3 DEF Promise!StayOrLeave
    <3>3. Promise!Look
      <4>1. (IF Ended THEN pc ELSE "scanning") = "scanning"
        BY <2>1
      <4>2. UNCHANGED <<mode = <<"move", FALSE>>, IF Ended THEN pc ELSE "scanning",
                        IF Done THEN [status |-> result.status, performed |-> performed]
                        ELSE [status |-> "none", performed |-> FALSE]>>
        BY <2>1, <2>4, <2>5, <3>1 DEF Done
      <4>3. QED
        BY <2>4, <3>2, <4>1, <4>2 DEF Promise!Look
    <3>4. QED
      BY <3>3 DEF Promise!Next
  <2>6. CASE Ended'
    <3>1. /\ pc # "done" /\ pc' \in {"done", "raised"}
          /\ (Convictions' # {}) = (Convictions # {})
      BY <2>1, <2>6 DEF Ended
    <3>2. CASE pc' = "raised"
      <4>1. Promise!Raise
        BY <2>1, <2>3, <2>4, <2>6, <3>1, <3>2 DEF Promise!Raise, Promise!StayOrLeave, Done
      <4>2. QED
        BY <4>1 DEF Promise!Next
    <3>3. CASE pc' = "done"
      <4>1. /\ result'.status = "known_malicious" => Convictions # {}
            /\ Convictions # {} => result'.status \in {"known_malicious", "scan_error"}
            /\ performed' => moved'
            /\ moved' => performed' \/ result'.status = "scan_error"
        <5>1. (IInv /\ Done =>
                 /\ result.status = "known_malicious" => Convictions # {}
                 /\ Convictions # {} => result.status \in {"known_malicious", "scan_error"}
                 /\ performed => moved
                 /\ moved => performed \/ result.status = "scan_error")'
          BY DonePromise, PTL
        <5>2. QED
          BY <3>1, <3>3, <5>1 DEF Done
      <4>2. [status |-> result'.status, performed |-> performed']
              \in [status : VerdictStatuses, performed : BOOLEAN]
        BY DEF IInv, TypeOK, ReportType
      <4>3. Promise!Report
        BY <2>1, <2>3, <2>4, <2>6, <3>1, <3>3, <4>1, <4>2
        DEF Promise!Report, Promise!StayOrLeave, Promise!Honest, Done
      <4>4. QED
        BY <4>3 DEF Promise!Next
    <3>4. QED
      BY <3>1, <3>2, <3>3
  <2>7. QED
    BY <2>5, <2>6
<1>3. QED
  BY <1>1, <1>2

(* Every behaviour of the scan of a target with all its archives is one    *)
(* that the promise allows.                                                *)
THEOREM KeepsPromiseSafely == Spec => Promise!Safety
BY PromiseInit, PromiseStep, Invariance, PTL DEF Spec, Promise!Safety
=============================================================================
