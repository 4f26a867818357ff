------------------------- MODULE DirectoryScanProofs -------------------------
(***************************************************************************)
(* The report of a directory is complete, for every tree, every policy and *)
(* any reports on the files.                                               *)
(*                                                                         *)
(* The walk has listed some directories (Listed) when it is over: the top, *)
(* and every directory that is not ignored in one of them that could be    *)
(* read.  A directory that is reached and was not listed would have a      *)
(* whole chain of parents that were not listed, up to the top.             *)
(***************************************************************************)
EXTENDS DirectoryScan, VerdictProofs, SequenceTheorems, FiniteSetTheorems

IsReport(report) ==
  /\ Root \in DOMAIN report
  /\ StatusOf(report) \in VerdictStatuses
  /\ \A place \in DOMAIN report :
       /\ DOMAIN report[place] = {"overall_status", "raw_summary"}
       /\ DOMAIN report[place].raw_summary \subseteq DOMAIN KeptKeys

(* The reports on files that a directory's scan collects.                  *)
Reports == EntryReports \cup {BareReport(s) : s \in VerdictStatuses}

LEMMA BareFacts ==
  ASSUME NEW s \in VerdictStatuses
  PROVE  IsReport(BareReport(s)) /\ StatusOf(BareReport(s)) = s
<1>1. /\ DOMAIN BareReport(s) = {Root} /\ BareReport(s)[Root] = Part(s, [engine \in {} |-> {}])
  BY DEF BareReport
<1>2. LET part == Part(s, [engine \in {} |-> {}])
      IN  /\ DOMAIN part = {"overall_status", "raw_summary"}
          /\ part.overall_status = s /\ DOMAIN part.raw_summary = {}
  BY DEF Part
<1>3. QED
  BY <1>1, <1>2 DEF IsReport, StatusOf

LEMMA ReportsFacts == \A report \in Reports : IsReport(report)
<1>1. \A report \in EntryReports : IsReport(report)
  BY EntriesAssumption DEF IsReport
<1>2. QED
  BY <1>1, BareFacts DEF Reports

-----------------------------------------------------------------------------
(* Chains of parents.                                                      *)

(* A chain has its beginning and the parent of each of its members below   *)
(* Top, and is part of every set that does.                                *)
LEMMA ChainLeast ==
  ASSUME layout \in Layouts, NEW d \in Dirs
  PROVE  /\ d \in Chain(d) /\ Chain(d) \subseteq Dirs
         /\ \A x \in Chain(d) \ {Top} : layout.parent[x] \in Chain(d)
         /\ \A S \in SUBSET Dirs :
              d \in S /\ (\A x \in S \ {Top} : layout.parent[x] \in S) => Chain(d) \subseteq S
<1>1. \A x \in Dirs : layout.parent[x] \in Dirs
  BY DirsAssumption DEF Layout
<1>2. QED
  BY <1>1 DEF Chain

LEMMA ChainAbove ==
  ASSUME layout \in Layouts, NEW c \in Dirs \ {Top}
  PROVE  Chain(c) = {c} \cup Chain(layout.parent[c])
<1> DEFINE d == layout.parent[c]
<1>1. d \in Dirs
  BY DirsAssumption DEF Layout
<1>2. Chain(c) \subseteq {c} \cup Chain(d)
  <2>1. {c} \cup Chain(d) \in SUBSET Dirs
    BY <1>1, ChainLeast
  <2>2. \A x \in ({c} \cup Chain(d)) \ {Top} : layout.parent[x] \in {c} \cup Chain(d)
    BY <1>1, ChainLeast
  <2>3. QED
    BY <2>1, <2>2, ChainLeast
<1>3. Chain(d) \subseteq Chain(c)
  <2>1. d \in Chain(c) /\ Chain(c) \in SUBSET Dirs
    BY ChainLeast
  <2>2. \A x \in Chain(c) \ {Top} : layout.parent[x] \in Chain(c)
    BY ChainLeast
  <2>3. QED
    BY <1>1, <2>1, <2>2, ChainLeast
<1>4. c \in Chain(c)
  BY ChainLeast
<1>5. QED
  BY <1>2, <1>3, <1>4

LEMMA TopReached ==
  ASSUME layout \in Layouts
  PROVE  Reached(Top)
<1>1. Top \in Chain(Top)
  BY ChainLeast, DirsAssumption
<1>2. Chain(Top) \subseteq {Top}
  <2>1. {Top} \in SUBSET Dirs /\ \A x \in {Top} \ {Top} : layout.parent[x] \in {Top}
    BY DirsAssumption
  <2>2. QED
    BY <2>1, ChainLeast, DirsAssumption
<1>3. QED
  BY <1>1, <1>2 DEF Reached

(* What is in a directory that is reached and can be read is reached, but  *)
(* what is ignored.                                                        *)
LEMMA ChildReached ==
  ASSUME layout \in Layouts, NEW c \in Dirs \ {Top}, c \notin layout.ignoredDirs,
         Reached(layout.parent[c]), layout.parent[c] \notin layout.unreadable
  PROVE  Reached(c)
<1>1. Chain(c) = {c} \cup Chain(layout.parent[c])
  BY ChainAbove
<1>2. QED
  BY <1>1 DEF Reached

-----------------------------------------------------------------------------
(* The invariant.                                                          *)

DirectoryTypeOK ==
  /\ layout \in Layouts
  /\ dpc \in {"idle", "walk", "scan", "returned", "refused", "raised"}
  /\ frontier \subseteq Dirs
  /\ found \subseteq Names
  /\ ignored \in [directories : Nat, files : Nat]
  /\ candidates \in Seq(Names)
  /\ issues \in Seq({"directory_access_error", "no_files_found"})
  /\ results \in Seq(Reports)
  /\ Len(results) <= Len(candidates)

ResultsInv ==
  /\ dpc \in {"idle", "walk"} => results = << >>
  /\ dpc = "returned" => Len(results) = Len(candidates)

AccessErrors == {k \in DOMAIN issues : issues[k] = "directory_access_error"}

(* These directories have been listed, or could not be.                    *)
Listed(L) ==
  /\ L \subseteq Dirs /\ L \cap frontier = {}
  /\ Top \in L \cup frontier
  /\ \A c \in Dirs \ {Top} :
       c \in L \cup frontier <=> /\ layout.parent[c] \in L \ layout.unreadable
                                 /\ c \notin layout.ignoredDirs
  /\ \A d \in L \cup frontier : Reached(d)
  /\ found = {n \in Names : /\ layout.in[n] \in L \ layout.unreadable
                            /\ n \notin layout.ignoredNames}
  /\ \A n \in found : layout.leads[n] # Elsewhere
  /\ Cardinality(AccessErrors) = Cardinality(L \cap layout.unreadable)

WalkInv ==
  /\ dpc = "idle" => found = {} /\ issues = << >>
  /\ dpc = "walk" => \E L \in SUBSET Dirs : Listed(L)
  /\ dpc \in {"scan", "returned"} =>
       /\ frontier = {} /\ candidates \in Sorted(found)
       /\ \E L \in SUBSET Dirs : Listed(L)

DirectoryInv == DirectoryTypeOK /\ ResultsInv /\ WalkInv

LEMMA DirectoryInitInv == DirectoryInit => DirectoryInv
<1> SUFFICES ASSUME DirectoryInit PROVE DirectoryInv
  OBVIOUS
<1>1. DirectoryTypeOK /\ ResultsInv
  BY DEF DirectoryInit, DirectoryTypeOK, ResultsInv
<1>2. WalkInv
  BY DEF DirectoryInit, WalkInv
<1>3. QED
  BY <1>1, <1>2 DEF DirectoryInv

(* Types and counts of results, whatever the scan does.                    *)
LEMMA DirectoryTypes ==
  ASSUME DirectoryTypeOK, ResultsInv, DirectoryNext
  PROVE  DirectoryTypeOK' /\ ResultsInv' /\ layout' = layout
<1> DEFINE Kept == DirectoryTypeOK' /\ ResultsInv' /\ layout' = layout
<1>1. Len(results) \in Nat /\ Len(candidates) \in Nat
  BY DEF DirectoryTypeOK
<1>2. ASSUME Start \/ StartFails
      PROVE  Kept
  BY <1>2, DirsAssumption DEF Start, StartFails, DirectoryTypeOK, ResultsInv
<1>3. ASSUME NEW d \in Dirs, VisitUnreadable(d)
      PROVE  Kept
  <2>1. issues' \in Seq({"directory_access_error", "no_files_found"})
    BY <1>3 DEF VisitUnreadable, DirectoryTypeOK
  <2>2. QED
    BY <1>3, <2>1 DEF VisitUnreadable, DirectoryTypeOK, ResultsInv
<1>4. ASSUME NEW d \in Dirs, VisitDirectory(d)
      PROVE  Kept
  <2>1. Children(d) \subseteq Dirs /\ Entries(d) \subseteq Names
    BY DEF Children, Entries
  <2>2. /\ IsFiniteSet(Children(d) \cap layout.ignoredDirs)
        /\ IsFiniteSet(Entries(d) \cap layout.ignoredNames)
    BY <2>1, DirsAssumption, NamesAssumption, FS_Subset, FS_Intersection
  <2>3. /\ Cardinality(Children(d) \cap layout.ignoredDirs) \in Nat
        /\ Cardinality(Entries(d) \cap layout.ignoredNames) \in Nat
    BY <2>2, FS_CardinalityType
  <2>4. CASE \E n \in Entries(d) : layout.leads[n] = Elsewhere
    BY <1>4, <2>4 DEF VisitDirectory, DirectoryTypeOK, ResultsInv
  <2>5. CASE ~\E n \in Entries(d) : layout.leads[n] = Elsewhere
    <3>1. ignored' \in [directories : Nat, files : Nat]
      BY <1>4, <2>3, <2>5 DEF VisitDirectory, DirectoryTypeOK
    <3>2. frontier' \subseteq Dirs /\ found' \subseteq Names
      BY <1>4, <2>1, <2>5 DEF VisitDirectory, DirectoryTypeOK
    <3>3. QED
      BY <1>4, <2>5, <3>1, <3>2 DEF VisitDirectory, DirectoryTypeOK, ResultsInv
  <2>6. QED
    BY <2>4, <2>5
<1>5. ASSUME SortCandidates
      PROVE  Kept
  <2>1. IsFiniteSet(found)
    BY NamesAssumption, FS_Subset DEF DirectoryTypeOK
  <2>2. PICK n \in Nat : n = Cardinality(found)
    BY <2>1, FS_CardinalityType
  <2>3. candidates' \in [1 .. n -> found]
    BY <1>5, <2>2 DEF SortCandidates, Sorted
  <2>4. candidates' \in Seq(Names) /\ Len(candidates') = n
    <3>1. candidates' \in [1 .. n -> Names]
      BY <2>3 DEF DirectoryTypeOK
    <3>2. QED
      BY ONLY <3>1, n \in Nat
  <2>5. results = << >> /\ results' = << >>
    BY <1>5 DEF SortCandidates, ResultsInv
  <2>6. QED
    BY <1>5, <2>2, <2>4, <2>5 DEF SortCandidates, DirectoryTypeOK, ResultsInv
<1>6. ASSUME NEW report \in Reports, dpc = "scan" /\ MoreEntries,
             results' = Append(results, report),
             UNCHANGED <<layout, dpc, frontier, found, candidates, issues, ignored>>
      PROVE  Kept
  <2>1. results' \in Seq(Reports) /\ Len(results') = Len(results) + 1
    BY <1>6 DEF DirectoryTypeOK
  <2>2. Len(results') <= Len(candidates')
    BY <1>1, <1>6, <2>1 DEF MoreEntries, DirectoryTypeOK
  <2>3. QED
    BY <1>6, <2>1, <2>2 DEF DirectoryTypeOK, ResultsInv
<1>7. ASSUME NEW report \in EntryReports, ScanEntry(report)
      PROVE  Kept
  BY <1>6, <1>7 DEF ScanEntry, Reports
<1>8. ASSUME EntryIsGone
      PROVE  Kept
  <2>1. Resolve({"file_access_error"}, "balanced", << >>) \in VerdictStatuses
    BY StatusesListed DEF Resolve
  <2>2. QED
    BY <1>6, <1>8, <2>1 DEF EntryIsGone, Reports
<1>9. ASSUME EntryRaises
      PROVE  Kept
  BY <1>9 DEF EntryRaises, DirectoryTypeOK, ResultsInv
<1>10. ASSUME FinishDirectory
       PROVE  Kept
  <2>1. Len(results) = Len(candidates)
    BY <1>1, <1>10 DEF FinishDirectory, MoreEntries, DirectoryTypeOK
  <2>2. issues' \in Seq({"directory_access_error", "no_files_found"})
    BY <1>10 DEF FinishDirectory, DirectoryTypeOK
  <2>3. QED
    BY <1>10, <2>1, <2>2 DEF FinishDirectory, DirectoryTypeOK, ResultsInv
<1>11. QED
  BY <1>2, <1>3, <1>4, <1>5, <1>7, <1>8, <1>9, <1>10 DEF DirectoryNext

-----------------------------------------------------------------------------
(* The walk.                                                               *)

(* The walk begins with the top to be listed.                              *)
LEMMA StartListed ==
  ASSUME DirectoryInv, Start
  PROVE  Listed({})'
<1>1. /\ frontier' = {Top} /\ layout' = layout /\ layout \in Layouts
      /\ found' = {} /\ issues' = << >>
  BY DEF Start, DirectoryInv, DirectoryTypeOK, WalkInv
<1>2. Reached(Top)'
  BY <1>1, TopReached DEF Reached, Chain
<1>3. AccessErrors' = {}
  BY <1>1 DEF AccessErrors
<1>4. QED
  BY <1>1, <1>2, <1>3 DEF Listed

(* Another directory that cannot be listed.                                *)
LEMMA UnreadableListed ==
  ASSUME DirectoryInv, NEW L \in SUBSET Dirs, Listed(L), NEW d \in Dirs, VisitUnreadable(d)
  PROVE  Listed(L \cup {d})'
<1>1. /\ d \in frontier /\ d \in layout.unreadable /\ frontier' = frontier \ {d}
      /\ layout' = layout /\ found' = found /\ issues' = Append(issues, "directory_access_error")
      /\ issues \in Seq({"directory_access_error", "no_files_found"})
      /\ d \notin L
  BY DEF VisitUnreadable, DirectoryInv, DirectoryTypeOK, Listed
<1>2. \A c : Reached(c)' = Reached(c)
  BY <1>1 DEF Reached, Chain
<1>3. Cardinality(AccessErrors') = Cardinality(AccessErrors) + 1
  <2>1. Len(issues) \in Nat /\ AccessErrors \subseteq 1 .. Len(issues)
    BY <1>1 DEF AccessErrors
  <2>2. IsFiniteSet(AccessErrors) /\ Len(issues) + 1 \notin AccessErrors
    <3>1. IsFiniteSet(1 .. Len(issues))
      BY <2>1, FS_Interval
    <3>2. IsFiniteSet(AccessErrors)
      BY <2>1, <3>1, FS_Subset
    <3>3. QED
      BY <2>1, <3>2
  <2>3. AccessErrors' = AccessErrors \cup {Len(issues) + 1}
    BY <1>1 DEF AccessErrors
  <2>4. QED
    BY <2>2, <2>3, FS_AddElement
<1>4. Cardinality((L \cup {d}) \cap layout.unreadable) = Cardinality(L \cap layout.unreadable) + 1
  <2>1. IsFiniteSet(L \cap layout.unreadable)
    BY DirsAssumption, FS_Subset
  <2>2. (L \cup {d}) \cap layout.unreadable = (L \cap layout.unreadable) \cup {d}
    BY <1>1
  <2>3. QED
    BY <1>1, <2>1, <2>2, FS_AddElement
<1>5. (L \cup {d}) \ layout.unreadable = L \ layout.unreadable
      /\ (L \cup {d}) \cup frontier' = L \cup frontier
  BY <1>1
<1>6. QED
  BY <1>1, <1>2, <1>3, <1>4, <1>5 DEF Listed

(* A directory is listed: its children are to be listed too.               *)
LEMMA DirectoryListed ==
  ASSUME DirectoryInv, NEW L \in SUBSET Dirs, Listed(L), NEW d \in Dirs, VisitDirectory(d),
         dpc' # "raised"
  PROVE  Listed(L \cup {d})'
<1> DEFINE new == Children(d) \ layout.ignoredDirs
<1>1. /\ d \in frontier /\ d \notin layout.unreadable /\ d \notin L
      /\ frontier' = (frontier \ {d}) \cup new
      /\ found' = found \cup (Entries(d) \ layout.ignoredNames)
      /\ \A n \in Entries(d) : layout.leads[n] # Elsewhere
      /\ layout' = layout /\ issues' = issues /\ layout \in Layouts
  BY DEF VisitDirectory, DirectoryInv, DirectoryTypeOK, Listed
<1>2. \A c : Reached(c)' = Reached(c)
  BY <1>1 DEF Reached, Chain
<1>3. \A c \in new : c \notin L \cup frontier /\ c # d /\ c \in Dirs \ {Top}
                     /\ layout.parent[c] = d /\ c \notin layout.ignoredDirs
  BY <1>1 DEF Children, Listed
<1>4. (L \cup {d}) \cap frontier' = {}
  BY <1>1, <1>3 DEF Listed
<1>5. (L \cup {d}) \cup frontier' = L \cup frontier \cup new
  BY <1>1
<1>6. (L \cup {d}) \ layout.unreadable = (L \ layout.unreadable) \cup {d}
  BY <1>1
<1>7. \A c \in Dirs \ {Top} :
        c \in L \cup frontier \cup new
          <=> /\ layout.parent[c] \in (L \ layout.unreadable) \cup {d}
              /\ c \notin layout.ignoredDirs
  BY <1>3 DEF Listed, Children
<1>8. \A c \in L \cup frontier \cup new : Reached(c)
  <2>1. \A c \in L \cup frontier : Reached(c)
    BY DEF Listed
  <2>2. \A c \in new : Reached(c)
    BY <1>1, <1>3, <2>1, ChildReached
  <2>3. QED
    BY <2>1, <2>2
<1>9. /\ found' = {n \in Names : /\ layout.in[n] \in (L \ layout.unreadable) \cup {d}
                                 /\ n \notin layout.ignoredNames}
      /\ \A n \in found' : layout.leads[n] # Elsewhere
  BY <1>1 DEF Listed, Entries
<1>10. AccessErrors' = AccessErrors
  BY <1>1 DEF AccessErrors
<1>11. (L \cup {d}) \cap layout.unreadable = L \cap layout.unreadable
  BY <1>1
<1>12. Top \in L \cup frontier /\ L \cup {d} \subseteq Dirs
       /\ Cardinality(AccessErrors) = Cardinality(L \cap layout.unreadable)
  BY DEF Listed
<1> HIDE DEF new
<1>13. QED
  BY <1>1, <1>2, <1>4, <1>5, <1>6, <1>7, <1>8, <1>9, <1>10, <1>11, <1>12 DEF Listed

(* The candidates are not touched until the walk is over, and then nothing *)
(* else is.                                                                *)
LEMMA DirectoryNextInv ==
  ASSUME DirectoryInv, DirectoryNext
  PROVE  DirectoryInv'
<1>1. DirectoryTypeOK' /\ ResultsInv' /\ layout' = layout
  BY DirectoryTypes DEF DirectoryInv
<1>2. WalkInv'
  <2>1. CASE Start
    <3>1. {} \in SUBSET Dirs /\ Listed({})'
      BY <2>1, StartListed
    <3>2. QED
      BY <2>1, <3>1 DEF Start, WalkInv
  <2>2. CASE StartFails
    BY <2>2 DEF StartFails, WalkInv
  <2>3. ASSUME NEW d \in Dirs, VisitUnreadable(d)
        PROVE  WalkInv'
    <3>1. PICK L \in SUBSET Dirs : Listed(L)
      BY <2>3 DEF VisitUnreadable, DirectoryInv, WalkInv
    <3>2. L \cup {d} \in SUBSET Dirs /\ Listed(L \cup {d})'
      BY <2>3, <3>1, UnreadableListed
    <3>3. QED
      BY <2>3, <3>2 DEF VisitUnreadable, WalkInv
  <2>4. ASSUME NEW d \in Dirs, VisitDirectory(d)
        PROVE  WalkInv'
    <3>1. PICK L \in SUBSET Dirs : Listed(L)
      BY <2>4 DEF VisitDirectory, DirectoryInv, WalkInv
    <3>2. CASE dpc' = "raised"
      BY <3>2 DEF WalkInv
    <3>3. CASE dpc' # "raised"
      <4>1. L \cup {d} \in SUBSET Dirs /\ Listed(L \cup {d})'
        BY <2>4, <3>1, <3>3, DirectoryListed
      <4>2. dpc' = "walk"
        BY <2>4, <3>3 DEF VisitDirectory
      <4>3. QED
        BY <4>1, <4>2 DEF WalkInv
    <3>4. QED
      BY <3>2, <3>3
  <2>5. CASE SortCandidates
    <3>1. PICK L \in SUBSET Dirs : Listed(L)
      BY <2>5 DEF SortCandidates, DirectoryInv, WalkInv
    <3>2. UNCHANGED <<layout, frontier, found, issues>>
      BY <2>5 DEF SortCandidates
    <3>3. Listed(L)'
      BY <3>1, <3>2 DEF Listed, Reached, Chain, AccessErrors
    <3>4. candidates' \in Sorted(found)' /\ frontier' = {} /\ dpc' = "scan"
      BY <2>5, <3>2 DEF SortCandidates, Sorted, Before
    <3>5. QED
      BY <3>3, <3>4 DEF WalkInv
  <2>6. ASSUME dpc = "scan", dpc' = "scan",
               UNCHANGED <<layout, frontier, found, candidates, issues>>
        PROVE  WalkInv'
    <3>1. PICK L \in SUBSET Dirs : Listed(L)
      BY <2>6 DEF DirectoryInv, WalkInv
    <3>2. Listed(L)'
      BY <2>6, <3>1 DEF Listed, Reached, Chain, AccessErrors
    <3>3. candidates' \in Sorted(found)' /\ frontier' = {}
      BY <2>6 DEF DirectoryInv, WalkInv, Sorted, Before
    <3>4. QED
      BY <2>6, <3>2, <3>3 DEF WalkInv
  <2>7. CASE EntryIsGone \/ \E report \in EntryReports : ScanEntry(report)
    BY <2>6, <2>7 DEF ScanEntry, EntryIsGone
  <2>8. CASE EntryRaises
    BY <2>8 DEF EntryRaises, WalkInv
  <2>9. CASE FinishDirectory
    <3>1. /\ UNCHANGED <<layout, frontier, found, candidates>>
          /\ dpc = "scan" /\ dpc' = "returned"
          /\ issues' \in {issues, Append(issues, "no_files_found")}
          /\ issues \in Seq({"directory_access_error", "no_files_found"})
      BY <2>9 DEF FinishDirectory, DirectoryInv, DirectoryTypeOK
    <3>2. PICK L \in SUBSET Dirs : Listed(L)
      BY <3>1 DEF DirectoryInv, WalkInv
    <3>3. AccessErrors' = AccessErrors
      BY <3>1 DEF AccessErrors
    <3>4. Listed(L)'
      BY <3>1, <3>2, <3>3 DEF Listed, Reached, Chain
    <3>5. candidates' \in Sorted(found)' /\ frontier' = {}
      BY <3>1 DEF DirectoryInv, WalkInv, Sorted, Before
    <3>6. QED
      BY <3>1, <3>4, <3>5 DEF WalkInv
  <2>10. QED
    BY <2>1, <2>2, <2>3, <2>4, <2>5, <2>7, <2>8, <2>9 DEF DirectoryNext
<1>3. QED
  BY <1>1, <1>2 DEF DirectoryInv

LEMMA DirectoryStutterInv ==
  ASSUME DirectoryInv, UNCHANGED dirVars
  PROVE  DirectoryInv'
<1>1. UNCHANGED <<layout, dpc, frontier, found, candidates, issues, ignored, results>>
  BY DEF dirVars
<1>2. DirectoryTypeOK' /\ ResultsInv'
  BY <1>1 DEF DirectoryInv, DirectoryTypeOK, ResultsInv
<1>3. \A L : Listed(L)' = Listed(L)
  BY <1>1 DEF Listed, Reached, Chain, AccessErrors
<1>4. WalkInv'
  BY <1>1, <1>3 DEF DirectoryInv, WalkInv, Sorted, Before
<1>5. QED
  BY <1>2, <1>4 DEF DirectoryInv

-----------------------------------------------------------------------------
(* When the walk is over.                                                  *)

(* Every directory that is reached was listed.                             *)
LEMMA AllListed ==
  ASSUME DirectoryInv, NEW L \in SUBSET Dirs, Listed(L), frontier = {}
  PROVE  L = {d \in Dirs : Reached(d)}
<1>1. \A d \in L : d \in Dirs /\ Reached(d)
  BY DEF Listed
<1>2. ASSUME NEW d \in Dirs, Reached(d), d \notin L
      PROVE  FALSE
  <2> DEFINE S == {e \in Chain(d) : e \notin L}
  <2>1. layout \in Layouts
    BY DEF DirectoryInv, DirectoryTypeOK
  <2>2. d \in S /\ S \in SUBSET Dirs
    BY <1>2, <2>1, ChainLeast
  <2>3. ASSUME NEW x \in S \ {Top}, layout.parent[x] \notin S
        PROVE  FALSE
    <3>1. layout.parent[x] \in Chain(d) /\ x \in Chain(d) /\ x \in Dirs
      BY <2>1, <2>3, ChainLeast
    <3>2. layout.parent[x] \in L /\ layout.parent[x] # d
      BY <1>2, <2>3, <3>1
    <3>3. layout.parent[x] \notin layout.unreadable /\ x \notin layout.ignoredDirs
      BY <1>2, <2>3, <3>1, <3>2 DEF Reached
    <3>4. x \in L \cup frontier
      BY <2>3, <3>1, <3>2, <3>3 DEF Listed
    <3>5. QED
      BY <2>3, <3>4
  <2>4. Chain(d) \subseteq S
    BY <1>2, <2>1, <2>2, <2>3, ChainLeast
  <2>5. Top \in S /\ Top \in L
    BY <1>2, <2>4 DEF Reached, Listed
  <2>6. QED
    BY <2>5
<1>3. QED
  BY <1>1, <1>2

(* Sorting neither adds a file nor loses one.                              *)
LEMMA SortedFacts ==
  ASSUME NEW files \in SUBSET Names, NEW s \in Sorted(files),
         layout \in Layouts, \A n \in files : layout.leads[n] # Elsewhere
  PROVE  /\ Range(s) = files /\ Len(s) = Cardinality(files)
         /\ \A j, k \in DOMAIN s : j < k => layout.leads[s[j]] <= layout.leads[s[k]]
<1>1. IsFiniteSet(files)
  BY NamesAssumption, FS_Subset
<1>2. PICK n \in Nat : n = Cardinality(files)
  BY <1>1, FS_CardinalityType
<1>3. /\ s \in [1 .. n -> files]
      /\ \A j, k \in DOMAIN s : j < k => Before(s[j], s[k])
  BY <1>2 DEF Sorted
<1>4. \A f \in files : f \in Nat /\ layout.leads[f] \in Nat
  <2>1. \A f \in files : layout.leads[f] \in Names \cup {Elsewhere}
    BY DirsAssumption DEF Layout
  <2>2. QED
    BY <2>1, NamesAssumption
<1>5. \A j, k \in 1 .. n : j < k => s[j] # s[k] /\ layout.leads[s[j]] <= layout.leads[s[k]]
  BY <1>3, <1>4 DEF Before
<1>6. s \in Injection(1 .. n, files)
  <2>1. \A j, k \in 1 .. n : s[j] = s[k] => j = k
    BY <1>5
  <2>2. QED
    BY <1>3, <2>1 DEF Injection, IsInjective
<1>7. Cardinality(1 .. n) = Cardinality(files)
  BY <1>2, FS_Interval
<1>8. s \in Surjection(1 .. n, files)
  BY <1>1, <1>6, <1>7, FS_Injection
<1>9. Range(s) = files
  BY <1>3, <1>8 DEF Surjection, Range
<1>10. Len(s) = n
  BY <1>3
<1>11. QED
  BY <1>2, <1>3, <1>5, <1>9, <1>10

-----------------------------------------------------------------------------
(* The counts add up.                                                      *)

(* Induction on numbers, about sets of them.                               *)
LEMMA NumbersInduction ==
  ASSUME NEW S \in SUBSET Nat, 0 \in S, \A n \in S : n + 1 \in S
  PROVE  S = Nat
<1>1. SUFFICES ASSUME Nat \ S # {} PROVE FALSE
  OBVIOUS
<1>2. PICK x \in Nat \ S : \A y \in Nat \ S : x <= y
  BY <1>1, LeastNumber
<1>3. x # 0 /\ x - 1 \in Nat /\ x - 1 \in S
  BY <1>2
<1>4. QED
  BY <1>2, <1>3

(* The results with one of these statuses.                                 *)
With(statuses) == {k \in DOMAIN results : StatusOf(results[k]) \in statuses}

LEMMA WithFacts ==
  ASSUME DirectoryTypeOK
  PROVE  /\ \A S : IsFiniteSet(With(S)) /\ Cardinality(With(S)) \in Nat
         /\ With({}) = {} /\ With(VerdictStatuses) = 1 .. Len(results)
         /\ \A S : \A s \in S :
              Cardinality(With(S)) = HowMany(s) + Cardinality(With(S \ {s}))
<1>1. Len(results) \in Nat /\ DOMAIN results = 1 .. Len(results)
      /\ \A k \in DOMAIN results : results[k] \in Reports
  BY DEF DirectoryTypeOK
<1>2. IsFiniteSet(1 .. Len(results))
  BY <1>1, FS_Interval
<1>3. ASSUME NEW S
      PROVE  IsFiniteSet(With(S)) /\ Cardinality(With(S)) \in Nat
  <2>1. With(S) \subseteq 1 .. Len(results)
    BY <1>1 DEF With
  <2>2. IsFiniteSet(With(S))
    BY <1>2, <2>1, FS_Subset
  <2>3. QED
    BY <2>2, FS_CardinalityType
<1>4. With({}) = {} /\ With(VerdictStatuses) = 1 .. Len(results)
  BY <1>1, ReportsFacts DEF With, IsReport
<1>5. ASSUME NEW S, NEW s \in S
      PROVE  Cardinality(With(S)) = HowMany(s) + Cardinality(With(S \ {s}))
  <2> DEFINE A == With({s})
             B == With(S \ {s})
  <2>1. HowMany(s) = Cardinality(A)
    <3>1. {k \in DOMAIN results : StatusOf(results[k]) = s} = A
      BY DEF With
    <3>2. QED
      BY <3>1 DEF HowMany
  <2>2. With(S) = A \cup B /\ A \cap B = {}
    BY DEF With
  <2>3. /\ IsFiniteSet(A) /\ Cardinality(A) \in Nat
        /\ IsFiniteSet(B) /\ Cardinality(B) \in Nat
    BY <1>3
  <2> HIDE DEF A, B
  <2>4. Cardinality(A \cup B) = Cardinality(A) + Cardinality(B) - Cardinality(A \cap B)
    BY <2>3, FS_Union
  <2>5. Cardinality(A \cap B) = 0
    BY <2>2, FS_EmptySet
  <2>6. Cardinality(A \cup B) = Cardinality(A) + Cardinality(B)
    BY <2>3, <2>4, <2>5
  <2>7. QED
    BY <2>1, <2>2, <2>6 DEF B
<1>6. QED
  BY <1>3, <1>4, <1>5

(* There is a result for each unit of the summary.                         *)
LEMMA CountsAddUp ==
  ASSUME DirectoryTypeOK
  PROVE  FoldFunction(+, 0, DirectorySummary) = Len(results)
<1> DEFINE f == DirectorySummary
           Pick(S) == CHOOSE s \in S : TRUE
           R(g) == [S \in SUBSET DOMAIN f |->
                      IF S = {} THEN 0 ELSE f[Pick(S)] + g[S \ {Pick(S)}]]
           sums == [S \in SUBSET DOMAIN f |-> Cardinality(With(S))]
<1>1. DOMAIN f = VerdictStatuses /\ \A s \in VerdictStatuses : f[s] = HowMany(s)
  BY DEF DirectorySummary
<1>2. IsFiniteSet(VerdictStatuses)
  <2>1. DOMAIN VerdictPriority = 1 .. 7 /\ VerdictPriority \in [1 .. 7 -> VerdictStatuses]
    BY PriorityListed DEF VerdictStatuses, VerdictPriority, Range
  <2>2. VerdictPriority \in Surjection(1 .. 7, VerdictStatuses)
    BY <2>1 DEF VerdictStatuses, Range, Surjection
  <2>3. \A n \in Nat : IsFiniteSet(1 .. n)
    BY FS_Interval
  <2>4. IsFiniteSet(1 .. 7)
    BY <2>3
  <2>5. QED
    BY <2>2, <2>4, FS_Surjection
<1> HIDE DEF f
<1>3. \A S : S # {} => Pick(S) \in S
  OBVIOUS
<1> HIDE DEF Pick
<1>4. sums = R(sums)
  <2>1. ASSUME NEW S \in SUBSET DOMAIN f
        PROVE  sums[S] = R(sums)[S]
    <3>1. CASE S = {}
      BY <3>1, WithFacts, FS_EmptySet
    <3>2. CASE S # {}
      <4>1. Pick(S) \in S /\ S \ {Pick(S)} \in SUBSET DOMAIN f
        BY <1>3, <3>2
      <4>2. sums[S] = HowMany(Pick(S)) + Cardinality(With(S \ {Pick(S)}))
        BY <4>1, WithFacts
      <4>3. QED
        BY <1>1, <3>2, <4>1, <4>2
    <3>3. QED
      BY <3>1, <3>2
  <2>2. QED
    BY <2>1
<1>5. ASSUME NEW h, h = R(h)
      PROVE  h[DOMAIN f] = sums[DOMAIN f]
  <2> DEFINE N == {n \in Nat : \A S \in SUBSET DOMAIN f : Cardinality(S) = n => h[S] = sums[S]}
  <2>1. \A S \in SUBSET DOMAIN f : IsFiniteSet(S) /\ Cardinality(S) \in Nat
    BY <1>1, <1>2, FS_Subset, FS_CardinalityType
  <2>2. \A S \in SUBSET DOMAIN f :
          h[S] = (IF S = {} THEN 0 ELSE f[Pick(S)] + h[S \ {Pick(S)}])
    BY <1>5
  <2>3. \A S \in SUBSET DOMAIN f :
          sums[S] = (IF S = {} THEN 0 ELSE f[Pick(S)] + sums[S \ {Pick(S)}])
    BY <1>4
  <2> HIDE DEF sums
  <2>4. 0 \in N
    <3>1. \A S \in SUBSET DOMAIN f : Cardinality(S) = 0 => S = {}
      BY <2>1, FS_EmptySet
    <3>2. QED
      BY <2>2, <2>3, <3>1
  <2>5. ASSUME NEW n \in N
        PROVE  n + 1 \in N
    <3> SUFFICES ASSUME NEW S \in SUBSET DOMAIN f, Cardinality(S) = n + 1
                 PROVE  h[S] = sums[S]
      OBVIOUS
    <3>1. S # {}
      BY FS_EmptySet
    <3>2. Pick(S) \in S /\ S \ {Pick(S)} \in SUBSET DOMAIN f
      BY <1>3, <3>1
    <3>3. Cardinality(S \ {Pick(S)}) = n
      <4>1. IsFiniteSet(S) /\ n \in Nat
        BY <2>1
      <4>2. Cardinality(S \ {Pick(S)}) = Cardinality(S) - 1
        BY <3>2, <4>1, FS_RemoveElement
      <4>3. QED
        BY <4>1, <4>2
    <3>4. h[S \ {Pick(S)}] = sums[S \ {Pick(S)}]
      BY <3>2, <3>3
    <3>5. QED
      BY <2>2, <2>3, <3>1, <3>4
  <2>6. N \in SUBSET Nat
    OBVIOUS
  <2> HIDE DEF N
  <2>7. N = Nat
    BY <2>4, <2>5, <2>6, NumbersInduction
  <2>8. Cardinality(DOMAIN f) \in N
    BY <2>1, <2>7
  <2>9. QED
    BY <2>8 DEF N
<1>6. FoldFunction(+, 0, f) = sums[DOMAIN f]
  <2>1. FoldFunction(+, 0, f) = (CHOOSE g : g = R(g))[DOMAIN f]
    BY DEF FoldFunction, FoldFunctionOnSet, MapThenFoldSet, Pick
  <2> HIDE DEF R, sums
  <2>2. LET h == CHOOSE g : g = R(g) IN h = R(h)
    BY <1>4
  <2>3. QED
    BY <1>5, <2>1, <2>2
<1>7. sums[DOMAIN f] = Len(results)
  <2>1. sums[DOMAIN f] = Cardinality(1 .. Len(results))
    BY <1>1, WithFacts
  <2>2. \A n \in Nat : Cardinality(1 .. n) = n
    BY FS_Interval
  <2>3. Len(results) \in Nat
    BY DEF DirectoryTypeOK
  <2> HIDE DEF sums
  <2>4. QED
    BY <2>1, <2>2, <2>3
<1>8. QED
  BY <1>6, <1>7 DEF f

-----------------------------------------------------------------------------
(* The scan of a directory ends: no directory is listed twice.             *)

(* Ahead of a directory that is to be listed are the chains that go        *)
(* through it; it is only in its own chain and in those of what is below.  *)
LEMMA AheadFacts ==
  /\ IsFiniteSet(Ahead) /\ Cardinality(Ahead) \in 0 .. Cardinality(Dirs)
  /\ Cardinality(Dirs) \in Nat /\ Cardinality(Names) \in Nat
<1>1. IsFiniteSet(Dirs) /\ IsFiniteSet(Names) /\ Ahead \subseteq Dirs
  BY DirsAssumption, NamesAssumption DEF Ahead
<1>2. IsFiniteSet(Ahead) /\ Cardinality(Ahead) <= Cardinality(Dirs)
  BY <1>1, FS_Subset
<1>3. Cardinality(Ahead) \in Nat /\ Cardinality(Dirs) \in Nat /\ Cardinality(Names) \in Nat
  BY <1>1, <1>2, FS_CardinalityType
<1>4. QED
  BY <1>2, <1>3

LEMMA AheadBounded == Cardinality(Ahead) \in 0 .. Cardinality(Dirs)
BY AheadFacts

LEMMA BoundIsNatural == DirectoryInv => DirectoryStepsLeft \in Nat
<1> SUFFICES ASSUME DirectoryInv PROVE DirectoryStepsLeft \in Nat
  OBVIOUS
<1>1. Len(candidates) \in Nat /\ Len(results) \in Nat /\ Len(results) <= Len(candidates)
  BY DEF DirectoryInv, DirectoryTypeOK
<1>2. QED
  BY <1>1, AheadFacts DEF DirectoryStepsLeft

(* Whether or not it can be read, what is ahead gets less.                 *)
LEMMA VisitLeavesLess ==
  ASSUME DirectoryInv, DirectoryInv', NEW d \in Dirs, dpc = "walk", d \in frontier,
         layout' = layout,
         frontier' \subseteq (frontier \ {d}) \cup Children(d)
  PROVE  Cardinality(Ahead') < Cardinality(Ahead)
<1>1. layout \in Layouts
  BY DEF DirectoryInv, DirectoryTypeOK
<1>2. PICK L \in SUBSET Dirs : Listed(L)
  BY DEF DirectoryInv, WalkInv
<1>3. /\ L \cap frontier = {} /\ d \notin L
      /\ \A c \in (L \cup frontier) \ {Top} : c \in Dirs => layout.parent[c] \in L
  BY <1>2 DEF Listed
<1>4. \A x \in Dirs : Chain(x)' = Chain(x)
  BY DEF Chain
<1>5. Chain(d) \subseteq {d} \cup L
  <2>1. {d} \cup L \in SUBSET Dirs
    OBVIOUS
  <2>2. \A x \in ({d} \cup L) \ {Top} : layout.parent[x] \in {d} \cup L
    BY <1>3
  <2>3. QED
    BY <1>1, <2>1, <2>2, ChainLeast
<1>6. Children(d) \cap ({d} \cup L) = {}
  BY <1>3 DEF Children
<1>7. d \in Ahead
  BY <1>1, ChainLeast DEF Ahead
<1>8. d \notin Ahead'
  BY <1>3, <1>4, <1>5, <1>6 DEF Ahead
<1>9. Ahead' \subseteq Ahead
  <2> SUFFICES ASSUME NEW x \in Dirs, NEW e \in Chain(x), e \in frontier'
               PROVE  x \in Ahead
    BY <1>4 DEF Ahead
  <2>1. CASE e \in frontier
    BY <2>1 DEF Ahead
  <2>2. CASE e \in Children(d)
    <3>1. d \in Chain(x)
      BY <1>1, <2>2, ChainLeast DEF Children
    <3>2. QED
      BY <3>1 DEF Ahead
  <2>3. QED
    BY <2>1, <2>2
<1>10. IsFiniteSet(Ahead)
  BY AheadFacts
<1> HIDE DEF Ahead
<1>11. /\ IsFiniteSet(Ahead \ {d}) /\ IsFiniteSet(Ahead')
       /\ Cardinality(Ahead \ {d}) = Cardinality(Ahead) - 1
       /\ Cardinality(Ahead') <= Cardinality(Ahead \ {d})
  <2>1. IsFiniteSet(Ahead \ {d}) /\ Cardinality(Ahead \ {d}) = Cardinality(Ahead) - 1
    BY <1>7, <1>10, FS_RemoveElement
  <2>2. Ahead' \subseteq Ahead \ {d}
    BY <1>8, <1>9
  <2>3. QED
    BY <2>1, <2>2, FS_Subset
<1>12. Cardinality(Ahead) \in Nat /\ Cardinality(Ahead') \in Nat
  BY <1>10, <1>11, FS_CardinalityType
<1>13. QED
  BY <1>11, <1>12

LEMMA ScanLeavesLess ==
  ASSUME DirectoryInv, DirectoryNext
  PROVE  DirectoryStepsLeft' < DirectoryStepsLeft
<1>1. DirectoryInv'
  BY DirectoryNextInv
<1>2. DirectoryStepsLeft \in Nat /\ DirectoryStepsLeft' \in Nat
  <2>1. DirectoryInv' => (DirectoryStepsLeft \in Nat)'
    BY BoundIsNatural, PTL
  <2>2. QED
    BY <1>1, <2>1, BoundIsNatural
<1>3. /\ Cardinality(Ahead) \in Nat /\ Cardinality(Ahead') \in 0 .. Cardinality(Dirs)
      /\ Cardinality(Dirs) \in Nat /\ Cardinality(Names) \in Nat
  <2>1. (Cardinality(Ahead) \in 0 .. Cardinality(Dirs))'
    BY AheadBounded, PTL
  <2>2. QED
    BY <2>1, AheadFacts
<1>4. /\ Len(results) \in Nat /\ Len(candidates) \in Nat /\ Len(candidates') \in Nat
      /\ Len(results) <= Len(candidates) /\ results \in Seq(Reports)
  BY <1>1 DEF DirectoryInv, DirectoryTypeOK
<1>5. layout' = layout
  BY DirectoryTypes DEF DirectoryInv
<1>6. CASE Start
  BY <1>3, <1>6 DEF Start, DirectoryStepsLeft
<1>7. CASE StartFails
  BY <1>3, <1>7 DEF StartFails, DirectoryStepsLeft
<1>8. ASSUME NEW d \in Dirs, VisitUnreadable(d) \/ VisitDirectory(d)
      PROVE  DirectoryStepsLeft' < DirectoryStepsLeft
  <2>1. dpc = "walk" /\ d \in frontier
    BY <1>8 DEF VisitUnreadable, VisitDirectory
  <2>2. \/ dpc' = "raised"
        \/ dpc' = dpc /\ frontier' \subseteq (frontier \ {d}) \cup Children(d)
    BY <1>8 DEF VisitUnreadable, VisitDirectory
  <2>3. CASE dpc' = "raised"
    BY <1>3, <2>1, <2>3 DEF DirectoryStepsLeft
  <2>4. CASE dpc' = dpc /\ frontier' \subseteq (frontier \ {d}) \cup Children(d)
    <3>1. Cardinality(Ahead') < Cardinality(Ahead)
      BY <1>1, <1>5, <2>1, <2>4, VisitLeavesLess
    <3>2. QED
      BY <1>3, <2>1, <2>4, <3>1 DEF DirectoryStepsLeft
  <2>5. QED
    BY <2>2, <2>3, <2>4
<1>9. CASE SortCandidates
  <2>1. /\ dpc = "walk" /\ dpc' = "scan" /\ results' = << >>
        /\ candidates' \in Sorted(found) /\ found \subseteq Names
    BY <1>9 DEF SortCandidates, DirectoryInv, ResultsInv, DirectoryTypeOK
  <2>2. Len(candidates') <= Cardinality(Names)
    <3>1. Cardinality(found) \in Nat /\ Cardinality(found) <= Cardinality(Names)
      BY <2>1, NamesAssumption, FS_Subset, FS_CardinalityType
    <3>2. DOMAIN candidates' = 1 .. Cardinality(found)
      BY <2>1 DEF Sorted
    <3>3. Len(candidates') = Cardinality(found)
      BY <1>1, <3>1, <3>2, LenProperties DEF DirectoryInv, DirectoryTypeOK
    <3>4. QED
      BY <3>1, <3>3
  <2>3. Len(results') = 0
    BY <2>1
  <2>4. QED
    BY <1>3, <1>4, <2>1, <2>2, <2>3 DEF DirectoryStepsLeft
<1>10. ASSUME NEW report \in Reports, dpc = "scan", MoreEntries, dpc' = dpc,
              results' = Append(results, report), candidates' = candidates
       PROVE  DirectoryStepsLeft' < DirectoryStepsLeft
  <2>1. Len(results') = Len(results) + 1
    BY <1>4, <1>10
  <2>2. QED
    BY <1>4, <1>10, <2>1 DEF DirectoryStepsLeft
<1>11. ASSUME NEW report \in EntryReports, ScanEntry(report)
       PROVE  DirectoryStepsLeft' < DirectoryStepsLeft
  BY <1>10, <1>11 DEF ScanEntry, Reports
<1>12. CASE EntryIsGone
  <2>1. BareReport(Resolve({"file_access_error"}, "balanced", << >>)) \in Reports
    BY StatusesListed DEF Resolve, Reports
  <2>2. QED
    BY <1>10, <1>12, <2>1 DEF EntryIsGone
<1>13. CASE EntryRaises
  BY <1>4, <1>13 DEF EntryRaises, DirectoryStepsLeft
<1>14. CASE FinishDirectory
  BY <1>4, <1>14 DEF FinishDirectory, DirectoryStepsLeft
<1>15. QED
  BY <1>6, <1>7, <1>8, <1>9, <1>11, <1>12, <1>13, <1>14 DEF DirectoryNext

-----------------------------------------------------------------------------
(* The theorems.                                                           *)

LEMMA InvIsComplete == DirectoryInv => DirectoryReportIsComplete
<1> SUFFICES ASSUME DirectoryInv, dpc = "returned"
             PROVE  DirectoryReportIsComplete
  BY DEF DirectoryReportIsComplete
<1>1. /\ DirectoryTypeOK /\ Len(results) = Len(candidates)
      /\ frontier = {} /\ candidates \in Sorted(found)
  BY DEF DirectoryInv, ResultsInv, WalkInv
<1>2. PICK L \in SUBSET Dirs : Listed(L)
  BY DEF DirectoryInv, WalkInv
<1>3. L = {d \in Dirs : Reached(d)}
  BY <1>1, <1>2, AllListed
<1>4. layout \in Layouts /\ layout \in Layout
  BY <1>1, DirsAssumption DEF DirectoryTypeOK
<1>5. found = Scannable
  <2>1. \A n \in Names : layout.in[n] \in Dirs
    BY <1>4 DEF Layout
  <2>2. QED
    BY <1>2, <1>3, <2>1 DEF Listed, Scannable
<1>6. /\ Range(candidates) = Scannable /\ Len(candidates) = Cardinality(Scannable)
      /\ \A j, k \in DOMAIN candidates :
           j < k => layout.leads[candidates[j]] <= layout.leads[candidates[k]]
  <2>1. found \in SUBSET Names /\ \A n \in found : layout.leads[n] # Elsewhere
    BY <1>1, <1>2 DEF DirectoryTypeOK, Listed
  <2>2. QED
    BY <1>1, <1>4, <1>5, <2>1, SortedFacts
<1>7. /\ DirectoryReport.scanned_count = Len(results)
      /\ DirectoryReport.target_count = Len(candidates)
      /\ DirectoryReport.summary = DirectorySummary
      /\ DirectoryReport.accounting.directory_access_error_count = Cardinality(AccessErrors)
  BY DEF DirectoryReport, DirectoryAccounting, AccessErrors
<1>8. FoldFunction(+, 0, DirectorySummary) = Len(results)
  BY <1>1, CountsAddUp
<1>9. Cardinality(AccessErrors) = Cardinality({d \in layout.unreadable : Reached(d)})
  <2>1. L \cap layout.unreadable = {d \in layout.unreadable : Reached(d)}
    BY <1>3, <1>4 DEF Layout
  <2>2. QED
    BY <1>2, <2>1 DEF Listed
<1>10. FoldFunction(+, 0, DirectoryReport.summary) = DirectoryReport.scanned_count
  BY <1>7, <1>8
<1>11. QED
  BY <1>1, <1>6, <1>7, <1>9, <1>10 DEF DirectoryReportIsComplete

(* The walk and the results of a directory's scan keep the invariant,      *)
(* whatever becomes of the files on the way.                               *)
THEOREM DirectoryInvariance == DirectorySpec => []DirectoryInv
<1>1. DirectoryInv /\ [DirectoryNext]_dirVars => DirectoryInv'
  BY DirectoryNextInv, DirectoryStutterInv
<1>2. QED
  BY <1>1, DirectoryInitInv, PTL DEF DirectorySpec

(* The report of a directory has one result for each file that is neither  *)
(* ignored nor behind a directory that is ignored or cannot be read, and   *)
(* an issue for each directory that is reached and cannot be read; its     *)
(* counts add up.                                                          *)
THEOREM ReportsAreComplete == DirectorySpec => []DirectoryReportIsComplete
BY DirectoryInvariance, InvIsComplete, PTL

(* The scan of a directory ends, whatever the tree: every step leaves      *)
(* fewer, and their number is a natural number.                            *)
THEOREM DirectoryScansRunOut ==
  DirectorySpec => /\ [](DirectoryStepsLeft \in Nat)
                   /\ [][DirectoryStepsLeft' < DirectoryStepsLeft]_dirVars
<1>1. DirectoryInv /\ [DirectoryNext]_dirVars => [DirectoryStepsLeft' < DirectoryStepsLeft]_dirVars
  BY ScanLeavesLess
<1>2. QED
  BY <1>1, DirectoryInvariance, BoundIsNatural, PTL DEF DirectorySpec
=============================================================================
