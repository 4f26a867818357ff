---------------------------- MODULE DirectoryScan ----------------------------
(***************************************************************************)
(* The scan of a directory, ScanOrchestrator.scan_directory: walk the tree *)
(* and collect its files, scan them one after the other in the order of    *)
(* their relative paths, and sum up.  The scan of one file is ArchiveScan, *)
(* here one step with any verdict; an exception that it lets through ends  *)
(* the scan of the directory too ("raised").                               *)
(*                                                                         *)
(* The file system may change under the scan: a file that was found may be *)
(* gone, or unreadable, when its turn comes.                               *)
(***************************************************************************)
EXTENDS Reporting

CONSTANTS
  Dirs,          (* The directories.                                      *)
  Top,           (* The one that is scanned.                              *)
  Names,         (* The directory entries that are files or lead to one.  *)
  Elsewhere,     (* Any file that is not below Top.                       *)
  Layouts,       (* The trees in use.                                     *)
  EntryReports   (* The reports in use for one file.                      *)

(* An entry is a number: files are sorted by their relative path.  A link  *)
(* leads to another entry, or elsewhere; a file leads to itself.           *)
Layout == [parent : [Dirs -> Dirs],          (* of the directories below Top *)
           unreadable : SUBSET Dirs,
           ignoredDirs : SUBSET Dirs,        (* by the directory policy      *)
           in : [Names -> Dirs],
           leads : [Names -> Names \cup {Elsewhere}],
           ignoredNames : SUBSET Names]      (* by the directory policy      *)

ASSUME NamesAssumption == Names \subseteq Nat /\ IsFiniteSet(Names) /\ Elsewhere \notin Names
ASSUME DirsAssumption == Top \in Dirs /\ IsFiniteSet(Dirs) /\ Layouts \subseteq Layout
ASSUME EntriesAssumption ==
  \A report \in EntryReports :
    /\ Root \in DOMAIN report
    /\ StatusOf(report) \in VerdictStatuses
    /\ \A place \in DOMAIN report :
         /\ DOMAIN report[place] = {"overall_status", "raw_summary"}
         /\ DOMAIN report[place].raw_summary \subseteq DOMAIN KeptKeys

VARIABLES
  layout,     (* The tree.                                                 *)
  dpc,        (* The step of the scan, or how it ended.                    *)
  frontier,   (* The directories still to be listed.                       *)
  found,      (* The entries that are to be scanned.                       *)
  candidates, (* The same in the order of the relative paths they lead to. *)
  issues,     (* The codes of report.issues, in order.                     *)
  ignored,    (* The numbers of ignored directories and files.             *)
  results     (* The reports of the candidates.                            *)

dirVars == <<layout, dpc, frontier, found, candidates, issues, ignored, results>>

DirectoryInit ==
  /\ layout \in Layouts
  /\ dpc = "idle"
  /\ frontier = {}
  /\ found = {}
  /\ candidates = << >>
  /\ issues = << >>
  /\ ignored = [directories |-> 0, files |-> 0]
  /\ results = << >>

(* The target is a directory ...                                           *)
Start ==
  /\ dpc = "idle"
  /\ dpc' = "walk"
  /\ frontier' = {Top}
  /\ UNCHANGED <<layout, found, candidates, issues, ignored, results>>

(* ... or is not any more: an InputError; or cannot be looked at.          *)
StartFails ==
  /\ dpc = "idle"
  /\ dpc' \in {"refused", "raised"}
  /\ UNCHANGED <<layout, frontier, found, candidates, issues, ignored, results>>

Children(d) == {c \in Dirs \ {Top} : layout.parent[c] = d}
Entries(d) == {n \in Names : layout.in[n] = d}

(* os.walk reports a directory that it cannot list and goes on.            *)
VisitUnreadable(d) ==
  /\ dpc = "walk"
  /\ d \in frontier \cap layout.unreadable
  /\ frontier' = frontier \ {d}
  /\ issues' = Append(issues, "directory_access_error")
  /\ UNCHANGED <<layout, dpc, found, candidates, ignored, results>>

(* An entry that leads out of the tree has no relative path: a ValueError, *)
(* whether or not its name is ignored.                                     *)
VisitDirectory(d) ==
  /\ dpc = "walk"
  /\ d \in frontier \ layout.unreadable
  /\ IF \E n \in Entries(d) : layout.leads[n] = Elsewhere
     THEN dpc' = "raised" /\ UNCHANGED <<frontier, found, ignored>>
     ELSE /\ frontier' = (frontier \ {d}) \cup (Children(d) \ layout.ignoredDirs)
          /\ found' = found \cup (Entries(d) \ layout.ignoredNames)
          /\ ignored' = [directories |-> ignored.directories
                                         + Cardinality(Children(d) \cap layout.ignoredDirs),
                         files |-> ignored.files
                                   + Cardinality(Entries(d) \cap layout.ignoredNames)]
          /\ UNCHANGED dpc
  /\ UNCHANGED <<layout, candidates, issues, results>>

(* A file that several entries lead to is there several times.             *)
Before(m, n) ==
  \/ layout.leads[m] < layout.leads[n]
  \/ layout.leads[m] = layout.leads[n] /\ m < n

Sorted(files) ==
  {s \in [1 .. Cardinality(files) -> files] : \A j, k \in DOMAIN s : j < k => Before(s[j], s[k])}

(* Mutant of SortCandidates: the files of the walk that is still going on. *)
SortCandidatesEarly ==
  /\ dpc = "walk"
  /\ candidates' \in Sorted(found)
  /\ dpc' = "scan"
  /\ UNCHANGED <<layout, frontier, found, issues, ignored, results>>

SortCandidates ==
  /\ dpc = "walk" /\ frontier = {}
  /\ candidates' \in Sorted(found)
  /\ dpc' = "scan"
  /\ UNCHANGED <<layout, frontier, found, issues, ignored, results>>

MoreEntries == Len(results) < Len(candidates)

ScanEntry(report) ==
  /\ dpc = "scan" /\ MoreEntries
  /\ results' = Append(results, report)
  /\ UNCHANGED <<layout, dpc, frontier, found, candidates, issues, ignored>>

(* Mutant of EntryIsGone: the result has a status of its own.              *)
EntryIsGoneOwnStatus ==
  /\ dpc = "scan" /\ MoreEntries
  /\ results' = Append(results, BareReport("file_access_error"))
  /\ UNCHANGED <<layout, dpc, frontier, found, candidates, issues, ignored>>

(* The file is not there any more, or is not a regular file: a report with *)
(* no engines and the code file_access_error.                              *)
EntryIsGone ==
  /\ dpc = "scan" /\ MoreEntries
  /\ results' = Append(results, BareReport(Resolve({"file_access_error"}, "balanced", << >>)))
  /\ UNCHANGED <<layout, dpc, frontier, found, candidates, issues, ignored>>

(* An exception of the scan of the file: it cannot be read or hashed, its  *)
(* archive is damaged, an engine's adapter raised.                         *)
EntryRaises ==
  /\ dpc = "scan" /\ MoreEntries
  /\ dpc' = "raised"
  /\ UNCHANGED <<layout, frontier, found, candidates, issues, ignored, results>>

FinishDirectory ==
  /\ dpc = "scan" /\ ~MoreEntries
  /\ issues' = IF results = << >> THEN Append(issues, "no_files_found") ELSE issues
  /\ dpc' = "returned"
  /\ UNCHANGED <<layout, frontier, found, candidates, ignored, results>>

DirectoryNext ==
  \/ Start \/ StartFails
  \/ \E d \in Dirs : VisitUnreadable(d) \/ VisitDirectory(d)
  \/ SortCandidates
  \/ \E report \in EntryReports : ScanEntry(report)
  \/ EntryIsGone \/ EntryRaises
  \/ FinishDirectory

DirectorySpec == DirectoryInit /\ [][DirectoryNext]_dirVars

-----------------------------------------------------------------------------
(* What the report says.                                                   *)

Statuses == {StatusOf(results[k]) : k \in DOMAIN results}

HowMany(status) == Cardinality({k \in DOMAIN results : StatusOf(results[k]) = status})

DirectorySummary == [s \in VerdictStatuses |-> HowMany(s)]

DirectoryAccounting ==
  [ignored_directory_count |-> ignored.directories,
   ignored_file_count |-> ignored.files,
   top_level_issue_count |-> Len(issues),
   directory_access_error_count |->
     Cardinality({k \in DOMAIN issues : issues[k] = "directory_access_error"})]

DirectoryReport ==
  [target_count |-> Len(candidates),
   scanned_count |-> Len(results),
   summary |-> DirectorySummary,
   accounting |-> DirectoryAccounting,
   overall_status |-> Overall(Statuses),
   error_count |-> DirectorySummary["scan_error"] + DirectoryAccounting.top_level_issue_count]

-----------------------------------------------------------------------------
(* Correctness.                                                            *)

(* The directories from d up to Top, or for ever: the least set that has d *)
(* and the parent of each of its members but Top.                          *)
Chain(d) ==
  {e \in Dirs : \A S \in SUBSET Dirs :
     d \in S /\ (\A x \in S \ {Top} : layout.parent[x] \in S) => e \in S}

Reached(d) == /\ Top \in Chain(d)
              /\ (Chain(d) \ {Top}) \cap layout.ignoredDirs = {}
              /\ (Chain(d) \ {d}) \cap layout.unreadable = {}

Scannable == {n \in Names : /\ Reached(layout.in[n])
                            /\ layout.in[n] \notin layout.unreadable
                            /\ n \notin layout.ignoredNames}

(* An upper bound of the steps that the scan can still take: every         *)
(* directory with one above it, or itself, that is to be listed may be     *)
(* listed itself, and every entry may have to be scanned.                  *)
Ahead == {d \in Dirs : Chain(d) \cap frontier # {}}

DirectoryStepsLeft ==
  CASE dpc = "idle" -> Cardinality(Dirs) + Cardinality(Names) + 3
    [] dpc = "walk" -> Cardinality(Ahead) + Cardinality(Names) + 2
    [] dpc = "scan" -> Len(candidates) - Len(results) + 1
    [] OTHER -> 0

(* operations.md 13.1 to 13.5: the report of a directory has one result    *)
(* for every file that is neither ignored nor behind an ignored or an      *)
(* unreadable directory, in the order of the paths; every unreadable       *)
(* directory that is reached is an issue; and the counts add up.           *)
DirectoryReportIsComplete ==
  dpc = "returned" =>
    /\ Range(candidates) = Scannable
    /\ \A j, k \in DOMAIN candidates :
         j < k => layout.leads[candidates[j]] <= layout.leads[candidates[k]]
    /\ DirectoryReport.scanned_count = Cardinality(Scannable)
    /\ DirectoryReport.target_count = DirectoryReport.scanned_count
    /\ FoldFunction(+, 0, DirectoryReport.summary) = DirectoryReport.scanned_count
    /\ DirectoryReport.accounting.directory_access_error_count
         = Cardinality({d \in layout.unreadable : Reached(d)})
=============================================================================
