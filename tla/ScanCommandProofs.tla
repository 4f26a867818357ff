-------------------------- MODULE ScanCommandProofs --------------------------
(***************************************************************************)
(* The scan command: its exit code, what it refuses, the settings it runs  *)
(* with, what it prints and writes, and its reports of directories, for    *)
(* every tree, every source of configuration and any reports on the files. *)
(*                                                                         *)
(* The exit code is right because the document that is about to be written *)
(* is the one that was printed last (EmitInv), a document without an error *)
(* and with a clean status comes from results that are all clean (DocInv), *)
(* and what happened at the end is what the code tells (EndInv).  After    *)
(* each step of loading, what has been read is one more of the layers that *)
(* ConfigurationProofs is about (ConfigInv); what is printed is the default *)
(* view of the document in hand (PrintInv), and the default view of any    *)
(* document says the same (WrittenSaysSame).  What the command does in a   *)
(* directory is DirectorySpec, the scan of DirectoryScanProofs.            *)
(***************************************************************************)
EXTENDS ScanCommand, DirectoryScanProofs, ConfigurationProofs

WholeDocument(doc) ==
  /\ {"mode", "status", "error", "reports"} \subseteq DOMAIN doc
  /\ IsDocument(doc)
  /\ \A k \in DOMAIN doc.reports : IsReport(doc.reports[k])

(* Every file of the directory was scanned, and clean.                     *)
AllClean ==
  /\ results # << >>
  /\ Len(results) = Len(candidates)
  /\ Statuses = {"clean_by_known_checks"}

(* The steps before a document is emitted, and those that emit one.        *)
Steps == {"dispatch", "config", "local", "env", "options", "check", "file", "directory"}
Emitting == cpc \in {"stdout", "write"}

(* Nothing of this command's is in the report file yet, or a torn report,  *)
(* after one was printed.                                                  *)
NothingWritten == out = NoFile \/ (out = TornFile /\ reportOut /\ stdout # << >>)

EmitInv ==
  /\ WholeDocument(document)
  /\ \E S : stdout \in Seq(S)
  /\ cpc \in Steps => stdout = << >> /\ error = "none"
  /\ cpc = "handler" => error # "none" /\ (stdout # << >> => reportOut)
  /\ Emitting => document.error = error
  /\ cpc = "stdout" /\ error = "none" => stdout = << >>
  /\ cpc = "write" =>
       /\ reportOut /\ stdout # << >>
       /\ Last(stdout).status = document.status /\ Last(stdout).error = document.error
       /\ error = "none" => Len(stdout) = 1
  /\ cpc # "ended" => exit = NoExit /\ NothingWritten

DocInv ==
  /\ cpc = "file" => target # "directory"
  /\ /\ Emitting /\ document.error = "none" /\ target = "directory"
     /\ document.status = "clean_by_known_checks"
     => AllClean

RefuseInv ==
  Refused =>
    /\ dpc = "idle"
    /\ cpc \in Steps => cpc = "dispatch"
    /\ Emitting \/ cpc = "handler" => error = "input_error"
    /\ stdout # << >> => stdout[1].error = "input_error"

EndInv == ExitTellsStatus /\ ExitZeroIsClean

IInv == TypeOK /\ DirectoryInv /\ EmitInv /\ DocInv /\ RefuseInv /\ EndInv

-----------------------------------------------------------------------------
(* Reports and documents.                                                  *)

(* What the codes and the statuses exit with.                              *)
LEMMA ExitFacts ==
  /\ \A s \in VerdictStatuses : ExitCode[s] \in 0 .. 8
  /\ \A s \in VerdictStatuses : ExitCode[s] = 0 => s = "clean_by_known_checks"
  /\ \A code \in Codes : ErrorExit(code) \in 1 .. 8
BY StatusesListed DEF ExitCode, ErrorExit, Codes

(* The document about one file.                                            *)
LEMMA FileDocumentFacts ==
  ASSUME NEW report, IsReport(report), NEW code \in Codes \cup {"none"}
  PROVE  /\ WholeDocument(FileDocument(report, code))
         /\ FileDocument(report, code).error = code
         /\ FileDocument(report, code).status = StatusOf(report)
<1> DEFINE doc == FileDocument(report, code)
<1>1. /\ {"mode", "status", "error", "reports"} = DOMAIN doc
      /\ doc.mode = "file" /\ doc.error = code /\ doc.status = StatusOf(report)
      /\ doc.reports = <<report>>
  BY DEF FileDocument
<1>2. \A k \in DOMAIN <<report>> : <<report>>[k] = report
  OBVIOUS
<1> HIDE DEF doc
<1>3. QED
  BY <1>1, <1>2 DEF WholeDocument, IsDocument, IsReport, Codes, doc

(* The document about a directory.                                         *)
LEMMA DirectoryDocumentFacts ==
  ASSUME NEW status \in VerdictStatuses, NEW code \in Codes \cup {"none"},
         NEW summary, NEW accounting, NEW reports,
         \A k \in DOMAIN reports : IsReport(reports[k])
  PROVE  LET doc == DirectoryDocument(status, code, summary, accounting, reports)
         IN  WholeDocument(doc) /\ doc.error = code /\ doc.status = status
<1> DEFINE doc == DirectoryDocument(status, code, summary, accounting, reports)
<1>1. /\ {"mode", "status", "error", "reports"} \subseteq DOMAIN doc
      /\ doc.mode = "directory" /\ doc.error = code /\ doc.status = status
      /\ doc.reports = reports
  BY DEF DirectoryDocument
<1> HIDE DEF doc
<1>2. QED
  BY <1>1 DEF WholeDocument, IsDocument, IsReport, Codes, doc

LEMMA ErrorDocumentFacts ==
  ASSUME NEW code \in Codes
  PROVE  WholeDocument(ErrorDocument(code)) /\ ErrorDocument(code).error = code
<1>1. "scan_error" \in VerdictStatuses
  BY StatusesListed
<1>2. CASE now = "directory"
  <2>1. \A k \in DOMAIN << >> : IsReport(<< >>[k])
    OBVIOUS
  <2>2. QED
    BY <1>1, <1>2, <2>1, DirectoryDocumentFacts DEF ErrorDocument
<1>3. CASE now # "directory"
  BY <1>1, <1>3, BareFacts, FileDocumentFacts DEF ErrorDocument
<1>4. QED
  BY <1>2, <1>3

(* The default view keeps the statuses and the error.                      *)
LEMMA CompactFacts ==
  ASSUME NEW doc, WholeDocument(doc)
  PROVE  /\ IsDocument(Compact(doc))
         /\ Compact(doc).status = doc.status /\ Compact(doc).error = doc.error
<1> DEFINE short == [k \in DOMAIN doc.reports |-> CompactReport(doc.reports[k])]
<1>1. \A k \in DOMAIN doc.reports : StatusOf(short[k]) = StatusOf(doc.reports[k])
  <2> SUFFICES ASSUME NEW k \in DOMAIN doc.reports
               PROVE  StatusOf(CompactReport(doc.reports[k])) = StatusOf(doc.reports[k])
    OBVIOUS
  <2>1. PICK report : report = doc.reports[k]
    OBVIOUS
  <2>2. Root \in DOMAIN report /\ {"overall_status", "raw_summary"} \subseteq DOMAIN report[Root]
    BY <2>1 DEF WholeDocument, IsReport
  <2>3. CompactReport(report)[Root] = CompactPart(report[Root])
    BY <2>2 DEF CompactReport
  <2>4. CompactPart(report[Root]).overall_status = report[Root].overall_status
    BY <2>2 DEF CompactPart
  <2>5. QED
    BY <2>1, <2>3, <2>4 DEF StatusOf
<1>2. /\ Compact(doc).mode = doc.mode /\ Compact(doc).status = doc.status
      /\ Compact(doc).error = doc.error /\ Compact(doc).reports = short
  <2>1. PICK summary, accounting :
          /\ summary = NonZeroFirst(Counts(doc.summary), SummaryOrder)
          /\ accounting = NonZeroFirst(Counts(doc.accounting), AccountingOrder)
    OBVIOUS
  <2>2. Compact(doc) = IF doc.mode = "file" THEN [doc EXCEPT !.reports = short]
                       ELSE [doc EXCEPT !.summary = summary, !.accounting = accounting,
                                        !.reports = short]
    BY <2>1 DEF Compact
  <2>3. {"mode", "status", "error", "reports"} \subseteq DOMAIN doc
    BY DEF WholeDocument
  <2> HIDE DEF short
  <2>4. QED
    BY <2>2, <2>3
<1>3. QED
  BY <1>1, <1>2 DEF WholeDocument, IsDocument

-----------------------------------------------------------------------------
(* What holds at first.                                                    *)

LEMMA InitInv == Init => IInv
<1> SUFFICES ASSUME Init PROVE IInv
  OBVIOUS
<1>1. /\ cpc = "dispatch" /\ dpc = "idle" /\ stdout = << >> /\ error = "none"
      /\ exit = NoExit /\ out = NoFile
      /\ results = << >> /\ candidates = << >> /\ issues = << >>
  BY DEF Init, DirectoryInit
<1>2. WholeDocument(document)
  <2>1. IsReport(BareReport("scan_error"))
    BY StatusesListed, BareFacts
  <2>2. QED
    BY <2>1, FileDocumentFacts DEF Init
<1>3. TypeOK
  <2>1. Range(candidates) = {} /\ Range(issues) = {} /\ Statuses = {}
    BY <1>1 DEF Range, Statuses
  <2>2. DOMAIN config = {}
    BY DEF Init, NotLoaded
  <2>3. Len(results) <= Len(candidates) /\ exit \in (0 .. 8) \cup {NoExit}
    BY <1>1 DEF NoExit
  <2>4. \A k \in DOMAIN stdout : IsDocument(stdout[k])
    BY <1>1
  <2>5. QED
    BY <1>1, <1>2, <2>1, <2>2, <2>3, <2>4
    DEF TypeOK, Init, DirectoryInit, Natures, WholeDocument
<1>4. DirectoryInv
  BY DirectoryInitInv DEF Init
<1>5. EmitInv
  <2>1. stdout \in Seq({})
    BY <1>1
  <2>2. QED
    BY <1>1, <1>2, <2>1 DEF EmitInv, Emitting, NothingWritten
<1>6. DocInv /\ RefuseInv
  BY <1>1 DEF DocInv, RefuseInv, Emitting
<1>7. EndInv
  BY <1>1 DEF EndInv, ExitTellsStatus, ExitZeroIsClean, Ended, NoExit
<1>8. QED
  BY <1>3, <1>4, <1>5, <1>6, <1>7 DEF IInv

-----------------------------------------------------------------------------
(* The steps before a document is emitted.                                 *)

(* What the steps before a document is emitted leave alone.                *)
LEMMA StepFacts ==
  ASSUME IInv, cpc \in Steps, UnchangedByCommand, UNCHANGED dirVars,
         cpc' \in Steps \cup {"handler", "stdout"}, DOMAIN config' \in {{}, Settings},
         error' \in Codes \cup {"none"}, WholeDocument(document')
  PROVE  /\ TypeOK' /\ DirectoryInv' /\ EndInv'
         /\ AllClean' = AllClean /\ Refused' = Refused
         /\ UNCHANGED <<target, now, mode, sources, reportOut, stdout, out, exit,
                       layout, dpc, frontier, found, candidates, issues, ignored, results>>
         /\ stdout = << >> /\ error = "none" /\ exit = NoExit /\ out = NoFile
         /\ \E S : stdout \in Seq(S)
         /\ WholeDocument(document)'
<1>1. UNCHANGED <<target, now, mode, sources, reportOut, stdout, out, exit,
                  layout, dpc, frontier, found, candidates, issues, ignored, results>>
  BY DEF UnchangedByCommand, dirVars
<1>2. /\ stdout = << >> /\ error = "none" /\ exit = NoExit /\ out = NoFile
      /\ \E S : stdout \in Seq(S)
  BY DEF IInv, EmitInv, Steps, NothingWritten
<1>3. Statuses' = Statuses
  BY <1>1 DEF Statuses
<1>4. TypeOK'
  <2>1. cpc' \in {"dispatch", "config", "local", "env", "options", "check", "file",
                  "directory", "handler", "stdout", "write", "ended"}
    BY DEF Steps
  <2>2. IsDocument(document')
    BY DEF WholeDocument
  <2>3. QED
    BY <1>1, <1>3, <2>1, <2>2 DEF IInv, TypeOK, IsDocument
<1>5. DirectoryInv'
  BY DirectoryStutterInv DEF IInv
<1>6. EndInv'
  BY <1>1, <1>2 DEF EndInv, ExitTellsStatus, ExitZeroIsClean, Ended, NoExit, Steps
<1>7. AllClean' = AllClean /\ Refused' = Refused
  BY <1>1, <1>3 DEF AllClean, Refused
<1>8. WholeDocument(document)'
  BY DEF WholeDocument, IsDocument, IsReport
<1>9. QED
  BY <1>1, <1>2, <1>4, <1>5, <1>6, <1>7, <1>8

(* A step that only goes on to the next one.                               *)
LEMMA GoOn ==
  ASSUME IInv, cpc \in Steps, cpc' \in Steps, ~Refused, cpc' = "file" => target # "directory",
         UnchangedByCommand, UNCHANGED <<document, error, dirVars>>,
         DOMAIN config' \in {{}, Settings}
  PROVE  IInv'
<1>1. WholeDocument(document') /\ error' \in Codes \cup {"none"}
  BY DEF IInv, EmitInv, TypeOK, WholeDocument, IsDocument, IsReport
<1>2. /\ TypeOK' /\ DirectoryInv' /\ EndInv' /\ Refused' = Refused
      /\ UNCHANGED <<target, stdout, out, exit, reportOut>>
      /\ stdout = << >> /\ error = "none" /\ exit = NoExit /\ out = NoFile
      /\ \E S : stdout \in Seq(S)
      /\ WholeDocument(document)'
  BY <1>1, StepFacts
<1>3. ~Emitting' /\ cpc' \notin {"handler", "ended"}
  BY DEF Emitting, Steps
<1>4. EmitInv'
  BY <1>2, <1>3 DEF EmitInv, NothingWritten, Emitting
<1>5. DocInv' /\ RefuseInv'
  BY <1>2, <1>3 DEF DocInv, RefuseInv
<1>6. QED
  BY <1>2, <1>4, <1>5 DEF IInv

(* A step that has a report to emit.                                       *)
LEMMA EmitStep ==
  ASSUME IInv, cpc \in Steps, ~Refused, NEW doc, EmitNext(doc),
         WholeDocument(doc), doc.error = "none",
         target = "directory" /\ doc.status = "clean_by_known_checks" => AllClean,
         UnchangedByCommand, UNCHANGED <<error, config, dirVars>>
  PROVE  IInv'
<1>1. cpc' = "stdout" /\ document' = doc /\ WholeDocument(document')
  BY DEF EmitNext
<1>2. DOMAIN config' \in {{}, Settings} /\ error' \in Codes \cup {"none"}
  BY DEF IInv, TypeOK
<1>3. /\ TypeOK' /\ DirectoryInv' /\ EndInv' /\ Refused' = Refused /\ AllClean' = AllClean
      /\ UNCHANGED <<target, stdout, out, exit, reportOut>>
      /\ stdout = << >> /\ error = "none" /\ exit = NoExit /\ out = NoFile
      /\ \E S : stdout \in Seq(S)
      /\ WholeDocument(document)'
  BY <1>1, <1>2, StepFacts
<1>4. EmitInv'
  BY <1>1, <1>3 DEF EmitInv, NothingWritten, Emitting, Steps
<1>5. DocInv' /\ RefuseInv'
  BY <1>1, <1>3 DEF DocInv, RefuseInv
<1>6. QED
  BY <1>3, <1>4, <1>5 DEF IInv

(* A step that raises.                                                     *)
LEMMA RaiseStep ==
  ASSUME IInv, cpc \in Steps, NEW code \in Codes, RaiseError(code),
         Refused => code = "input_error",
         UnchangedByCommand, UNCHANGED <<document, config, dirVars>>
  PROVE  IInv'
<1>1. cpc' = "handler" /\ error' = code /\ code # "none"
  BY DEF RaiseError, Codes
<1>2. WholeDocument(document') /\ DOMAIN config' \in {{}, Settings} /\ error' \in Codes \cup {"none"}
  BY <1>1 DEF IInv, EmitInv, TypeOK, WholeDocument, IsDocument, IsReport
<1>3. /\ TypeOK' /\ DirectoryInv' /\ EndInv' /\ Refused' = Refused
      /\ UNCHANGED <<target, stdout, out, exit, reportOut, dpc>>
      /\ stdout = << >> /\ exit = NoExit /\ out = NoFile
      /\ \E S : stdout \in Seq(S)
      /\ WholeDocument(document)'
  BY <1>1, <1>2, StepFacts
<1>4. ~Emitting' /\ cpc' \notin Steps
  BY <1>1 DEF Emitting, Steps
<1>5. EmitInv'
  BY <1>1, <1>3, <1>4 DEF EmitInv, NothingWritten
<1>6. DocInv' /\ RefuseInv'
  BY <1>1, <1>3, <1>4 DEF IInv, DocInv, RefuseInv
<1>7. QED
  BY <1>3, <1>5, <1>6 DEF IInv

LEMMA LoadInv ==
  ASSUME IInv, cpc \in Steps \ {"dispatch"}, NEW problem, problem \in Codes \cup {"none"},
         NEW newData, NEW next, next \in Steps \ {"file"}, LoadNext(problem, newData, next)
  PROVE  IInv'
<1>1. ~Refused
  BY DEF IInv, RefuseInv, Steps
<1>2. UnchangedByCommand /\ UNCHANGED <<document, config, dirVars>>
  BY DEF LoadNext
<1>3. CASE problem # "none"
  BY <1>1, <1>2, <1>3, RaiseStep DEF LoadNext
<1>4. CASE problem = "none"
  <2>1. cpc' = next /\ UNCHANGED error
    BY <1>4 DEF LoadNext
  <2>2. DOMAIN config' \in {{}, Settings}
    BY <1>2 DEF IInv, TypeOK
  <2>3. QED
    BY <1>1, <1>2, <2>1, <2>2, GoOn
<1>5. QED
  BY <1>3, <1>4

(* Everything up to the scan.                                              *)
LEMMA LoadingInv ==
  ASSUME IInv, \/ Dispatch \/ ReadConfigFile \/ ReadLocalFile
               \/ ReadEnvOverrides \/ ApplyOptions \/ CheckConfig
  PROVE  IInv'
<1>1. CASE Dispatch
  <2>1. cpc \in Steps /\ UnchangedByCommand /\ UNCHANGED <<document, config, dirVars>>
    BY <1>1 DEF Dispatch, Steps
  <2>2. CASE Refused \/ target = "hidden"
    <3>1. RaiseError("input_error") \/ (~Refused /\ RaiseError("internal_error"))
      BY <1>1, <2>2 DEF Dispatch, Refused
    <3>2. "input_error" \in Codes /\ "internal_error" \in Codes
      BY DEF Codes
    <3>3. QED
      BY <2>1, <3>1, <3>2, RaiseStep
  <2>3. CASE ~Refused /\ target # "hidden"
    <3>1. cpc' = "config" /\ UNCHANGED error
      BY <1>1, <2>3 DEF Dispatch
    <3>2. DOMAIN config' \in {{}, Settings}
      BY <2>1 DEF IInv, TypeOK
    <3>3. QED
      BY <2>1, <2>3, <3>1, <3>2, GoOn DEF Steps
  <2>4. QED
    BY <2>2, <2>3
<1>2. CASE ReadConfigFile
  BY <1>2, LoadInv DEF ReadConfigFile, FileProblem, Codes, Steps
<1>3. CASE ReadLocalFile
  BY <1>3, LoadInv DEF ReadLocalFile, FileProblem, Codes, Steps
<1>4. CASE ReadEnvOverrides
  BY <1>4, LoadInv DEF ReadEnvOverrides, Steps
<1>5. CASE ApplyOptions
  BY <1>5, LoadInv DEF ApplyOptions, Steps
<1>6. CASE CheckConfig
  <2>1. /\ cpc \in Steps /\ UnchangedByCommand /\ UNCHANGED <<document, dirVars>>
        /\ cpc = "check"
    BY <1>6 DEF CheckConfig, Steps
  <2>2. ~Refused
    BY <2>1 DEF IInv, RefuseInv
  <2>3. CASE DataProblem(merged) # "none"
    <3>1. DataProblem(merged) \in Codes
      BY <2>3 DEF DataProblem, Codes
    <3>2. RaiseError(DataProblem(merged)) /\ UNCHANGED config
      BY <1>6, <2>3 DEF CheckConfig
    <3>3. QED
      BY <2>1, <2>2, <3>1, <3>2, RaiseStep
  <2>4. CASE DataProblem(merged) = "none"
    <3>1. /\ config' = Configured(merged) /\ UNCHANGED error
          /\ cpc' = IF target = "directory" THEN "directory" ELSE "file"
      BY <1>6, <2>4 DEF CheckConfig
    <3>2. DOMAIN config' \in {{}, Settings}
      BY <3>1 DEF Configured
    <3>3. QED
      BY <2>1, <2>2, <3>1, <3>2, GoOn DEF Steps
  <2>5. QED
    BY <2>3, <2>4
<1>7. QED
  BY <1>1, <1>2, <1>3, <1>4, <1>5, <1>6

-----------------------------------------------------------------------------
(* The scan.                                                               *)

LEMMA ScanFileInv ==
  ASSUME IInv, \/ \E report \in EntryReports : ScanFile(report)
               \/ ScanFileRaises
  PROVE  IInv'
<1>1. /\ cpc = "file" /\ cpc \in Steps /\ UnchangedByCommand
      /\ UNCHANGED <<config, dirVars>>
  BY DEF ScanFile, ScanFileRaises, Steps
<1>2. target # "directory" /\ ~Refused
  BY <1>1 DEF IInv, DocInv, Refused
<1>3. ASSUME NEW report \in EntryReports, ScanFile(report)
      PROVE  IInv'
  <2>1. WholeDocument(FileDocument(report, "none")) /\ FileDocument(report, "none").error = "none"
    BY ReportsFacts, FileDocumentFacts DEF Reports
  <2>2. EmitNext(FileDocument(report, "none")) /\ UNCHANGED error
    BY <1>3 DEF ScanFile
  <2>3. QED
    BY <1>1, <1>2, <2>1, <2>2, EmitStep
<1>4. ASSUME ScanFileRaises
      PROVE  IInv'
  <2>1. PICK code \in Codes : RaiseError(code) /\ UNCHANGED document
    BY <1>4 DEF ScanFileRaises, FileErrors, Codes, IInv, TypeOK, Natures
  <2>2. QED
    BY <1>1, <1>2, <2>1, RaiseStep
<1>5. QED
  BY <1>3, <1>4

LEMMA StepDirectoryInv ==
  ASSUME IInv, StepDirectory
  PROVE  IInv'
<1>1. cpc = "directory" /\ DirectoryNext /\ UNCHANGED cmdVars
  BY DEF StepDirectory
<1>2. UNCHANGED <<target, now, mode, sources, config, reportOut, cpc, document, error,
                  stdout, out, exit>>
  BY <1>1 DEF cmdVars
<1>3. /\ DirectoryInv' /\ layout' = layout
      /\ dpc' \in {"idle", "walk", "scan", "returned", "refused", "raised"}
      /\ frontier' \subseteq Dirs /\ found' \subseteq Names
      /\ ignored' \in [directories : Nat, files : Nat]
      /\ Len(results') <= Len(candidates')
  BY <1>1, DirectoryNextInv, DirectoryTypes DEF IInv, DirectoryInv, DirectoryTypeOK
<1>4. ~Refused /\ cpc \in Steps /\ ~Emitting /\ ~Emitting'
  BY <1>1, <1>2 DEF IInv, RefuseInv, Emitting, Steps
<1>5. TypeOK'
  <2>1. /\ candidates' \in Seq(Names) /\ results' \in Seq(Reports)
        /\ issues' \in Seq({"directory_access_error", "no_files_found"})
    BY <1>3 DEF DirectoryInv, DirectoryTypeOK
  <2>2. /\ Range(candidates') \subseteq Names
        /\ Range(issues') \subseteq {"directory_access_error", "no_files_found"}
    BY <2>1 DEF Range
  <2>3. \A k \in DOMAIN results' : results'[k] \in Reports
    BY <2>1
  <2>4. Statuses' \subseteq VerdictStatuses
    BY <2>3, ReportsFacts DEF Statuses, IsReport
  <2>5. QED
    BY <1>2, <1>3, <2>2, <2>4 DEF IInv, TypeOK, IsDocument
<1>6. EmitInv'
  <2>1. WholeDocument(document)'
    BY <1>2 DEF IInv, EmitInv, WholeDocument, IsDocument, IsReport
  <2>2. QED
    BY <1>1, <1>2, <1>4, <2>1 DEF IInv, EmitInv, NothingWritten
<1>7. DocInv' /\ RefuseInv'
  BY <1>1, <1>2, <1>4 DEF DocInv, RefuseInv, Refused
<1>8. EndInv'
  BY <1>1, <1>2 DEF IInv, EmitInv, EndInv, ExitTellsStatus, ExitZeroIsClean, Ended, NoExit
<1>9. QED
  BY <1>3, <1>5, <1>6, <1>7, <1>8 DEF IInv

(* A directory that is clean on the whole is clean in every file.          *)
LEMMA DirectoryStatus ==
  ASSUME IInv, dpc = "returned"
  PROVE  /\ Overall(Statuses) \in VerdictStatuses
         /\ Overall(Statuses) = "clean_by_known_checks" => AllClean
<1>1. Statuses \in SUBSET VerdictStatuses /\ results \in Seq(Reports)
      /\ Len(results) = Len(candidates)
  BY DEF IInv, TypeOK, DirectoryInv, DirectoryTypeOK, ResultsInv
<1>2. CASE Statuses = {}
  <2>1. Overall(Statuses) = "scan_error"
    BY <1>2 DEF Overall
  <2>2. QED
    BY <2>1, StatusesListed
<1>3. CASE Statuses # {}
  <2>1. /\ Overall(Statuses) \in Statuses
        /\ Overall(Statuses) = "clean_by_known_checks" =>
             \A s \in Statuses : s = "clean_by_known_checks"
    BY <1>1, <1>3, OverallFacts
  <2>2. results # << >>
    BY <1>3 DEF Statuses
  <2>3. QED
    BY <1>1, <1>3, <2>1, <2>2 DEF AllClean
<1>4. QED
  BY <1>2, <1>3

LEMMA EndDirectoryInv ==
  ASSUME IInv, EndDirectory
  PROVE  IInv'
<1>1. /\ cpc = "directory" /\ cpc \in Steps /\ UnchangedByCommand
      /\ UNCHANGED <<config, dirVars>>
  BY DEF EndDirectory, Steps
<1>2. ~Refused
  BY <1>1 DEF IInv, RefuseInv
<1>3. CASE dpc = "returned" /\ EmitNext(ReportOfDirectory) /\ UNCHANGED error
  <2>1. results \in Seq(Reports)
    BY DEF IInv, DirectoryInv, DirectoryTypeOK
  <2>2. \A k \in DOMAIN results : IsReport(results[k])
    BY <2>1, ReportsFacts
  <2>3. PICK doc : doc = ReportOfDirectory
    OBVIOUS
  <2>4. WholeDocument(doc) /\ doc.error = "none" /\ doc.status = Overall(Statuses)
    <3>1. DirectoryReport.overall_status = Overall(Statuses)
      BY DEF DirectoryReport
    <3>2. QED
      BY <1>3, <2>2, <2>3, <3>1, DirectoryStatus, DirectoryDocumentFacts DEF ReportOfDirectory
  <2>5. QED
    BY <1>1, <1>2, <1>3, <2>3, <2>4, DirectoryStatus, EmitStep
<1>4. CASE (\E code \in {"input_error", "internal_error"} : RaiseError(code)) /\ UNCHANGED document
  <2>1. PICK code \in Codes : RaiseError(code)
    BY <1>4 DEF Codes
  <2>2. QED
    BY <1>1, <1>2, <1>4, <2>1, RaiseStep
<1>5. CASE RaiseError("input_error") /\ UNCHANGED document
  BY <1>4, <1>5
<1>6. QED
  BY <1>3, <1>4, <1>5 DEF EndDirectory

-----------------------------------------------------------------------------
(* What is printed and written.                                            *)

(* The exit code for a document, and when it is 0.                         *)
LEMMA ExitOfFacts ==
  ASSUME NEW doc, WholeDocument(doc)
  PROVE  /\ ExitOf(doc) \in 0 .. 8
         /\ ExitOf(doc) = 0 => doc.error = "none" /\ doc.status = "clean_by_known_checks"
<1>1. doc.status \in VerdictStatuses /\ doc.error \in Codes \cup {"none"}
  BY DEF WholeDocument, IsDocument, Codes
<1>2. QED
  BY <1>1, ExitFacts DEF ExitOf

(* What all the steps of emission leave alone.                             *)
Framed == UNCHANGED <<target, now, mode, sources, config, reportOut, dirVars>>

LEMMA FramedFacts ==
  ASSUME IInv, Framed, cpc' \in {"handler", "stdout", "write", "ended"},
         IsDocument(document'), out' \in {NoFile, TornFile} \/ IsDocument(out'),
         \A k \in DOMAIN stdout' : IsDocument(stdout'[k]),
         error' \in Codes \cup {"none"}, exit' \in (0 .. 8) \cup {NoExit}
  PROVE  /\ TypeOK' /\ DirectoryInv' /\ AllClean' = AllClean /\ Refused' = Refused
         /\ UNCHANGED <<layout, dpc, frontier, found, candidates, issues, ignored, results>>
<1>1. UNCHANGED <<target, now, mode, sources, config, reportOut,
                  layout, dpc, frontier, found, candidates, issues, ignored, results>>
  BY DEF Framed, dirVars
<1>2. Statuses' = Statuses
  BY <1>1 DEF Statuses
<1>3. TypeOK'
  BY <1>1, <1>2 DEF IInv, TypeOK, IsDocument
<1>4. DirectoryInv'
  BY DirectoryStutterInv DEF IInv, Framed
<1>5. QED
  BY <1>1, <1>2, <1>3, <1>4 DEF AllClean, Refused

(* What is known of the documents while they are written.                  *)
LEMMA EmittingFacts ==
  ASSUME IInv, Emitting
  PROVE  /\ WholeDocument(document) /\ IsDocument(document)
         /\ document \notin {NoFile, TornFile}
         /\ \A k \in DOMAIN stdout : IsDocument(stdout[k])
         /\ ExitOf(document) \in 0 .. 8
         /\ ExitOf(document) = 0 =>
              /\ error = "none" /\ document.error = "none"
              /\ document.status = "clean_by_known_checks"
              /\ target = "directory" => AllClean
<1>1. WholeDocument(document) /\ document.error = error
  BY DEF IInv, EmitInv
<1>2. IsDocument(document) /\ document \notin {NoFile, TornFile}
  BY <1>1 DEF WholeDocument, IsDocument, NoFile, TornFile
<1>3. QED
  BY <1>1, <1>2, ExitOfFacts DEF IInv, TypeOK, DocInv

LEMMA WriteStdoutInv ==
  ASSUME IInv, WriteStdout
  PROVE  IInv'
<1>1. /\ cpc = "stdout" /\ Emitting /\ Framed
      /\ UNCHANGED <<document, error, out, reportOut>>
      /\ stdout' = Append(stdout, Compact(document))
      /\ IF reportOut THEN cpc' = "write" /\ exit' = exit
         ELSE cpc' = "ended" /\ exit' = ExitOf(document)
  BY DEF WriteStdout, Emitting, Framed
<1>2. /\ exit = NoExit /\ NothingWritten /\ (error = "none" => stdout = << >>)
      /\ error \in Codes \cup {"none"} /\ document.error = error
      /\ out \in {NoFile, TornFile} /\ (out = TornFile => reportOut)
  <2>1. /\ exit = NoExit /\ NothingWritten /\ (error = "none" => stdout = << >>)
        /\ error \in Codes \cup {"none"} /\ document.error = error
    BY <1>1 DEF IInv, EmitInv, TypeOK
  <2>2. out \in {NoFile, TornFile} /\ (out = TornFile => reportOut)
    BY <2>1 DEF NothingWritten, NoFile, TornFile
  <2>3. QED
    BY <2>1, <2>2
<1>3. PICK S : stdout \in Seq(S)
  BY DEF IInv, EmitInv
<1>4. PICK short : short = Compact(document)
  OBVIOUS
<1>5. /\ IsDocument(short) /\ short.status = document.status /\ short.error = document.error
      /\ ExitOf(short) = ExitOf(document)
  BY <1>1, <1>4, EmittingFacts, CompactFacts DEF ExitOf
<1>6. /\ stdout' \in Seq(S \cup {short}) /\ Len(stdout') = Len(stdout) + 1
      /\ Len(stdout) \in Nat /\ stdout' # << >> /\ stdout'[Len(stdout')] = short
      /\ \A k \in 1 .. Len(stdout) : stdout'[k] = stdout[k]
      /\ DOMAIN stdout' = 1 .. Len(stdout) + 1 /\ DOMAIN stdout = 1 .. Len(stdout)
  BY <1>1, <1>3, <1>4
<1>7. Last(stdout') = short
  BY <1>6 DEF Last
<1>8. \A k \in DOMAIN stdout' : IsDocument(stdout'[k])
  <2> SUFFICES ASSUME NEW k \in DOMAIN stdout' PROVE IsDocument(stdout'[k])
    OBVIOUS
  <2>1. k \in 1 .. Len(stdout) \/ k = Len(stdout')
    BY <1>6
  <2>2. CASE k \in 1 .. Len(stdout)
    BY <1>1, <1>6, <2>2, EmittingFacts
  <2>3. CASE k = Len(stdout')
    BY <1>5, <1>6, <2>3
  <2>4. QED
    BY <2>1, <2>2, <2>3
<1>9. exit' \in (0 .. 8) \cup {NoExit}
  BY <1>1, <1>2, EmittingFacts
<1>10. TypeOK' /\ DirectoryInv' /\ AllClean' = AllClean /\ Refused' = Refused
       /\ UNCHANGED <<layout, dpc, frontier, found, candidates, issues, ignored, results>>
  BY <1>1, <1>2, <1>8, <1>9, EmittingFacts, FramedFacts
<1>11. error = "none" => Len(stdout') = 1
  BY <1>2, <1>6
<1>12. EmitInv'
  <2>1. WholeDocument(document)'
    BY <1>1, EmittingFacts DEF WholeDocument, IsDocument, IsReport
  <2>2. cpc' \in {"write", "ended"} /\ (cpc' = "write" <=> reportOut) /\ cpc' \notin Steps
    BY <1>1 DEF Steps
  <2>3. NothingWritten'
    BY <1>1, <1>2, <1>6 DEF NothingWritten
  <2>4. QED
    BY <1>1, <1>2, <1>5, <1>6, <1>7, <1>11, <2>1, <2>2, <2>3 DEF EmitInv, Emitting
<1>13. DocInv'
  BY <1>1, <1>10 DEF IInv, DocInv, Emitting, Framed
<1>14. RefuseInv'
  <2> SUFFICES ASSUME Refused
               PROVE  /\ dpc' = "idle" /\ error' = "input_error"
                      /\ stdout'[1].error = "input_error"
    BY <1>1, <1>10 DEF RefuseInv, Steps
  <2>1. /\ dpc = "idle" /\ error = "input_error" /\ document.error = "input_error"
        /\ stdout # << >> => stdout[1].error = "input_error"
    BY <1>1, <1>2 DEF IInv, RefuseInv
  <2>2. ASSUME stdout = << >> PROVE stdout'[1].error = "input_error"
    <3>1. Len(stdout') = 1
      BY <1>6, <2>2
    <3>2. stdout'[1] = short
      BY <1>6, <3>1
    <3>3. QED
      BY <1>5, <2>1, <3>2
  <2>3. ASSUME stdout # << >> PROVE stdout'[1].error = "input_error"
    <3>1. 1 \in 1 .. Len(stdout)
      BY <1>3, <2>3
    <3>2. stdout'[1] = stdout[1]
      BY <1>6, <3>1
    <3>3. QED
      BY <2>1, <2>3, <3>2
  <2>4. stdout'[1].error = "input_error"
    BY <2>2, <2>3
  <2>5. QED
    BY <1>1, <1>10, <2>1, <2>4
<1>15. EndInv'
  <2>1. CASE reportOut
    BY <1>1, <1>2, <2>1 DEF EndInv, ExitTellsStatus, ExitZeroIsClean, Ended, NoExit
  <2>2. CASE ~reportOut
    <3>1. cpc' = "ended" /\ exit' = ExitOf(document) /\ out' = NoFile /\ ~reportOut'
      BY <1>1, <1>2, <2>2
    <3>2. ExitTellsStatus'
      BY <1>5, <1>6, <1>7, <3>1 DEF ExitTellsStatus, ExitOf
    <3>3. ExitZeroIsClean'
      <4> SUFFICES ASSUME ExitOf(document) = 0
                   PROVE  /\ Len(stdout') = 1
                          /\ stdout'[1].status = "clean_by_known_checks"
                          /\ stdout'[1].error = "none"
                          /\ target' = "directory" => AllClean'
        BY <3>1 DEF ExitZeroIsClean, AllClean
      <4>1. /\ error = "none" /\ document.error = "none"
            /\ document.status = "clean_by_known_checks"
            /\ target = "directory" => AllClean
        BY <1>1, EmittingFacts
      <4>2. QED
        BY <1>1, <1>5, <1>6, <1>10, <1>11, <4>1 DEF Framed
    <3>4. QED
      BY <3>2, <3>3 DEF EndInv
  <2>3. QED
    BY <2>1, <2>2
<1>16. QED
  BY <1>10, <1>12, <1>13, <1>14, <1>15 DEF IInv

LEMMA WriteReportOutInv ==
  ASSUME IInv, WriteReportOut
  PROVE  IInv'
<1>1. /\ cpc = "write" /\ Emitting /\ Framed
      /\ UNCHANGED <<document, error, stdout, reportOut>>
      /\ cpc' = "ended" /\ out' = document /\ exit' = ExitOf(document)
  BY DEF WriteReportOut, Emitting, Framed
<1>2. /\ reportOut /\ error \in Codes \cup {"none"} /\ stdout # << >>
      /\ Last(stdout).status = document.status /\ Last(stdout).error = document.error
      /\ error = "none" => Len(stdout) = 1
      /\ \E S : stdout \in Seq(S)
  BY <1>1 DEF IInv, EmitInv, TypeOK
<1>3. TypeOK' /\ DirectoryInv' /\ AllClean' = AllClean /\ Refused' = Refused
      /\ UNCHANGED <<layout, dpc, frontier, found, candidates, issues, ignored, results>>
  BY <1>1, <1>2, EmittingFacts, FramedFacts DEF IsDocument
<1>4. EmitInv'
  <2>1. WholeDocument(document)'
    BY <1>1, EmittingFacts DEF WholeDocument, IsDocument, IsReport
  <2>2. QED
    BY <1>1, <1>2, <2>1 DEF IInv, EmitInv, Emitting, Steps
<1>5. DocInv' /\ RefuseInv'
  BY <1>1, <1>3 DEF IInv, DocInv, RefuseInv, Emitting, Framed, Steps
<1>6. EndInv'
  <2>1. ExitTellsStatus'
    <3>1. ExitOf(Last(stdout)) = ExitOf(document) /\ document \notin {NoFile, TornFile}
      BY <1>1, <1>2, EmittingFacts DEF ExitOf
    <3>2. QED
      BY <1>1, <1>2, <3>1 DEF ExitTellsStatus, ExitOf, Complete
  <2>2. ExitZeroIsClean'
    <3> SUFFICES ASSUME ExitOf(document) = 0
                 PROVE  /\ Len(stdout) = 1
                        /\ stdout[1].status = "clean_by_known_checks"
                        /\ stdout[1].error = "none"
                        /\ target = "directory" => AllClean'
      BY <1>1 DEF ExitZeroIsClean, AllClean, Framed
    <3>1. /\ error = "none" /\ document.error = "none"
          /\ document.status = "clean_by_known_checks"
          /\ target = "directory" => AllClean
      BY <1>1, EmittingFacts
    <3>2. Last(stdout) = stdout[1]
      BY <1>2, <3>1 DEF Last
    <3>3. QED
      BY <1>2, <1>3, <3>1, <3>2
  <2>3. QED
    BY <2>1, <2>2 DEF EndInv
<1>7. QED
  BY <1>3, <1>4, <1>5, <1>6 DEF IInv

LEMMA WriteFailsInv ==
  ASSUME IInv, WriteFails
  PROVE  IInv'
<1>1. /\ cpc = "write" /\ Emitting /\ Framed /\ UNCHANGED <<document, stdout, reportOut>>
      /\ out' \in {out, TornFile}
      /\ \/ error # "none" /\ cpc' = "ended" /\ exit' = 1 /\ UNCHANGED error
         \/ error = "none" /\ RaiseError("internal_error") /\ UNCHANGED exit
  BY DEF WriteFails, Emitting, Framed
<1>2. /\ reportOut /\ error \in Codes \cup {"none"} /\ stdout # << >>
      /\ Last(stdout).error = document.error /\ document.error = error
      /\ \E S : stdout \in Seq(S)
      /\ exit = NoExit /\ out \in {NoFile, TornFile}
  BY <1>1 DEF IInv, EmitInv, TypeOK, NothingWritten
<1>3. out' \in {NoFile, TornFile} /\ NothingWritten'
  BY <1>1, <1>2 DEF NothingWritten
<1>4. WholeDocument(document)'
  BY <1>1, EmittingFacts DEF WholeDocument, IsDocument, IsReport
<1>5. /\ cpc' \in {"handler", "ended"} /\ error' \in Codes
      /\ exit' \in (0 .. 8) \cup {NoExit}
  BY <1>1, <1>2 DEF RaiseError, Codes
<1>6. TypeOK' /\ DirectoryInv' /\ AllClean' = AllClean /\ Refused' = Refused
      /\ UNCHANGED <<layout, dpc, frontier, found, candidates, issues, ignored, results>>
  <2>1. IsDocument(document') /\ \A k \in DOMAIN stdout' : IsDocument(stdout'[k])
    BY <1>1, EmittingFacts DEF IsDocument
  <2>2. QED
    BY <1>1, <1>3, <1>5, <2>1, FramedFacts
<1>7. error' # "none" /\ ~Emitting' /\ cpc' \notin Steps
  BY <1>5 DEF Codes, Emitting, Steps
<1>8. EmitInv'
  <2>1. cpc' # "ended" => exit' = NoExit
    BY <1>1, <1>2 DEF RaiseError
  <2>2. QED
    BY <1>1, <1>2, <1>3, <1>4, <1>7, <2>1 DEF EmitInv, Emitting
<1>9. DocInv'
  BY <1>1, <1>5, <1>7 DEF DocInv
<1>10. RefuseInv'
  <2> SUFFICES ASSUME Refused
               PROVE  dpc' = "idle" /\ error' = "input_error" /\ stdout'[1].error = "input_error"
    BY <1>6, <1>7 DEF RefuseInv
  <2>1. dpc = "idle" /\ error = "input_error" /\ stdout[1].error = "input_error"
    BY <1>1, <1>2 DEF IInv, RefuseInv
  <2>2. QED
    BY <1>1, <1>6, <2>1
<1>11. EndInv'
  <2>1. CASE error # "none"
    BY <1>1, <1>2, <1>3, <2>1 DEF EndInv, ExitTellsStatus, ExitZeroIsClean, Complete
  <2>2. CASE error = "none"
    BY <1>1, <1>2, <2>2
    DEF EndInv, ExitTellsStatus, ExitZeroIsClean, Ended, NoExit, RaiseError
  <2>3. QED
    BY <2>1, <2>2
<1>12. QED
  BY <1>6, <1>8, <1>9, <1>10, <1>11 DEF IInv

(* The exception is turned into a document, or out of the program.         *)
LEMMA HandleErrorInv ==
  ASSUME IInv, HandleError
  PROVE  IInv'
<1>1. /\ cpc = "handler" /\ Framed /\ UNCHANGED <<error, stdout, out, reportOut>>
      /\ \/ now = "hidden" /\ cpc' = "ended" /\ exit' = 1 /\ UNCHANGED document
         \/ EmitNext(ErrorDocument(error)) /\ UNCHANGED exit
  BY DEF HandleError, Framed
<1>2. /\ error \in Codes /\ exit = NoExit /\ NothingWritten
      /\ stdout # << >> => reportOut
      /\ out \in {NoFile, TornFile}
      /\ WholeDocument(document)
      /\ \E S : stdout \in Seq(S)
      /\ \A k \in DOMAIN stdout : IsDocument(stdout[k])
  BY <1>1 DEF IInv, EmitInv, TypeOK, NothingWritten
<1>3. PICK doc : doc = ErrorDocument(error)
  OBVIOUS
<1>4. WholeDocument(doc) /\ doc.error = error
  BY <1>2, <1>3, ErrorDocumentFacts
<1>5. document' \in {document, doc}
  BY <1>1, <1>3 DEF EmitNext
<1>6. WholeDocument(document)'
  BY <1>2, <1>4, <1>5 DEF WholeDocument, IsDocument, IsReport
<1>7. TypeOK' /\ DirectoryInv' /\ AllClean' = AllClean /\ Refused' = Refused
      /\ UNCHANGED <<layout, dpc, frontier, found, candidates, issues, ignored, results>>
  <2>1. IsDocument(document')
    BY <1>2, <1>4, <1>5 DEF WholeDocument
  <2>2. /\ cpc' \in {"handler", "stdout", "write", "ended"}
        /\ exit' \in (0 .. 8) \cup {NoExit}
    BY <1>1, <1>2 DEF EmitNext
  <2>3. QED
    BY <1>1, <1>2, <2>1, <2>2, FramedFacts
<1>8. /\ error' # "none" /\ cpc' \in {"stdout", "ended"} /\ cpc' \notin Steps
      /\ cpc' = "stdout" => document' = doc /\ exit' = NoExit
  BY <1>1, <1>2, <1>3 DEF EmitNext, Codes, Steps
<1>9. EmitInv'
  <2>1. NothingWritten'
    BY <1>1, <1>2 DEF NothingWritten
  <2>2. QED
    BY <1>1, <1>2, <1>4, <1>6, <1>8, <2>1 DEF EmitInv, Emitting
<1>10. DocInv'
  <2>1. Emitting' => document'.error # "none"
    BY <1>1, <1>4, <1>8 DEF Emitting
  <2>2. QED
    BY <1>8, <2>1 DEF DocInv
<1>11. RefuseInv'
  <2> SUFFICES ASSUME Refused
               PROVE  /\ dpc' = "idle" /\ error' = "input_error"
                      /\ stdout' # << >> => stdout'[1].error = "input_error"
    BY <1>7, <1>8 DEF RefuseInv
  <2>1. QED
    BY <1>1, <1>7 DEF IInv, RefuseInv
<1>12. EndInv'
  <2>1. CASE now = "hidden" /\ cpc' = "ended" /\ exit' = 1
    BY <1>1, <1>2, <2>1 DEF EndInv, ExitTellsStatus, ExitZeroIsClean, Complete, NothingWritten, Framed
  <2>2. CASE EmitNext(ErrorDocument(error)) /\ UNCHANGED exit
    BY <1>2, <2>2 DEF EndInv, ExitTellsStatus, ExitZeroIsClean, Ended, NoExit, EmitNext
  <2>3. QED
    BY <1>1, <2>1, <2>2
<1>13. QED
  BY <1>7, <1>9, <1>10, <1>11, <1>12 DEF IInv

-----------------------------------------------------------------------------
(* Everything else that happens, and the theorems.                         *)

(* What the path leads to matters to the steps that look at it only.       *)
LEMMA ElsewhereInv ==
  ASSUME IInv, PathChanges \/ UNCHANGED vars
  PROVE  IInv'
<1>1. /\ UNCHANGED <<target, mode, sources, merged, config, reportOut, cpc, document, error,
                     stdout, out, exit>>
      /\ cpc = "ended" => now' = now
      /\ UNCHANGED <<layout, dpc, frontier, found, candidates, issues, ignored, results>>
      /\ now' = now \/ now' \in Natures
  BY DEF PathChanges, vars, cmdVars, dirVars
<1>2. Statuses' = Statuses
  BY <1>1 DEF Statuses
<1>3. TypeOK'
  BY <1>1, <1>2 DEF IInv, TypeOK, IsDocument
<1>4. DirectoryInv' /\ DocInv' /\ RefuseInv'
  <2>1. DirectoryInv'
    BY <1>1, DirectoryStutterInv DEF IInv, dirVars
  <2>2. QED
    BY <1>1, <1>2, <2>1 DEF IInv, DocInv, RefuseInv, AllClean, Refused, Emitting
<1>5. EmitInv'
  <2>1. WholeDocument(document)'
    BY <1>1 DEF IInv, EmitInv, WholeDocument, IsDocument, IsReport
  <2>2. QED
    BY <1>1, <2>1 DEF IInv, EmitInv, Emitting, NothingWritten
<1>6. EndInv'
  BY <1>1, <1>2 DEF IInv, EndInv, ExitTellsStatus, ExitZeroIsClean, Ended, ExitOf, Complete
<1>7. QED
  BY <1>3, <1>4, <1>5, <1>6 DEF IInv

LEMMA NextInv == IInv /\ [Next]_vars => IInv'
<1> SUFFICES ASSUME IInv, [Next]_vars PROVE IInv'
  OBVIOUS
<1>1. CASE Command
  BY <1>1, LoadingInv, ScanFileInv, StepDirectoryInv, EndDirectoryInv, WriteStdoutInv,
     WriteReportOutInv, WriteFailsInv, HandleErrorInv DEF Command
<1>2. CASE PathChanges \/ UNCHANGED vars
  BY <1>2, ElsewhereInv
<1>3. QED
  BY <1>1, <1>2 DEF Next

(* The inductive invariant holds, whatever the tree, the sources of the    *)
(* configuration and the reports on the files are, and wherever an         *)
(* exception is raised.                                                    *)
THEOREM Invariance == Spec => []IInv
BY InitInv, NextInv, PTL DEF Spec

(* Every variable of the command and of the walk keeps its type.           *)
THEOREM TypeCorrect == Spec => []TypeOK
<1>1. IInv => TypeOK
  BY DEF IInv
<1>2. QED
  BY <1>1, Invariance, PTL

(* The exit code tells the status or the error of the last document, and   *)
(* the report file, if one is asked for, holds that document; or else it is*)
(* 1, when the report file could not be written for the error document, or *)
(* the handler could not look at the path, and then nothing may be printed.*)
THEOREM ExitCodeTellsStatus == Spec => []ExitTellsStatus
<1>1. IInv => ExitTellsStatus
  BY DEF IInv, EndInv
<1>2. QED
  BY <1>1, Invariance, PTL

(* Exit code 0 comes after one document only, which says clean; and the    *)
(* files of a directory were all scanned, and clean.                       *)
THEOREM ExitZeroMeansClean == Spec => []ExitZeroIsClean
<1>1. IInv => ExitZeroIsClean
  BY DEF IInv, EndInv
<1>2. QED
  BY <1>1, Invariance, PTL

(* A directory with a move or a dry run is refused and is not scanned; the *)
(* refusal is an error document, or exit code 1 when the path can no longer*)
(* be looked at.                                                           *)
THEOREM QuarantineOfDirectoriesIsRefused == Spec => []DirectoryQuarantineRefused
<1>1. IInv => DirectoryQuarantineRefused
  <2> SUFFICES ASSUME IInv, Ended, Refused
               PROVE  /\ dpc = "idle"
                      /\ stdout = << >> => now = "hidden" /\ exit = 1
                      /\ stdout # << >> => stdout[1].error = "input_error"
    BY DEF DirectoryQuarantineRefused, Refused
  <2>1. QED
    BY DEF IInv, RefuseInv, EndInv, ExitTellsStatus
<1>2. QED
  BY <1>1, Invariance, PTL

(* What the command does with a directory is the scan of a directory, and  *)
(* nothing else that it does touches that scan.                            *)
THEOREM ScansDirectories == Spec => DirectorySpec
<1>1. Init => DirectoryInit
  BY DEF Init
<1>2. [Next]_vars => [DirectoryNext]_dirVars
  <2> SUFFICES ASSUME [Next]_vars PROVE DirectoryNext \/ UNCHANGED dirVars
    OBVIOUS
  <2>1. CASE StepDirectory
    BY <2>1 DEF StepDirectory
  <2>2. CASE \/ Dispatch \/ ReadConfigFile \/ ReadLocalFile \/ ReadEnvOverrides \/ ApplyOptions
             \/ CheckConfig
    BY <2>2 DEF Dispatch, ReadConfigFile, ReadLocalFile, ReadEnvOverrides, ApplyOptions,
                CheckConfig, LoadNext
  <2>3. CASE \/ \E report \in EntryReports : ScanFile(report)
             \/ ScanFileRaises \/ EndDirectory
    BY <2>3 DEF ScanFile, ScanFileRaises, EndDirectory
  <2>4. CASE \/ WriteStdout \/ WriteReportOut \/ WriteFails \/ HandleError
             \/ PathChanges \/ UNCHANGED vars
    BY <2>4 DEF WriteStdout, WriteReportOut, WriteFails, HandleError, PathChanges, vars
  <2>5. QED
    BY <2>1, <2>2, <2>3, <2>4 DEF Next, Command
<1>3. QED
  BY <1>1, <1>2, PTL DEF Spec, DirectorySpec

(* The report that the command emits of a directory has one result for     *)
(* each file that is to be scanned, and its counts add up.                 *)
THEOREM DirectoryReportsAreComplete == Spec => []DirectoryReportIsComplete
BY ScansDirectories, ReportsAreComplete, PTL

-----------------------------------------------------------------------------
(* The command ends.                                                       *)

LEMMA PhasesListed ==
  /\ PhasesLeft["dispatch"] = 12 /\ PhasesLeft["config"] = 11 /\ PhasesLeft["local"] = 10
  /\ PhasesLeft["env"] = 9 /\ PhasesLeft["options"] = 8 /\ PhasesLeft["check"] = 7
  /\ PhasesLeft["file"] = 6 /\ PhasesLeft["directory"] = 6
BY DEF PhasesLeft

(* What is left before a document is emitted, and after that.              *)
LEMMA StepsLeftCases ==
  /\ cpc \in Steps => StepsLeft = PhasesLeft[cpc] + DirectoryStepsLeft
  /\ cpc = "handler" => StepsLeft = 3
  /\ cpc = "stdout" => StepsLeft = IF error = "none" THEN 5 ELSE 2
  /\ cpc = "write" => StepsLeft = IF error = "none" THEN 4 ELSE 1
  /\ cpc = "ended" => StepsLeft = 0
BY DEF StepsLeft, Steps

LEMMA NextStepsLeft ==
  /\ cpc' \in Steps => StepsLeft' = PhasesLeft[cpc'] + DirectoryStepsLeft'
  /\ cpc' = "handler" => StepsLeft' = 3
  /\ cpc' = "stdout" => StepsLeft' = IF error' = "none" THEN 5 ELSE 2
  /\ cpc' = "write" => StepsLeft' = IF error' = "none" THEN 4 ELSE 1
  /\ cpc' = "ended" => StepsLeft' = 0
BY DEF StepsLeft, Steps

LEMMA BoundKept ==
  ASSUME UNCHANGED dirVars
  PROVE  DirectoryStepsLeft' = DirectoryStepsLeft
<1>1. UNCHANGED <<layout, dpc, frontier, found, candidates, issues, ignored, results>>
  BY DEF dirVars
<1>2. Ahead' = Ahead
  BY <1>1 DEF Ahead, Chain
<1>3. QED
  BY <1>1, <1>2 DEF DirectoryStepsLeft

LEMMA StepsLeftIsNatural == IInv => StepsLeft \in Nat
<1> SUFFICES ASSUME IInv PROVE StepsLeft \in Nat
  OBVIOUS
<1>1. DirectoryStepsLeft \in Nat
  BY BoundIsNatural DEF IInv
<1>2. cpc \in Steps \cup {"handler", "stdout", "write", "ended"}
  BY DEF IInv, TypeOK, Steps
<1>3. cpc \in Steps => PhasesLeft[cpc] \in Nat
  BY PhasesListed DEF Steps
<1>4. QED
  BY <1>1, <1>2, <1>3, StepsLeftCases

(* What is raised, or emitted, leaves only what comes after the scan.      *)
LEMMA EmitLeavesLess ==
  ASSUME IInv, cpc \in Steps, cpc' \in {"handler", "stdout"}
  PROVE  StepsLeft' < StepsLeft
<1>1. StepsLeft' \in {2, 3, 5}
  BY NextStepsLeft
<1>2. DirectoryStepsLeft \in Nat
  BY BoundIsNatural DEF IInv
<1>3. PhasesLeft[cpc] \in Nat /\ PhasesLeft[cpc] >= 6
  BY PhasesListed DEF Steps
<1>4. QED
  BY <1>1, <1>2, <1>3, StepsLeftCases

LEMMA GoOnLeavesLess ==
  ASSUME IInv, cpc \in Steps, cpc' \in Steps, UNCHANGED dirVars,
         PhasesLeft[cpc'] < PhasesLeft[cpc]
  PROVE  StepsLeft' < StepsLeft
<1>1. DirectoryStepsLeft \in Nat /\ DirectoryStepsLeft' = DirectoryStepsLeft
  BY BoundIsNatural, BoundKept DEF IInv
<1>2. PhasesLeft[cpc] \in Nat /\ PhasesLeft[cpc'] \in Nat
  BY PhasesListed DEF Steps
<1>3. QED
  BY <1>1, <1>2, StepsLeftCases, NextStepsLeft

LEMMA LoadLeavesLess ==
  ASSUME IInv, cpc \in Steps, NEW problem, NEW newData, NEW next \in Steps,
         LoadNext(problem, newData, next), PhasesLeft[next] < PhasesLeft[cpc]
  PROVE  StepsLeft' < StepsLeft
<1>1. CASE problem # "none"
  BY <1>1, EmitLeavesLess DEF LoadNext, RaiseError
<1>2. CASE problem = "none"
  BY <1>2, GoOnLeavesLess DEF LoadNext
<1>3. QED
  BY <1>1, <1>2

LEMMA CommandLeavesLess ==
  ASSUME IInv, Command
  PROVE  StepsLeft' < StepsLeft /\ now' = now
<1>1. CASE Dispatch
  <2>1. cpc \in Steps /\ now' = now
    BY <1>1 DEF Dispatch, Steps, UnchangedByCommand
  <2>2. CASE cpc' = "handler"
    BY <2>1, <2>2, EmitLeavesLess
  <2>3. CASE cpc' # "handler"
    <3>1. cpc = "dispatch" /\ cpc' = "config" /\ UNCHANGED dirVars
      BY <1>1, <2>3 DEF Dispatch, RaiseError
    <3>2. QED
      BY <2>1, <3>1, GoOnLeavesLess, PhasesListed DEF Steps
  <2>4. QED
    BY <2>2, <2>3
<1>2. CASE ReadConfigFile \/ ReadLocalFile \/ ReadEnvOverrides \/ ApplyOptions
  <2>1. PICK problem, newData, next :
          /\ <<cpc, next>> \in {<<"config", "local">>, <<"local", "env">>, <<"env", "options">>,
                                <<"options", "check">>}
          /\ LoadNext(problem, newData, next)
    BY <1>2 DEF ReadConfigFile, ReadLocalFile, ReadEnvOverrides, ApplyOptions
  <2>2. /\ cpc \in Steps /\ next \in Steps
        /\ PhasesLeft[next] < PhasesLeft[cpc]
    BY <2>1, PhasesListed DEF Steps
  <2>3. now' = now
    BY <2>1 DEF LoadNext, UnchangedByCommand
  <2>4. QED
    BY <2>1, <2>2, <2>3, LoadLeavesLess
<1>3. CASE CheckConfig
  <2>1. cpc = "check" /\ now' = now /\ UNCHANGED dirVars
    BY <1>3 DEF CheckConfig, UnchangedByCommand
  <2>2. CASE DataProblem(merged) # "none"
    BY <1>3, <2>1, <2>2, EmitLeavesLess DEF CheckConfig, RaiseError, Steps
  <2>3. CASE DataProblem(merged) = "none"
    <3>1. cpc' \in {"directory", "file"}
      BY <1>3, <2>3 DEF CheckConfig
    <3>2. QED
      BY <2>1, <3>1, GoOnLeavesLess, PhasesListed DEF Steps
  <2>4. QED
    BY <2>2, <2>3
<1>4. CASE ScanFileRaises \/ EndDirectory \/ \E report \in EntryReports : ScanFile(report)
  <2>1. cpc \in Steps /\ now' = now /\ cpc' \in {"handler", "stdout"}
    BY <1>4 DEF ScanFile, ScanFileRaises, EndDirectory, RaiseError, EmitNext, Steps,
                UnchangedByCommand
  <2>2. QED
    BY <2>1, EmitLeavesLess
<1>5. CASE StepDirectory
  <2>1. /\ cpc = "directory" /\ cpc' = "directory" /\ now' = now
        /\ DirectoryNext /\ DirectoryInv
    BY <1>5 DEF StepDirectory, cmdVars, IInv
  <2>2. DirectoryStepsLeft' < DirectoryStepsLeft
    BY <2>1, ScanLeavesLess
  <2>3. DirectoryStepsLeft \in Nat /\ DirectoryStepsLeft' \in Nat
    <3>1. DirectoryInv' => (DirectoryStepsLeft \in Nat)'
      BY BoundIsNatural, PTL
    <3>2. QED
      BY <2>1, <3>1, BoundIsNatural, DirectoryNextInv
  <2>4. StepsLeft = 6 + DirectoryStepsLeft /\ StepsLeft' = 6 + DirectoryStepsLeft'
    BY <2>1, StepsLeftCases, NextStepsLeft, PhasesListed DEF Steps
  <2>5. StepsLeft' < StepsLeft
    <3>1. PICK n \in Nat, m \in Nat : n = DirectoryStepsLeft' /\ m = DirectoryStepsLeft
      BY <2>3
    <3>2. n < m /\ StepsLeft' = 6 + n /\ StepsLeft = 6 + m
      BY <2>2, <2>4, <3>1
    <3>3. QED
      BY ONLY <3>2, n \in Nat, m \in Nat
  <2>6. QED
    BY <2>1, <2>5
<1>6. CASE WriteStdout \/ WriteReportOut \/ WriteFails \/ HandleError
  <2>1. /\ now' = now
        /\ \/ cpc = "stdout" /\ cpc' \in {"write", "ended"} /\ error' = error
           \/ cpc = "write" /\ cpc' = "ended"
           \/ cpc = "write" /\ error = "none" /\ cpc' = "handler"
           \/ cpc = "handler" /\ error # "none" /\ error' = error /\ cpc' \in {"stdout", "ended"}
    BY <1>6 DEF WriteStdout, WriteReportOut, WriteFails, HandleError, RaiseError, EmitNext,
                IInv, EmitInv
  <2>2. QED
    BY <2>1, StepsLeftCases, NextStepsLeft
<1>7. QED
  BY <1>1, <1>2, <1>3, <1>4, <1>5, <1>6 DEF Command

(* What is left to do gets less with every step of the command, and stays  *)
(* what it is when others change the path; so that no tree, no error and   *)
(* no error about an error keeps the command going for ever.               *)
THEOREM CommandRunsOut == Spec => [](StepsLeft \in Nat) /\ CommandStepsRunOut
<1>1. IInv /\ [Next]_vars =>
        [IF now' = now THEN StepsLeft' < StepsLeft ELSE StepsLeft' = StepsLeft]_vars
  <2> SUFFICES ASSUME IInv, Next
               PROVE  IF now' = now THEN StepsLeft' < StepsLeft ELSE StepsLeft' = StepsLeft
    OBVIOUS
  <2>1. CASE Command
    BY <2>1, CommandLeavesLess
  <2>2. CASE PathChanges
    <3>1. now' # now /\ UNCHANGED <<cpc, error, dirVars>>
      BY <2>2 DEF PathChanges
    <3>2. DirectoryStepsLeft' = DirectoryStepsLeft
      BY <3>1, BoundKept
    <3>3. StepsLeft' = StepsLeft
      BY <3>1, <3>2 DEF StepsLeft
    <3>4. QED
      BY <3>1, <3>3
  <2>3. QED
    BY <2>1, <2>2 DEF Next
<1>2. QED
  BY <1>1, Invariance, StepsLeftIsNatural, PTL DEF Spec, CommandStepsRunOut

-----------------------------------------------------------------------------
(* The configuration.                                                      *)

(* What has been read after each step of loading.                          *)
ConfigInv ==
  /\ cpc = "local" => merged = sources.file.data
  /\ cpc = "env" => merged = FileLayers(sources)
  /\ cpc = "options" => merged = EnvLayers(sources)
  /\ cpc = "check" => merged = AllLayers(sources)
  /\ config # NotLoaded => /\ ~Rejected(AllLayers(sources))
                           /\ config = Configured(AllLayers(sources))

Loading == {"local", "env", "options", "check"}

LEMMA ConfigInitInv == Init => ConfigInv
BY DEF Init, ConfigInv

(* A step that leaves alone what is read, or ends the reading.             *)
LEMMA ConfigKept ==
  ASSUME ConfigInv, UNCHANGED <<sources, config>>,
         cpc' \notin Loading \/ UNCHANGED <<cpc, merged>>
  PROVE  ConfigInv'
BY DEF ConfigInv, Loading

LEMMA LoadNextConfig ==
  ASSUME NEW problem, NEW newData, NEW next, LoadNext(problem, newData, next)
  PROVE  /\ UNCHANGED <<sources, config>>
         /\ cpc' = "handler" \/ (cpc' = next /\ merged' = newData)
BY DEF LoadNext, RaiseError, UnchangedByCommand

LEMMA LoadingConfig ==
  ASSUME ConfigInv, \/ Dispatch \/ ReadConfigFile \/ ReadLocalFile
                    \/ ReadEnvOverrides \/ ApplyOptions \/ CheckConfig
  PROVE  ConfigInv'
<1>1. CASE Dispatch
  BY <1>1, ConfigKept DEF Dispatch, RaiseError, UnchangedByCommand, Loading
<1>2. CASE ReadConfigFile
  <2>1. /\ UNCHANGED <<sources, config>>
        /\ cpc' = "handler" \/ (cpc' = "local" /\ merged' = sources.file.data)
    BY <1>2, LoadNextConfig DEF ReadConfigFile
  <2>2. QED
    BY <2>1 DEF ConfigInv
<1>3. CASE ReadLocalFile
  <2>1. /\ UNCHANGED <<sources, config>> /\ cpc = "local"
        /\ \/ cpc' = "handler"
           \/ /\ cpc' = "env"
              /\ merged' = IF UsesLocal(sources) THEN DeepMerge(merged, sources.local.data)
                           ELSE merged
    BY <1>3, LoadNextConfig DEF ReadLocalFile
  <2>2. QED
    BY <2>1 DEF ConfigInv, FileLayers
<1>4. CASE ReadEnvOverrides
  <2>1. /\ UNCHANGED <<sources, config>> /\ cpc = "env"
        /\ \/ cpc' = "handler"
           \/ cpc' = "options" /\ merged' = DeepMerge(merged, ReadEnv(sources.env))
    BY <1>4, LoadNextConfig DEF ReadEnvOverrides
  <2>2. QED
    BY <2>1 DEF ConfigInv, EnvLayers
<1>5. CASE ApplyOptions
  <2>1. /\ UNCHANGED <<sources, config>> /\ cpc = "options"
        /\ \/ cpc' = "handler"
           \/ cpc' = "check" /\ merged' = DeepMerge(merged, CliData(sources))
    BY <1>5, LoadNextConfig DEF ApplyOptions
  <2>2. QED
    BY <2>1 DEF ConfigInv, AllLayers
<1>6. CASE CheckConfig
  <2>1. cpc = "check" /\ merged = AllLayers(sources) /\ UNCHANGED sources
    BY <1>6 DEF CheckConfig, ConfigInv, UnchangedByCommand
  <2>2. CASE DataProblem(merged) # "none"
    BY <1>6, <2>1, <2>2, ConfigKept DEF CheckConfig, RaiseError, Loading
  <2>3. CASE DataProblem(merged) = "none"
    <3>1. ~Rejected(merged)
      BY <2>3 DEF DataProblem
    <3>2. config' = Configured(merged) /\ cpc' \notin Loading
      BY <1>6, <2>3 DEF CheckConfig, Loading
    <3>3. QED
      BY <2>1, <3>1, <3>2 DEF ConfigInv, Loading
  <2>4. QED
    BY <2>2, <2>3
<1>7. QED
  BY <1>1, <1>2, <1>3, <1>4, <1>5, <1>6

LEMMA ConfigNextInv == ConfigInv /\ [Next]_vars => ConfigInv'
<1> SUFFICES ASSUME ConfigInv, [Next]_vars PROVE ConfigInv'
  OBVIOUS
<1>1. CASE \/ Dispatch \/ ReadConfigFile \/ ReadLocalFile \/ ReadEnvOverrides \/ ApplyOptions
           \/ CheckConfig
  BY <1>1, LoadingConfig
<1>2. CASE \/ \E report \in EntryReports : ScanFile(report)
           \/ ScanFileRaises \/ EndDirectory
  BY <1>2, ConfigKept
  DEF ScanFile, ScanFileRaises, EndDirectory, RaiseError, EmitNext, UnchangedByCommand, Loading
<1>3. CASE WriteStdout \/ WriteReportOut \/ WriteFails \/ HandleError
  BY <1>3, ConfigKept
  DEF WriteStdout, WriteReportOut, WriteFails, HandleError, RaiseError, EmitNext, Loading
<1>4. CASE StepDirectory \/ PathChanges \/ UNCHANGED vars
  BY <1>4, ConfigKept DEF StepDirectory, PathChanges, vars, cmdVars
<1>5. QED
  BY <1>1, <1>2, <1>3, <1>4 DEF Next, Command

(* Every setting a scan runs with is the one that the last of the sources  *)
(* that says anything of it asks for, whatever the sources hold.           *)
THEOREM SettingsAreAsTold == Spec => []ConfiguredAsTold
<1>1. TypeOK /\ ConfigInv => ConfiguredAsTold
  <2> SUFFICES ASSUME TypeOK, ConfigInv, config # NotLoaded, NEW p \in Settings
               PROVE  config[p] = Normalized(p, Told(sources, p))
    BY DEF ConfiguredAsTold
  <2>1. IsData(sources.local.data) /\ DOMAIN sources.env \subseteq DOMAIN EnvMap
    BY SourcesAssumption DEF TypeOK
  <2>2. ~Rejected(AllLayers(sources)) /\ config = Configured(AllLayers(sources))
    BY DEF ConfigInv
  <2>3. QED
    BY <2>1, <2>2, LayersAreTold
<1>2. QED
  BY <1>1, ConfigInitInv, ConfigNextInv, TypeCorrect, PTL DEF Spec

-----------------------------------------------------------------------------
(* What is picked of a sequence.                                           *)

(* The first steps of a recursive function that picks.                     *)
Picks(f, s, positions, m) ==
  f = [n \in 0 .. m |-> IF n = 0 THEN << >>
                        ELSE IF n \in positions THEN Append(f[n - 1], s[n])
                        ELSE f[n - 1]]

LEMMA PicksExist ==
  ASSUME NEW s, NEW positions
  PROVE  \A m \in Nat : \E f : Picks(f, s, positions, m)
<1> DEFINE S == {m \in Nat : \E f : Picks(f, s, positions, m)}
<1>1. 0 \in S
  <2>1. Picks([n \in 0 .. 0 |-> << >>], s, positions, 0)
    BY DEF Picks
  <2>2. QED
    BY <2>1
<1>2. ASSUME NEW m \in S
      PROVE  m + 1 \in S
  <2>1. PICK f : Picks(f, s, positions, m)
    OBVIOUS
  <2> DEFINE g == [n \in 0 .. m + 1 |->
                     IF n = m + 1 THEN IF n \in positions THEN Append(f[m], s[n]) ELSE f[m]
                     ELSE f[n]]
             h == [n \in 0 .. m + 1 |-> IF n = 0 THEN << >>
                                        ELSE IF n \in positions THEN Append(g[n - 1], s[n])
                                        ELSE g[n - 1]]
  <2>2. \A n \in 0 .. m : f[n] = IF n = 0 THEN << >>
                                 ELSE IF n \in positions THEN Append(f[n - 1], s[n])
                                 ELSE f[n - 1]
    BY <2>1 DEF Picks
  <2>3. \A n \in 0 .. m : g[n] = f[n]
    OBVIOUS
  <2>4. \A n \in 0 .. m + 1 : g[n] = h[n]
    <3> SUFFICES ASSUME NEW n \in 0 .. m + 1 PROVE g[n] = h[n]
      OBVIOUS
    <3>1. CASE n = m + 1
      <4>1. n # 0 /\ n - 1 = m /\ m \in 0 .. m
        BY <3>1
      <4>2. g[n - 1] = f[m]
        BY <2>3, <4>1
      <4>3. h[n] = IF n \in positions THEN Append(f[m], s[n]) ELSE f[m]
        BY <4>1, <4>2
      <4>4. QED
        BY <3>1, <4>3
    <3>2. CASE n # m + 1
      <4>1. n \in 0 .. m /\ (n # 0 => n - 1 \in 0 .. m)
        BY <3>2
      <4>2. g[n] = f[n] /\ (n # 0 => g[n - 1] = f[n - 1])
        BY <2>3, <4>1
      <4> HIDE DEF g
      <4>3. QED
        BY <2>2, <4>1, <4>2
    <3>3. QED
      BY <3>1, <3>2
  <2>5. g = h
    BY <2>4
  <2>6. Picks(g, s, positions, m + 1)
    BY ONLY <2>5 DEF Picks
  <2>7. m + 1 \in Nat
    OBVIOUS
  <2> HIDE DEF g, h
  <2>8. QED
    BY <2>6, <2>7
<1>3. S = Nat
  <2>1. S \in SUBSET Nat
    OBVIOUS
  <2> HIDE DEF S
  <2>2. QED
    BY <1>1, <1>2, <2>1, NumbersInduction
<1>4. QED
  BY <1>3

(* What has been picked after some of the positions.                       *)
LEMMA PicksFacts ==
  ASSUME NEW S, NEW s \in Seq(S), NEW positions, NEW f, Picks(f, s, positions, Len(s)),
         NEW n \in 0 .. Len(s)
  PROVE  /\ f[n] \in Seq(S)
         /\ Range(f[n]) = {s[k] : k \in (1 .. n) \cap positions}
<1> DEFINE Right(m) == /\ f[m] \in Seq(S)
                       /\ Range(f[m]) = {s[k] : k \in (1 .. m) \cap positions}
<1>1. \A m \in 0 .. Len(s) : f[m] = IF m = 0 THEN << >>
                                    ELSE IF m \in positions THEN Append(f[m - 1], s[m])
                                    ELSE f[m - 1]
  BY DEF Picks
<1>2. Right(0)
  <2>1. 0 \in 0 .. Len(s)
    OBVIOUS
  <2>2. f[0] = << >>
    BY <1>1, <2>1
  <2>3. Range(f[0]) = {} /\ {s[k] : k \in (1 .. 0) \cap positions} = {}
    BY <2>2 DEF Range
  <2>4. QED
    BY <2>2, <2>3
<1>3. ASSUME NEW m \in Nat, m + 1 <= Len(s), Right(m)
      PROVE  Right(m + 1)
  <2>1. /\ m + 1 \in 0 .. Len(s) /\ m + 1 # 0 /\ (m + 1) - 1 = m
        /\ m + 1 \in DOMAIN s /\ s[m + 1] \in S
    BY <1>3
  <2>2. CASE m + 1 \in positions
    <3>1. f[m + 1] = Append(f[m], s[m + 1])
      BY <1>1, <2>1, <2>2
    <3>2. f[m + 1] \in Seq(S)
      BY <1>3, <2>1, <3>1
    <3>3. Range(f[m + 1]) = Range(f[m]) \cup {s[m + 1]}
      <4>1. PICK t \in Seq(S) : t = f[m]
        BY <1>3
      <4>2. /\ DOMAIN Append(t, s[m + 1]) = 1 .. Len(t) + 1 /\ DOMAIN t = 1 .. Len(t)
            /\ \A k \in 1 .. Len(t) : Append(t, s[m + 1])[k] = t[k]
            /\ Append(t, s[m + 1])[Len(t) + 1] = s[m + 1] /\ Len(t) \in Nat
        BY <2>1
      <4>3. Range(Append(t, s[m + 1])) = Range(t) \cup {s[m + 1]}
        BY ONLY <4>2 DEF Range
      <4>4. QED
        BY <3>1, <4>1, <4>3
    <3>4. (1 .. m + 1) \cap positions = ((1 .. m) \cap positions) \cup {m + 1}
      BY <2>1, <2>2
    <3>5. {s[k] : k \in (1 .. m + 1) \cap positions}
            = {s[k] : k \in (1 .. m) \cap positions} \cup {s[m + 1]}
      BY <3>4
    <3>6. QED
      BY <1>3, <3>2, <3>3, <3>5
  <2>3. CASE m + 1 \notin positions
    <3>1. f[m + 1] = f[m]
      BY <1>1, <2>1, <2>3
    <3>2. (1 .. m + 1) \cap positions = (1 .. m) \cap positions
      BY <2>1, <2>3
    <3>3. QED
      BY <1>3, <3>1, <3>2
  <2>4. QED
    BY <2>2, <2>3
<1> HIDE DEF Right
<1>4. \A m \in Nat : m <= Len(s) => Right(m)
  <2> DEFINE T == {m \in Nat : m <= Len(s) => Right(m)}
  <2>1. 0 \in T /\ T \in SUBSET Nat
    BY <1>2
  <2>2. ASSUME NEW m \in T PROVE m + 1 \in T
    BY <1>3
  <2> HIDE DEF T
  <2>3. T = Nat
    BY <2>1, <2>2, NumbersInduction
  <2>4. QED
    BY <2>3 DEF T
<1>5. Right(n)
  BY <1>4
<1>6. QED
  BY <1>5 DEF Right

(* Nothing is picked twice, and nothing is left out.                       *)
LEMMA PickedFacts ==
  ASSUME NEW S, NEW s \in Seq(S), NEW positions \in SUBSET DOMAIN s
  PROVE  LET picked == Picked(s, positions)
             rest == Picked(s, DOMAIN s \ positions)
         IN  /\ picked \in Seq(S) /\ Range(picked) = {s[k] : k \in positions}
             /\ rest \in Seq(S) /\ Range(rest) = {s[k] : k \in DOMAIN s \ positions}
             /\ Len(picked) + Len(rest) = Len(s)
<1>1. Len(s) \in Nat /\ DOMAIN s = 1 .. Len(s) /\ Len(s) \in 0 .. Len(s)
  OBVIOUS
<1>2. ASSUME NEW P
      PROVE  \E f : Picks(f, s, P, Len(s)) /\ Picked(s, P) = f[Len(s)]
  <2> DEFINE f == CHOOSE f : Picks(f, s, P, Len(s))
  <2>1. Picks(f, s, P, Len(s))
    BY <1>1, PicksExist
  <2>2. Picked(s, P) = f[Len(s)]
    BY DEF Picked, Picks
  <2>3. QED
    BY <2>1, <2>2
<1>3. PICK f : Picks(f, s, positions, Len(s)) /\ Picked(s, positions) = f[Len(s)]
  BY <1>2
<1>4. PICK others : others = DOMAIN s \ positions
  OBVIOUS
<1>5. PICK g : Picks(g, s, others, Len(s)) /\ Picked(s, others) = g[Len(s)]
  BY <1>2
<1>6. \A n \in 0 .. Len(s) : /\ f[n] \in Seq(S)
                             /\ Range(f[n]) = {s[k] : k \in (1 .. n) \cap positions}
  BY <1>3, PicksFacts
<1>7. \A n \in 0 .. Len(s) :
        /\ g[n] \in Seq(S)
        /\ Range(g[n]) = {s[k] : k \in (1 .. n) \cap others}
  BY <1>5, PicksFacts
<1>8. \A n \in 0 .. Len(s) : Len(f[n]) + Len(g[n]) = n
  <2> DEFINE Right(m) == Len(f[m]) + Len(g[m]) = m
  <2>1. \A m \in 0 .. Len(s) : f[m] = IF m = 0 THEN << >>
                                      ELSE IF m \in positions THEN Append(f[m - 1], s[m])
                                      ELSE f[m - 1]
    BY <1>3 DEF Picks
  <2>2. \A m \in 0 .. Len(s) : g[m] = IF m = 0 THEN << >>
                                      ELSE IF m \in others THEN Append(g[m - 1], s[m])
                                      ELSE g[m - 1]
    BY <1>5 DEF Picks
  <2>3. Right(0)
    <3>1. 0 \in 0 .. Len(s)
      OBVIOUS
    <3>2. f[0] = << >> /\ g[0] = << >>
      BY <2>1, <2>2, <3>1
    <3>3. QED
      BY <3>2
  <2>4. ASSUME NEW m \in Nat, m + 1 <= Len(s), Right(m)
        PROVE  Right(m + 1)
    <3>1. /\ m + 1 \in 0 .. Len(s) /\ m + 1 # 0 /\ (m + 1) - 1 = m
          /\ m \in 0 .. Len(s) /\ s[m + 1] \in S
          /\ m + 1 \in others <=> m + 1 \notin positions
      BY <1>1, <1>4, <2>4
    <3>2. f[m] \in Seq(S) /\ g[m] \in Seq(S)
      BY <1>6, <1>7, <3>1
    <3>3. \A t \in Seq(S) : Len(t) \in Nat /\ Len(Append(t, s[m + 1])) = Len(t) + 1
      BY <3>1
    <3>4. PICK a \in Nat, b \in Nat : a = Len(f[m]) /\ b = Len(g[m])
      BY <3>2, <3>3
    <3>5. (a + 1) + b = m + 1 /\ a + (b + 1) = m + 1
      <4>1. a + b = m
        BY <2>4, <3>4
      <4>2. QED
        BY <4>1
    <3>6. CASE m + 1 \in positions
      <4>1. f[m + 1] = Append(f[m], s[m + 1]) /\ g[m + 1] = g[m]
        BY <2>1, <2>2, <3>1, <3>6
      <4>2. Len(f[m + 1]) = a + 1 /\ Len(g[m + 1]) = b
        BY <3>2, <3>3, <3>4, <4>1
      <4>3. QED
        BY ONLY <3>5, <4>2
    <3>7. CASE m + 1 \notin positions
      <4>1. g[m + 1] = Append(g[m], s[m + 1]) /\ f[m + 1] = f[m]
        BY <2>1, <2>2, <3>1, <3>7
      <4>2. Len(f[m + 1]) = a /\ Len(g[m + 1]) = b + 1
        BY <3>2, <3>3, <3>4, <4>1
      <4>3. QED
        BY ONLY <3>5, <4>2
    <3>8. QED
      BY <3>6, <3>7
  <2> HIDE DEF Right
  <2>5. \A m \in Nat : m <= Len(s) => Right(m)
    <3> DEFINE T == {m \in Nat : m <= Len(s) => Right(m)}
    <3>1. 0 \in T /\ T \in SUBSET Nat
      BY <2>3
    <3>2. ASSUME NEW m \in T PROVE m + 1 \in T
      BY <2>4
    <3> HIDE DEF T
    <3>3. T = Nat
      BY <3>1, <3>2, NumbersInduction
    <3>4. QED
      BY <3>3 DEF T
  <2>6. \A n \in 0 .. Len(s) : Right(n)
    BY <2>5
  <2>7. QED
    BY <2>6 DEF Right
<1>9. (1 .. Len(s)) \cap positions = positions /\ (1 .. Len(s)) \cap others = others
  BY <1>1, <1>4
<1>10. /\ Picked(s, positions) \in Seq(S)
       /\ Range(Picked(s, positions)) = {s[k] : k \in positions}
  BY <1>1, <1>3, <1>6, <1>9
<1>11. /\ Picked(s, others) \in Seq(S)
       /\ Range(Picked(s, others)) = {s[k] : k \in others}
  BY <1>1, <1>5, <1>7, <1>9
<1>12. Len(Picked(s, positions)) + Len(Picked(s, others)) = Len(s)
  BY <1>1, <1>3, <1>5, <1>8
<1>13. QED
  BY ONLY <1>4, <1>10, <1>11, <1>12

-----------------------------------------------------------------------------
(* The default view says the same.                                         *)

(* The reports, without the details.                                       *)
LEMMA ReportsSaySame ==
  ASSUME NEW report, IsReport(report)
  PROVE  SameReport(CompactReport(report), report)
<1> DEFINE short == CompactReport(report)
<1>1. DOMAIN short = DOMAIN report
  BY DEF CompactReport
<1>2. ASSUME NEW place \in DOMAIN report
      PROVE  /\ short[place].overall_status = report[place].overall_status
             /\ short[place].raw_summary
                  = [engine \in DOMAIN report[place].raw_summary |->
                       Compacted(engine, report[place].raw_summary[engine])]
  <2>1. PICK part : part = report[place]
    OBVIOUS
  <2>2. DOMAIN part = {"overall_status", "raw_summary"}
    BY <2>1 DEF IsReport
  <2>3. short[place] = CompactPart(part)
    BY <2>1 DEF CompactReport
  <2>4. /\ CompactPart(part).overall_status = part.overall_status
        /\ CompactPart(part).raw_summary
             = [engine \in DOMAIN part.raw_summary |-> Compacted(engine, part.raw_summary[engine])]
    BY <2>2 DEF CompactPart
  <2> HIDE DEF short
  <2>5. QED
    BY <2>1, <2>3, <2>4
<1>3. ASSUME NEW engine \in DOMAIN KeptKeys, NEW raw
      PROVE  LET less == Compacted(engine, raw)
             IN  /\ DOMAIN less \subseteq DOMAIN raw
                 /\ \A key \in DOMAIN less : less[key] = raw[key]
                 /\ DOMAIN raw \cap Essential \subseteq DOMAIN less
  <2>1. "result_summary" \in KeptKeys[engine] /\ "failure_summary" \in KeptKeys[engine]
    BY DEF KeptKeys
  <2>2. PICK keys : keys = {key \in DOMAIN raw : \/ key \in KeptKeys[engine]
                                                 \/ engine = "capa" /\ key = "analysis_summary"
                                                    /\ raw[key] # "empty"}
    OBVIOUS
  <2>3. Compacted(engine, raw) = [key \in keys |-> raw[key]]
    BY <2>2 DEF Compacted, Restrict
  <2>4. keys \subseteq DOMAIN raw /\ DOMAIN raw \cap Essential \subseteq keys
    BY <2>1, <2>2 DEF Essential
  <2>5. QED
    BY <2>3, <2>4
<1>4. \A place \in DOMAIN report : DOMAIN report[place].raw_summary \subseteq DOMAIN KeptKeys
  BY DEF IsReport
<1>5. ASSUME NEW place \in DOMAIN report, NEW engine \in DOMAIN report[place].raw_summary
      PROVE  LET less == short[place].raw_summary[engine]
                 all == report[place].raw_summary[engine]
             IN  /\ DOMAIN less \subseteq DOMAIN all
                 /\ \A key \in DOMAIN less : less[key] = all[key]
                 /\ DOMAIN all \cap Essential \subseteq DOMAIN less
  <2>1. PICK raw : raw = report[place].raw_summary[engine]
    OBVIOUS
  <2>2. short[place].raw_summary[engine] = Compacted(engine, raw)
    BY <1>2, <2>1
  <2>3. engine \in DOMAIN KeptKeys
    BY <1>4
  <2> HIDE DEF short
  <2>4. QED
    BY <1>3, <2>1, <2>2, <2>3
<1>6. \A place \in DOMAIN report :
        /\ short[place].overall_status = report[place].overall_status
        /\ DOMAIN short[place].raw_summary = DOMAIN report[place].raw_summary
  BY <1>2
<1> HIDE DEF short
<1>7. SameReport(short, report)
  BY <1>1, <1>5, <1>6 DEF SameReport
<1>8. QED
  BY <1>7 DEF short

(* An order names the counts, all of them and each once.                   *)
Orders(order, fields) ==
  /\ Len(order) \in Nat /\ DOMAIN order = 1 .. Len(order)
  /\ Len(fields) = Len(order) /\ DOMAIN fields = 1 .. Len(fields)
  /\ Range(order) = Range(fields)
  /\ \A j, k \in DOMAIN fields : fields[j] = fields[k] => j = k

LEMMA BothOrders == Orders(SummaryOrder, SummaryFields) /\ Orders(AccountingOrder, AccountingFields)
<1>1. Orders(SummaryOrder, SummaryFields)
  <2>1. /\ DOMAIN SummaryFields = 1 .. 7 /\ DOMAIN SummaryOrder = 1 .. 7
        /\ Len(SummaryFields) = 7 /\ Len(SummaryOrder) = 7
    BY DEF SummaryFields, SummaryOrder
  <2>2. Range(SummaryFields) = {"known_malicious", "suspicious", "clean_by_known_checks",
                                "partial_scan", "scan_error", "engine_missing",
                                "engine_unavailable"}
    BY DEF Range, SummaryFields
  <2>3. Range(SummaryOrder) = {"known_malicious", "suspicious", "clean_by_known_checks",
                               "partial_scan", "scan_error", "engine_missing",
                               "engine_unavailable"}
    BY DEF Range, SummaryOrder
  <2>4. \A j, k \in 1 .. 7 : SummaryFields[j] = SummaryFields[k] => j = k
    BY DEF SummaryFields
  <2>5. QED
    BY <2>1, <2>2, <2>3, <2>4 DEF Orders
<1>2. Orders(AccountingOrder, AccountingFields)
  <2>1. /\ DOMAIN AccountingFields = 1 .. 4 /\ DOMAIN AccountingOrder = 1 .. 4
        /\ Len(AccountingFields) = 4 /\ Len(AccountingOrder) = 4
    BY DEF AccountingFields, AccountingOrder
  <2>2. Range(AccountingFields) = {"ignored_directory_count", "ignored_file_count",
                                   "top_level_issue_count", "directory_access_error_count"}
    BY DEF Range, AccountingFields
  <2>3. Range(AccountingOrder) = {"ignored_directory_count", "ignored_file_count",
                                  "top_level_issue_count", "directory_access_error_count"}
    BY DEF Range, AccountingOrder
  <2>4. \A j, k \in 1 .. 4 : AccountingFields[j] = AccountingFields[k] => j = k
    BY DEF AccountingFields
  <2>5. QED
    BY <2>1, <2>2, <2>3, <2>4 DEF Orders
<1>3. QED
  BY <1>1, <1>2

(* The counts that are listed are read again.                              *)
LEMMA CountsAreRead ==
  ASSUME NEW order, NEW fields, Orders(order, fields), NEW counts, NEW name \in Range(fields)
  PROVE  Counts(Listing(fields, counts))[name] = counts[name]
<1> DEFINE listing == Listing(fields, counts)
<1>1. /\ DOMAIN listing = DOMAIN fields
      /\ \A k \in DOMAIN fields : /\ listing[k] = <<fields[k], counts[fields[k]]>>
                                  /\ listing[k][1] = fields[k]
                                  /\ listing[k][2] = counts[fields[k]]
  BY DEF Listing
<1>2. PICK j \in DOMAIN fields : fields[j] = name
  BY DEF Range
<1> HIDE DEF listing
<1>3. name \in {listing[k][1] : k \in DOMAIN listing}
  BY <1>1, <1>2
<1>4. \A entry \in Range(listing) : entry[1] = name => entry[2] = counts[name]
  BY <1>1 DEF Range
<1>5. listing[j] \in Range(listing) /\ listing[j][1] = name
  BY <1>1, <1>2 DEF Range
<1>6. Counts(listing)[name] = (CHOOSE entry \in Range(listing) : entry[1] = name)[2]
  BY <1>3 DEF Counts
<1>7. QED
  BY <1>4, <1>5, <1>6 DEF listing

(* The counts that are not zero come first, and all of them are there.     *)
LEMMA CountsSaySame ==
  ASSUME NEW order, NEW fields, Orders(order, fields), NEW counts
  PROVE  SameCounts(NonZeroFirst(Counts(Listing(fields, counts)), order), Listing(fields, counts))
<1> DEFINE full == Listing(fields, counts)
           read == Counts(full)
           listing == Listing(order, read)
           first == {k \in DOMAIN listing : NonZero(listing[k])}
           S == Range(full)
           A == Picked(listing, first)
           B == Picked(listing, DOMAIN listing \ first)
<1>1. /\ DOMAIN order = 1 .. Len(order) /\ Len(order) \in Nat
      /\ DOMAIN fields = 1 .. Len(fields) /\ Len(fields) = Len(order)
      /\ Range(order) = Range(fields)
  BY DEF Orders
<1>2. /\ DOMAIN full = DOMAIN fields
      /\ \A k \in DOMAIN fields : full[k] = <<fields[k], counts[fields[k]]>>
  BY DEF Listing
<1>3. \A name \in Range(fields) : read[name] = counts[name]
  BY CountsAreRead
<1>4. /\ DOMAIN listing = DOMAIN order
      /\ \A k \in DOMAIN order : listing[k] = <<order[k], counts[order[k]]>>
  <2>1. /\ DOMAIN listing = DOMAIN order
        /\ \A k \in DOMAIN order : listing[k] = <<order[k], read[order[k]]>>
    BY DEF Listing
  <2>2. \A k \in DOMAIN order : order[k] \in Range(fields)
    BY <1>1 DEF Range
  <2> HIDE DEF listing, read
  <2>3. QED
    BY <1>3, <2>1, <2>2
<1>5. listing = [k \in 1 .. Len(order) |-> listing[k]]
  BY <1>1 DEF Listing
<1>6. full = [k \in 1 .. Len(order) |-> full[k]]
  BY <1>1 DEF Listing
<1> HIDE DEF full, listing, read
<1>7. Range(listing) = Range(full)
  <2>1. Range(full) = {<<name, counts[name]>> : name \in Range(fields)}
    BY <1>2 DEF Range
  <2>2. Range(listing) = {<<name, counts[name]>> : name \in Range(order)}
    BY <1>4 DEF Range
  <2>3. QED
    BY <1>1, <2>1, <2>2
<1>8. listing \in Seq(S) /\ Len(listing) = Len(order)
  <2>1. \A k \in 1 .. Len(order) : listing[k] \in S
    BY <1>1, <1>4, <1>7 DEF Range
  <2>2. listing \in [1 .. Len(order) -> S]
    BY <1>5, <2>1
  <2>3. QED
    BY <1>1, <2>2
<1>9. Len(full) = Len(order)
  <2>1. full \in [1 .. Len(order) -> S]
    BY <1>6, <1>1, <1>2 DEF Range
  <2>2. QED
    BY <1>1, <2>1
<1>10. /\ A \in Seq(S) /\ Range(A) = {listing[k] : k \in first}
       /\ B \in Seq(S) /\ Range(B) = {listing[k] : k \in DOMAIN listing \ first}
       /\ Len(A) + Len(B) = Len(listing)
  <2>1. first \in SUBSET DOMAIN listing
    OBVIOUS
  <2> HIDE DEF first
  <2>2. QED
    BY <1>8, <2>1, PickedFacts
<1>11. /\ \A entry \in Range(A) : NonZero(entry)
       /\ \A entry \in Range(B) : Zero(entry)
  BY <1>10 DEF NonZero, Zero
<1>12. Range(A) \cup Range(B) = Range(full)
  <2>1. Range(listing) = {listing[k] : k \in first} \cup {listing[k] : k \in DOMAIN listing \ first}
    BY DEF Range
  <2>2. QED
    BY <1>7, <1>10, <2>1
<1>13. NonZeroFirst(read, order) = A \o B
  BY DEF NonZeroFirst, listing
<1> HIDE DEF A, B, first, S
<1>14. PICK short : short = A \o B
  OBVIOUS
<1>15. /\ Len(A) \in Nat /\ Len(B) \in Nat /\ DOMAIN A = 1 .. Len(A) /\ DOMAIN B = 1 .. Len(B)
       /\ DOMAIN short = 1 .. Len(A) + Len(B) /\ Len(short) = Len(A) + Len(B)
       /\ \A k \in 1 .. Len(A) : short[k] = A[k]
       /\ \A k \in 1 .. Len(B) : short[Len(A) + k] = B[k]
  BY <1>10, <1>14
<1>16. \A k \in DOMAIN short : \/ k \in 1 .. Len(A) /\ short[k] \in Range(A)
                               \/ k > Len(A) /\ short[k] \in Range(B)
  <2> SUFFICES ASSUME NEW k \in DOMAIN short, k \notin 1 .. Len(A)
               PROVE  k > Len(A) /\ short[k] \in Range(B)
    BY <1>15 DEF Range
  <2>1. k - Len(A) \in 1 .. Len(B) /\ Len(A) + (k - Len(A)) = k /\ k > Len(A)
    BY <1>15
  <2>2. short[k] = B[k - Len(A)]
    BY <1>15, <2>1
  <2>3. QED
    BY <1>15, <2>1, <2>2 DEF Range
<1>17. Range(short) = Range(full)
  <2>1. Range(short) \subseteq Range(A) \cup Range(B)
    BY <1>16 DEF Range
  <2>2. Range(A) \subseteq Range(short)
    BY <1>15 DEF Range
  <2>3. Range(B) \subseteq Range(short)
    <3>1. \A k \in 1 .. Len(B) : Len(A) + k \in 1 .. Len(A) + Len(B)
      BY <1>15
    <3>2. QED
      BY <1>15, <3>1 DEF Range
  <2>4. QED
    BY <1>12, <2>1, <2>2, <2>3
<1>18. Len(short) = Len(full)
  BY <1>8, <1>9, <1>10, <1>15
<1>19. \A j, k \in DOMAIN short : NonZero(short[k]) /\ Zero(short[j]) => k < j
  <2> SUFFICES ASSUME NEW j \in DOMAIN short, NEW k \in DOMAIN short,
                      NonZero(short[k]), Zero(short[j])
               PROVE  k < j
    OBVIOUS
  <2>1. k \in 1 .. Len(A)
    BY <1>11, <1>16 DEF NonZero, Zero
  <2>2. j > Len(A)
    BY <1>11, <1>16 DEF NonZero, Zero
  <2>3. QED
    BY <1>15, <2>1, <2>2
<1>20. SameCounts(short, full)
  BY <1>17, <1>18, <1>19 DEF SameCounts
<1>21. QED
  BY <1>13, <1>14, <1>20 DEF full, read

(* What the command emits: the document about a file, or about a directory *)
(* with some counts and the reports of its scan.                           *)
Written(doc) ==
  \/ \E report : IsReport(report) /\ doc = FileDocument(report, doc.error)
  \/ \E summary, accounting : \E reports \in Seq(Reports) :
       doc = DirectoryDocument(doc.status, doc.error, summary, accounting, reports)

LEMMA FileSaysSame ==
  ASSUME NEW report, IsReport(report), NEW code
  PROVE  SaysTheSame(Compact(FileDocument(report, code)), FileDocument(report, code))
<1> DEFINE doc == FileDocument(report, code)
           shorter == [k \in DOMAIN doc.reports |-> CompactReport(doc.reports[k])]
           short == [doc EXCEPT !.reports = shorter]
<1>1. /\ DOMAIN doc = {"mode", "status", "error", "reports"}
      /\ doc.mode = "file" /\ doc.reports = <<report>>
  BY DEF FileDocument
<1>2. Compact(doc) = short
  BY <1>1 DEF Compact
<1>3. /\ DOMAIN <<report>> = 1 .. 1 /\ \A k \in 1 .. 1 : <<report>>[k] = report
      /\ Len(<<report>>) = 1
  OBVIOUS
<1>4. /\ shorter = [k \in 1 .. 1 |-> CompactReport(report)]
  BY <1>1, <1>3
<1> HIDE DEF doc, shorter
<1>5. /\ short.mode = doc.mode /\ short.status = doc.status /\ short.error = doc.error
      /\ short.reports = shorter
  BY <1>1
<1> HIDE DEF short
<1>6. Len(shorter) = 1 /\ shorter[1] = CompactReport(report)
  BY <1>4
<1>7. SameReport(CompactReport(report), report)
  BY ReportsSaySame
<1>8. \A k \in DOMAIN doc.reports : SameReport(short.reports[k], doc.reports[k])
  BY <1>1, <1>3, <1>5, <1>6, <1>7
<1>9. Len(short.reports) = Len(doc.reports)
  BY <1>1, <1>3, <1>5, <1>6
<1>10. SaysTheSame(short, doc)
  BY <1>1, <1>5, <1>8, <1>9 DEF SaysTheSame
<1>11. QED
  BY <1>2, <1>10 DEF doc

LEMMA DirectorySaysSame ==
  ASSUME NEW status, NEW code, NEW summary, NEW accounting, NEW reports \in Seq(Reports)
  PROVE  LET doc == DirectoryDocument(status, code, summary, accounting, reports)
         IN  SaysTheSame(Compact(doc), doc)
<1> DEFINE doc == DirectoryDocument(status, code, summary, accounting, reports)
           shorter == [k \in DOMAIN doc.reports |-> CompactReport(doc.reports[k])]
           first == NonZeroFirst(Counts(doc.summary), SummaryOrder)
           second == NonZeroFirst(Counts(doc.accounting), AccountingOrder)
           short == [doc EXCEPT !.summary = first, !.accounting = second, !.reports = shorter]
<1>1. /\ DOMAIN doc = {"mode", "status", "error", "summary", "accounting", "reports"}
      /\ doc.mode = "directory" /\ doc.reports = reports
      /\ doc.summary = Listing(SummaryFields, summary)
      /\ doc.accounting = Listing(AccountingFields, accounting)
  BY DEF DirectoryDocument
<1>2. Compact(doc) = short
  BY <1>1 DEF Compact
<1>3. SameCounts(first, doc.summary) /\ SameCounts(second, doc.accounting)
  BY <1>1, BothOrders, CountsSaySame
<1>4. shorter = [k \in DOMAIN reports |-> CompactReport(reports[k])]
  BY <1>1
<1> HIDE DEF doc, shorter, first, second
<1>5. /\ short.mode = doc.mode /\ short.status = doc.status /\ short.error = doc.error
      /\ short.summary = first /\ short.accounting = second /\ short.reports = shorter
  BY <1>1
<1> HIDE DEF short
<1>6. /\ Len(reports) \in Nat /\ DOMAIN reports = 1 .. Len(reports)
      /\ \A k \in DOMAIN reports : IsReport(reports[k])
  BY ReportsFacts
<1>7. Len(shorter) = Len(reports) /\ \A k \in DOMAIN reports : shorter[k] = CompactReport(reports[k])
  BY <1>4, <1>6
<1>8. \A k \in DOMAIN reports : SameReport(shorter[k], reports[k])
  BY <1>6, <1>7, ReportsSaySame
<1>9. SaysTheSame(short, doc)
  BY <1>1, <1>3, <1>5, <1>7, <1>8 DEF SaysTheSame
<1>10. QED
  BY <1>2, <1>9 DEF doc

LEMMA WrittenSaysSame ==
  ASSUME NEW doc, Written(doc)
  PROVE  SaysTheSame(Compact(doc), doc)
<1>1. CASE \E report : IsReport(report) /\ doc = FileDocument(report, doc.error)
  BY <1>1, FileSaysSame
<1>2. CASE \E summary, accounting : \E reports \in Seq(Reports) :
             doc = DirectoryDocument(doc.status, doc.error, summary, accounting, reports)
  BY <1>2, DirectorySaysSame
<1>3. QED
  BY <1>1, <1>2 DEF Written

-----------------------------------------------------------------------------
(* What is printed is what is emitted.                                     *)

PrintInv ==
  /\ Written(document)
  /\ cpc = "write" => Last(stdout) = Compact(document)
  /\ Complete => Written(out) /\ Last(stdout) = Compact(out)

LEMMA FileWritten ==
  ASSUME NEW report, IsReport(report), NEW code
  PROVE  Written(FileDocument(report, code))
<1>1. FileDocument(report, code).error = code
  BY DEF FileDocument
<1>2. QED
  BY <1>1 DEF Written

LEMMA DirectoryWritten ==
  ASSUME NEW status, NEW code, NEW summary, NEW accounting, NEW reports \in Seq(Reports)
  PROVE  Written(DirectoryDocument(status, code, summary, accounting, reports))
<1> DEFINE doc == DirectoryDocument(status, code, summary, accounting, reports)
<1>1. doc.error = code /\ doc.status = status
  BY DEF DirectoryDocument
<1>2. doc = DirectoryDocument(doc.status, doc.error, summary, accounting, reports)
  BY <1>1
<1> HIDE DEF doc
<1>3. Written(doc)
  BY <1>2 DEF Written
<1>4. QED
  BY <1>3 DEF doc

LEMMA ErrorWritten ==
  ASSUME NEW code
  PROVE  Written(ErrorDocument(code))
<1>1. IsReport(BareReport("scan_error")) /\ << >> \in Seq(Reports)
  BY StatusesListed, BareFacts
<1>2. QED
  BY <1>1, FileWritten, DirectoryWritten DEF ErrorDocument

LEMMA PrintInitInv == Init => PrintInv
<1> SUFFICES ASSUME Init PROVE PrintInv
  OBVIOUS
<1>1. IsReport(BareReport("scan_error"))
  BY StatusesListed, BareFacts
<1>2. Written(document) /\ cpc = "dispatch" /\ out = NoFile
  BY <1>1, FileWritten DEF Init
<1>3. QED
  BY <1>2 DEF PrintInv, Complete

LEMMA PrintNextInv == IInv /\ PrintInv /\ [Next]_vars => PrintInv'
<1> SUFFICES ASSUME IInv, PrintInv, [Next]_vars PROVE PrintInv'
  OBVIOUS
<1>1. cpc # "ended" => ~Complete
  BY DEF IInv, EmitInv, NothingWritten, Complete
<1>2. ASSUME NEW doc, Written(doc), document' = doc, cpc' # "write",
             cpc # "ended", out' \in {out, TornFile}
      PROVE  PrintInv'
  <2>1. ~Complete'
    BY <1>1, <1>2 DEF Complete
  <2>2. Written(document)'
    BY <1>2 DEF Written
  <2>3. QED
    BY <1>2, <2>1, <2>2 DEF PrintInv
<1>3. ASSUME UNCHANGED <<document, out, stdout, cpc>>
      PROVE  PrintInv'
  <2>1. Written(document)' /\ (Complete' => Complete /\ Written(out)')
    BY <1>3 DEF PrintInv, Written, Complete
  <2>2. QED
    BY <1>3, <2>1 DEF PrintInv
<1>4. CASE \/ Dispatch \/ ReadConfigFile \/ ReadLocalFile \/ ReadEnvOverrides \/ ApplyOptions
           \/ CheckConfig \/ ScanFileRaises
  <2>1. UNCHANGED <<out, document>> /\ cpc # "ended" /\ cpc' # "write"
    BY <1>4 DEF Dispatch, ReadConfigFile, ReadLocalFile, ReadEnvOverrides, ApplyOptions,
                CheckConfig, ScanFileRaises, LoadNext, RaiseError, UnchangedByCommand
  <2>2. QED
    BY <1>2, <2>1 DEF PrintInv
<1>5. CASE \E report \in EntryReports : ScanFile(report)
  <2>1. PICK report \in EntryReports : ScanFile(report)
    BY <1>5
  <2>2. /\ document' = FileDocument(report, "none") /\ cpc' = "stdout" /\ out' = out
        /\ cpc # "ended"
    BY <2>1 DEF ScanFile, EmitNext, UnchangedByCommand
  <2>3. IsReport(report)
    BY ReportsFacts DEF Reports
  <2>4. QED
    BY <1>2, <2>2, <2>3, FileWritten
<1>6. CASE HandleError
  <2>1. /\ out' = out /\ cpc # "ended" /\ cpc' # "write"
        /\ document' \in {document, ErrorDocument(error)}
    BY <1>6 DEF HandleError, EmitNext
  <2>2. QED
    BY <1>2, <2>1, ErrorWritten DEF PrintInv
<1>7. CASE EndDirectory
  <2>1. out' = out /\ cpc # "ended" /\ cpc' \in {"stdout", "handler"}
    BY <1>7 DEF EndDirectory, RaiseError, EmitNext, UnchangedByCommand
  <2>2. document' \in {document, ReportOfDirectory}
    BY <1>7 DEF EndDirectory, EmitNext
  <2>3. results \in Seq(Reports)
    BY DEF IInv, DirectoryInv, DirectoryTypeOK
  <2>4. Written(ReportOfDirectory)
    BY <2>3, DirectoryWritten DEF ReportOfDirectory
  <2>5. QED
    BY <1>2, <2>1, <2>2, <2>4 DEF PrintInv
<1>8. CASE WriteStdout
  <2>1. /\ UNCHANGED <<document, out>> /\ cpc = "stdout"
        /\ stdout' = Append(stdout, Compact(document))
    BY <1>8 DEF WriteStdout
  <2>2. ~Complete'
    BY <1>1, <2>1 DEF Complete
  <2>3. Last(stdout') = Compact(document)
    <3>1. PICK S : stdout \in Seq(S)
      BY DEF IInv, EmitInv
    <3>2. PICK short : short = Compact(document)
      OBVIOUS
    <3>3. /\ Len(stdout) \in Nat /\ Len(Append(stdout, short)) = Len(stdout) + 1
          /\ Append(stdout, short)[Len(stdout) + 1] = short
      BY <3>1
    <3>4. QED
      BY <2>1, <3>2, <3>3 DEF Last
  <2>4. Written(document)' /\ Compact(document)' = Compact(document)
    BY <2>1 DEF PrintInv, Written, Compact
  <2>5. QED
    BY <2>2, <2>3, <2>4 DEF PrintInv
<1>9. CASE WriteReportOut
  <2>1. /\ UNCHANGED <<document, stdout>> /\ out' = document /\ cpc = "write" /\ cpc' = "ended"
    BY <1>9 DEF WriteReportOut
  <2>2. Written(document)' /\ Written(out') /\ Last(stdout') = Compact(out')
    BY <2>1 DEF PrintInv, Written
  <2>3. QED
    BY <2>1, <2>2 DEF PrintInv
<1>10. CASE WriteFails
  <2>1. /\ out' \in {out, TornFile} /\ document' = document /\ cpc # "ended" /\ cpc' # "write"
    BY <1>10 DEF WriteFails, RaiseError
  <2>2. QED
    BY <1>2, <2>1 DEF PrintInv
<1>11. CASE StepDirectory \/ PathChanges \/ UNCHANGED vars
  BY <1>3, <1>11 DEF StepDirectory, PathChanges, vars, cmdVars
<1>12. QED
  BY <1>4, <1>5, <1>6, <1>7, <1>8, <1>9, <1>10, <1>11 DEF Next, Command

(* What the command prints is the report that it writes to the file, with  *)
(* the counts in another order and some details of the engines left out.   *)
THEOREM PrintedIsWritten == Spec => []PrintedIsTheReport
<1>1. PrintInv => PrintedIsTheReport
  BY WrittenSaysSame DEF PrintInv, PrintedIsTheReport
<1>2. QED
  BY <1>1, PrintInitInv, PrintNextInv, Invariance, PTL DEF Spec
=============================================================================
