----------------------------- MODULE ScanCommand -----------------------------
(***************************************************************************)
(* One `scanbox scan` from the command line to the exit code: main chooses *)
(* between a file and a directory, loads the configuration, runs the scan, *)
(* emits the report and turns its status into the exit code.  Whatever is  *)
(* raised on the way, the emission of the report included, is turned into  *)
(* an error document, which is emitted in its turn, unless that raises too.*)
(*                                                                         *)
(* The scan of a directory is the module DirectoryScan, that of a file is  *)
(* ArchiveScan, here one step.  What the path is may change under the      *)
(* command, once.                                                          *)
(***************************************************************************)
EXTENDS DirectoryScan, Configuration

CONSTANTS
  ScanModes,  (* The <<--quarantine mode, --quarantine-dry-run>> in use.  *)
  SourcesFor  (* The sources of configurations in use with every layout.  *)

ASSUME ScanModesAssumption == ScanModes \subseteq QuarantineModes
ASSUME SourcesAssumption ==
  /\ Layouts \subseteq DOMAIN SourcesFor
  /\ \A l \in Layouts : \A s \in SourcesFor[l] :
       IsData(s.file.data) /\ IsData(s.local.data) /\ DOMAIN s.env \subseteq DOMAIN EnvMap

VARIABLES
  target,   (* What the path is when main looks: "file", "directory",      *)
            (* "missing", or "hidden": what looks at it gets an OSError (a *)
            (* directory above that may not be searched, a name too long). *)
  now,      (* What it is now.                                             *)
  mode,     (* The quarantine options.                                     *)
  sources,  (* Where the configuration comes from.                         *)
  merged,   (* What has been read of it.                                   *)
  config,   (* The configuration, once it is loaded.                       *)
  reportOut,(* Whether --report-out is given.                              *)
  cpc,      (* The step of the command.                                    *)
  document, (* The document to emit, all of it.                            *)
  error,    (* The code of the exception that is being handled, or "none". *)
  stdout,   (* The documents on stdout.                                    *)
  out,      (* What is in the --report-out file: NoFile while the command  *)
            (* has not touched it, TornFile when it is not complete.       *)
  exit      (* The exit code.                                              *)

cmdVars == <<target, now, mode, sources, merged, config, reportOut, cpc, document, error,
             stdout, out, exit>>
vars == <<dirVars, cmdVars>>

Natures == {"file", "directory", "missing", "hidden"}
NotLoaded == [p \in {} |-> Unset]
NoExit == -1
NoFile == [mode |-> "none"]
TornFile == [mode |-> "torn"]

(* The document about an error is that of a directory if the path is one   *)
(* at that time.                                                           *)
ErrorDocument(code) ==
  IF now = "directory"
  THEN DirectoryDocument("scan_error", code, [s \in VerdictStatuses |-> 0],
                         [ignored_directory_count |-> 0, ignored_file_count |-> 0,
                          top_level_issue_count |-> 1, directory_access_error_count |-> 0],
                         << >>)
  ELSE FileDocument(BareReport("scan_error"), code)

ExitCode == [clean_by_known_checks |-> 0, known_malicious |-> 1, suspicious |-> 2,
             partial_scan |-> 3, engine_missing |-> 4, engine_unavailable |-> 5,
             scan_error |-> 6, config_error |-> 7, input_error |-> 8]

ErrorExit(code) ==
  IF code \in {"config_error", "input_error"} THEN ExitCode[code]
  ELSE ExitCode["scan_error"]

Init ==
  /\ DirectoryInit
  /\ target \in Natures /\ now = target
  /\ mode \in ScanModes
  /\ sources \in SourcesFor[layout]
  /\ merged = NoEntries
  /\ config = NotLoaded
  /\ reportOut \in BOOLEAN
  /\ cpc = "dispatch"
  /\ document = FileDocument(BareReport("scan_error"), "none")
  /\ error = "none"
  /\ stdout = << >>
  /\ out = NoFile
  /\ exit = NoExit

EmitNext(doc) == document' = doc /\ cpc' = "stdout"

RaiseError(code) == error' = code /\ cpc' = "handler"

UnchangedByCommand == UNCHANGED <<target, now, mode, sources, reportOut, stdout, out, exit>>

(* Somebody removes or replaces what the path leads to, or hides it.       *)
PathChanges ==
  /\ cpc \notin {"dispatch", "ended"} /\ now = target
  /\ now' \in Natures \ {target}
  /\ UNCHANGED <<target, mode, sources, merged, config, reportOut, cpc, document, error,
                 stdout, out, exit, dirVars>>

(* Mutant of Refused: a dry run is harmless.                               *)
RefusedOnlyMove == target = "directory" /\ mode[1] = "move" /\ ~mode[2]

(* Directories are not scanned with quarantine.                            *)
Refused == target = "directory" /\ (mode[1] = "move" \/ mode[2])

Dispatch ==
  /\ cpc = "dispatch"
  /\ CASE Refused -> RaiseError("input_error")
       [] target = "hidden" -> RaiseError("internal_error")
       [] OTHER -> cpc' = "config" /\ UNCHANGED error
  /\ UnchangedByCommand /\ UNCHANGED <<document, merged, config, dirVars>>

(* Mutant of HandleError: it is tried until the path can be looked at.     *)
HandleErrorRetried ==
  /\ cpc = "handler"
  /\ IF now = "hidden" THEN UNCHANGED <<cpc, exit, document>>
     ELSE EmitNext(ErrorDocument(error)) /\ UNCHANGED exit
  /\ UNCHANGED <<target, now, mode, sources, merged, config, reportOut, error, stdout, out, dirVars>>

(* The handler looks at the path again, to choose the kind of document;    *)
(* what it raises nothing catches, and Python ends with 1.                 *)
HandleError ==
  /\ cpc = "handler"
  /\ IF now = "hidden" THEN cpc' = "ended" /\ exit' = 1 /\ UNCHANGED document
     ELSE EmitNext(ErrorDocument(error)) /\ UNCHANGED exit
  /\ UNCHANGED <<target, now, mode, sources, merged, config, reportOut, error, stdout, out, dirVars>>

(* load_app_config reads one source after the other.  The next step is     *)
(* next, unless this one has a problem.                                    *)
LoadNext(problem, newData, next) ==
  /\ IF problem # "none" THEN RaiseError(problem) /\ UNCHANGED merged
     ELSE merged' = newData /\ cpc' = next /\ UNCHANGED error
  /\ UnchangedByCommand /\ UNCHANGED <<document, config, dirVars>>

ReadConfigFile ==
  /\ cpc = "config"
  /\ LoadNext(FileProblem(sources.file), sources.file.data, "local")

ReadLocalFile ==
  /\ cpc = "local"
  /\ IF UsesLocal(sources)
     THEN LoadNext(FileProblem(sources.local), DeepMerge(merged, sources.local.data), "env")
     ELSE LoadNext("none", merged, "env")

ReadEnvOverrides ==
  /\ cpc = "env"
  /\ LoadNext("none", DeepMerge(merged, ReadEnv(sources.env)), "options")

ApplyOptions ==
  /\ cpc = "options"
  /\ LoadNext("none", DeepMerge(merged, CliData(sources)), "check")

CheckConfig ==
  /\ cpc = "check"
  /\ IF DataProblem(merged) # "none" THEN RaiseError(DataProblem(merged)) /\ UNCHANGED config
     ELSE /\ config' = Configured(merged)
          /\ cpc' = (IF target = "directory" THEN "directory" ELSE "file")
          /\ UNCHANGED error
  /\ UnchangedByCommand /\ UNCHANGED <<document, merged, dirVars>>

ScanFile(report) ==
  /\ cpc = "file" /\ now = "file"
  /\ EmitNext(FileDocument(report, "none"))
  /\ UnchangedByCommand /\ UNCHANGED <<error, merged, config, dirVars>>

(* The file is not there: an InputError; it cannot be looked at, or the    *)
(* directory that the path is relative to is gone: an OSError.  Its scan   *)
(* may raise what it does not catch: an OSError and others, or a           *)
(* QuarantineError.                                                        *)
FileErrors == [file |-> {"scan_error", "internal_error"}, directory |-> {"input_error"},
               missing |-> {"input_error", "internal_error"}, hidden |-> {"internal_error"}]

ScanFileRaises ==
  /\ cpc = "file"
  /\ \E code \in FileErrors[now] : RaiseError(code)
  /\ UnchangedByCommand /\ UNCHANGED <<document, merged, config, dirVars>>

(* The scan of a directory starts with a look at it.                       *)
StartOf == [directory |-> {"walk"}, file |-> {"refused"}, missing |-> {"refused", "raised"},
            hidden |-> {"raised"}]

StepDirectory ==
  /\ cpc = "directory"
  /\ DirectoryNext
  /\ dpc = "idle" => dpc' \in StartOf[now]
  /\ UNCHANGED cmdVars

ReportOfDirectory ==
  DirectoryDocument(DirectoryReport.overall_status, "none", DirectoryReport.summary,
                    DirectoryReport.accounting, results)

EndDirectory ==
  /\ cpc = "directory"
  /\ \/ dpc = "returned" /\ EmitNext(ReportOfDirectory) /\ UNCHANGED error
     \/ dpc = "refused" /\ RaiseError("input_error") /\ UNCHANGED document
     \/ /\ dpc = "raised"
        /\ \E code \in {"input_error", "internal_error"} : RaiseError(code)
        /\ UNCHANGED document
  /\ UnchangedByCommand /\ UNCHANGED <<merged, config, dirVars>>

ExitOf(doc) == IF doc.error = "none" THEN ExitCode[doc.status] ELSE ErrorExit(doc.error)

(* emit_report writes the default view to stdout first ...                 *)
WriteStdout ==
  /\ cpc = "stdout"
  /\ stdout' = Append(stdout, Compact(document))
  /\ IF reportOut THEN cpc' = "write" /\ UNCHANGED exit
     ELSE cpc' = "ended" /\ exit' = ExitOf(document)
  /\ UNCHANGED <<target, now, mode, sources, merged, config, reportOut, document, error, out,
                 dirVars>>

(* ... and then all of it to the file.                                     *)
WriteReportOut ==
  /\ cpc = "write"
  /\ out' = document
  /\ cpc' = "ended"
  /\ exit' = ExitOf(document)
  /\ UNCHANGED <<target, now, mode, sources, merged, config, reportOut, document, error, stdout,
                 dirVars>>

(* Mutant of WriteFails: the failure is swallowed.                         *)
WriteFailsSilently ==
  /\ cpc = "write"
  /\ out' \in {out, TornFile}
  /\ cpc' = "ended"
  /\ exit' = ExitOf(document)
  /\ UNCHANGED <<document, error, target, now, mode, sources, merged, config, reportOut, stdout,
                 dirVars>>

(* Mutant of WriteFails: handlers are called from a handler too.           *)
WriteFailsAgain ==
  /\ cpc = "write"
  /\ out' \in {out, TornFile}
  /\ RaiseError("internal_error") /\ UNCHANGED exit
  /\ UNCHANGED <<document, target, now, mode, sources, merged, config, reportOut, stdout, dirVars>>

(* An OSError, of making the directory, of opening the file, which empties *)
(* it, or of writing to it, is handled like any other; in a handler nothing*)
(* catches it, and Python ends with 1.                                     *)
WriteFails ==
  /\ cpc = "write"
  /\ out' \in {out, TornFile}
  /\ IF error # "none" THEN cpc' = "ended" /\ exit' = 1 /\ UNCHANGED error
     ELSE RaiseError("internal_error") /\ UNCHANGED exit
  /\ UNCHANGED <<document, target, now, mode, sources, merged, config, reportOut, stdout, dirVars>>

Command ==
  \/ Dispatch \/ HandleError
  \/ ReadConfigFile \/ ReadLocalFile \/ ReadEnvOverrides \/ ApplyOptions
  \/ CheckConfig
  \/ \E report \in EntryReports : ScanFile(report)
  \/ ScanFileRaises
  \/ StepDirectory \/ EndDirectory
  \/ WriteStdout \/ WriteReportOut \/ WriteFails

Next == Command \/ PathChanges

(* One thread does all of it, and it keeps running.                        *)
Spec == Init /\ [][Next]_vars /\ WF_vars(Command)

-----------------------------------------------------------------------------
(* Correctness.                                                            *)

Codes == {"config_error", "input_error", "scan_error", "internal_error"}

IsDocument(doc) ==
  /\ doc.mode \in {"file", "directory"}
  /\ doc.status \in VerdictStatuses
  /\ doc.error \in Codes \cup {"none"}
  /\ \A k \in DOMAIN doc.reports : StatusOf(doc.reports[k]) \in VerdictStatuses

(* The type of every variable.                                             *)
TypeOK ==
  /\ layout \in Layouts
  /\ dpc \in {"idle", "walk", "scan", "returned", "refused", "raised"}
  /\ frontier \subseteq Dirs
  /\ found \subseteq Names
  /\ Range(candidates) \subseteq Names
  /\ Range(issues) \subseteq {"directory_access_error", "no_files_found"}
  /\ ignored \in [directories : Nat, files : Nat]
  /\ Statuses \subseteq VerdictStatuses /\ Len(results) <= Len(candidates)
  /\ target \in Natures /\ now \in Natures
  /\ mode \in ScanModes
  /\ sources \in SourcesFor[layout]
  /\ DOMAIN config \in {{}, Settings}
  /\ reportOut \in BOOLEAN /\ error \in Codes \cup {"none"}
  /\ cpc \in {"dispatch", "config", "local", "env", "options", "check", "file",
             "directory", "handler", "stdout", "write", "ended"}
  /\ IsDocument(document)
  /\ \A k \in DOMAIN stdout : IsDocument(stdout[k])
  /\ out \in {NoFile, TornFile} \/ IsDocument(out)
  /\ exit \in (0 .. 8) \cup {NoExit}

Ended == cpc = "ended"

(* Exit code 0 after exactly one document, which says clean; for a         *)
(* directory, there were files and each of them was scanned and was clean. *)
ExitZeroIsClean ==
  exit = 0 =>
    /\ Len(stdout) = 1
    /\ stdout[1].status = "clean_by_known_checks" /\ stdout[1].error = "none"
    /\ target = "directory" => /\ results # << >>
                               /\ Len(results) = Len(candidates)
                               /\ Statuses = {"clean_by_known_checks"}

Complete == out \notin {NoFile, TornFile}

(* The exit code tells the status, or the error, of the last document that *)
(* was printed, and the report file holds that one.  Otherwise it is 1, as *)
(* for known_malicious, with a traceback of Python, and the report file is *)
(* untouched or torn: it could not be written, neither for the report nor  *)
(* for the error document; or the handler could not look at the path, and  *)
(* then what was printed is the report, or nothing.                        *)
ExitTellsStatus ==
  Ended =>
    \/ /\ stdout # << >> /\ exit = ExitOf(Last(stdout))
       /\ IF reportOut THEN Complete /\ ExitOf(out) = exit ELSE out = NoFile
    \/ /\ exit = 1 /\ ~Complete
       /\ IF stdout = << >> THEN now = "hidden" /\ out = NoFile
          ELSE reportOut /\ (now = "hidden" \/ Last(stdout).error # "none")

(* operations.md 5.9, 13.3: what is printed is the report in the file, when*)
(* it is complete, in another order of the counts and without some details *)
(* of the engines; how an engine failed and what it found are kept, in the *)
(* reports of members and of a directory's files too.                      *)
PrintedIsTheReport ==
  Complete => SaysTheSame(Last(stdout), out)

(* operations.md 13.6: a directory with `move` or a dry run is refused     *)
(* with an input_error, whatever else is wrong, and nothing is scanned.    *)
(* When it cannot be looked at any more, it is refused with a traceback.   *)
DirectoryQuarantineRefused ==
  Ended /\ target = "directory" /\ (mode[1] = "move" \/ mode[2]) =>
    /\ dpc = "idle"
    /\ IF stdout = << >> THEN now = "hidden" /\ exit = 1
       ELSE stdout[1].error = "input_error"

(* operations.md 6.4.1: the file, then the local file, then the            *)
(* environment; then the options.  Every setting a scan runs with is the   *)
(* one that the last of them asks for, however they nest.                  *)
ConfiguredAsTold ==
  config # NotLoaded =>
    \A p \in Settings : config[p] = Normalized(p, Told(sources, p))

(* The command goes round in no circle: every step of it leaves fewer that *)
(* are possible, in a tree of any shape, and however many errors there are *)
(* in handling errors; what others do to the path adds none.               *)
PhasesLeft == [dispatch |-> 12, config |-> 11, local |-> 10, env |-> 9, options |-> 8,
               check |-> 7, file |-> 6, directory |-> 6]

StepsLeft ==
  CASE cpc = "stdout" -> IF error = "none" THEN 5 ELSE 2
    [] cpc = "write" -> IF error = "none" THEN 4 ELSE 1
    [] cpc = "handler" -> 3
    [] cpc = "ended" -> 0
    [] OTHER -> PhasesLeft[cpc] + DirectoryStepsLeft

CommandStepsRunOut ==
  [][IF now' = now THEN StepsLeft' < StepsLeft ELSE StepsLeft' = StepsLeft]_vars

(* operations.md 13.5: the failure of a file becomes a result of its own.  *)
(* Once the files are known, what the command prints is a report on them.  *)
FileFailuresStayInside ==
  Ended /\ candidates # << >> /\ stdout # << >> => stdout[1].error = "none"

(* README.md 3: the CLI emits a single JSON result.                        *)
SingleDocument == Len(stdout) <= 1

(* The command ends, with an exit code.                                    *)
CommandEnds == <>(Ended /\ exit # NoExit)
=============================================================================
