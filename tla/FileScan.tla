------------------------------ MODULE FileScan -------------------------------
(***************************************************************************)
(* The scan of one file, ScanOrchestrator._scan_file_target: hash it and   *)
(* detect its type, look at every engine before the first one runs, run    *)
(* those that may run one after the other, resolve the verdict, and hand   *)
(* the report to the quarantine service.                                   *)
(*                                                                         *)
(* The engines are processes of their own: what their preflight found may  *)
(* no longer hold when they are started, they may be stopped at their      *)
(* timeout, fail, or be killed.  An exception other than a ScanBoxError    *)
(* leaves the scan without a report ("raised").                            *)
(***************************************************************************)
EXTENDS Adapters

CONSTANTS
  Settings,   (* The configurations: [enabled, profile, resources].      *)
  Kinds,      (* The file types in use.                                  *)
  ScanModes,  (* The <<--quarantine mode, --quarantine-dry-run>> in use. *)
  Findings    (* The detections an engine may make of a file, in a Seq.  *)

Profiles == DOMAIN ProfileThreshold

ASSUME SettingsAssumption ==
  \A s \in Settings : s.enabled \in [Engines -> BOOLEAN] /\ s.profile \in Profiles

ASSUME ResourcesAssumption ==
  \A s \in Settings :
    LET r == s.resources
    IN  /\ r["clamav"].executable \in {"unset", "directory", "absent", "file"}
        /\ r["clamav"].database \in {"absent", "file", "empty", "files"}
        /\ r["yara"].module \in BOOLEAN
        /\ r["capa"].executable \in {"unset", "directory", "absent", "file"}
        /\ \A e \in {"yara", "capa"} :
             /\ r[e].rules \in Nat \cup {NoRules}
             /\ r[e].manifest.state \in {"absent", "unreadable", "readable"}
             /\ ManifestReadable(r[e]) =>
                  r[e].manifest.vendor \in {"none", "placeholder", "vendored", "other"}

ASSUME ScanModesAssumption == ScanModes \subseteq QuarantineModes

ASSUME FindingsAssumption == Findings \subseteq Seq(Detection)

(* The order of ScanOrchestrator.adapters.                                 *)
AdapterOrder == <<"clamav", "yara", "capa">>

VARIABLES
  settings,    (* The configuration of this run.                           *)
  mode,        (* Its quarantine mode.                                     *)
  pc,          (* The step of the scan, or how it ended.                   *)
  kind,        (* The detected type of the target.                         *)
  at,          (* The index in AdapterOrder of the adapter whose turn it is*)
  engines,     (* The results so far.                                      *)
  codes,       (* The codes of report.issues that decide a verdict.        *)
  status,      (* The overall_status of the report.                        *)
  quarantine,  (* The reason and `performed` of report.quarantine.         *)
  moved,       (* Whether the file is in the quarantine directory.         *)
  ending       (* History: how each engine that was started ended.         *)

vars == <<settings, mode, pc, kind, at, engines, codes, status, quarantine,
          moved, ending>>

Undecided == [reason |-> "none", performed |-> FALSE]
Adapter == AdapterOrder[at]

Init ==
  /\ settings \in Settings
  /\ mode \in ScanModes
  /\ pc = "hash"
  /\ kind = "unknown"
  /\ at = 1
  /\ engines = << >>
  /\ codes = {}
  /\ status = "scan_error"
  /\ quarantine = Undecided
  /\ moved = FALSE
  /\ ending = << >>

-----------------------------------------------------------------------------

(* Hash the target and detect its type.                                    *)
Hash ==
  /\ pc = "hash"
  /\ \E k \in Kinds : kind' = k
  /\ pc' = "rulesets"
  /\ UNCHANGED <<settings, mode, at, engines, codes, status, quarantine, moved,
                 ending>>

(* The target cannot be read: an OSError, which nothing here catches.      *)
HashFails ==
  /\ pc = "hash"
  /\ pc' = "raised"
  /\ UNCHANGED <<settings, mode, kind, at, engines, codes, status, quarantine,
                 moved, ending>>

(* The manifests of both rule sets are loaded, whether or not their engine *)
(* is enabled; one that lacks a required key raises a KeyError.            *)
LacksKeys(r) == ManifestReadable(r) /\ ~r.manifest.complete

LoadRulesets ==
  /\ pc = "rulesets"
  /\ pc' = IF \E e \in {"yara", "capa"} : LacksKeys(settings.resources[e])
           THEN "raised" ELSE "preflight"
  /\ UNCHANGED <<settings, mode, kind, at, engines, codes, status, quarantine,
                 moved, ending>>

PreflightResult(e) ==
  LET enabled == settings.enabled[e]
      applicable == enabled /\ Supports(e, kind)
  IN  [enabled |-> enabled,
       applicable |-> applicable,
       state |-> IF ~enabled THEN "skipped_policy"
                 ELSE IF ~applicable THEN "skipped_not_applicable"
                 ELSE PrecheckState(Discover(e, settings.resources[e])),
       detections |-> << >>]

With(f, e, x) == [d \in DOMAIN f \cup {e} |-> IF d = e THEN x ELSE f[d]]

(* Mutant of NextTurn: the last adapter gets no turn.                      *)
NextTurnStopsShort(from, to) ==
  /\ pc = from
  /\ IF at + 1 < Len(AdapterOrder)
     THEN at' = at + 1 /\ pc' = from
     ELSE at' = 1 /\ pc' = to

(* The adapters take their turns once for the preflight, once to scan.     *)
NextTurn(from, to) ==
  /\ pc = from
  /\ IF at < Len(AdapterOrder)
     THEN at' = at + 1 /\ pc' = from
     ELSE at' = 1 /\ pc' = to

Preflight ==
  /\ NextTurn("preflight", "scan")
  /\ engines' = With(engines, Adapter, PreflightResult(Adapter))
  /\ UNCHANGED <<settings, mode, kind, codes, status, quarantine, moved, ending>>

(* Mutant of Ready: what the preflight found is not looked at.             *)
ReadyWithoutPreflight(e) == engines[e].enabled /\ engines[e].applicable

(* Only an engine that its preflight found ready is run.                   *)
Ready(e) ==
  engines[e].state = "ok" /\ engines[e].enabled /\ engines[e].applicable

Skip ==
  /\ NextTurn("scan", "resolve")
  /\ ~Ready(Adapter)
  /\ UNCHANGED <<settings, mode, kind, engines, codes, status, quarantine, moved,
                 ending>>

(* The result of the adapter takes the place of the one of its preflight.  *)
ScanResult(e, how, found) ==
  [enabled |-> TRUE, applicable |-> TRUE, state |-> StateAfter(e, how),
   detections |-> IF how = "answered" THEN found ELSE << >>]

Scan(how, found) ==
  /\ NextTurn("scan", "resolve")
  /\ Ready(Adapter)
  /\ how \in Endings(Adapter, settings.resources[Adapter]) \ {"raised"}
  /\ Range(found) \subseteq Makes(Adapter)
  /\ engines' = With(engines, Adapter, ScanResult(Adapter, how, found))
  /\ ending' = With(ending, Adapter, how)
  /\ UNCHANGED <<settings, mode, kind, codes, status, quarantine, moved>>

ScanRaises ==
  /\ pc = "scan"
  /\ Ready(Adapter)
  /\ "raised" \in Endings(Adapter, settings.resources[Adapter])
  /\ pc' = "raised"
  /\ ending' = With(ending, Adapter, "raised")
  /\ UNCHANGED <<settings, mode, kind, at, engines, codes, status, quarantine,
                 moved>>

Verdict(issueCodes) == Resolve(issueCodes, settings.profile, engines)

ResolveVerdict ==
  /\ pc = "resolve"
  /\ status' = Verdict(codes)
  /\ pc' = "quarantine"
  /\ UNCHANGED <<settings, mode, kind, at, engines, codes, quarantine, moved,
                 ending>>

Decided == Decision(mode, status)

Decline ==
  /\ pc = "quarantine"
  /\ Decided # "move"
  /\ quarantine' = [reason |-> Decided, performed |-> FALSE]
  /\ pc' = "done"
  /\ UNCHANGED <<settings, mode, kind, at, engines, codes, status, moved, ending>>

Move ==
  /\ pc = "quarantine"
  /\ Decided = "move"
  /\ quarantine' = [reason |-> "moved_to_quarantine", performed |-> TRUE]
  /\ moved' = TRUE
  /\ pc' = "done"
  /\ UNCHANGED <<settings, mode, kind, at, engines, codes, status, ending>>

(* Mutant of MoveFails: the verdict is not resolved again.                 *)
MoveFailsKeepsVerdict ==
  /\ pc = "quarantine"
  /\ Decided = "move"
  /\ moved' \in BOOLEAN
  /\ codes' = codes \cup {"scan_error"}
  /\ pc' = "done"
  /\ UNCHANGED <<settings, mode, kind, at, engines, status, quarantine, ending>>

(* An OSError of the move, or of the audit that follows it, becomes a      *)
(* QuarantineError: the action is lost, an issue is added, and the verdict *)
(* is resolved again.                                                      *)
MoveFails ==
  /\ pc = "quarantine"
  /\ Decided = "move"
  /\ moved' \in BOOLEAN
  /\ codes' = codes \cup {"scan_error"}
  /\ status' = Verdict(codes')
  /\ pc' = "done"
  /\ UNCHANGED <<settings, mode, kind, at, engines, quarantine, ending>>

EndingsInUse == {"answered", "timeout", "oserror", "failed", "killed", "garbled"}

Next ==
  \/ Hash \/ HashFails \/ LoadRulesets
  \/ Preflight
  \/ Skip \/ ScanRaises
  \/ \E how \in EndingsInUse, found \in Findings : Scan(how, found)
  \/ ResolveVerdict
  \/ Decline \/ Move \/ MoveFails

(* Every engine is run with a timeout, so every step ends.                 *)
Spec == Init /\ [][Next]_vars /\ WF_vars(Next)

-----------------------------------------------------------------------------
(* Correctness.                                                            *)

Pcs == {"hash", "rulesets", "preflight", "scan", "resolve", "quarantine", "done",
        "raised"}

Reasons == {"none", "quarantine_disabled", "verdict_not_eligible_for_quarantine",
            "user_confirmation_required", "dry_run_requested",
            "moved_to_quarantine"}

(* The type of every variable.  The results come in the adapters' order.   *)
TypeOK ==
  /\ settings \in Settings
  /\ mode \in ScanModes
  /\ pc \in Pcs
  /\ kind \in Kinds \cup {"unknown"}
  /\ at \in DOMAIN AdapterOrder
  /\ DOMAIN engines \subseteq Engines
  /\ \A e \in DOMAIN engines : engines[e] \in EngineResult
  /\ pc \notin {"hash", "rulesets", "preflight", "raised"} => DOMAIN engines = Engines
  /\ codes \subseteq ErrorCodes
  /\ status \in VerdictStatuses
  /\ quarantine.reason \in Reasons /\ quarantine.performed \in BOOLEAN
  /\ moved \in BOOLEAN
  /\ DOMAIN ending \subseteq Engines
  /\ \A e \in DOMAIN ending : ending[e] \in EndingsInUse \cup {"raised"}

Required == {e \in Engines : settings.enabled[e] /\ Supports(e, kind)}

(* Everything an engine needs, said without the order of the adapters.     *)
Equipped(e) ==
  LET r == settings.resources[e]
      Consistent == /\ RuleCount(r) > 0
                    /\ ManifestReadable(r)
                    /\ r.manifest.count \in {NoRules, RuleCount(r)}
                    /\ r.manifest.vendor # "placeholder"
  IN  CASE e = "clamav" -> r.executable = "file" /\ r.database = "files"
        [] e = "yara" -> r.module /\ Consistent
        [] e = "capa" -> r.executable = "file" /\ Consistent
                         /\ r.manifest.vendor = "vendored"

Clean == pc = "done" /\ status = "clean_by_known_checks"

(* architecture.md 38: no clean verdict when a required enabled engine is  *)
(* missing or unavailable.  At least one engine is enabled and supports the*)
(* type of the file; each of them had all it needs and was run, and        *)
(* answered, except that a clamscan that ended by a signal, or with a code *)
(* of its own, passes for one that answered (see UnfinishedIsNotClean).    *)
Served(e) == ending[e] = "answered" \/ (e = "clamav" /\ ending[e] = "killed")

CleanIsEarned ==
  Clean =>
    /\ Required # {}
    /\ Required = DOMAIN ending
    /\ \A e \in Required : Equipped(e) /\ Served(e)

(* operations.md 7.5: when a step that is enabled and applicable did not   *)
(* complete, the scan is partial; that is not clean.                       *)
UnfinishedIsNotClean ==
  Clean => \A e \in Required : ending[e] = "answered"

Convicted == HasKnownMalicious(engines)

(* A finding with high confidence that a file is malicious decides the     *)
(* verdict whatever the other engines lack or fail at; only a quarantine   *)
(* that fails hides it, behind scan_error.  The verdict comes of nothing   *)
(* else.                                                                   *)
ConvictionDecides ==
  pc = "done" =>
    /\ Convicted => \/ status = "known_malicious"
                    \/ status = "scan_error" /\ codes = {"scan_error"}
    /\ status = "known_malicious" => Convicted

(* A file leaves its place only when it is convicted and the move was      *)
(* asked for, and never behind a report that looks like success: either it *)
(* says `performed` under known_malicious, or it is a scan_error.          *)
MovesAreReported ==
  /\ moved => Convicted /\ mode = <<"move", FALSE>>
  /\ pc = "done" /\ moved =>
       IF quarantine.performed THEN status = "known_malicious"
       ELSE status = "scan_error"
  /\ quarantine.performed => moved

-----------------------------------------------------------------------------
(* The scan of one file as the archive and directory scans see it.         *)

Ended == pc \in {"done", "raised"}

Promise ==
  INSTANCE ScanPromise WITH
    Statuses <- VerdictStatuses,
    mayMove <- mode = <<"move", FALSE>>,
    phase <- IF Ended THEN pc ELSE "scanning",
    convicted <- Convicted,
    report <- IF pc = "done" THEN [status |-> status, performed |-> quarantine.performed]
              ELSE [status |-> "none", performed |-> FALSE]

(* The scan of a file implements the promise: it ends, whatever the        *)
(* engines do; a result never loses a conviction on its way to the report; *)
(* and the quarantine acts on nothing but a conviction and a request.      *)
KeepsPromise == Promise!Spec
=============================================================================
