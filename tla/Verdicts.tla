------------------------------ MODULE Verdicts -------------------------------
(***************************************************************************)
(* What ScanBox decides from a report: the verdict on one file, from the   *)
(* results of its engines; the overall status of a set of verdicts (of an  *)
(* archive and its members, of the files of a directory); and whether the  *)
(* quarantine service may move the target.                                 *)
(***************************************************************************)
EXTENDS Integers, Sequences, SequencesExt

(* EngineState, VerdictStatus and ScanProfile.                             *)
EngineStates == {"ok", "skipped_policy", "skipped_not_applicable", "missing",
                 "unavailable", "timeout", "error"}

(* Statuses from the one that wins to the one that gives way to all.       *)
VerdictPriority ==
  <<"scan_error", "known_malicious", "suspicious", "engine_missing",
    "engine_unavailable", "partial_scan", "clean_by_known_checks">>

VerdictStatuses == Range(VerdictPriority)

Levels == {"low", "medium", "high"}

Detection == [severity : Levels, confidence : Levels,
              category : {"malicious", "suspicious", "informational"}]

EngineResult == [enabled : BOOLEAN, applicable : BOOLEAN,
                 state : EngineStates, detections : Seq(Detection)]

-----------------------------------------------------------------------------
(* The verdict on one file.                                                *)

ProfileThreshold == [conservative |-> 4, balanced |-> 3, aggressive |-> 2]

SeverityWeight == [low |-> 1, medium |-> 2, high |-> 3]
ConfidenceWeight == [low |-> 0, medium |-> 1, high |-> 2]
CategoryBonus == [malicious |-> 2, suspicious |-> 1, informational |-> 0]

Score(d) == SeverityWeight[d.severity] + ConfidenceWeight[d.confidence]
            + CategoryBonus[d.category]

IsKnownMalicious(d) == d.category = "malicious" /\ d.confidence = "high"

HasKnownMalicious(engines) ==
  \E e \in DOMAIN engines :
    \E k \in DOMAIN engines[e].detections :
      IsKnownMalicious(engines[e].detections[k])

(* The score of one engine's detections; informational ones do not count.  *)
EngineScore(result) ==
  FoldLeft(LAMBDA sum, d : sum + Score(d), 0,
           SelectSeq(result.detections, LAMBDA d : d.category # "informational"))

IsSuspicious(profile, engines) ==
  FoldFunction(+, 0, [e \in DOMAIN engines |-> EngineScore(engines[e])])
    >= ProfileThreshold[profile]

Applicable(engines) ==
  {e \in DOMAIN engines : engines[e].enabled /\ engines[e].applicable}

ApplicableStates(engines) == {engines[e].state : e \in Applicable(engines)}

ErrorCodes == {"input_error", "config_error", "scan_error"}

(* Mutant of Resolve: what is missing is looked at before what was found.  *)
ResolveMissingFirst(codes, profile, engines) ==
  LET states == ApplicableStates(engines)
  IN  IF codes \cap ErrorCodes # {} THEN "scan_error"
      ELSE IF "missing" \in states THEN "engine_missing"
      ELSE IF HasKnownMalicious(engines) THEN "known_malicious"
      ELSE IF IsSuspicious(profile, engines) THEN "suspicious"
      ELSE IF "unavailable" \in states THEN "engine_unavailable"
      ELSE IF states \cap {"error", "timeout"} # {} THEN "partial_scan"
      ELSE IF states = {"ok"} THEN "clean_by_known_checks"
      ELSE "scan_error"

Resolve(codes, profile, engines) ==
  LET states == ApplicableStates(engines)
  IN  IF codes \cap ErrorCodes # {} THEN "scan_error"
      ELSE IF HasKnownMalicious(engines) THEN "known_malicious"
      ELSE IF IsSuspicious(profile, engines) THEN "suspicious"
      ELSE IF "missing" \in states THEN "engine_missing"
      ELSE IF "unavailable" \in states THEN "engine_unavailable"
      ELSE IF states \cap {"error", "timeout"} # {} THEN "partial_scan"
      ELSE IF states = {"ok"} THEN "clean_by_known_checks"
      ELSE "scan_error"

-----------------------------------------------------------------------------
(* The status of a whole: the first of the priority order that is present. *)

(* Mutant of Overall: nothing present is taken for clean.                  *)
OverallCleanByDefault(present) ==
  LET found == {k \in DOMAIN VerdictPriority : VerdictPriority[k] \in present}
  IN  IF found = {} THEN "clean_by_known_checks"
      ELSE VerdictPriority[CHOOSE k \in found : \A m \in found : k <= m]

Overall(present) ==
  LET found == {k \in DOMAIN VerdictPriority : VerdictPriority[k] \in present}
  IN  IF found = {} THEN "scan_error"
      ELSE VerdictPriority[CHOOSE k \in found : \A m \in found : k <= m]

-----------------------------------------------------------------------------
(* What the quarantine service decides, as the reason it reports; "move"   *)
(* when it goes on to move the target.  A mode is the --quarantine option  *)
(* with the --dry-run-quarantine flag.                                     *)

QuarantineModes == {"off", "ask", "move"} \X BOOLEAN

(* Mutant of Decision: a dry run moves the file.                           *)
DecisionWithoutDryRun(mode, status) ==
  IF mode[1] = "off" THEN "quarantine_disabled"
  ELSE IF status # "known_malicious" THEN "verdict_not_eligible_for_quarantine"
  ELSE IF mode[1] = "ask" THEN "user_confirmation_required"
  ELSE "move"

Decision(mode, status) ==
  IF mode[1] = "off" THEN "quarantine_disabled"
  ELSE IF status # "known_malicious" THEN "verdict_not_eligible_for_quarantine"
  ELSE IF mode[1] = "ask" THEN "user_confirmation_required"
  ELSE IF mode[2] THEN "dry_run_requested"
  ELSE "move"
=============================================================================
