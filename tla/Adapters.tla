------------------------------ MODULE Adapters -------------------------------
(***************************************************************************)
(* The engine adapters: what each finds when it looks for its executable,  *)
(* its database and its rules before a scan (discover), and what it makes  *)
(* of the way its engine ended (scan).                                     *)
(*                                                                         *)
(* The resources of an engine are a record of what is on the disk:         *)
(*   executable  "unset", "directory", "absent" or "file" (in PATH or not) *)
(*   database    "absent" (or unset), "file", "empty" or "files"           *)
(*   module      whether yara-python can be imported                       *)
(*   rules       the number of rule files, or NoRules without a directory  *)
(*   manifest    its state, "absent" (or unset), "unreadable" or           *)
(*               "readable", and then what it says: vendor status, rule    *)
(*               count (NoRules when it says nothing), and whether it has  *)
(*               the four keys a report needs                              *)
(***************************************************************************)
EXTENDS Verdicts

Engines == {"clamav", "yara", "capa"}

NoRules == -1
NoIssue == "none"

RulesExist(r) == r.rules # NoRules
RuleCount(r) == IF RulesExist(r) THEN r.rules ELSE 0
ManifestExists(r) == r.manifest.state # "absent"
ManifestReadable(r) == r.manifest.state = "readable"

-----------------------------------------------------------------------------
(* inspect_ruleset: why the manifest does not fit the rules.               *)

MismatchReasons(r, requireVendorStatus) ==
  IF ~ManifestExists(r) THEN {}
  ELSE IF ~ManifestReadable(r) THEN {"manifest_unreadable"}
  ELSE LET m == r.manifest
           wrong == [vendor_status_missing |-> requireVendorStatus /\ m.vendor = "none",
                     invalid_vendor_status |-> requireVendorStatus /\ m.vendor = "other",
                     rule_count_mismatch |-> m.count \notin {NoRules, RuleCount(r)},
                     placeholder_with_rules |-> m.vendor = "placeholder" /\ RuleCount(r) > 0,
                     vendored_without_rules |-> m.vendor = "vendored" /\ RuleCount(r) = 0]
       IN  {reason \in DOMAIN wrong : wrong[reason]}

(* The rules and the manifest, in the order in which yara and capa look.   *)
RulesetIssue(r, requireVendorStatus) ==
  IF ~RulesExist(r) THEN "rules_missing"
  ELSE IF ~ManifestExists(r) THEN "manifest_missing"
  ELSE IF MismatchReasons(r, requireVendorStatus) # {} THEN "manifest_mismatch"
  ELSE IF requireVendorStatus /\ r.manifest.vendor = "placeholder"
       THEN "rules_placeholder"
  ELSE IF RuleCount(r) = 0 THEN "rules_empty"
  ELSE NoIssue

-----------------------------------------------------------------------------
(* discover: the first thing an adapter finds wrong.                       *)

DiscoverClamAv(r) ==
  IF r.executable \in {"unset", "absent"} THEN "executable_missing"
  ELSE IF r.executable = "directory" THEN "configured_path_invalid"
  ELSE IF r.database = "absent" THEN "database_missing"
  ELSE IF r.database = "file" THEN "configured_path_invalid"
  ELSE IF r.database = "empty" THEN "database_empty"
  ELSE NoIssue

DiscoverYara(r) ==
  IF ~r.module THEN "python_module_missing" ELSE RulesetIssue(r, FALSE)

(* A directory passes for an executable here.                              *)
DiscoverCapa(r) ==
  IF r.executable \in {"unset", "absent"} THEN "executable_missing"
  ELSE RulesetIssue(r, TRUE)

Discover(e, r) ==
  CASE e = "clamav" -> DiscoverClamAv(r)
    [] e = "yara" -> DiscoverYara(r)
    [] e = "capa" -> DiscoverCapa(r)

(* The engine state of each issue of discover.                             *)
PrecheckState(issue) ==
  IF issue = NoIssue THEN "ok"
  ELSE IF issue = "manifest_mismatch" THEN "unavailable"
  ELSE "missing"

Supports(e, kind) == e = "capa" => kind \in {"pe", "elf", "macho"}

-----------------------------------------------------------------------------
(* scan: how an engine can end, and the state each adapter makes of it.    *)
(*   "answered"  it ran to its end and its answer could be read            *)
(*   "timeout"   it was stopped after its time                             *)
(*   "oserror"   it could not be started                                   *)
(*   "failed"    it said that it failed: clamscan 2, capa not 0, yara      *)
(*               raising an exception                                      *)
(*   "killed"    it ended by a signal, or with a code of its own           *)
(*   "garbled"   it exited with 0 and what it printed is not JSON          *)
(*   "raised"    the adapter raised: the temporary directory of capa       *)
(*               cannot be made, or its JSON is not an object; or a rule   *)
(*               of yara that matched has a title that is not text         *)

Endings(e, r) ==
  CASE e = "clamav" -> {"answered", "timeout", "oserror", "failed", "killed"}
    [] e = "yara" -> {"answered", "timeout", "failed", "raised"}
    [] e = "capa" -> IF r.executable = "directory" THEN {"oserror", "raised"}
                     ELSE {"answered", "timeout", "oserror", "failed", "killed",
                           "garbled", "raised"}

(* Only the exit code 2 of clamscan counts as a failure.                   *)
ClamAvState(ending) ==
  CASE ending = "timeout" -> "timeout"
    [] ending \in {"oserror", "failed"} -> "unavailable"
    [] ending \in {"answered", "killed"} -> "ok"

YaraState(ending) ==
  CASE ending = "timeout" -> "timeout"
    [] ending = "failed" -> "unavailable"
    [] ending = "answered" -> "ok"

CapaState(ending) ==
  CASE ending = "timeout" -> "timeout"
    [] ending \in {"oserror", "failed", "killed"} -> "unavailable"
    [] ending = "garbled" -> "error"
    [] ending = "answered" -> "ok"

StateAfter(e, ending) ==
  CASE e = "clamav" -> ClamAvState(ending)
    [] e = "yara" -> YaraState(ending)
    [] e = "capa" -> CapaState(ending)

(* The detections an adapter makes: only yara takes the level from a rule; *)
(* a rule of yara that is not malicious is suspicious whatever it says.    *)
Makes(e) ==
  CASE e = "clamav" -> {[severity |-> "high", confidence |-> "high",
                         category |-> "malicious"]}
    [] e = "yara" -> {d \in Detection : d.category # "informational"}
    [] e = "capa" -> {[severity |-> "medium", confidence |-> "medium",
                       category |-> "suspicious"]}
=============================================================================
