---------------------------- MODULE Configuration -----------------------------
(***************************************************************************)
(* load_app_config: the configuration of a command, from the TOML file, a  *)
(* local file beside it, the environment and the options of the command    *)
(* line, the later ones laid over the earlier ones; then checked by the    *)
(* data model of AppConfig, and at last by validate_config.                *)
(***************************************************************************)
EXTENDS Integers, Sequences, SequencesExt

CONSTANT Absolute (* The texts that are absolute paths. *)

(* A TOML value is a record whose one field names its kind.                *)
Table(entries) == [table |-> entries]
Text(t) == [text |-> t]
Number(n) == [number |-> n]
Flag(b) == [flag |-> b]
List(items) == [list |-> items]
Unset == [unset |-> TRUE]

Kind(v) == CHOOSE k \in DOMAIN v : TRUE
IsTable(v) == Kind(v) = "table"

NoEntries == [key \in {} |-> Unset]

(* What a TOML file can hold, as deep as the settings go.                  *)
IsValue(v) == \E kind \in {"table", "text", "number", "flag", "list"} : DOMAIN v = {kind}
HasValues(entries) == \A key \in DOMAIN entries : IsValue(entries[key])
IsSection(entries) ==
  /\ HasValues(entries)
  /\ \A key \in DOMAIN entries : IsTable(entries[key]) => HasValues(entries[key].table)
IsData(entries) ==
  /\ HasValues(entries)
  /\ \A key \in DOMAIN entries : IsTable(entries[key]) => IsSection(entries[key].table)

-----------------------------------------------------------------------------
(* The settings, and their values when no source gives one.  A setting is  *)
(* the sequence of the keys that lead to it.                               *)

Engines == {"clamav", "yara", "capa"}

EngineDefaults == [enabled |-> Flag(TRUE), executable |-> Unset, database_dir |-> Unset,
                   rules_dir |-> Unset, manifest |-> Unset]

SectionDefaults ==
  [app |-> [default_profile |-> Text("balanced"), report_output_dir |-> Text("reports"),
            verbose |-> Flag(FALSE)],
   timeouts |-> [hash_seconds |-> Number(10), clamav_seconds |-> Number(60),
                 yara_seconds |-> Number(30), capa_seconds |-> Number(90)],
   quarantine |-> [directory |-> Text("quarantine")],
   directory_scan |->
     [ignored_directory_names |-> List(<<".git", ".venv", "__pycache__">>),
      ignored_file_names |-> List(<< >>), ignored_suffixes |-> List(<< >>),
      ignored_patterns |-> List(<< >>), zip_expansion_enabled |-> Flag(TRUE),
      max_archive_expansion_depth |-> Number(1), max_archive_member_count |-> Number(256),
      max_archive_total_bytes |-> Number(134217728)]]

Settings ==
  (UNION {{<<s, key>> : key \in DOMAIN SectionDefaults[s]} : s \in DOMAIN SectionDefaults})
  \cup {<<"engines", e, key>> : e \in Engines, key \in DOMAIN EngineDefaults}

Default(p) == IF p[1] = "engines" THEN EngineDefaults[p[3]] ELSE SectionDefaults[p[1]][p[2]]

IsPath(p) == p[Len(p)] \in {"report_output_dir", "directory", "executable", "database_dir",
                            "rules_dir", "manifest"}

-----------------------------------------------------------------------------
(* Layers.                                                                 *)

(* _deep_merge, with what it does to two tables under one key.             *)
Overlay(left, right, Both(_, _)) ==
  [key \in DOMAIN left \cup DOMAIN right |->
     IF key \in DOMAIN left \cap DOMAIN right /\ IsTable(left[key]) /\ IsTable(right[key])
     THEN Table(Both(left[key].table, right[key].table))
     ELSE IF key \in DOMAIN right THEN right[key] ELSE left[key]]

(* Settings are three keys deep at most.                                   *)
MergeInSection(left, right) == Overlay(left, right, LAMBDA l, r : r)
MergeSections(left, right) == Overlay(left, right, MergeInSection)

(* Mutant of DeepMerge: a section replaces the section under it.           *)
DeepMergeWhole(left, right) == right @@ left

DeepMerge(left, right) == Overlay(left, right, MergeSections)

(* _set_nested for all of some settings.                                   *)
Nested(values) ==
  LET paths == DOMAIN values
      Inside(s, key) == {p \in paths : p[1] = s /\ p[2] = key}
      Keys(s) == {p[2] : p \in {q \in paths : q[1] = s}}
  IN  [s \in {p[1] : p \in paths} |-> Table([key \in Keys(s) |->
         IF <<s, key>> \in paths THEN values[<<s, key>>]
         ELSE Table([last \in {p[3] : p \in Inside(s, key)} |-> values[<<s, key, last>>]])])]

EnvMap == [SCANBOX_DEFAULT_PROFILE |-> <<"app", "default_profile">>,
           SCANBOX_VERBOSE |-> <<"app", "verbose">>,
           SCANBOX_REPORT_OUTPUT_DIR |-> <<"app", "report_output_dir">>,
           SCANBOX_CLAMAV_EXECUTABLE |-> <<"engines", "clamav", "executable">>,
           SCANBOX_CLAMAV_DATABASE_DIR |-> <<"engines", "clamav", "database_dir">>,
           SCANBOX_YARA_RULES_DIR |-> <<"engines", "yara", "rules_dir">>,
           SCANBOX_YARA_MANIFEST |-> <<"engines", "yara", "manifest">>,
           SCANBOX_CAPA_EXECUTABLE |-> <<"engines", "capa", "executable">>,
           SCANBOX_CAPA_RULES_DIR |-> <<"engines", "capa", "rules_dir">>,
           SCANBOX_CAPA_MANIFEST |-> <<"engines", "capa", "manifest">>,
           SCANBOX_QUARANTINE_DIRECTORY |-> <<"quarantine", "directory">>]

ParseEnvValue(t) == IF t \in {"true", "false"} THEN Flag(t = "true") ELSE Text(t)

EnvNames(env, p) == {name \in DOMAIN env : EnvMap[name] = p}
ReadEnv(env) ==
  Nested([p \in {EnvMap[name] : name \in DOMAIN env} |->
            ParseEnvValue(env[CHOOSE name \in EnvNames(env, p) : TRUE])])

(* The sources of a configuration.  A file is "missing", "broken" (not     *)
(* TOML), "unreadable", or holds data.  No profile is the text "".         *)
File(state, data) == [state |-> state, data |-> data]

Profile == <<"app", "default_profile">>
Verbose == <<"app", "verbose">>
CliData(sources) ==
  Nested([p \in (IF sources.profile = "" THEN {} ELSE {Profile})
               \cup (IF sources.verbose THEN {Verbose} ELSE {}) |->
            IF p = Profile THEN Text(sources.profile) ELSE Flag(TRUE)])

(* The local file counts when it is there, and when the file is not itself *)
(* a local one.                                                            *)
UsesLocal(sources) == ~sources.isLocal /\ sources.local.state # "missing"

-----------------------------------------------------------------------------
(* What AppConfig makes of the data.                                       *)

(* What is at a path, and what is under a key.                             *)
Under(v, key) == IF IsTable(v) /\ key \in DOMAIN v.table THEN v.table[key] ELSE Unset
At(data, p) ==
  LET at[n \in 0 .. Len(p)] == IF n = 0 THEN Table(data) ELSE Under(at[n - 1], p[n])
  IN  at[Len(p)]

(* Words stand for flags, as 0 and 1 do, and flags for numbers.  The texts *)
(* in use are not numerals otherwise.                                      *)
TrueWords == {"1", "on", "t", "true", "y", "yes"}
FalseWords == {"0", "off", "f", "false", "n", "no"}

Accepts(p, v) ==
  CASE p = Profile ->
         Kind(v) = "text" /\ v.text \in {"conservative", "balanced", "aggressive"}
    [] IsPath(p) -> Kind(v) = "text"
    [] Kind(Default(p)) = "number" -> Kind(v) \in {"number", "flag"}
    [] Kind(Default(p)) = "flag" -> \/ Kind(v) = "flag"
                                    \/ Kind(v) = "number" /\ v.number \in {0, 1}
                                    \/ Kind(v) = "text" /\ v.text \in TrueWords \cup FalseWords
    [] OTHER -> Kind(v) = "list"

Converted(p, v) ==
  IF Kind(v) = Kind(Default(p)) THEN v
  ELSE CASE Kind(Default(p)) = "number" -> Number(IF v.flag THEN 1 ELSE 0)
         [] Kind(Default(p)) = "flag" ->
              Flag(IF Kind(v) = "number" THEN v.number = 1 ELSE v.text \in TrueWords)
         [] OTHER -> v

Above(p) == {SubSeq(p, 1, n) : n \in 1 .. Len(p) - 1}

(* A section that is not a table, a value of another type, or one of the   *)
(* two names the loader passes itself.                                     *)
Rejected(data) ==
  \/ {"root_dir", "config_path"} \cap DOMAIN data # {}
  \/ \E p \in Settings :
       \/ \E q \in Above(p) : At(data, q) # Unset /\ ~IsTable(At(data, q))
       \/ At(data, p) # Unset /\ ~Accepts(p, At(data, p))

(* normalize_path: relative to the directory the command is run in, which  *)
(* is also what the empty text stands for.                                 *)
Normalized(p, v) ==
  IF ~IsPath(p) \/ v = Unset THEN v
  ELSE [path |-> IF v.text \in Absolute THEN <<v.text>>
                 ELSE IF v.text = "" THEN <<"cwd">> ELSE <<"cwd", v.text>>]

Configured(data) ==
  [p \in Settings |->
     Normalized(p, IF At(data, p) = Unset THEN Default(p) ELSE Converted(p, At(data, p)))]

-----------------------------------------------------------------------------
(* What validate_config asks for.                                          *)

Needs == [clamav |-> {"executable", "database_dir"}, yara |-> {"rules_dir", "manifest"},
          capa |-> {"executable", "rules_dir", "manifest"}]

AtLeast == [hash_seconds |-> 1, clamav_seconds |-> 1, yara_seconds |-> 1, capa_seconds |-> 1,
            max_archive_expansion_depth |-> 0, max_archive_member_count |-> 1,
            max_archive_total_bytes |-> 1]

Valid(config) ==
  /\ \A p \in Settings : p[2] \in DOMAIN AtLeast => config[p].number >= AtLeast[p[2]]
  /\ \A e \in Engines : config[<<"engines", e, "enabled">>].flag =>
       \A key \in Needs[e] : config[<<"engines", e, key>>] # Unset

-----------------------------------------------------------------------------
(* The code of the error that a step of loading ends with, or "none".      *)

FileProblem(file) == CASE file.state \in {"missing", "broken"} -> "config_error"
                       [] file.state = "unreadable" -> "internal_error"
                       [] OTHER -> "none"

DataProblem(data) == IF Rejected(data) THEN "internal_error"
                     ELSE IF ~Valid(Configured(data)) THEN "config_error" ELSE "none"

-----------------------------------------------------------------------------
(* The order of the sources, setting by setting: what a command is told of *)
(* a setting by the first of its options, the environment, the local file  *)
(* and the file that says anything of it.  A local file that puts a value  *)
(* in the place of a section takes away what the file says below it.       *)

EnvSays(env, p) ==
  IF EnvNames(env, p) = {} THEN Unset
  ELSE ParseEnvValue(env[CHOOSE name \in EnvNames(env, p) : TRUE])

OptionSays(sources, p) ==
  CASE p = Profile /\ sources.profile # "" -> Text(sources.profile)
    [] p = Verbose /\ sources.verbose -> Flag(TRUE)
    [] OTHER -> Unset

LocalHides(sources, p) ==
  /\ UsesLocal(sources)
  /\ \E q \in Above(p) : LET v == At(sources.local.data, q)
                         IN  v # Unset /\ ~IsTable(v)

Told(sources, p) ==
  LET local == IF UsesLocal(sources) THEN At(sources.local.data, p) ELSE Unset
      file == IF LocalHides(sources, p) THEN Unset ELSE At(sources.file.data, p)
      said == <<file, local, EnvSays(sources.env, p), OptionSays(sources, p)>>
      given == {k \in DOMAIN said : said[k] # Unset}
  IN  IF given = {} THEN Default(p) ELSE Converted(p, said[Max(given)])
=============================================================================
