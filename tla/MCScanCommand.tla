--------------------------- MODULE MCScanCommand ----------------------------
(* Instances of ScanCommand for TLC: a tree three directories deep, with   *)
(* what can be odd about it one or two at a time, and for one of the trees *)
(* many combinations of sources of the configuration.                      *)
EXTENDS ScanCommand, TLC

CONSTANTS root, sub, deep

Base == [parent |-> (root :> root) @@ (sub :> root) @@ (deep :> sub),
         unreadable |-> {}, ignoredDirs |-> {}, ignoredNames |-> {},
         in |-> [n \in Names |-> IF n = 1 THEN root ELSE deep],
         leads |-> [n \in Names |-> n]]

TestLayouts ==
  {[Base EXCEPT !.unreadable = u, !.ignoredDirs = i, !.ignoredNames = m] :
     u \in SUBSET {root, sub, deep}, i \in {{}, {sub}, {deep}}, m \in {{}, {2}}}
  \cup {[Base EXCEPT !.leads[2] = l, !.ignoredNames = m] :
          l \in {1, Elsewhere}, m \in {{}, {2}}}
  \cup {[Base EXCEPT !.in = [n \in Names |-> sub], !.parent[deep] = root,
                     !.unreadable = u, !.ignoredDirs = {deep}] : u \in {{}, {deep}}}

TestModes == {<<"ask", FALSE>>, <<"ask", TRUE>>, <<"move", FALSE>>}

-----------------------------------------------------------------------------
(* Reports: all clean; a convicted archive with a member two levels down   *)
(* whose capa failed; a capa that found nothing to say; a damaged archive. *)

Ok(keys) == [key \in keys |-> "filled"]
Clam == Ok({"command", "returncode", "match_count", "result_summary", "stdout", "stderr"})
Yara == Ok({"match_count", "match_rules", "result_summary"})
Capa == Ok({"command", "returncode", "runtime_temp_dir", "result_summary", "rule_count",
            "analysis_summary", "meta"})
CapaFailed == Ok({"command", "returncode", "runtime_temp_dir", "result_summary",
                  "failure_summary"})
Raw(capa) == [clamav |-> Clam, yara |-> Yara, capa |-> capa]

TestReports ==
  {Root :> Part("clean_by_known_checks", Raw(Capa)),
   (Root :> Part("known_malicious", [clamav |-> Clam]))
     @@ (<<1>> :> Part("known_malicious", Raw(Capa)))
     @@ (<<1, 1>> :> Part("partial_scan", Raw(CapaFailed))),
   Root :> Part("partial_scan", Raw([Capa EXCEPT !["analysis_summary"] = "empty"])),
   (Root :> Part("scan_error", [yara |-> Yara])) @@ (<<1>> :> Part("scan_error", << >>))}

-----------------------------------------------------------------------------
(* Sources.  The file of the repository, with what some of its settings    *)
(* may be; local files that set, replace or spoil something.               *)

TomlFile ==
  [app |-> Table([default_profile |-> Text("balanced"), verbose |-> Flag(FALSE),
                  report_output_dir |-> Text("out")]),
   timeouts |-> Table([clamav_seconds |-> Number(60)]),
   engines |-> Table([clamav |-> Table([executable |-> Text("C:/clamscan"),
                                        database_dir |-> Text("db")]),
                      yara |-> Table([rules_dir |-> Text("yara"), manifest |-> Text("m")]),
                      capa |-> Table([enabled |-> Flag(FALSE)])])]

Plain == [file |-> File("read", TomlFile), isLocal |-> FALSE,
          local |-> File("missing", NoEntries), env |-> NoEntries,
          profile |-> "", verbose |-> FALSE]

TestFiles ==
  {File(state, NoEntries) : state \in {"missing", "broken", "unreadable", "read"}}
  \cup {File("read", TomlFile),
        File("read", [TomlFile EXCEPT !["timeouts"] = Table([capa_seconds |-> Number(0)])])}

TestLocals ==
  {File(state, NoEntries) : state \in {"missing", "broken", "unreadable"}}
  \cup {File("read", data) : data \in
          {[engines |-> Table([clamav |-> Table([executable |-> Text("other")])])],
           [app |-> Table([default_profile |-> Text("unknown"), verbose |-> Text("on")])],
           [engines |-> Table([clamav |-> Text("none")])],
           [engines |-> Table([capa |-> Table([enabled |-> Number(1)])]),
            timeouts |-> Table([clamav_seconds |-> Flag(TRUE)])],
           [directory_scan |-> Table([max_archive_expansion_depth |-> Number(0),
                                      no_such_setting |-> Number(-1)])]}}

TestEnvs ==
  {NoEntries,
   [SCANBOX_DEFAULT_PROFILE |-> "aggressive", SCANBOX_VERBOSE |-> "true"],
   [SCANBOX_CLAMAV_EXECUTABLE |-> "", SCANBOX_CLAMAV_DATABASE_DIR |-> "envdb"],
   [SCANBOX_QUARANTINE_DIRECTORY |-> "true", SCANBOX_CAPA_EXECUTABLE |-> "capa"]}

TestSources ==
  {[Plain EXCEPT !.file = f, !.isLocal = i, !.local = l] :
     f \in TestFiles, i \in BOOLEAN, l \in TestLocals}
  \cup {[Plain EXCEPT !.local = l, !.env = e, !.profile = p, !.verbose = (p # "")] :
          l \in TestLocals, e \in TestEnvs, p \in {"", "conservative"}}

TestSourcesFor ==
  [l \in TestLayouts |-> IF l = [Base EXCEPT !.unreadable = {root}] THEN TestSources
                         ELSE {Plain}]
=============================================================================
