----------------------------- MODULE MCFileScan -----------------------------
(* Instances of FileScan for TLC: one engine at a time lacks something.    *)
EXTENDS FileScan

Manifest(vendor, count, complete) ==
  [state |-> "readable", vendor |-> vendor, count |-> count, complete |-> complete]

Manifests == {[state |-> s] : s \in {"absent", "unreadable"}}
             \cup {Manifest(v, n, c) : v \in {"none", "placeholder", "vendored", "other"},
                                       n \in {NoRules, 0, 1}, c \in BOOLEAN}

Rules == {NoRules, 0, 1}

Good == [clamav |-> [executable |-> "file", database |-> "files"],
         yara |-> [module |-> TRUE, rules |-> 1, manifest |-> Manifest("none", 1, TRUE)],
         capa |-> [executable |-> "file", rules |-> 1,
                   manifest |-> Manifest("vendored", 1, TRUE)]]

(* validate_config refuses an enabled engine without an executable.        *)
ClamAvResources == [executable : {"directory", "absent", "file"},
                    database : {"absent", "file", "empty", "files"}]
YaraResources == [module : BOOLEAN, rules : Rules, manifest : Manifests]
CapaResources == [executable : {"absent", "directory", "file"}, rules : Rules,
                  manifest : Manifests]

Resources == {[Good EXCEPT !.clamav = r] : r \in ClamAvResources}
             \cup {[Good EXCEPT !.yara = r] : r \in YaraResources}
             \cup {[Good EXCEPT !.capa = r] : r \in CapaResources}

AllOn == [e \in Engines |-> TRUE]

(* Every resource with every engine on, and every choice of engines and of *)
(* profile with every resource there.                                      *)
TestSettings ==
  {[enabled |-> AllOn, profile |-> "balanced", resources |-> r] : r \in Resources}
  \cup [enabled : [Engines -> BOOLEAN], profile : Profiles, resources : {Good}]

(* A few of them are enough to see an engine fail.                         *)
GoodSettings == [enabled : {AllOn}, profile : {"balanced"}, resources : {Good}]

D(severity, confidence, category) ==
  [severity |-> severity, confidence |-> confidence, category |-> category]

TestFindings ==
  {<< >>,
   <<D("high", "high", "malicious")>>,
   <<D("high", "medium", "malicious")>>,
   <<D("low", "low", "suspicious")>>,
   <<D("medium", "medium", "suspicious")>>,
   <<D("low", "low", "suspicious"), D("low", "high", "malicious")>>}

TestModes == {<<"off", FALSE>>, <<"ask", FALSE>>, <<"move", FALSE>>, <<"move", TRUE>>}
=============================================================================
