--------------------------- MODULE FileScanProofs ----------------------------
(***************************************************************************)
(* The safety properties of FileScan, and that it implements ScanPromise,  *)
(* for every configuration, every state of the engines' resources and any  *)
(* detections.  IInv says of each engine, by whose turn it is, whether its *)
(* result is still the one of its preflight or that of its scan, and of    *)
(* the verdict that it is the one of the results.                          *)
(***************************************************************************)
EXTENDS FileScan, TLAPS

Early == {"hash", "rulesets", "preflight"}
Scanned == {"resolve", "quarantine", "done"}

(* Before an engine has scanned, its result is that of its preflight.      *)
PreflightInv ==
  /\ pc \in {"hash", "rulesets"} => DOMAIN engines = {}
  /\ pc = "preflight" =>
       /\ DOMAIN engines = {AdapterOrder[k] : k \in 1 .. at - 1}
       /\ \A e \in DOMAIN engines : engines[e] = PreflightResult(e)
  /\ pc \in Early => DOMAIN ending = {}
  /\ pc \in {"hash", "rulesets"} => at = 1
  /\ pc \notin {"hash", "raised"} => kind \in Kinds

(* Afterwards it is that of its scan, which the preflight allowed.         *)
ResultInv ==
  pc \in {"scan"} \cup Scanned =>
    \A e \in Engines :
      IF e \in DOMAIN ending
      THEN /\ e \in Required
           /\ PreflightResult(e).state = "ok"
           /\ ending[e] \in Endings(e, settings.resources[e]) \ {"raised"}
           /\ engines[e].enabled /\ engines[e].applicable
           /\ engines[e].state = StateAfter(e, ending[e])
      ELSE engines[e] = PreflightResult(e)

(* Who has had his turn, and did not scan, was not ready.                  *)
TurnInv ==
  /\ pc = "scan" =>
       /\ \A k \in at .. 3 : AdapterOrder[k] \notin DOMAIN ending
       /\ \A k \in 1 .. at - 1 :
            AdapterOrder[k] \notin DOMAIN ending => ~Ready(AdapterOrder[k])
  /\ pc \in Scanned => \A e \in Engines \ DOMAIN ending : ~Ready(e)

(* The verdict is that of the results, and what was done follows it.       *)
VerdictInv ==
  /\ codes \in {{}, {"scan_error"}}
  /\ codes # {} => pc = "done"
  /\ pc \in {"quarantine", "done"} => status = Verdict(codes)
  /\ moved \/ quarantine.performed =>
       pc = "done" /\ Decision(mode, Verdict({})) = "move"
  /\ quarantine.performed => moved /\ codes = {}
  /\ moved /\ ~quarantine.performed => codes = {"scan_error"}

IInv == TypeOK /\ PreflightInv /\ ResultInv /\ TurnInv /\ VerdictInv

-----------------------------------------------------------------------------
(* The operators.                                                          *)

(* The adapters take their turns in an order without repetition.           *)
LEMMA Order ==
  /\ DOMAIN AdapterOrder = 1 .. 3 /\ Len(AdapterOrder) = 3
  /\ AdapterOrder[1] = "clamav" /\ AdapterOrder[2] = "yara" /\ AdapterOrder[3] = "capa"
  /\ Engines = {AdapterOrder[1], AdapterOrder[2], AdapterOrder[3]}
  /\ \A k, m \in 1 .. 3 : AdapterOrder[k] = AdapterOrder[m] => k = m
BY DEF AdapterOrder, Engines

(* The statuses, without their order.                                      *)
LEMMA StatusesListed ==
  VerdictStatuses = {"scan_error", "known_malicious", "suspicious", "engine_missing",
                     "engine_unavailable", "partial_scan", "clean_by_known_checks"}
BY DEF VerdictStatuses, VerdictPriority, Range

(* A verdict is a status; only a conviction makes it known_malicious, and  *)
(* nothing but an error code hides one.                                    *)
LEMMA ResolveFacts ==
  ASSUME NEW c, NEW p, NEW results
  PROVE  /\ Resolve(c, p, results) \in VerdictStatuses
         /\ Resolve(c, p, results) = "known_malicious" => HasKnownMalicious(results)
         /\ HasKnownMalicious(results) /\ c = {} => Resolve(c, p, results) = "known_malicious"
         /\ c = {"scan_error"} => Resolve(c, p, results) = "scan_error"
         /\ Resolve(c, p, results) = "clean_by_known_checks"
              => ApplicableStates(results) = {"ok"}
BY StatusesListed DEF Resolve, ErrorCodes

(* A move is decided only for known_malicious, and on request.             *)
LEMMA DecisionFacts ==
  \A m \in QuarantineModes : \A s :
    Decision(m, s) = "move" => s = "known_malicious" /\ m = <<"move", FALSE>>
<1> SUFFICES ASSUME NEW m \in QuarantineModes, NEW s, Decision(m, s) = "move"
             PROVE  s = "known_malicious" /\ m = <<"move", FALSE>>
  OBVIOUS
<1>1. PICK asked \in {"off", "ask", "move"}, dry \in BOOLEAN : m = <<asked, dry>>
  BY DEF QuarantineModes
<1>2. m[1] = asked /\ m[2] = dry
  BY <1>1
<1>3. s = "known_malicious" /\ asked = "move" /\ dry = FALSE
  BY <1>2 DEF Decision
<1>4. QED
  BY <1>1, <1>3

(* Any other decision is a reason.                                         *)
LEMMA DecisionIsReason ==
  ASSUME NEW m, NEW s, Decision(m, s) # "move"
  PROVE  Decision(m, s) \in Reasons
BY DEF Decision, Reasons

(* A preflight gives a result without detections.                          *)
LEMMA PreflightType ==
  ASSUME NEW e \in Engines, settings \in Settings
  PROVE  /\ PreflightResult(e) \in EngineResult
         /\ PreflightResult(e).detections = << >>
         /\ PreflightResult(e).enabled = settings.enabled[e]
         /\ PreflightResult(e).applicable = (settings.enabled[e] /\ Supports(e, kind))
<1>1. settings.enabled[e] \in BOOLEAN
  BY SettingsAssumption
<1>2. Supports(e, kind) \in BOOLEAN
  BY DEF Supports
<1>3. \A i : PrecheckState(i) \in EngineStates
  BY DEF PrecheckState, EngineStates
<1>4. << >> \in Seq(Detection)
  OBVIOUS
<1>5. QED
  BY <1>1, <1>2, <1>3, <1>4 DEF PreflightResult, EngineResult, EngineStates

(* Every way to end gives an engine state.                                 *)
LEMMA StateAfterType ==
  ASSUME NEW e \in Engines, NEW r, NEW how \in Endings(e, r) \ {"raised"}
  PROVE  StateAfter(e, how) \in EngineStates
BY DEF Engines, Endings, StateAfter, ClamAvState, YaraState, CapaState, EngineStates

(* What every value of a turn is.                                          *)
LEMMA TurnFacts ==
  ASSUME NEW from, NEW to, NextTurn(from, to), at \in 1 .. 3
  PROVE  /\ pc = from
         /\ at < 3 => at' = at + 1 /\ pc' = from
         /\ at = 3 => at' = 1 /\ pc' = to
BY Order DEF NextTurn

-----------------------------------------------------------------------------
(* The invariant is kept.                                                  *)

LEMMA InitInv == Init => IInv
<1> SUFFICES ASSUME Init PROVE IInv
  OBVIOUS
<1>1. TypeOK
  <2>1. DOMAIN engines = {} /\ DOMAIN ending = {}
    BY DEF Init
  <2>2. quarantine.reason = "none" /\ quarantine.performed = FALSE
    BY DEF Init, Undecided
  <2>3. /\ settings \in Settings /\ mode \in ScanModes /\ pc = "hash" /\ kind = "unknown"
        /\ at = 1 /\ codes = {} /\ status = "scan_error" /\ moved = FALSE
    BY DEF Init
  <2>4. pc \in Pcs /\ quarantine.reason \in Reasons /\ status \in VerdictStatuses
    BY <2>2, <2>3, StatusesListed DEF Pcs, Reasons
  <2>5. at \in DOMAIN AdapterOrder /\ codes \subseteq ErrorCodes
    BY <2>3, Order
  <2>6. DOMAIN engines \subseteq Engines /\ DOMAIN ending \subseteq Engines
    BY <2>1
  <2>7. /\ \A e \in DOMAIN engines : engines[e] \in EngineResult
        /\ \A e \in DOMAIN ending : ending[e] \in EndingsInUse \cup {"raised"}
    BY <2>1
  <2>8. QED
    BY <2>2, <2>3, <2>4, <2>5, <2>6, <2>7 DEF TypeOK
<1>2. PreflightInv
  BY DEF Init, PreflightInv, Early
<1>3. ResultInv /\ TurnInv
  BY DEF Init, ResultInv, TurnInv, Scanned
<1>4. VerdictInv
  BY DEF Init, VerdictInv, Undecided
<1>5. QED
  BY <1>1, <1>2, <1>3, <1>4 DEF IInv

(* The steps before the preflight, and those that end in an exception.     *)
LEMMA EarlyInv ==
  ASSUME IInv, Hash \/ HashFails \/ LoadRulesets
  PROVE  IInv'
<1>1. TypeOK'
  BY DEF IInv, TypeOK, Hash, HashFails, LoadRulesets, Pcs
<1>2. PreflightInv'
  <2>1. /\ pc \in {"hash", "rulesets"} /\ at = 1 /\ at' = 1
        /\ DOMAIN engines' = {} /\ DOMAIN ending' = {}
        /\ pc' \in {"rulesets", "preflight", "raised"}
    BY DEF IInv, PreflightInv, Early, Hash, HashFails, LoadRulesets
  <2>2. pc' # "raised" => kind' \in Kinds
    BY DEF IInv, PreflightInv, Hash, HashFails, LoadRulesets
  <2>3. QED
    BY <2>1, <2>2 DEF PreflightInv, Early
<1>3. ResultInv' /\ TurnInv'
  BY DEF ResultInv, TurnInv, Scanned, Hash, HashFails, LoadRulesets
<1>4. VerdictInv'
  BY DEF IInv, VerdictInv, Hash, HashFails, LoadRulesets
<1>5. QED
  BY <1>1, <1>2, <1>3, <1>4 DEF IInv

(* One turn of the preflight.                                              *)
LEMMA PreflightStepInv ==
  ASSUME IInv, Preflight
  PROVE  IInv'
<1> DEFINE a == AdapterOrder[at]
<1>1. pc = "preflight" /\ at \in 1 .. 3 /\ a \in Engines /\ settings \in Settings
  BY Order DEF IInv, TypeOK, Preflight, NextTurn
<1>2. /\ at < 3 => at' = at + 1 /\ pc' = "preflight"
      /\ at = 3 => at' = 1 /\ pc' = "scan"
  BY <1>1, TurnFacts DEF Preflight
<1>3. \A e : PreflightResult(e)' = PreflightResult(e)
  BY DEF Preflight, PreflightResult
<1>4. /\ DOMAIN engines' = DOMAIN engines \cup {a}
      /\ engines'[a] = PreflightResult(a)
      /\ \A d \in DOMAIN engines : d # a => engines'[d] = engines[d]
  <2>1. engines' = With(engines, a, PreflightResult(a))
    BY DEF Preflight, Adapter
  <2>2. QED
    BY <2>1 DEF With
<1>5. /\ DOMAIN engines = {AdapterOrder[k] : k \in 1 .. at - 1}
      /\ \A e \in DOMAIN engines : engines[e] = PreflightResult(e)
      /\ DOMAIN ending = {}
  BY <1>1 DEF IInv, PreflightInv, Early
<1>6. /\ DOMAIN engines' = {AdapterOrder[k] : k \in 1 .. at}
      /\ \A e \in DOMAIN engines' : engines'[e] = PreflightResult(e)
  BY <1>1, <1>4, <1>5
<1>7. at = 3 => DOMAIN engines' = Engines
  BY <1>6, Order
<1>8. DOMAIN engines' \subseteq Engines
  BY <1>1, <1>4, <1>5, Order DEF IInv, TypeOK
<1>9. TypeOK'
  <2>1. \A e \in DOMAIN engines' : engines'[e] \in EngineResult
    BY <1>1, <1>6, <1>8, PreflightType
  <2>2. at' \in 1 .. 3 /\ pc' \in {"preflight", "scan"}
    BY <1>1, <1>2
  <2>3. pc' # "preflight" => DOMAIN engines' = Engines
    BY <1>1, <1>2, <1>7
  <2>4. UNCHANGED <<settings, mode, kind, codes, status, quarantine, moved, ending>>
    BY DEF Preflight
  <2>5. QED
    BY <1>8, <2>1, <2>2, <2>3, <2>4, Order DEF IInv, TypeOK, Pcs
<1>10. PreflightInv'
  BY <1>1, <1>2, <1>3, <1>5, <1>6 DEF IInv, PreflightInv, Early, Preflight
<1>11. ResultInv'
  BY <1>1, <1>2, <1>3, <1>5, <1>6, <1>7 DEF ResultInv, Scanned, Preflight
<1>12. TurnInv'
  BY <1>1, <1>2, <1>5, Order DEF TurnInv, Scanned, Preflight
<1>13. VerdictInv'
  BY <1>1, <1>2 DEF IInv, VerdictInv, Preflight
<1>14. QED
  BY <1>9, <1>10, <1>11, <1>12, <1>13 DEF IInv

(* One turn of the scan, of an adapter that is not ready.                  *)
LEMMA SkipInv ==
  ASSUME IInv, Skip
  PROVE  IInv'
<1>1. pc = "scan" /\ at \in 1 .. 3
  BY Order DEF IInv, TypeOK, Skip, NextTurn
<1>2. /\ at < 3 => at' = at + 1 /\ pc' = "scan"
      /\ at = 3 => at' = 1 /\ pc' = "resolve"
  BY <1>1, TurnFacts DEF Skip
<1>3. UNCHANGED <<settings, mode, kind, engines, codes, status, quarantine, moved, ending>>
  BY DEF Skip
<1>4. (\A e : PreflightResult(e)' = PreflightResult(e)) /\ Required' = Required
  BY <1>3 DEF PreflightResult, Required
<1>5. \A e : Ready(e)' = Ready(e)
  BY <1>3 DEF Ready
<1>6. ~Ready(AdapterOrder[at])
  BY DEF Skip, Adapter
<1>7. TypeOK'
  BY <1>1, <1>2, <1>3, Order DEF IInv, TypeOK, Pcs
<1>8. PreflightInv'
  BY <1>1, <1>2, <1>3 DEF IInv, PreflightInv, Early
<1>9. ResultInv'
  BY <1>1, <1>2, <1>3, <1>4 DEF IInv, ResultInv, Scanned
<1>10. TurnInv'
  <2>1. \A k \in 1 .. at : AdapterOrder[k] \notin DOMAIN ending => ~Ready(AdapterOrder[k])
    BY <1>1, <1>6 DEF IInv, TurnInv
  <2>2. CASE at < 3
    BY <1>1, <1>2, <1>3, <1>5, <2>1, <2>2 DEF IInv, TurnInv, Scanned
  <2>3. CASE at = 3
    BY <1>1, <1>2, <1>3, <1>5, <2>1, <2>3, Order DEF TurnInv, Scanned
  <2>4. QED
    BY <1>1, <2>2, <2>3
<1>11. VerdictInv'
  BY <1>1, <1>2, <1>3 DEF IInv, VerdictInv
<1>12. QED
  BY <1>7, <1>8, <1>9, <1>10, <1>11 DEF IInv

(* One turn of the scan, of an adapter that is ready.                      *)
LEMMA ScanStepInv ==
  ASSUME IInv, NEW how \in EndingsInUse, NEW found \in Findings, Scan(how, found)
  PROVE  IInv'
<1> DEFINE a == AdapterOrder[at]
<1>1. pc = "scan" /\ at \in 1 .. 3 /\ a \in Engines /\ settings \in Settings
  BY Order DEF IInv, TypeOK, Scan, NextTurn
<1>2. /\ at < 3 => at' = at + 1 /\ pc' = "scan"
      /\ at = 3 => at' = 1 /\ pc' = "resolve"
  BY <1>1, TurnFacts DEF Scan
<1>3. UNCHANGED <<settings, mode, kind, codes, status, quarantine, moved>>
  BY DEF Scan
<1>4. (\A e : PreflightResult(e)' = PreflightResult(e)) /\ Required' = Required
  BY <1>3 DEF PreflightResult, Required
<1>5. /\ engines' = [d \in DOMAIN engines \cup {a} |->
                       IF d = a THEN ScanResult(a, how, found) ELSE engines[d]]
      /\ ending' = [d \in DOMAIN ending \cup {a} |-> IF d = a THEN how ELSE ending[d]]
  BY DEF Scan, Adapter, With
<1>6. DOMAIN engines = Engines /\ DOMAIN ending \subseteq Engines
  BY <1>1 DEF IInv, TypeOK
<1>7. Ready(a) /\ how \in Endings(a, settings.resources[a]) \ {"raised"}
  BY DEF Scan, Adapter
<1>8. a \notin DOMAIN ending
  BY <1>1 DEF IInv, TurnInv
<1>9. engines[a] = PreflightResult(a)
  BY <1>1, <1>8 DEF IInv, ResultInv
<1>10. a \in Required /\ PreflightResult(a).state = "ok"
  BY <1>1, <1>7, <1>9, PreflightType DEF Ready, Required
<1>11. ScanResult(a, how, found) \in EngineResult
  <2>1. StateAfter(a, how) \in EngineStates
    BY <1>1, <1>7, StateAfterType
  <2>2. found \in Seq(Detection) /\ << >> \in Seq(Detection)
    BY FindingsAssumption
  <2>3. QED
    BY <2>1, <2>2 DEF ScanResult, EngineResult
<1>12. \A e \in Engines \ {a} : Ready(e)' = Ready(e)
  BY <1>5, <1>6 DEF Ready
<1>13. TypeOK'
  <2>1. \A e \in DOMAIN engines' : engines'[e] \in EngineResult
    BY <1>5, <1>6, <1>11 DEF IInv, TypeOK
  <2>2. \A e \in DOMAIN ending' : ending'[e] \in EndingsInUse \cup {"raised"}
    BY <1>5 DEF IInv, TypeOK
  <2>3. DOMAIN engines' = Engines /\ DOMAIN ending' \subseteq Engines
    BY <1>1, <1>5, <1>6
  <2>4. at' \in 1 .. 3 /\ pc' \in {"scan", "resolve"}
    BY <1>1, <1>2
  <2>5. QED
    BY <1>3, <2>1, <2>2, <2>3, <2>4, Order DEF IInv, TypeOK, Pcs
<1>14. PreflightInv'
  BY <1>1, <1>2, <1>3 DEF IInv, PreflightInv, Early
<1>15. ResultInv'
  <2>1. SUFFICES ASSUME NEW e \in Engines
                 PROVE  IF e \in DOMAIN ending'
                        THEN /\ e \in Required
                             /\ PreflightResult(e).state = "ok"
                             /\ ending'[e] \in Endings(e, settings.resources[e]) \ {"raised"}
                             /\ engines'[e].enabled /\ engines'[e].applicable
                             /\ engines'[e].state = StateAfter(e, ending'[e])
                        ELSE engines'[e] = PreflightResult(e)
    BY <1>3, <1>4 DEF ResultInv
  <2>2. CASE e = a
    BY <1>5, <1>7, <1>10, <2>2 DEF ScanResult
  <2>3. CASE e # a
    <3>1. (e \in DOMAIN ending' <=> e \in DOMAIN ending) /\ engines'[e] = engines[e]
      BY <1>5, <1>6, <2>3
    <3>2. e \in DOMAIN ending => ending'[e] = ending[e]
      BY <1>5, <2>3
    <3>3. QED
      BY <1>1, <3>1, <3>2 DEF IInv, ResultInv
  <2>4. QED
    BY <2>2, <2>3
<1>16. TurnInv'
  <2>1. DOMAIN ending' = DOMAIN ending \cup {a}
    BY <1>5
  <2>2. \A k \in 1 .. 3 : k # at => AdapterOrder[k] # a /\ AdapterOrder[k] \in Engines
    BY <1>1, Order
  <2>3. \A k \in 1 .. at : AdapterOrder[k] \notin DOMAIN ending' => ~Ready(AdapterOrder[k])'
    BY <1>1, <1>12, <2>1, <2>2 DEF IInv, TurnInv
  <2>4. CASE at < 3
    <3>1. \A k \in at + 1 .. 3 : AdapterOrder[k] \notin DOMAIN ending'
      BY <1>1, <2>1, <2>2 DEF IInv, TurnInv
    <3>2. QED
      BY <1>1, <1>2, <2>3, <2>4, <3>1 DEF TurnInv, Scanned
  <2>5. CASE at = 3
    BY <1>1, <1>2, <2>3, <2>5, Order DEF TurnInv, Scanned
  <2>6. QED
    BY <1>1, <2>4, <2>5
<1>17. VerdictInv'
  BY <1>1, <1>2, <1>3 DEF IInv, VerdictInv
<1>18. QED
  BY <1>13, <1>14, <1>15, <1>16, <1>17 DEF IInv

(* An adapter that raises ends the scan.                                   *)
LEMMA ScanRaisesInv ==
  ASSUME IInv, ScanRaises
  PROVE  IInv'
<1>1. pc = "scan" /\ pc' = "raised" /\ Adapter \in Engines
  BY Order DEF IInv, TypeOK, ScanRaises, Adapter
<1>2. TypeOK'
  <2>1. ending' = [d \in DOMAIN ending \cup {Adapter} |->
                     IF d = Adapter THEN "raised" ELSE ending[d]]
    BY DEF ScanRaises, With
  <2>2. \A e \in DOMAIN ending' : ending'[e] \in EndingsInUse \cup {"raised"}
    BY <2>1 DEF IInv, TypeOK
  <2>3. DOMAIN ending' \subseteq Engines
    BY <1>1, <2>1 DEF IInv, TypeOK
  <2>4. UNCHANGED <<settings, mode, kind, at, engines, codes, status, quarantine, moved>>
    BY DEF ScanRaises
  <2>5. QED
    BY <1>1, <2>2, <2>3, <2>4 DEF IInv, TypeOK, Pcs
<1>3. PreflightInv' /\ ResultInv' /\ TurnInv'
  BY <1>1 DEF PreflightInv, ResultInv, TurnInv, Early, Scanned
<1>4. VerdictInv'
  BY <1>1 DEF IInv, VerdictInv, ScanRaises
<1>5. QED
  BY <1>2, <1>3, <1>4 DEF IInv

(* The steps after the last engine change no result.                       *)
LEMMA ResultsKept ==
  ASSUME IInv, pc \in {"resolve", "quarantine"}, pc' \in {"quarantine", "done"},
         UNCHANGED <<settings, mode, kind, at, engines, ending>>
  PROVE  /\ PreflightInv' /\ ResultInv' /\ TurnInv'
         /\ \A c : Verdict(c)' = Resolve(c', settings.profile, engines)
<1>1. (\A e : PreflightResult(e)' = PreflightResult(e)) /\ Required' = Required
  BY DEF PreflightResult, Required
<1>2. \A e : Ready(e)' = Ready(e)
  BY DEF Ready
<1>3. PreflightInv'
  BY DEF IInv, PreflightInv, Early
<1>4. ResultInv'
  BY <1>1 DEF IInv, ResultInv, Scanned
<1>5. TurnInv'
  BY <1>2 DEF IInv, TurnInv, Scanned
<1>6. QED
  BY <1>3, <1>4, <1>5 DEF Verdict

(* The verdict, and what the quarantine does of it.                        *)
LEMMA VerdictStepInv ==
  ASSUME IInv, ResolveVerdict \/ Decline \/ Move \/ MoveFails
  PROVE  IInv'
<1>1. /\ pc \in {"resolve", "quarantine"} /\ pc' \in {"quarantine", "done"}
      /\ UNCHANGED <<settings, mode, kind, at, engines, ending>>
  BY DEF ResolveVerdict, Decline, Move, MoveFails
<1>2. codes = {} /\ ~moved /\ ~quarantine.performed
  BY <1>1 DEF IInv, VerdictInv
<1>3. mode \in QuarantineModes
  BY ScanModesAssumption DEF IInv, TypeOK
<1>4. \A c : Verdict(c) \in VerdictStatuses
  BY ResolveFacts DEF Verdict
<1>5. PreflightInv' /\ ResultInv' /\ TurnInv'
  BY <1>1, ResultsKept
<1>6. CASE ResolveVerdict
  <2>1. status' = Verdict(codes) /\ pc' = "quarantine"
        /\ UNCHANGED <<codes, quarantine, moved>>
    BY <1>6 DEF ResolveVerdict
  <2>2. TypeOK'
    BY <1>1, <1>4, <2>1 DEF IInv, TypeOK, Pcs
  <2>3. VerdictInv'
    BY <1>1, <1>2, <2>1 DEF VerdictInv, Verdict
  <2>4. QED
    BY <1>5, <2>2, <2>3 DEF IInv
<1>7. ASSUME pc = "quarantine" PROVE status = Verdict({})
  BY <1>2, <1>7 DEF IInv, VerdictInv
<1>8. CASE Decline
  <2>1. /\ pc = "quarantine" /\ pc' = "done" /\ quarantine'.performed = FALSE
        /\ quarantine'.reason = Decided /\ UNCHANGED <<codes, status, moved>>
    BY <1>8 DEF Decline
  <2>2. Decided \in Reasons
    BY <1>8, DecisionIsReason DEF Decline, Decided
  <2>3. TypeOK'
    BY <1>1, <2>1, <2>2 DEF IInv, TypeOK, Pcs
  <2>4. VerdictInv'
    BY <1>1, <1>2, <1>7, <2>1 DEF VerdictInv, Verdict
  <2>5. QED
    BY <1>5, <2>3, <2>4 DEF IInv
<1>9. CASE Move
  <2>1. /\ pc = "quarantine" /\ pc' = "done" /\ quarantine'.performed = TRUE
        /\ quarantine'.reason = "moved_to_quarantine" /\ moved' = TRUE
        /\ UNCHANGED <<codes, status>> /\ Decision(mode, status) = "move"
    BY <1>9 DEF Move, Decided
  <2>2. TypeOK'
    BY <1>1, <2>1 DEF IInv, TypeOK, Pcs, Reasons
  <2>3. VerdictInv'
    BY <1>1, <1>2, <1>7, <2>1 DEF VerdictInv, Verdict
  <2>4. QED
    BY <1>5, <2>2, <2>3 DEF IInv
<1>10. CASE MoveFails
  <2>1. /\ pc = "quarantine" /\ pc' = "done" /\ moved' \in BOOLEAN
        /\ codes' = {"scan_error"} /\ status' = Verdict(codes') /\ UNCHANGED quarantine
        /\ Decision(mode, status) = "move"
    BY <1>2, <1>10 DEF MoveFails, Decided
  <2>2. TypeOK'
    BY <1>1, <1>4, <2>1 DEF IInv, TypeOK, Pcs, ErrorCodes
  <2>3. VerdictInv'
    BY <1>1, <1>2, <1>7, <2>1 DEF VerdictInv, Verdict
  <2>4. QED
    BY <1>5, <2>2, <2>3 DEF IInv
<1>11. QED
  BY <1>6, <1>8, <1>9, <1>10

(* A stutter keeps everything.                                             *)
LEMMA StutterInv == IInv /\ UNCHANGED vars => IInv'
<1> SUFFICES ASSUME IInv, UNCHANGED vars PROVE IInv'
  OBVIOUS
<1>1. UNCHANGED <<settings, mode, pc, kind, at, engines, codes, status, quarantine, moved, ending>>
  BY DEF vars
<1>2. (\A e : PreflightResult(e)' = PreflightResult(e)) /\ Required' = Required
  BY <1>1 DEF PreflightResult, Required
<1>3. \A e : Ready(e)' = Ready(e)
  BY <1>1 DEF Ready
<1>4. TypeOK' /\ PreflightInv'
  BY <1>1, <1>2 DEF IInv, TypeOK, PreflightInv
<1>5. ResultInv' /\ TurnInv'
  BY <1>1, <1>2, <1>3 DEF IInv, ResultInv, TurnInv
<1>6. VerdictInv'
  BY <1>1 DEF IInv, VerdictInv, Verdict
<1>7. QED
  BY <1>4, <1>5, <1>6 DEF IInv

LEMMA NextInv == IInv /\ [Next]_vars => IInv'
BY EarlyInv, PreflightStepInv, SkipInv, ScanStepInv, ScanRaisesInv, VerdictStepInv,
   StutterInv DEF Next

(* In every behaviour of the scan of a file the invariant holds.           *)
THEOREM Invariance == Spec => []IInv
BY InitInv, NextInv, PTL DEF Spec

(* Every variable of the scan of a file keeps its type.                    *)
THEOREM TypeCorrect == Spec => []TypeOK
<1>1. IInv => TypeOK
  BY DEF IInv
<1>2. QED
  BY <1>1, Invariance, PTL

-----------------------------------------------------------------------------
(* Convictions and moves.                                                  *)

(* What the report of a finished scan is.                                  *)
LEMMA ReportFacts ==
  ASSUME IInv
  PROVE  /\ pc = "done" => \/ codes = {} /\ (Convicted <=> status = "known_malicious")
                           \/ codes = {"scan_error"} /\ status = "scan_error"
         /\ moved \/ quarantine.performed =>
              pc = "done" /\ Convicted /\ mode = <<"move", FALSE>>
         /\ quarantine.performed => moved /\ codes = {}
         /\ moved /\ ~quarantine.performed => codes = {"scan_error"}
<1>1. mode \in QuarantineModes
  BY ScanModesAssumption DEF IInv, TypeOK
<1>2. \A s : Decision(mode, s) = "move" =>
               s = "known_malicious" /\ mode = <<"move", FALSE>>
  BY <1>1, DecisionFacts
<1>3. Verdict({}) = "known_malicious" <=> Convicted
  BY ResolveFacts DEF Verdict, Convicted
<1>4. Verdict({"scan_error"}) = "scan_error"
  BY ResolveFacts DEF Verdict
<1>5. QED
  BY <1>2, <1>3, <1>4 DEF IInv, VerdictInv

(* A conviction decides the verdict of a file, for any results of the      *)
(* other engines.                                                          *)
THEOREM ConvictionsDecide == Spec => []ConvictionDecides
<1>1. IInv => ConvictionDecides
  BY ReportFacts DEF ConvictionDecides
<1>2. QED
  BY <1>1, Invariance, PTL

(* A file is moved after a conviction and on request only, and its report  *)
(* says so or is a scan_error.                                             *)
THEOREM MovesReported == Spec => []MovesAreReported
<1>1. IInv => MovesAreReported
  BY ReportFacts DEF MovesAreReported
<1>2. QED
  BY <1>1, Invariance, PTL

-----------------------------------------------------------------------------
(* Clean verdicts.                                                         *)

(* An engine that its preflight found ready, and that could be started,    *)
(* has everything it needs.                                                *)
LEMMA ReadyIsEquipped ==
  ASSUME settings \in Settings, NEW e \in Engines, PreflightResult(e).state = "ok",
         settings.enabled[e], Supports(e, kind),
         NEW how \in Endings(e, settings.resources[e]) \ {"raised"},
         StateAfter(e, how) = "ok"
  PROVE  Equipped(e) /\ (how = "answered" \/ (e = "clamav" /\ how = "killed"))
<1> DEFINE r == settings.resources[e]
<1>1. Discover(e, r) = NoIssue
  BY DEF PreflightResult, PrecheckState
<1>2. CASE e = "clamav"
  <2>1. DiscoverClamAv(r) = NoIssue
    BY <1>1, <1>2 DEF Discover
  <2>2. r.executable \in {"unset", "directory", "absent", "file"}
        /\ r.database \in {"absent", "file", "empty", "files"}
    BY <1>2, ResourcesAssumption
  <2>3. r.executable = "file" /\ r.database = "files"
    BY <2>1, <2>2 DEF DiscoverClamAv, NoIssue
  <2>4. how \in {"answered", "killed"}
    BY <1>2 DEF StateAfter, ClamAvState, Endings
  <2>5. QED
    BY <1>2, <2>3, <2>4 DEF Equipped
<1>3. ASSUME NEW vendored \in BOOLEAN, e \in {"yara", "capa"},
             RulesetIssue(r, vendored) = NoIssue
      PROVE  /\ RuleCount(r) > 0
             /\ ManifestReadable(r)
             /\ r.manifest.count \in {NoRules, RuleCount(r)}
             /\ r.manifest.vendor # "placeholder"
             /\ vendored => r.manifest.vendor = "vendored"
  <2>1. /\ r.rules \in Nat \cup {NoRules}
        /\ r.manifest.state \in {"absent", "unreadable", "readable"}
        /\ ManifestReadable(r) =>
             r.manifest.vendor \in {"none", "placeholder", "vendored", "other"}
    BY <1>3, ResourcesAssumption
  <2>2. /\ RulesExist(r) /\ ManifestExists(r) /\ MismatchReasons(r, vendored) = {}
        /\ ~(vendored /\ r.manifest.vendor = "placeholder") /\ RuleCount(r) # 0
    BY <1>3 DEF RulesetIssue, NoIssue
  <2>3. RuleCount(r) > 0
    BY <2>1, <2>2 DEF RuleCount, RulesExist, NoRules
  <2>4. ManifestReadable(r)
    BY <2>2 DEF MismatchReasons
  <2> DEFINE m == r.manifest
             wrong == [vendor_status_missing |-> vendored /\ m.vendor = "none",
                       invalid_vendor_status |-> vendored /\ m.vendor = "other",
                       rule_count_mismatch |-> m.count \notin {NoRules, RuleCount(r)},
                       placeholder_with_rules |-> m.vendor = "placeholder" /\ RuleCount(r) > 0,
                       vendored_without_rules |-> m.vendor = "vendored" /\ RuleCount(r) = 0]
  <2>5. {reason \in DOMAIN wrong : wrong[reason]} = {}
    BY <2>2, <2>4 DEF MismatchReasons
  <2>6. /\ ~wrong.vendor_status_missing /\ ~wrong.invalid_vendor_status
        /\ ~wrong.rule_count_mismatch /\ ~wrong.placeholder_with_rules
    BY <2>5
  <2>7. QED
    BY <2>1, <2>3, <2>4, <2>6
<1>4. CASE e = "yara"
  <2>1. r.module /\ RulesetIssue(r, FALSE) = NoIssue
    BY <1>1, <1>4 DEF Discover, DiscoverYara, NoIssue
  <2>2. how = "answered"
    BY <1>4 DEF StateAfter, YaraState, Endings
  <2>3. QED
    BY <1>3, <1>4, <2>1, <2>2 DEF Equipped
<1>5. CASE e = "capa"
  <2>1. RulesetIssue(r, TRUE) = NoIssue /\ r.executable \notin {"unset", "absent"}
    BY <1>1, <1>5 DEF Discover, DiscoverCapa, NoIssue
  <2>2. r.executable \in {"unset", "directory", "absent", "file"}
    BY <1>5, ResourcesAssumption
  <2>3. how = "answered" /\ r.executable # "directory"
    BY <1>5 DEF StateAfter, CapaState, Endings
  <2>4. QED
    BY <1>3, <1>5, <2>1, <2>2, <2>3 DEF Equipped
<1>6. QED
  BY <1>2, <1>4, <1>5 DEF Engines

(* A clean verdict is earned: every engine that is enabled and supports    *)
(* the file was equipped, was run, and answered; only a clamscan that was  *)
(* killed passes for one that answered.                                    *)
THEOREM CleanEarned == Spec => []CleanIsEarned
<1>1. IInv => CleanIsEarned
  <2>1. SUFFICES ASSUME IInv, pc = "done", status = "clean_by_known_checks"
                 PROVE  /\ Required # {}
                        /\ Required = DOMAIN ending
                        /\ \A e \in Required : Equipped(e) /\ Served(e)
    BY DEF CleanIsEarned, Clean
  <2>2. settings \in Settings /\ DOMAIN engines = Engines /\ DOMAIN ending \subseteq Engines
    BY <2>1 DEF IInv, TypeOK
  <2>3. ApplicableStates(engines) = {"ok"}
    BY <2>1, ResolveFacts DEF IInv, VerdictInv, Verdict
  <2>4. \A e \in Engines : engines[e].enabled /\ engines[e].applicable <=> e \in Required
    BY <2>1, <2>2, PreflightType DEF IInv, ResultInv, Scanned, Required
  <2>5. Applicable(engines) = Required
    BY <2>2, <2>4 DEF Applicable, Required
  <2>6. Required # {} /\ \A e \in Required : engines[e].state = "ok"
    BY <2>3, <2>5 DEF ApplicableStates
  <2>7. Required = DOMAIN ending
    <3>1. DOMAIN ending \subseteq Required
      BY <2>1, <2>2 DEF IInv, ResultInv, Scanned
    <3>2. \A e \in Required : Ready(e)
      BY <2>4, <2>6 DEF Ready, Required
    <3>3. Required \subseteq DOMAIN ending
      BY <2>1, <3>2 DEF IInv, TurnInv, Scanned, Required
    <3>4. QED
      BY <3>1, <3>3
  <2>8. ASSUME NEW e \in Required
        PROVE  Equipped(e) /\ Served(e)
    <3>1. /\ e \in Engines /\ e \in DOMAIN ending
          /\ settings.enabled[e] /\ Supports(e, kind)
      BY <2>7, <2>8 DEF Required
    <3>2. /\ PreflightResult(e).state = "ok"
          /\ ending[e] \in Endings(e, settings.resources[e]) \ {"raised"}
          /\ StateAfter(e, ending[e]) = "ok"
      BY <2>1, <2>6, <2>8, <3>1 DEF IInv, ResultInv, Scanned
    <3>3. QED
      BY <2>2, <3>1, <3>2, ReadyIsEquipped DEF Served
  <2>9. QED
    BY <2>6, <2>7, <2>8
<1>2. QED
  BY <1>1, Invariance, PTL

-----------------------------------------------------------------------------
(* The scan of a file implements the promise.                              *)

(* A preflight convicts nothing.                                           *)
LEMMA PreflightConvictsNothing ==
  ASSUME settings \in Settings, DOMAIN engines \subseteq Engines,
         \A e \in DOMAIN engines : engines[e] = PreflightResult(e)
  PROVE  ~Convicted
<1>1. \A e \in DOMAIN engines : DOMAIN engines[e].detections = {}
  BY PreflightType
<1>2. QED
  BY <1>1 DEF Convicted, HasKnownMalicious

LEMMA PromiseInit == Init => Promise!Init
<1> SUFFICES ASSUME Init PROVE Promise!Init
  OBVIOUS
<1>1. /\ pc = "hash" /\ ~Ended /\ ~moved
  BY DEF Init, Ended
<1>2. ~Convicted
  BY DEF Init, Convicted, HasKnownMalicious
<1>3. QED
  BY <1>1, <1>2 DEF Promise!Init, Promise!NoReport

(* The steps until the last: an engine may convict, nothing is moved.      *)
LEMMA LookStep ==
  ASSUME ~Ended, ~Ended', Convicted => Convicted', UNCHANGED <<mode, moved>>
  PROVE  [Promise!Next]_(Promise!vars)
<1>1. pc # "done" /\ pc' # "done"
  BY DEF Ended
<1>2. Convicted' \in BOOLEAN
  BY DEF Convicted, HasKnownMalicious
<1>3. Promise!Look
  BY <1>1, <1>2 DEF Promise!Look, Promise!StayOrLeave
<1>4. QED
  BY <1>3 DEF Promise!Next

(* The step that ends in an exception.                                     *)
LEMMA RaiseStep ==
  ASSUME ~Ended, pc' = "raised", UNCHANGED <<mode, engines, moved>>
  PROVE  [Promise!Next]_(Promise!vars)
<1>1. Ended' /\ pc # "done" /\ pc' # "done"
  BY DEF Ended
<1>2. Convicted' = Convicted
  BY DEF Convicted
<1>3. Promise!Raise
  BY <1>1, <1>2 DEF Promise!Raise, Promise!StayOrLeave
<1>4. QED
  BY <1>3 DEF Promise!Next

(* The step that ends in a report.                                         *)
LEMMA ReportStep ==
  ASSUME IInv, IInv', ~Ended, pc' = "done", UNCHANGED <<mode, engines>>, moved => moved'
  PROVE  [Promise!Next]_(Promise!vars)
<1>1. Ended' /\ pc # "done"
  BY DEF Ended
<1>2. Convicted' = Convicted
  BY DEF Convicted
<1>3. /\ \/ codes' = {} /\ (Convicted <=> status' = "known_malicious")
         \/ codes' = {"scan_error"} /\ status' = "scan_error"
      /\ moved' => Convicted /\ mode = <<"move", FALSE>>
      /\ quarantine'.performed => moved' /\ codes' = {}
      /\ moved' /\ ~quarantine'.performed => codes' = {"scan_error"}
  <2>1. /\ (pc = "done" => \/ codes = {} /\ (Convicted <=> status = "known_malicious")
                           \/ codes = {"scan_error"} /\ status = "scan_error")'
        /\ (moved \/ quarantine.performed =>
              pc = "done" /\ Convicted /\ mode = <<"move", FALSE>>)'
        /\ (quarantine.performed => moved /\ codes = {})'
        /\ (moved /\ ~quarantine.performed => codes = {"scan_error"})'
    BY ReportFacts, PTL
  <2>2. QED
    BY <1>2, <2>1
<1>4. status' \in VerdictStatuses /\ quarantine'.performed \in BOOLEAN
      /\ moved \in BOOLEAN /\ moved' \in BOOLEAN
  BY DEF IInv, TypeOK
<1>5. Promise!Report
  <2> DEFINE r == [status |-> status', performed |-> quarantine'.performed]
  <2>1. r \in [status : VerdictStatuses, performed : BOOLEAN]
    BY <1>4
  <2>2. /\ r.status = "known_malicious" => Convicted
        /\ Convicted => r.status \in {"known_malicious", "scan_error"}
        /\ r.performed => moved'
        /\ moved' => r.performed \/ r.status = "scan_error"
    BY <1>3
  <2>3. moved' = moved \/ (mode = <<"move", FALSE>> /\ Convicted' /\ moved')
    BY <1>2, <1>3, <1>4
  <2>4. QED
    BY <1>1, <1>2, <2>1, <2>2, <2>3 DEF Promise!Report, Promise!StayOrLeave, Promise!Honest
<1>6. QED
  BY <1>5 DEF Promise!Next

LEMMA PromiseStep == IInv /\ IInv' /\ [Next]_vars => [Promise!Next]_(Promise!vars)
<1> SUFFICES ASSUME IInv, IInv', [Next]_vars PROVE [Promise!Next]_(Promise!vars)
  OBVIOUS
<1>1. CASE Hash \/ HashFails \/ LoadRulesets
  <2>1. ~Ended /\ UNCHANGED <<mode, engines, moved>> /\ Convicted' = Convicted
    BY <1>1 DEF Hash, HashFails, LoadRulesets, Ended, Convicted
  <2>2. CASE pc' = "raised"
    BY <2>1, <2>2, RaiseStep
  <2>3. CASE pc' # "raised"
    <3>1. ~Ended'
      BY <1>1, <2>3 DEF Hash, HashFails, LoadRulesets, Ended
    <3>2. QED
      BY <2>1, <3>1, LookStep
  <2>4. QED
    BY <2>2, <2>3
<1>2. CASE Preflight
  <2>1. pc = "preflight" /\ pc' \in {"preflight", "scan"}
    BY <1>2 DEF Preflight, NextTurn
  <2>2. ~Ended /\ ~Ended' /\ UNCHANGED <<mode, moved>>
    BY <1>2, <2>1 DEF Preflight, Ended
  <2>3. ~Convicted
    BY <2>1, PreflightConvictsNothing DEF IInv, TypeOK, PreflightInv
  <2>4. QED
    BY <2>2, <2>3, LookStep
<1>3. CASE Skip
  <2>1. pc = "scan" /\ pc' \in {"scan", "resolve"}
    BY <1>3 DEF Skip, NextTurn
  <2>2. ~Ended /\ ~Ended' /\ UNCHANGED <<mode, moved, engines>>
    BY <1>3, <2>1 DEF Skip, Ended
  <2>3. Convicted' = Convicted
    BY <2>2 DEF Convicted
  <2>4. QED
    BY <2>2, <2>3, LookStep
<1>4. ASSUME NEW how \in EndingsInUse, NEW found \in Findings, Scan(how, found)
      PROVE  [Promise!Next]_(Promise!vars)
  <2>1. pc = "scan" /\ pc' \in {"scan", "resolve"}
    BY <1>4 DEF Scan, NextTurn
  <2>2. ~Ended /\ ~Ended' /\ UNCHANGED <<mode, moved>>
    BY <1>4, <2>1 DEF Scan, Ended
  <2>3. Convicted => Convicted'
    <3> DEFINE a == AdapterOrder[at]
    <3>1. at \in 1 .. 3 /\ a \in Engines /\ settings \in Settings /\ DOMAIN engines = Engines
      BY <2>1, Order DEF IInv, TypeOK
    <3>2. engines[a] = PreflightResult(a)
      BY <2>1, <3>1 DEF IInv, ResultInv, TurnInv
    <3>3. DOMAIN engines[a].detections = {}
      BY <3>1, <3>2, PreflightType
    <3>4. engines' = [d \in DOMAIN engines \cup {a} |->
                       IF d = a THEN ScanResult(a, how, found) ELSE engines[d]]
      BY <1>4 DEF Scan, Adapter, With
    <3>5. \A e \in Engines \ {a} : e \in DOMAIN engines' /\ engines'[e] = engines[e]
      BY <3>1, <3>4
    <3>6. QED
      BY <3>1, <3>3, <3>5 DEF Convicted, HasKnownMalicious
  <2>4. QED
    BY <2>2, <2>3, LookStep
<1>5. CASE ScanRaises
  <2>1. ~Ended /\ pc' = "raised" /\ UNCHANGED <<mode, engines, moved>>
    BY <1>5 DEF ScanRaises, Ended
  <2>2. QED
    BY <2>1, RaiseStep
<1>6. CASE ResolveVerdict
  <2>1. ~Ended /\ ~Ended' /\ UNCHANGED <<mode, engines, moved>>
    BY <1>6 DEF ResolveVerdict, Ended
  <2>2. Convicted' = Convicted
    BY <2>1 DEF Convicted
  <2>3. QED
    BY <2>1, <2>2, LookStep
<1>7. CASE Decline \/ Move \/ MoveFails
  <2>1. pc = "quarantine" /\ pc' = "done" /\ UNCHANGED <<mode, engines>>
    BY <1>7 DEF Decline, Move, MoveFails
  <2>2. ~Ended /\ ~moved
    BY <2>1 DEF Ended, IInv, VerdictInv
  <2>3. QED
    BY <2>1, <2>2, ReportStep
<1>8. CASE UNCHANGED vars
  BY <1>8 DEF vars, Promise!vars, Ended, Convicted
<1>9. QED
  BY <1>1, <1>2, <1>3, <1>4, <1>5, <1>6, <1>7, <1>8 DEF Next

(* Every behaviour of the scan of a file is one that the promise allows:   *)
(* convictions reach the report, moves follow convictions and requests.    *)
THEOREM KeepsPromiseSafely == Spec => Promise!Safety
BY PromiseInit, PromiseStep, Invariance, PTL DEF Spec, Promise!Safety
=============================================================================
