----------------------- MODULE QuarantineSessionProofs -----------------------
(***************************************************************************)
(* What QuarantineSession promises about records, answers and listings,    *)
(* for every well-formed directory and any number of commands and files.   *)
(***************************************************************************)
EXTENDS QuarantineSession, SequenceTheorems, FiniteSetTheorems, TLAPS

USE SecondsAssumption, OutsideAssumption, ContentAssumption, SessionAssumption

-----------------------------------------------------------------------------
(* Names, records and audits.                                              *)

(* A member of a product is the pair of its components.                    *)
LEMMA Pairs ==
  ASSUME NEW S, NEW T, NEW p \in S \X T
  PROVE  p = <<p[1], p[2]>> /\ p[1] \in S /\ p[2] \in T
OBVIOUS

(* A sidecar has one payload, which is no sidecar of a higher order, and a *)
(* payload one sidecar.                                                    *)
LEMMA NamesOfPairs ==
  /\ None \notin Places /\ Sidecars \subseteq Names /\ Names \subseteq Places
  /\ Names \cap Outside = {}
  /\ \A n \in Names : n[1] \in Nat /\ n[2] \in 0 .. 2
  /\ \A n \in Sidecars : /\ PayloadOf(n) \in Names
                         /\ PayloadOf(n)[1] = n[1] /\ PayloadOf(n)[2] = n[2] - 1
                         /\ PayloadOf(n) # n /\ n[2] \in 1 .. 2
  /\ \A m, n \in Sidecars : PayloadOf(m) = PayloadOf(n) => m = n
  /\ \A n \in Names : n[2] # 2 => /\ SidecarOf(n) \in Sidecars
                                  /\ SidecarOf(n)[1] = n[1]
                                  /\ PayloadOf(SidecarOf(n)) = n
<1>1. ASSUME NEW n \in Names
      PROVE  n = <<n[1], n[2]>> /\ n[1] \in Seconds /\ n[1] \in Nat /\ n[2] \in 0 .. 2
  <2>1. n \in Seconds \X (0 .. 2)
    BY DEF Names
  <2>2. n = <<n[1], n[2]>> /\ n[1] \in Seconds /\ n[2] \in 0 .. 2
    BY ONLY <2>1, Pairs
  <2>3. QED
    BY <2>2
<1>2. ASSUME NEW n \in Sidecars
      PROVE  /\ n \in Names /\ n[2] \in 1 .. 2
             /\ PayloadOf(n) = <<n[1], n[2] - 1>> /\ PayloadOf(n) \in Names
  <2>1. n \in Names /\ n[2] \in 1 .. 2
    BY <1>1 DEF Sidecars
  <2>2. n[2] - 1 \in 0 .. 2
    BY <2>1
  <2>3. QED
    BY <1>1, <2>1, <2>2 DEF PayloadOf, Names
<1>3. ASSUME NEW m \in Sidecars, NEW n \in Sidecars, PayloadOf(m) = PayloadOf(n)
      PROVE  m = n
  <2>1. m[1] = n[1] /\ m[2] - 1 = n[2] - 1
    BY <1>2, <1>3
  <2>2. m[2] = n[2]
    BY <1>2, <2>1
  <2>3. QED
    BY <1>1, <1>2, <2>1, <2>2
<1>4. ASSUME NEW n \in Names, n[2] # 2
      PROVE  /\ SidecarOf(n) \in Sidecars /\ SidecarOf(n)[1] = n[1]
             /\ PayloadOf(SidecarOf(n)) = n
  <2>1. n[2] + 1 \in 0 .. 2 /\ n[2] + 1 > 0 /\ (n[2] + 1) - 1 = n[2]
    BY <1>1, <1>4
  <2>2. SidecarOf(n) = <<n[1], n[2] + 1>> /\ SidecarOf(n) \in Names
    BY <1>1, <2>1 DEF SidecarOf, Names
  <2>3. QED
    BY <1>1, <2>1, <2>2 DEF Sidecars, PayloadOf
<1>5. Names \subseteq Places /\ None \notin Places /\ Names \cap Outside = {}
  BY DEF Places
<1>6. \A n \in Sidecars : PayloadOf(n)[1] = n[1] /\ PayloadOf(n)[2] = n[2] - 1 /\ PayloadOf(n) # n
  BY <1>1, <1>2
<1>7. QED
  BY <1>1, <1>2, <1>3, <1>4, <1>5, <1>6

(* An audit is told from a blob, a torn file and no file.                  *)
LEMMA AuditsAreAudits ==
  /\ \A c \in Content : IsAudit(c) <=> c \in Audit
  /\ \A c \in Audit : IsAudit(c) /\ c # Torn /\ c # None /\ c \notin Blobs
  /\ ~IsAudit(None) /\ ~IsAudit(Torn) /\ \A b \in Blobs : ~IsAudit(b) /\ b # None /\ b # Torn
BY DEF Content, IsAudit

(* Finitely many records have one scan id.                                 *)
LEMMA FewMatches ==
  ASSUME NEW files, NEW id
  PROVE  IsFiniteSet(Matches(files, id))
<1>1. IsFiniteSet(Names)
  <2>1. 0 \in Int /\ 2 \in Int
    OBVIOUS
  <2>2. IsFiniteSet(0 .. 2)
    BY ONLY <2>1, FS_Interval
  <2>3. QED
    BY <2>2, FS_Product DEF Names
<1>2. Matches(files, id) \subseteq Names
  BY DEF Matches, Present, Sidecars
<1>3. QED
  BY <1>1, <1>2, FS_Subset

(* The record a command acts on is the only one of its scan id, and may be *)
(* changed when it is quarantined and its payload is there.                *)
LEMMA RecordIsTheOne ==
  ASSUME fs \in [Places -> Content]
  PROVE  /\ Record # None => /\ Matches(fs, request.scan_id) = {Record}
                             /\ Record \in Sidecars /\ fs[Record] \in Audit
         /\ Record = None => Issues # {}
         /\ Mutable => /\ fs[PayloadOf(Record)] # None
                       /\ fs[Record].state \in {"quarantined", "none"}
                       /\ StateBefore = "quarantined"
<1> DEFINE M == Matches(fs, request.scan_id)
<1>1. IsFiniteSet(M)
  BY FewMatches
<1>2. \A n \in M : n \in Sidecars /\ fs[n] \in Audit /\ n # None
  BY NamesOfPairs, AuditsAreAudits DEF Matches, Present
<1>3. CASE Cardinality(M) = 1
  <2>1. PICK n : M = {n}
    BY <1>1, <1>3, FS_Singleton
  <2>2. Record = n
    BY <1>3, <2>1 DEF Record, FindRecord
  <2>3. n \in Sidecars /\ fs[n] \in Audit /\ n # None
    BY <1>2, <2>1
  <2>4. Load(fs, n) = RecordOf(fs[n], fs[PayloadOf(n)] # None)
    BY <2>3, AuditsAreAudits DEF Load, Reading
  <2>5. ASSUME Mutable
        PROVE  /\ StateOf(fs[n], fs[PayloadOf(n)] # None) = "quarantined"
               /\ fs[PayloadOf(n)] # None
    <3>1. /\ Load(fs, Record).state = StateOf(fs[n], fs[PayloadOf(n)] # None)
          /\ Load(fs, Record).payload_exists = (fs[PayloadOf(n)] # None)
      BY <2>2, <2>4 DEF RecordOf
    <3>2. Load(fs, Record).state = "quarantined" /\ Load(fs, Record).payload_exists
      BY <2>2, <2>3, <2>5 DEF Mutable, NotMutable
    <3>3. QED
      BY <3>1, <3>2
  <2>6. Mutable => StateBefore = "quarantined"
    BY <2>2, <2>3, <2>4, <2>5 DEF StateBefore, RecordOf
  <2>7. fs[n].state \in RecordStates \cup {"none", "other"}
    BY <2>3 DEF Audit
  <2>8. Mutable => fs[n].state \in {"quarantined", "none"}
    BY <2>5, <2>7 DEF StateOf, RecordStates
  <2>9. QED
    BY <2>1, <2>2, <2>3, <2>5, <2>6, <2>8
<1>4. CASE Cardinality(M) # 1
  <2>1. Record = None
    BY <1>4 DEF Record, FindRecord
  <2>2. Issues # {}
    <3>1. CASE M = {}
      BY <3>1 DEF Issues, FindIssues
    <3>2. CASE M # {}
      <4>1. Cardinality(M) \in Nat /\ Cardinality(M) # 0
        BY <1>1, <3>2, FS_CardinalityType, FS_EmptySet
      <4>2. Cardinality(M) > 1
        BY <1>4, <4>1
      <4>3. QED
        BY <3>2, <4>2 DEF Issues, FindIssues
    <3>3. QED
      BY <3>1, <3>2
  <2>3. QED
    BY <2>1, <2>2 DEF Mutable
<1>5. QED
  BY <1>3, <1>4

-----------------------------------------------------------------------------
(* The inductive invariant.                                                *)

(* Nothing is dated in the future, and what a sidecar stands beside is a   *)
(* file, never an audit.                                                   *)
FilesInv ==
  /\ \A n \in Names : /\ fs[n] # None => n[1] <= clock
                      /\ n[2] = 0 => fs[n] \in Blobs \cup {None}
                      /\ n[2] = 2 => fs[n] \notin Blobs
  /\ \A n \in Sidecars : fs[n] # None => fs[PayloadOf(n)] \in Blobs \cup {None}

(* Where a restore may put a file, if it puts it in the quarantine.        *)
Reachable(place) == place \in Names => place[1] <= clock /\ place[2] # 2

(* A command that has begun and not yet written.                           *)
Beginning == pc \in {"move", "restore", "delete"}

RequestInv ==
  /\ Beginning => request.command = pc /\ fs = started /\ response.exit = Unanswered
  /\ pc = "move" => /\ request.source \in Places /\ fs[request.source] \in Malicious
                    /\ clock + 1 \in Seconds
  /\ pc = "restore" => request.target \in Places \cup {None} /\ Reachable(request.target)

(* A command between its two writes: the payload has come or gone, the     *)
(* audit is still what it was, or torn.                                    *)
Window == pc \in {"open", "write"}

WindowInv ==
  Window =>
    /\ entry \in Sidecars /\ draft \in Audit /\ draft.state = fate[entry]
    /\ pc = "write" => fs[entry] = Torn
    /\ \A n \in Sidecars : PayloadOf(n) = entry => fs[n] = None
    /\ \/ /\ request.command = "move"
          /\ draft.state = "quarantined"
          /\ fs[PayloadOf(entry)] \in Blobs
          /\ pc = "open" => fs[entry] = None
       \/ /\ request.command \in {"restore", "delete"}
          /\ draft.state \in {"restored", "deleted"}
          /\ fs[PayloadOf(entry)] = None
          /\ pc = "open" => Matches(fs, request.scan_id) = {entry}

(* What a record says about the fate of its payload.                       *)
FateInv ==
  \A n \in Sidecars : IsAudit(fs[n]) =>
    /\ fs[n].state \in {"restored", "deleted"} => fate[n] = fs[n].state
    /\ fs[n].state \in {"quarantined", "none"} /\ fs[PayloadOf(n)] # None
         => fate[n] = "quarantined" \/ n \in filled

(* The original path of a record, when it is a place in the quarantine.    *)
PathInv ==
  /\ \A n \in Sidecars : IsAudit(fs[n]) => Reachable(fs[n].original_path)
  /\ Window => Reachable(draft.original_path)

(* What a command has done so far, as it will be told.                     *)
MovedSoFar ==
  LET source == request.source
      place == PayloadOf(entry)
  IN  /\ source \in Places \ {entry, place}
      /\ started[source] \in Blobs /\ started[entry] = None /\ started[place] = None
      /\ fs[source] = None /\ fs[place] = started[source]
      /\ \A p \in Places \ {source, entry, place} : fs[p] = started[p]

TargetOfDraft ==
  IF request.target = None THEN draft.original_path ELSE request.target

TakenOutSoFar ==
  LET place == PayloadOf(entry)
      targets == IF request.command = "restore" THEN {TargetOfDraft} ELSE {}
  IN  /\ targets \subseteq Places \ {entry, place}
      /\ started[place] \in Blobs /\ started[entry] \in Audit
      /\ started[entry].state # draft.state
      /\ \A p \in targets : started[p] = None /\ fs[p] = started[place]
      /\ \A p \in Places \ (targets \cup {entry, place}) : fs[p] = started[p]
      /\ response.before = "quarantined"
      /\ request.command = "delete" => request.yes

AnswerInv ==
  /\ AnswersAreTrue
  /\ Window => /\ response.exit = Unanswered
               /\ IF request.command = "move" THEN MovedSoFar ELSE TakenOutSoFar

(* The histories of the audits, and of the one that is about to be written.*)
HistoryInv ==
  /\ told \in [Sidecars -> Seq(EventActions)]
  /\ \A n \in Sidecars : /\ IsAudit(fs[n]) => told[n] = fs[n].events
                         /\ n[1] > clock => told[n] = << >>
                         /\ IsAudit(fs[n]) \/ told[n] = << >> \/ BeingWritten(n) \/ n \in cut
  /\ Window => IsPrefix(told[entry], draft.events)

(* What the listing has seen of a sidecar that it has read: the sidecar is *)
(* still the same, or the reading was true whatever becomes of the payload *)
(* -- or the payload is gone for good, and nothing but another file can be *)
(* put in its place.                                                       *)
GoneForGood(n) ==
  /\ fs[PayloadOf(n)] = None /\ n[1] <= clock
  /\ fate[n] \in {"restored", "deleted"}
  /\ Window => PayloadOf(n) # entry

HeldInv(n) ==
  \/ fs[n] = held
  \/ Gone \in was[n]
  \/ n \in filled
  \/ Reading(held, FALSE) \in was[n] /\ (GoneForGood(n) \/ ~IsAudit(held))

Readings == {Reading(content, TRUE) : content \in Content}
            \cup {Reading(content, FALSE) : content \in Content}
Entries == [name : Sidecars, reading : Readings]

ListInv ==
  /\ lpc \in {"idle", "read", "look"} /\ todo \in Seq(Sidecars)
  /\ listed \in Seq(Entries)
  /\ lpc = "idle" => listed = << >>
  /\ lpc = "look" => todo # << >> /\ held \in Content /\ HeldInv(Head(todo))
  /\ lpc # "idle" => \A n \in Sidecars :
       /\ AtOnce(n) \in was[n]
       /\ Gone \in was[n] \/ n \in Range(todo) \/ \E r \in Range(listed) : r.name = n
  /\ \A r \in Range(listed) : was[r.name] \cap {r.reading, Gone} # {} \/ r.name \in filled

(* The operator's part of the type invariant.                              *)
OperatorTypes ==
  /\ fs \in [Places -> Content] /\ \A p \in Outside : fs[p] \in Blobs \cup {None}
  /\ clock \in Nat /\ commands \in 0 .. MaxCommands
  /\ pc \in {"idle", "move", "restore", "delete", "open", "write"}
  /\ entry \in Sidecars \cup {None} /\ draft \in Audit \cup {None}
  /\ response.exit \in {0, 1, 6, 7, 8, Unanswered}
  /\ response.before \in RecordStates \cup {"unknown", None}
  /\ response.after \in RecordStates \cup {None}
  /\ fate \in [Sidecars -> Fates] /\ filled \subseteq Sidecars /\ cut \subseteq Sidecars

OperatorInv == OperatorTypes /\ FilesInv /\ RequestInv /\ WindowInv /\ FateInv /\ PathInv /\ AnswerInv
IInv == OperatorInv /\ HistoryInv /\ ListInv

-----------------------------------------------------------------------------
(* The two steps that move a payload, as the invariant sees them.          *)

(* A file enters the quarantine from source, and s will be its sidecar.    *)
Enters(source, s) ==
  /\ s \in Sidecars /\ s[1] = clock + 1 /\ clock' = clock + 1
  /\ PayloadOf(s)[2] # 2
  /\ fs[s] = None /\ fs[PayloadOf(s)] = None
  /\ source \in Places \ {s, PayloadOf(s)} /\ fs[source] \in Blobs
  /\ source \in Names => source[1] <= clock /\ source[2] # 2
  /\ fs' \in [Places -> Content]
  /\ fs'[source] = None /\ fs'[PayloadOf(s)] = fs[source]
  /\ \A p \in Places \ {source, PayloadOf(s)} : fs'[p] = fs[p]
  /\ fate' \in [Sidecars -> Fates] /\ fate'[s] = "quarantined"
  /\ \A n \in Sidecars \ {s} :
       fate'[n] = IF PayloadOf(n) = source /\ fate[n] = "quarantined" THEN "elsewhere"
                  ELSE fate[n]
  /\ draft' \in Audit /\ draft'.state = "quarantined" /\ draft'.original_path = source
  /\ draft'.events = <<"quarantine_move">>
  /\ entry' = s /\ pc = "move" /\ pc' = "open"
  /\ request.command = "move" /\ request.source = source
  /\ UNCHANGED <<commands, request, response, filled, started, cut>>

(* The payload of r leaves, to the targets if there are any.               *)
TakesOut(r, targets) ==
  /\ r \in Sidecars /\ fs[r] \in Audit /\ fs[r].state \in {"quarantined", "none"}
  /\ Matches(fs, request.scan_id) = {r}
  /\ fs[PayloadOf(r)] \in Blobs
  /\ targets = IF request.command = "restore"
               THEN {IF request.target = None THEN fs[r].original_path ELSE request.target}
               ELSE {}
  /\ targets \subseteq Places \ {r, PayloadOf(r)}
  /\ \A p \in targets : fs[p] = None /\ Reachable(p)
  /\ fs' \in [Places -> Content] /\ fs'[PayloadOf(r)] = None
  /\ \A p \in targets : fs'[p] = fs[PayloadOf(r)]
  /\ \A p \in Places \ (targets \cup {PayloadOf(r)}) : fs'[p] = fs[p]
  /\ fate' \in [Sidecars -> Fates] /\ fate'[r] = draft'.state
  /\ \A n \in Sidecars \ {r} :
       \/ fate'[n] = fate[n] /\ (PayloadOf(n) \in targets => n \in filled')
       \/ fate'[n] = "quarantined" /\ fate[n] = "elsewhere" /\ PayloadOf(n) \in targets
  /\ filled \subseteq filled' /\ filled' \subseteq Sidecars
  /\ draft' \in Audit /\ draft'.state \in {"restored", "deleted"}
  /\ draft'.original_path = fs[r].original_path
  /\ draft'.events = Append(fs[r].events, request.command)
  /\ request.command \in {"restore", "delete"} /\ pc = request.command /\ pc' = "open"
  /\ request.command = "delete" => request.yes
  /\ entry' = r
  /\ response'.exit = Unanswered /\ response'.before = "quarantined" /\ response'.after = None
  /\ UNCHANGED <<clock, commands, request, started, cut>>

(* The move of a scan lets its source enter.                               *)
LEMMA MoveEnters ==
  ASSUME OperatorInv, MoveIntoQuarantine
  PROVE  \E source, s : Enters(source, s)
<1> DEFINE source == request.source
           name == NameFor(source)
           s == SidecarOf(name)
<1>1. pc = "move" /\ source \in Places /\ fs[source] \in Blobs /\ clock + 1 \in Seconds
      /\ request.command = "move" /\ clock \in Nat
  BY DEF MoveIntoQuarantine, Goto, OperatorInv, RequestInv, Beginning, OperatorTypes
<1>2. source \in Names => source[1] <= clock /\ source[2] \in {0, 1}
  <2>1. fs[source] # None
    BY <1>1
  <2>2. QED
    BY <1>1, <2>1, NamesOfPairs DEF OperatorInv, FilesInv
<1>3. name \in Names /\ name[1] = clock + 1 /\ name[2] # 2
  <2>1. (IF source \in Outside THEN (IF source \in EndsInAudit THEN 1 ELSE 0) ELSE source[2])
          \in {0, 1}
    BY <1>1, <1>2 DEF Places
  <2>2. QED
    BY <1>1, <2>1 DEF NameFor, Names
<1>4. s \in Sidecars /\ s[1] = clock + 1 /\ PayloadOf(s) = name /\ s \in Names
      /\ s \in Places /\ name \in Places
  BY <1>3, NamesOfPairs
<1>5. fs[s] = None /\ fs[name] = None
  BY <1>1, <1>3, <1>4 DEF OperatorInv, FilesInv
<1>6. source \notin {s, name}
  BY <1>1, <1>5
<1>7. fs' = [fs EXCEPT ![source] = None, ![name] = fs[source]] /\ fs \in [Places -> Content]
  BY DEF MoveIntoQuarantine, OperatorInv, OperatorTypes
<1>8. /\ fs' \in [Places -> Content] /\ fs'[source] = None /\ fs'[name] = fs[source]
      /\ \A p \in Places \ {source, name} : fs'[p] = fs[p]
  BY <1>1, <1>4, <1>6, <1>7 DEF Content
<1>9. /\ fate' \in [Sidecars -> Fates] /\ fate'[s] = "quarantined"
      /\ \A n \in Sidecars \ {s} :
           fate'[n] = IF PayloadOf(n) = source /\ fate[n] = "quarantined" THEN "elsewhere"
                      ELSE fate[n]
  BY <1>4 DEF MoveIntoQuarantine, OperatorInv, OperatorTypes, Fates
<1>10. /\ draft' \in Audit /\ draft'.state = "quarantined" /\ draft'.original_path = source
       /\ draft'.events = <<"quarantine_move">>
  BY <1>1 DEF MoveIntoQuarantine, Audit, RecordStates, EventActions
<1>11. Enters(source, s)
  BY <1>1, <1>2, <1>3, <1>4, <1>5, <1>6, <1>8, <1>9, <1>10
     DEF Enters, MoveIntoQuarantine, Goto
<1>12. QED
  BY <1>11

(* A restore and a delete take the payload of their record out.            *)
LEMMA RecordIsTaken ==
  ASSUME OperatorInv, MovePayloadOut \/ UnlinkPayload
  PROVE  \E r, targets : TakesOut(r, targets)
<1> DEFINE r == Record
           place == PayloadOf(r)
           targets == IF pc = "restore" THEN {Target} ELSE {}
<1>1. /\ fs \in [Places -> Content] /\ fate \in [Sidecars -> Fates]
      /\ Mutable /\ Record # None
      /\ pc \in {"restore", "delete"} /\ request.command = pc
      /\ pc = "delete" => request.yes
  BY DEF MovePayloadOut, UnlinkPayload, OperatorInv, OperatorTypes, RequestInv, Beginning, Mutable
<1>2. /\ Matches(fs, request.scan_id) = {r} /\ r \in Sidecars /\ fs[r] \in Audit
      /\ fs[place] # None /\ fs[r].state \in {"quarantined", "none"}
      /\ StateBefore = "quarantined"
  BY <1>1, RecordIsTheOne
<1>3. r \in Places /\ place \in Places /\ place # r /\ fs[r] # None
  BY <1>2, NamesOfPairs, AuditsAreAudits
<1>4. fs[place] \in Blobs
  BY <1>2, <1>3 DEF OperatorInv, FilesInv
<1>5. ASSUME pc = "restore"
      PROVE  /\ Target \in Places \ {r, place} /\ fs[Target] = None
             /\ Reachable(Target)
             /\ Target = IF request.target = None THEN fs[r].original_path ELSE request.target
  <2>1. Target # None /\ fs[Target] = None
    BY <1>5 DEF MovePayloadOut, UnlinkPayload, TargetIssues
  <2>2. request.target \in Places \cup {None} /\ Reachable(request.target)
        /\ Reachable(fs[r].original_path)
    BY <1>2, <1>5, AuditsAreAudits DEF OperatorInv, RequestInv, PathInv
  <2>3. fs[r].original_path \in Places \cup {None}
    BY <1>2 DEF Audit
  <2>4. Target = IF request.target = None THEN fs[r].original_path ELSE request.target
    BY DEF Target
  <2>5. Target \in Places /\ Reachable(Target)
    BY <2>1, <2>2, <2>3, <2>4
  <2>6. QED
    BY <1>2, <1>3, <2>1, <2>4, <2>5
<1>6. /\ targets \subseteq Places \ {r, place}
      /\ \A p \in targets : fs[p] = None /\ Reachable(p)
      /\ targets = IF request.command = "restore"
                   THEN {IF request.target = None THEN fs[r].original_path ELSE request.target}
                   ELSE {}
  BY <1>1, <1>5
<1>7. /\ fs' \in [Places -> Content] /\ fs'[place] = None
      /\ \A p \in targets : fs'[p] = fs[place]
      /\ \A p \in Places \ (targets \cup {place}) : fs'[p] = fs[p]
  <2>1. CASE MovePayloadOut
    <3>1. fs' = [fs EXCEPT ![Target] = fs[place], ![place] = None] /\ pc = "restore"
      BY <2>1 DEF MovePayloadOut, TakeOut
    <3>2. QED
      BY <1>1, <1>3, <1>5, <3>1 DEF Content
  <2>2. CASE UnlinkPayload
    <3>1. fs' = [fs EXCEPT ![place] = None] /\ pc = "delete"
      BY <2>2 DEF UnlinkPayload, TakeOut
    <3>2. QED
      BY <1>1, <1>3, <3>1 DEF Content
  <2>3. QED
    BY <2>1, <2>2
<1>8. /\ draft' \in Audit /\ draft'.state = EndState
      /\ draft'.original_path = fs[r].original_path
      /\ draft'.events = Append(fs[r].events, request.command)
      /\ EndState \in {"restored", "deleted"}
  <2>1. draft' = Updated(fs[r])
    BY DEF MovePayloadOut, UnlinkPayload, TakeOut
  <2>2. EndState \in {"restored", "deleted"}
    BY DEF EndState
  <2>3. Append(fs[r].events, request.command) \in Seq(EventActions)
    BY <1>1, <1>2 DEF Audit, EventActions
  <2>4. QED
    BY <1>2, <2>1, <2>2, <2>3 DEF Updated, Audit, RecordStates
<1>9. /\ fate' \in [Sidecars -> Fates] /\ fate'[r] = draft'.state
      /\ \A n \in Sidecars \ {r} :
           \/ fate'[n] = fate[n] /\ (PayloadOf(n) \in targets => n \in filled')
           \/ fate'[n] = "quarantined" /\ fate[n] = "elsewhere" /\ PayloadOf(n) \in targets
      /\ filled \subseteq filled' /\ filled' \subseteq Sidecars
  <2>1. filled \subseteq Sidecars
    BY DEF OperatorInv, OperatorTypes
  <2>2. CASE MovePayloadOut
    <3>1. /\ fate' = [n \in Sidecars |-> IF n = r THEN "restored"
                                        ELSE IF Returns(n) THEN "quarantined" ELSE fate[n]]
          /\ filled' = filled \cup {n \in Sidecars : StandsIn(n)}
          /\ pc = "restore" /\ EndState = "restored" /\ targets = {Target}
      BY <1>1, <2>2 DEF MovePayloadOut, EndState
    <3>2. fate' \in [Sidecars -> Fates] /\ fate'[r] = draft'.state
      BY <1>1, <1>2, <1>8, <3>1 DEF Fates
    <3>3. ASSUME NEW n \in Sidecars \ {r}
          PROVE  \/ fate'[n] = fate[n] /\ (PayloadOf(n) \in targets => n \in filled')
                 \/ /\ fate'[n] = "quarantined" /\ fate[n] = "elsewhere"
                    /\ PayloadOf(n) \in targets
      <4>1. CASE Returns(n)
        BY <3>1, <4>1 DEF Returns
      <4>2. CASE ~Returns(n)
        BY <3>1, <4>2 DEF StandsIn
      <4>3. QED
        BY <4>1, <4>2
    <3>4. QED
      BY <2>1, <3>1, <3>2, <3>3
  <2>3. CASE UnlinkPayload
    <3>1. /\ fate' = [fate EXCEPT ![r] = "deleted"] /\ filled' = filled
          /\ pc = "delete" /\ EndState = "deleted" /\ targets = {}
      BY <1>1, <2>3 DEF UnlinkPayload, EndState
    <3>2. QED
      BY <1>1, <1>2, <1>8, <2>1, <3>1 DEF Fates
  <2>4. QED
    BY <2>2, <2>3
<1>10. /\ entry' = r /\ pc' = "open"
       /\ response'.exit = Unanswered /\ response'.before = "quarantined"
       /\ response'.after = None
       /\ UNCHANGED <<clock, commands, request, started, cut>>
  BY <1>2 DEF MovePayloadOut, UnlinkPayload, TakeOut, Answer
<1>11. TakesOut(r, targets)
  BY <1>1, <1>2, <1>4, <1>6, <1>7, <1>8, <1>9, <1>10 DEF TakesOut
<1>12. QED
  BY <1>11

(* A command begins.                                                       *)
Begins ==
  /\ pc = "idle" /\ pc' \in {"move", "restore", "delete"} /\ request'.command = pc'
  /\ commands' \in 0 .. MaxCommands
  /\ response' = NoResponse /\ entry' = None /\ draft' = None /\ started' = fs
  /\ pc' = "move" => /\ request'.source \in Places /\ fs[request'.source] \in Malicious
                     /\ clock + 1 \in Seconds
  /\ pc' = "restore" =>
       request'.target \in Places \cup {None} /\ Reachable(request'.target)
  /\ UNCHANGED <<fs, clock, fate, filled, cut>>

(* A command ends without an audit.                                        *)
Ends ==
  /\ pc # "idle" /\ pc' = "idle"
  /\ response'.exit \in {6, 7, 8} /\ response'.after = None
  /\ response'.before \in RecordStates \cup {"unknown", None}
  /\ response'.exit # 6 => Beginning /\ response'.issues # {}
  /\ cut' = IF pc = "write" THEN cut \cup {entry} ELSE cut
  /\ UNCHANGED <<fs, clock, commands, request, entry, draft, fate, filled, started>>

(* Whatever the operator does is one of six things.                        *)
LEMMA KindsOfStep ==
  ASSUME OperatorInv, OperatorStep
  PROVE  \/ Begins \/ Ends
         \/ \E source, s : Enters(source, s)
         \/ \E r, targets : TakesOut(r, targets)
         \/ OpenAudit \/ WriteAudit
<1>1. fs \in [Places -> Content] /\ commands \in 0 .. MaxCommands
  BY DEF OperatorInv, OperatorTypes
<1>2. StateBefore \in RecordStates \cup {"unknown", None}
  <2>1. CASE Record = None
    BY <2>1 DEF StateBefore
  <2>2. CASE Record # None
    <3>1. StateBefore = StateOf(fs[Record], fs[PayloadOf(Record)] # None)
      BY <1>1, <2>2, RecordIsTheOne, AuditsAreAudits DEF StateBefore, Load, Reading, RecordOf
    <3>2. QED
      BY <3>1 DEF StateOf, RecordStates
  <2>3. QED
    BY <2>1, <2>2
<1>3. ASSUME NEW source \in Places, BeginScan(source)
      PROVE  Begins
  BY <1>1, <1>3 DEF BeginScan, Begin, Begins, Goto
<1>4. ASSUME NEW id, NEW output \in Outputs, BeginRestore(id, output)
      PROVE  Begins
  <2>1. output \in Places \cup {None} /\ Reachable(output)
    BY NamesOfPairs DEF Outputs, Places, Reachable
  <2>2. QED
    BY <1>1, <1>4, <2>1 DEF BeginRestore, Begin, Begins, Goto
<1>5. ASSUME NEW id, NEW yes, BeginDelete(id, yes)
      PROVE  Begins
  BY <1>1, <1>5 DEF BeginDelete, Begin, Begins, Goto
<1>6. ASSUME RefuseUnconfirmed PROVE Ends
  BY <1>6 DEF RefuseUnconfirmed, Refuse, Answer, Ends, Beginning
<1>7. ASSUME RefuseRecord PROVE Ends
  <2>1. Issues \cup NotMutable # {}
    BY <1>1, <1>7, RecordIsTheOne DEF RefuseRecord, Mutable
  <2>2. QED
    BY <1>2, <1>7, <2>1 DEF RefuseRecord, Refuse, Answer, Ends, Beginning
<1>8. ASSUME RefuseTarget PROVE Ends
  BY <1>2, <1>8 DEF RefuseTarget, Refuse, Answer, Ends, Beginning
<1>9. ASSUME Fault PROVE Ends
  BY <1>9 DEF Fault, Answer, Ends
<1>10. ASSUME ConfigFails PROVE Ends
  BY <1>10 DEF ConfigFails, Answer, Ends, Beginning
<1>11. QED
  BY <1>3, <1>4, <1>5, <1>6, <1>7, <1>8, <1>9, <1>10, MoveEnters, RecordIsTaken
     DEF OperatorStep

-----------------------------------------------------------------------------
(* Each of the six keeps the invariant.                                    *)

(* A command that begins has changed nothing yet.                          *)
LEMMA BeginKeeps ==
  ASSUME OperatorInv, Begins
  PROVE  OperatorInv'
<1>1. OperatorTypes'
  BY DEF Begins, OperatorInv, OperatorTypes, NoResponse
<1>2. FilesInv' /\ FateInv'
  BY DEF Begins, OperatorInv, FilesInv, FateInv
<1>3. RequestInv'
  BY DEF Begins, RequestInv, Beginning, NoResponse, Reachable
<1>4. WindowInv' /\ AnswerInv'
  BY DEF Begins, WindowInv, AnswerInv, AnswersAreTrue, Answered, Window, NoResponse
<1>5. ~Window /\ ~Window'
  BY DEF Begins, Window
<1>6. PathInv'
  BY <1>5 DEF Begins, OperatorInv, PathInv, Reachable
<1>7. QED
  BY <1>1, <1>2, <1>3, <1>4, <1>6 DEF OperatorInv

(* A command that ends changes no file.                                    *)
LEMMA EndKeeps ==
  ASSUME OperatorInv, Ends
  PROVE  OperatorInv'
<1>1. OperatorTypes'
  <2>1. cut' \subseteq Sidecars
    BY DEF Ends, OperatorInv, OperatorTypes, WindowInv, Window
  <2>2. QED
    BY <2>1 DEF Ends, OperatorInv, OperatorTypes
<1>2. FilesInv' /\ FateInv'
  BY DEF Ends, OperatorInv, FilesInv, FateInv
<1>3. ~Window' /\ ~Beginning' /\ RequestInv' /\ WindowInv'
  BY DEF Ends, Window, Beginning, RequestInv, WindowInv
<1>4. AnswerInv'
  <2>1. response'.exit # 6 => fs = started
    BY DEF Ends, OperatorInv, RequestInv
  <2>2. response'.exit \notin {0, 1} /\ (response'.exit \in {7, 8} => Changed' = {} /\ response'.issues # {})
    BY <2>1 DEF Ends, Changed
  <2>3. AnswersAreTrue'
    BY ONLY <2>2 DEF AnswersAreTrue
  <2>4. QED
    BY <1>3, <2>3 DEF AnswerInv
<1>5. PathInv'
  BY <1>3 DEF Ends, OperatorInv, PathInv, Reachable
<1>6. QED
  BY <1>1, <1>2, <1>3, <1>4, <1>5 DEF OperatorInv

(* A file enters: the place it leaves is the original path of its record.  *)
LEMMA EnterKeeps ==
  ASSUME OperatorInv, NEW source, NEW s, Enters(source, s)
  PROVE  OperatorInv'
<1> DEFINE place == PayloadOf(s)
<1>1. /\ OperatorTypes /\ FilesInv /\ RequestInv /\ FateInv /\ PathInv
      /\ clock \in Nat /\ clock' \in Nat
  BY DEF OperatorInv, OperatorTypes, Enters
<1>2. /\ s \in Sidecars /\ s \in Names /\ place \in Names /\ s \in Places /\ place \in Places
      /\ s[1] = clock' /\ place[1] = clock' /\ place # s /\ clock' = clock + 1
      /\ source \in Places /\ source \notin {s, place}
      /\ fs[source] \in Blobs /\ fs[source] # None
  BY NamesOfPairs, AuditsAreAudits DEF Enters
<1>3. /\ fs'[source] = None /\ fs'[place] = fs[source] /\ fs'[s] = None
      /\ fs[s] = None /\ fs[place] = None
      /\ \A p \in Places \ {source, place} : fs'[p] = fs[p]
  BY <1>2 DEF Enters
<1>4. ~Window /\ pc' = "open" /\ Window' /\ entry' = s /\ ~Beginning'
  BY DEF Enters, Window, Beginning
<1>5. \A n \in Names : n[1] \in Nat /\ n \in Places
  BY NamesOfPairs
<1>6. OperatorTypes'
  <2>1. \A p \in Outside : fs'[p] \in Blobs \cup {None}
    BY <1>1, <1>2, <1>3 DEF OperatorTypes, Places
  <2>2. QED
    BY <1>1, <1>2, <2>1 DEF Enters, OperatorTypes
<1>7. FilesInv'
  <2>1. ASSUME NEW n \in Names
        PROVE  /\ fs'[n] # None => n[1] <= clock'
               /\ n[2] = 0 => fs'[n] \in Blobs \cup {None}
               /\ n[2] = 2 => fs'[n] \notin Blobs
    <3>1. CASE n = place
      <4>1. n[2] # 2
        BY <3>1 DEF Enters
      <4>2. QED
        BY <1>2, <1>3, <1>5, <3>1, <4>1
    <3>2. CASE n = source
      BY <1>3, <3>2, AuditsAreAudits
    <3>3. CASE n \notin {source, place}
      BY <1>1, <1>2, <1>3, <1>5, <3>3 DEF FilesInv
    <3>4. QED
      BY <3>1, <3>2, <3>3
  <2>2. ASSUME NEW n \in Sidecars, fs'[n] # None
        PROVE  fs'[PayloadOf(n)] \in Blobs \cup {None}
    <3>1. n \in Names /\ PayloadOf(n) \in Names /\ n[2] \in 1 .. 2 /\ PayloadOf(n)[2] = n[2] - 1
      BY NamesOfPairs
    <3>2. CASE n = place
      <4>1. PayloadOf(n)[2] = 0
        BY <3>1, <3>2 DEF Enters
      <4>2. QED
        BY <2>1, <3>1, <4>1
    <3>3. CASE n # place
      <4>1. fs[n] # None
        BY <1>3, <2>2, <3>1, <3>3, <1>5
      <4>2. fs[PayloadOf(n)] \in Blobs \cup {None}
        BY <1>1, <4>1 DEF FilesInv
      <4>3. QED
        BY <1>2, <1>3, <1>5, <3>1, <4>2
    <3>4. QED
      BY <3>2, <3>3
  <2>3. QED
    BY <2>1, <2>2 DEF FilesInv
<1>8. RequestInv'
  BY <1>4 DEF RequestInv, Beginning
<1>9. ASSUME NEW n \in Sidecars, IsAudit(fs'[n])
      PROVE  n # s /\ n # place /\ n # source /\ fs'[n] = fs[n]
  BY <1>2, <1>3, <1>5, <1>9, NamesOfPairs, AuditsAreAudits
<1>10. \A n \in Sidecars : n # s => PayloadOf(n) # place
  BY <1>2, NamesOfPairs
<1>11. FateInv'
  <2> SUFFICES ASSUME NEW n \in Sidecars, IsAudit(fs'[n])
               PROVE  /\ fs'[n].state \in {"restored", "deleted"} => fate'[n] = fs'[n].state
                      /\ fs'[n].state \in {"quarantined", "none"} /\ fs'[PayloadOf(n)] # None
                           => fate'[n] = "quarantined" \/ n \in filled'
    BY DEF FateInv
  <2>1. /\ fs'[n] = fs[n] /\ n # s /\ PayloadOf(n) \in Places
        /\ fate'[n] = IF PayloadOf(n) = source /\ fate[n] = "quarantined" THEN "elsewhere"
                      ELSE fate[n]
        /\ filled' = filled
    BY <1>9, NamesOfPairs DEF Enters
  <2>2. fs'[PayloadOf(n)] # None => PayloadOf(n) # source /\ fs[PayloadOf(n)] # None
    BY <1>3, <1>10, <2>1
  <2>3. QED
    BY <1>1, <2>1, <2>2 DEF FateInv
<1>16. PathInv'
  <2>1. ASSUME NEW n \in Sidecars, IsAudit(fs'[n])
        PROVE  Reachable(fs[n].original_path)'
    <3>1. fs'[n] = fs[n] /\ Reachable(fs[n].original_path)
      BY <1>1, <1>9, <2>1 DEF PathInv
    <3>2. QED
      BY <1>1, <1>2, <1>5, <3>1 DEF Reachable
  <2>2. Reachable(draft.original_path)'
    BY <1>1, <1>2, <1>5 DEF Reachable, Enters
  <2>3. QED
    BY <2>1, <2>2 DEF PathInv
<1>17. WindowInv'
  <2>1. ASSUME NEW n \in Sidecars, PayloadOf(n) = s
        PROVE  fs'[n] = None
    <3>1. n \in Names /\ n[1] = clock + 1 /\ n # place
      BY <1>2, <2>1, NamesOfPairs
    <3>2. fs[n] = None
      BY <1>1, <3>1 DEF FilesInv
    <3>3. QED
      BY <1>2, <1>3, <1>5, <3>1, <3>2
  <2>2. QED
    BY <1>2, <1>3, <1>4, <2>1 DEF WindowInv, Enters
<1>18. AnswerInv'
  <2>1. fs = started
    BY <1>1 DEF RequestInv, Beginning, Enters
  <2>2. MovedSoFar'
    BY <1>2, <1>3, <2>1 DEF MovedSoFar, Enters
  <2>3. response'.exit = Unanswered
    BY <1>1 DEF RequestInv, Beginning, Enters
  <2>4. QED
    BY <1>4, <2>2, <2>3 DEF AnswerInv, AnswersAreTrue, Answered, Enters
<1>19. QED
  BY <1>6, <1>7, <1>8, <1>11, <1>16, <1>17, <1>18 DEF OperatorInv

(* A payload leaves: if it is put in a place in the quarantine, a sidecar  *)
(* there gets its payload back or is filled.                               *)
LEMMA TakeKeeps ==
  ASSUME OperatorInv, NEW r, NEW targets, TakesOut(r, targets)
  PROVE  OperatorInv'
<1> DEFINE place == PayloadOf(r)
<1>1. /\ OperatorTypes /\ FilesInv /\ RequestInv /\ FateInv /\ PathInv
      /\ clock \in Nat /\ clock' = clock
  BY DEF OperatorInv, OperatorTypes, TakesOut
<1>2. /\ r \in Sidecars /\ r \in Names /\ place \in Names /\ r \in Places /\ place \in Places
      /\ place # r /\ fs[r] \in Audit /\ fs[r] # None /\ IsAudit(fs[r])
      /\ fs[place] \in Blobs /\ fs[place] # None
  BY NamesOfPairs, AuditsAreAudits DEF TakesOut
<1>3. /\ targets \subseteq Places \ {r, place}
      /\ fs'[place] = None /\ fs'[r] = fs[r]
      /\ \A p \in targets : fs[p] = None /\ fs'[p] = fs[place] /\ fs'[p] \in Blobs
      /\ \A p \in Places \ (targets \cup {place}) : fs'[p] = fs[p]
  BY <1>2 DEF TakesOut
<1>4. ~Window /\ pc' = "open" /\ Window' /\ entry' = r /\ ~Beginning'
  BY DEF TakesOut, Window, Beginning
<1>5. \A n \in Names : n[1] \in Nat /\ n \in Places
  BY NamesOfPairs
<1>7. ASSUME NEW p \in targets, p \in Names
      PROVE  p[1] <= clock /\ p[2] # 2
  BY <1>7 DEF TakesOut, Reachable
<1>8. OperatorTypes'
  <2>1. \A p \in Outside : fs'[p] \in Blobs \cup {None}
    BY <1>1, <1>2, <1>3 DEF OperatorTypes, Places
  <2>2. /\ fs' \in [Places -> Content] /\ fate' \in [Sidecars -> Fates]
        /\ pc' = "open" /\ commands' = commands
        /\ entry' \in Sidecars \cup {None} /\ draft' \in Audit \cup {None}
        /\ filled' \subseteq Sidecars /\ cut' = cut
    BY <1>2, <1>4 DEF TakesOut
  <2>3. /\ response'.exit = Unanswered /\ response'.before = "quarantined"
        /\ response'.after = None
    BY DEF TakesOut
  <2>4. QED
    BY ONLY <1>1, <2>1, <2>2, <2>3 DEF OperatorTypes, RecordStates
<1>9. FilesInv'
  <2>1. ASSUME NEW n \in Names
        PROVE  /\ fs'[n] # None => n[1] <= clock
               /\ n[2] = 0 => fs'[n] \in Blobs \cup {None}
               /\ n[2] = 2 => fs'[n] \notin Blobs
    <3>1. CASE n \in targets
      BY <1>3, <1>7, <3>1
    <3>2. CASE n = place
      BY <1>3, <3>2, AuditsAreAudits
    <3>3. CASE n \notin targets \cup {place}
      BY <1>1, <1>3, <1>5, <3>3 DEF FilesInv
    <3>4. QED
      BY <3>1, <3>2, <3>3
  <2>2. ASSUME NEW n \in Sidecars, fs'[n] # None
        PROVE  fs'[PayloadOf(n)] \in Blobs \cup {None}
    <3>1. n \in Names /\ PayloadOf(n) \in Names /\ n[2] \in 1 .. 2 /\ PayloadOf(n)[2] = n[2] - 1
      BY NamesOfPairs
    <3>2. CASE n \in targets
      <4>1. PayloadOf(n)[2] = 0
        BY <1>7, <3>1, <3>2
      <4>2. QED
        BY <2>1, <3>1, <4>1
    <3>3. CASE n \notin targets
      <4>1. fs[n] # None
        BY <1>3, <2>2, <3>1, <3>3, <1>5
      <4>2. fs[PayloadOf(n)] \in Blobs \cup {None}
        BY <1>1, <4>1 DEF FilesInv
      <4>3. QED
        BY <1>2, <1>3, <1>5, <3>1, <4>2
    <3>4. QED
      BY <3>2, <3>3
  <2>3. QED
    BY <1>1, <2>1, <2>2 DEF FilesInv
<1>10. RequestInv'
  BY <1>4 DEF RequestInv, Beginning
<1>11. ASSUME NEW n \in Sidecars, IsAudit(fs'[n])
       PROVE  n # place /\ n \notin targets /\ fs'[n] = fs[n]
  BY <1>2, <1>3, <1>5, <1>11, NamesOfPairs, AuditsAreAudits
<1>12. \A n \in Sidecars : n # r => PayloadOf(n) # place
  BY <1>2, NamesOfPairs
<1>13. FateInv'
  <2> SUFFICES ASSUME NEW n \in Sidecars, IsAudit(fs'[n])
               PROVE  /\ fs'[n].state \in {"restored", "deleted"} => fate'[n] = fs'[n].state
                      /\ fs'[n].state \in {"quarantined", "none"} /\ fs'[PayloadOf(n)] # None
                           => fate'[n] = "quarantined" \/ n \in filled'
    BY DEF FateInv
  <2>1. fs'[n] = fs[n] /\ PayloadOf(n) \in Names /\ PayloadOf(n) \in Places
    BY <1>11, NamesOfPairs
  <2>2. CASE n = r
    <3>1. fs'[n].state \in {"quarantined", "none"} /\ fs'[PayloadOf(n)] = None
      BY <1>3, <2>1, <2>2 DEF TakesOut
    <3>2. QED
      BY <3>1
  <2>3. CASE n # r
    <3>1. \/ fate'[n] = fate[n] /\ (PayloadOf(n) \in targets => n \in filled')
          \/ fate'[n] = "quarantined" /\ fate[n] = "elsewhere" /\ PayloadOf(n) \in targets
      BY <2>3 DEF TakesOut
    <3>2. CASE fs'[n].state \in {"restored", "deleted"}
      BY <1>1, <2>1, <3>1, <3>2 DEF FateInv
    <3>3. CASE fs'[n].state \in {"quarantined", "none"} /\ fs'[PayloadOf(n)] # None
      <4>1. CASE PayloadOf(n) \in targets
        BY <3>1, <3>3, <4>1
      <4>2. CASE PayloadOf(n) \notin targets
        <5>1. fs'[PayloadOf(n)] = fs[PayloadOf(n)] /\ filled \subseteq filled'
          BY <1>3, <1>12, <2>1, <2>3, <4>2 DEF TakesOut
        <5>2. QED
          BY <1>1, <2>1, <3>1, <3>3, <4>2, <5>1 DEF FateInv
      <4>3. QED
        BY <4>1, <4>2
    <3>4. QED
      BY <3>2, <3>3
  <2>4. QED
    BY <2>2, <2>3
<1>15. PathInv'
  <2>1. ASSUME NEW n \in Sidecars, IsAudit(fs'[n])
        PROVE  Reachable(fs[n].original_path)'
    BY <1>1, <1>11, <2>1 DEF PathInv, Reachable
  <2>2. Reachable(draft.original_path)'
    BY <1>1, <1>2 DEF PathInv, Reachable, TakesOut
  <2>3. QED
    BY <2>1, <2>2 DEF PathInv
<1>16. WindowInv'
  <2>1. ASSUME NEW n \in Sidecars, PayloadOf(n) = r
        PROVE  fs'[n] = None
    <3>1. n \in Names /\ n[2] = 2
      <4>1. n[2] \in 1 .. 2 /\ r[2] = n[2] - 1 /\ r[2] \in 1 .. 2 /\ n \in Names
        BY <1>2, <2>1, NamesOfPairs
      <4>2. QED
        BY <4>1
    <3>2. fs[n] = None
      BY <1>1, <1>2, <2>1, AuditsAreAudits DEF FilesInv
    <3>3. n \notin targets
      BY <1>7, <3>1
    <3>4. QED
      BY <1>3, <1>5, <3>1, <3>2, <3>3
  <2>2. ASSUME NEW n \in Sidecars
        PROVE  IsAudit(fs'[n]) <=> IsAudit(fs[n]) /\ n \notin targets
    BY <1>2, <1>3, <1>5, <1>11, NamesOfPairs, AuditsAreAudits
  <2>3. \A n \in targets : fs[n] = None
    BY <1>3
  <2>4. Matches(fs', request.scan_id) = {r}
    <3>1. ASSUME NEW n \in Sidecars
          PROVE  n \in Matches(fs', request.scan_id) <=> n \in Matches(fs, request.scan_id)
      <4>1. IsAudit(fs'[n]) => fs'[n] = fs[n]
        BY <1>11
      <4>2. IsAudit(fs[n]) => IsAudit(fs'[n])
        BY <2>2, <2>3, AuditsAreAudits
      <4>3. QED
        BY <4>1, <4>2, AuditsAreAudits DEF Matches, Present
    <3>2. Matches(fs, request.scan_id) = {r}
      BY DEF TakesOut
    <3>3. \A f, id : Matches(f, id) \subseteq Sidecars
      BY DEF Matches, Present
    <3>4. QED
      BY <3>1, <3>2, <3>3
  <2>5. request' = request /\ (request.command \in {"restore", "delete"})
    BY DEF TakesOut
  <2>6. draft' \in Audit /\ draft'.state \in {"restored", "deleted"} /\ draft'.state = fate'[r]
    BY DEF TakesOut
  <2>7. QED
    BY <1>2, <1>3, <1>4, <2>1, <2>4, <2>5, <2>6 DEF WindowInv
<1>17. AnswerInv'
  <2>1. fs = started /\ started' = started
    BY <1>1 DEF RequestInv, Beginning, TakesOut
  <2>2. targets = IF request'.command = "restore" THEN {TargetOfDraft'} ELSE {}
    BY DEF TakesOut, TargetOfDraft
  <2>3. fs[r].state # draft'.state
    BY DEF TakesOut
  <2>4. /\ targets \subseteq Places \ {r, place}
        /\ started'[place] \in Blobs /\ started'[r] \in Audit
        /\ started'[r].state # draft'.state
        /\ \A p \in targets : started'[p] = None /\ fs'[p] = started'[place]
        /\ \A p \in Places \ (targets \cup {r, place}) : fs'[p] = started'[p]
    BY <1>2, <1>3, <2>1, <2>3
  <2>5. response'.before = "quarantined" /\ (request'.command = "delete" => request'.yes)
    BY DEF TakesOut
  <2>6. TakenOutSoFar'
    BY ONLY <1>4, <2>2, <2>4, <2>5 DEF TakenOutSoFar
  <2>7. response'.exit = Unanswered /\ request'.command # "move"
    BY DEF TakesOut
  <2>8. QED
    BY <1>4, <2>6, <2>7 DEF AnswerInv, AnswersAreTrue, Answered
<1>18. QED
  BY <1>8, <1>9, <1>10, <1>13, <1>15, <1>16, <1>17 DEF OperatorInv

(* A command that has moved a payload and is about to write its audit: the *)
(* sidecar has the date of a file that is or was there, and its record is  *)
(* the draft whatever is done to the file.                                 *)
LEMMA WindowFacts ==
  ASSUME OperatorInv, Window
  PROVE  /\ entry \in Sidecars /\ entry \in Names /\ entry \in Places
         /\ PayloadOf(entry) \in Names /\ PayloadOf(entry) \in Places /\ PayloadOf(entry) # entry
         /\ entry[1] <= clock
         /\ draft \in Audit /\ IsAudit(draft) /\ draft.state = fate[entry]
         /\ \A n \in Sidecars : PayloadOf(n) = entry => fs[n] = None
<1>1. entry \in Sidecars /\ draft \in Audit /\ draft.state = fate[entry]
      /\ \A n \in Sidecars : PayloadOf(n) = entry => fs[n] = None
  BY DEF OperatorInv, WindowInv
<1>2. /\ entry \in Names /\ entry \in Places /\ PayloadOf(entry) \in Names
      /\ PayloadOf(entry) \in Places /\ PayloadOf(entry) # entry
      /\ PayloadOf(entry)[1] = entry[1]
  BY <1>1, NamesOfPairs
<1>3. fs[entry] # None \/ fs[PayloadOf(entry)] # None
  <2>1. CASE request.command = "move"
    BY <2>1, AuditsAreAudits DEF OperatorInv, WindowInv
  <2>2. CASE request.command # "move" /\ pc = "open"
    <3>1. Matches(fs, request.scan_id) = {entry}
      BY <2>2 DEF OperatorInv, WindowInv
    <3>2. fs[entry] # None
      BY <3>1 DEF Matches, Present
    <3>3. QED
      BY <3>2
  <2>3. CASE pc = "write"
    BY <2>3 DEF OperatorInv, WindowInv
  <2>4. QED
    BY <2>1, <2>2, <2>3 DEF Window
<1>4. entry[1] <= clock
  BY <1>2, <1>3 DEF OperatorInv, FilesInv
<1>5. QED
  BY <1>1, <1>2, <1>4, AuditsAreAudits

(* Writing to the sidecar of a command changes nothing that a record says. *)
LEMMA WritesKeepFates ==
  ASSUME OperatorInv, Window,
         fs' = [fs EXCEPT ![entry] = IF pc = "open" THEN Torn ELSE draft],
         pc' = IF pc = "open" THEN "write" ELSE "idle",
         UNCHANGED <<clock, entry, draft, fate, filled>>
  PROVE  FilesInv' /\ FateInv' /\ PathInv'
<1>1. /\ OperatorTypes /\ FilesInv /\ FateInv /\ PathInv
      /\ fs \in [Places -> Content] /\ pc \in {"open", "write"}
  BY DEF OperatorInv, OperatorTypes, Window
<1>2. /\ entry \in Sidecars /\ entry \in Places /\ entry[1] <= clock
      /\ draft \in Audit /\ IsAudit(draft) /\ draft.state = fate[entry]
      /\ \A n \in Sidecars : PayloadOf(n) = entry => fs[n] = None /\ n # entry
  BY WindowFacts, NamesOfPairs
<1>3. /\ fs'[entry] = IF pc = "open" THEN Torn ELSE draft
      /\ \A p \in Places \ {entry} : fs'[p] = fs[p]
      /\ fs'[entry] \notin Blobs \cup {None}
  BY <1>1, <1>2, AuditsAreAudits
<1>4. \A n \in Names : n \in Places
  BY NamesOfPairs
<1>5. fs[PayloadOf(entry)] \in Blobs \cup {None} /\ PayloadOf(entry) # entry
      /\ PayloadOf(entry) \in Places
  <2>1. request.command = "move" => fs[PayloadOf(entry)] \in Blobs
    BY DEF OperatorInv, WindowInv
  <2>2. request.command # "move" => fs[PayloadOf(entry)] = None
    BY DEF OperatorInv, WindowInv
  <2>3. QED
    BY <2>1, <2>2, WindowFacts
<1>6. entry[2] # 0
  BY <1>2, NamesOfPairs
<1>7. FilesInv'
  <2>1. ASSUME NEW n \in Names
        PROVE  /\ fs'[n] # None => n[1] <= clock
               /\ n[2] = 0 => fs'[n] \in Blobs \cup {None}
               /\ n[2] = 2 => fs'[n] \notin Blobs
    BY <1>1, <1>2, <1>3, <1>4, <1>6 DEF FilesInv
  <2>2. ASSUME NEW n \in Sidecars, fs'[n] # None
        PROVE  fs'[PayloadOf(n)] \in Blobs \cup {None}
    <3>1. n \in Places /\ PayloadOf(n) \in Places
      BY NamesOfPairs
    <3>2. CASE n = entry
      BY <1>3, <1>5, <3>2
    <3>3. CASE n # entry
      <4>1. fs[n] # None /\ PayloadOf(n) # entry
        BY <1>2, <1>3, <2>2, <3>1, <3>3
      <4>2. QED
        BY <1>1, <1>3, <3>1, <4>1 DEF FilesInv
    <3>4. QED
      BY <3>2, <3>3
  <2>3. QED
    BY <2>1, <2>2 DEF FilesInv
<1>8. \A n \in Sidecars : n # entry => fs'[n] = fs[n]
  BY <1>3, NamesOfPairs
<1>9. ASSUME NEW n \in Sidecars, PayloadOf(n) = entry
      PROVE  ~IsAudit(fs'[n])
  BY <1>2, <1>8, <1>9, AuditsAreAudits
<1>10. FateInv'
  <2> SUFFICES ASSUME NEW n \in Sidecars, IsAudit(fs'[n])
               PROVE  /\ fs'[n].state \in {"restored", "deleted"} => fate'[n] = fs'[n].state
                      /\ fs'[n].state \in {"quarantined", "none"} /\ fs'[PayloadOf(n)] # None
                           => fate'[n] = "quarantined" \/ n \in filled'
    BY DEF FateInv
  <2>1. CASE n = entry
    <3>1. fs'[n] = draft
      BY <1>3, <2>1, AuditsAreAudits
    <3>2. draft.state # "none"
      BY DEF OperatorInv, WindowInv
    <3>3. QED
      BY <1>2, <2>1, <3>1, <3>2
  <2>2. CASE n # entry
    <3>1. fs'[n] = fs[n] /\ PayloadOf(n) # entry /\ PayloadOf(n) \in Places
      BY <1>8, <1>9, <2>2, NamesOfPairs
    <3>2. QED
      BY <1>1, <1>3, <3>1 DEF FateInv
  <2>3. QED
    BY <2>1, <2>2
<1>11. PathInv'
  <2>1. ASSUME NEW n \in Sidecars, IsAudit(fs'[n])
        PROVE  Reachable(fs'[n].original_path)
    <3>1. n = entry => fs'[n] = draft
      BY <1>3, <2>1, AuditsAreAudits
    <3>2. QED
      BY <1>1, <1>8, <2>1, <3>1 DEF PathInv
  <2>2. QED
    BY <1>1, <2>1 DEF PathInv, Reachable
<1>12. QED
  BY <1>7, <1>10, <1>11

(* The audit is truncated.                                                 *)
LEMMA OpenKeeps ==
  ASSUME OperatorInv, OpenAudit
  PROVE  OperatorInv'
<1>1. /\ Window /\ pc = "open" /\ pc' = "write" /\ fs' = [fs EXCEPT ![entry] = Torn]
      /\ UNCHANGED <<clock, commands, request, entry, draft, response, fate, filled, started,
                      cut>>
      /\ OperatorTypes
  BY DEF OpenAudit, Goto, Window, OperatorInv
<1>2. FilesInv' /\ FateInv' /\ PathInv'
  BY <1>1, WritesKeepFates
<1>3. /\ entry \in Sidecars /\ entry \in Names /\ entry \in Places
      /\ PayloadOf(entry) \in Places /\ PayloadOf(entry) # entry
      /\ \A n \in Sidecars : PayloadOf(n) = entry => fs[n] = None /\ n # entry
  BY <1>1, WindowFacts, NamesOfPairs
<1>4. fs'[entry] = Torn /\ \A p \in Places \ {entry} : fs'[p] = fs[p]
  BY <1>1, <1>3 DEF OperatorTypes
<1>5. OperatorTypes'
  <2>1. fs' \in [Places -> Content] /\ \A p \in Outside : fs'[p] \in Blobs \cup {None}
    BY <1>1, <1>3, <1>4, NamesOfPairs DEF OperatorTypes, Content, Places
  <2>2. QED
    BY <1>1, <2>1 DEF OperatorTypes
<1>6. RequestInv'
  BY <1>1 DEF RequestInv, Beginning
<1>7. WindowInv'
  <2>1. \A n \in Sidecars : n # entry => fs'[n] = fs[n]
    BY <1>4, NamesOfPairs
  <2>2. \A n \in Sidecars : PayloadOf(n) = entry => fs'[n] = None
    BY <1>3, <2>1
  <2>3. fs'[PayloadOf(entry)] = fs[PayloadOf(entry)]
    BY <1>3, <1>4
  <2>4. QED
    BY <1>1, <1>3, <1>4, <2>2, <2>3 DEF OperatorInv, WindowInv, Window
<1>8. AnswerInv'
  <2>1. response.exit = Unanswered
        /\ IF request.command = "move" THEN MovedSoFar ELSE TakenOutSoFar
    BY <1>1 DEF OperatorInv, AnswerInv
  <2>2. CASE request.command = "move"
    <3>1. MovedSoFar
      BY <2>1, <2>2
    <3>2. MovedSoFar'
      BY <1>1, <1>3, <1>4, <3>1 DEF MovedSoFar
    <3>3. QED
      BY <1>1, <2>1, <2>2, <3>2 DEF AnswerInv, AnswersAreTrue, Answered
  <2>3. CASE request.command # "move"
    <3>1. TakenOutSoFar
      BY <2>1, <2>3
    <3>2. TargetOfDraft' = TargetOfDraft
      BY <1>1 DEF TargetOfDraft
    <3>3. TakenOutSoFar'
      BY <1>1, <1>3, <1>4, <3>1, <3>2 DEF TakenOutSoFar
    <3>4. QED
      BY <1>1, <2>1, <2>3, <3>3 DEF AnswerInv, AnswersAreTrue, Answered
  <2>4. QED
    BY <2>2, <2>3
<1>9. QED
  BY <1>2, <1>5, <1>6, <1>7, <1>8 DEF OperatorInv

(* The audit is written: what is answered is what was done.                *)
LEMMA WriteKeeps ==
  ASSUME OperatorInv, WriteAudit
  PROVE  OperatorInv'
<1>1. /\ Window /\ pc = "write" /\ pc' = "idle" /\ fs' = [fs EXCEPT ![entry] = draft]
      /\ UNCHANGED <<clock, commands, request, entry, draft, fate, filled, started, cut>>
      /\ response'.exit = Success' /\ response'.exit \in {0, 1}
      /\ response'.before = response.before
      /\ response'.after = draft.state
      /\ OperatorTypes
  BY DEF WriteAudit, Goto, Window, OperatorInv, Answer, Success
<1>2. FilesInv' /\ FateInv' /\ PathInv'
  BY <1>1, WritesKeepFates
<1>3. /\ entry \in Sidecars /\ entry \in Names /\ entry \in Places
      /\ PayloadOf(entry) \in Places /\ PayloadOf(entry) # entry
      /\ draft \in Audit /\ IsAudit(draft) /\ draft.state = fate[entry] /\ draft # None
  BY <1>1, WindowFacts, AuditsAreAudits
<1>4. fs'[entry] = draft /\ \A p \in Places \ {entry} : fs'[p] = fs[p]
  BY <1>1, <1>3 DEF OperatorTypes
<1>5. draft.state \in {"quarantined", "restored", "deleted"}
  BY <1>1 DEF OperatorInv, WindowInv
<1>6. OperatorTypes'
  <2>1. fs' \in [Places -> Content] /\ \A p \in Outside : fs'[p] \in Blobs \cup {None}
    BY <1>1, <1>3, <1>4, NamesOfPairs DEF OperatorTypes, Content, Places
  <2>2. draft.state \in RecordStates
    BY <1>5 DEF RecordStates
  <2>3. QED
    BY <1>1, <2>1, <2>2 DEF OperatorTypes
<1>7. RequestInv' /\ WindowInv' /\ ~Window'
  BY <1>1 DEF RequestInv, Beginning, WindowInv, Window
<1>8. Load(fs, entry)'.loaded /\ Load(fs, entry)'.state = fate'[entry]
  <2>1. Load(fs, entry)' = RecordOf(draft, fs'[PayloadOf(entry)] # None)
    BY <1>1, <1>3, <1>4 DEF Load, Reading
  <2>2. StateOf(draft, fs'[PayloadOf(entry)] # None) = draft.state
    BY <1>5 DEF StateOf, RecordStates
  <2>3. QED
    BY <1>1, <1>3, <2>1, <2>2 DEF RecordOf
<1>9. AnswersAreTrue'
  <2> DEFINE place == PayloadOf(entry)
             IsMove == /\ Changed' = {request'.source, entry', place'}
                       /\ fs'[place'] = started'[request'.source]
             IsRestore == /\ response'.before = "quarantined"
                          /\ Changed' = {Destination', entry', place'}
                          /\ started'[Destination'] = None
                          /\ fs'[Destination'] = started'[place']
                          /\ fs'[place'] = None
             IsDelete == /\ response'.before = "quarantined" /\ request'.yes
                         /\ Changed' = {entry', place'} /\ fs'[place'] = None
  <2>1. IF request.command = "move" THEN MovedSoFar ELSE TakenOutSoFar
    BY <1>1 DEF OperatorInv, AnswerInv
  <2>2. place' = place /\ fs'[place] = fs[place]
    BY <1>1, <1>3, <1>4
  <2>3. ASSUME request.command = "move" PROVE IsMove
    <3>1. MovedSoFar
      BY <2>1, <2>3
    <3>2. ASSUME NEW p \in Places
          PROVE  fs'[p] # started'[p] <=> p \in {request.source, entry, place}
      <4>1. fs'[request.source] = None
        BY <1>3, <1>4, <3>1 DEF MovedSoFar
      <4>2. QED
        BY <1>1, <1>3, <1>4, <2>2, <3>1, <4>1, AuditsAreAudits DEF MovedSoFar
    <3>3. request.source \in Places
      BY <3>1 DEF MovedSoFar
    <3>4. Changed' = {request.source, entry, place}
      BY <1>3, <3>2, <3>3 DEF Changed
    <3>5. QED
      BY <1>1, <2>2, <3>1, <3>4 DEF MovedSoFar
  <2>4. ASSUME request.command \in {"restore", "delete"}
        PROVE  /\ TakenOutSoFar /\ fs'[place] = None
               /\ started[entry] # fs'[entry] /\ started[place] # fs'[place]
    <3>1. TakenOutSoFar /\ fs[place] = None
      BY <1>1, <2>1, <2>4 DEF OperatorInv, WindowInv
    <3>2. QED
      BY <1>3, <1>4, <2>2, <3>1, AuditsAreAudits DEF TakenOutSoFar
  <2>5. ASSUME request.command = "restore" PROVE IsRestore
    <3>1. TakenOutSoFar /\ fs'[place] = None
          /\ started[entry] # fs'[entry] /\ started[place] # fs'[place]
      BY <2>4, <2>5
    <3>2. Destination' = TargetOfDraft
      BY <1>1, <1>4 DEF Destination, TargetOfDraft
    <3>3. /\ TargetOfDraft \in Places \ {entry, place}
          /\ started[TargetOfDraft] = None /\ fs[TargetOfDraft] = started[place]
          /\ started[place] \in Blobs /\ response.before = "quarantined"
          /\ \A p \in Places \ {TargetOfDraft, entry, place} : fs[p] = started[p]
      BY <2>5, <3>1 DEF TakenOutSoFar
    <3>4. fs'[TargetOfDraft] = started[place] /\ fs'[TargetOfDraft] # None
      BY <1>4, <3>3, AuditsAreAudits
    <3>5. ASSUME NEW p \in Places
          PROVE  fs'[p] # started'[p] <=> p \in {TargetOfDraft, entry, place}
      BY <1>1, <1>4, <3>1, <3>3, <3>4
    <3>6. Changed' = {TargetOfDraft, entry, place}
      BY <1>3, <3>3, <3>5 DEF Changed
    <3>7. QED
      BY <1>1, <2>2, <3>1, <3>2, <3>3, <3>4, <3>6
  <2>6. ASSUME request.command = "delete" PROVE IsDelete
    <3>1. TakenOutSoFar /\ fs'[place] = None
          /\ started[entry] # fs'[entry] /\ started[place] # fs'[place]
      BY <2>4, <2>6
    <3>2. /\ response.before = "quarantined" /\ request.yes
          /\ \A p \in Places \ {entry, place} : fs[p] = started[p]
      BY <2>6, <3>1 DEF TakenOutSoFar
    <3>3. ASSUME NEW p \in Places
          PROVE  fs'[p] # started'[p] <=> p \in {entry, place}
      BY <1>1, <1>4, <3>1, <3>2
    <3>4. Changed' = {entry, place}
      BY <1>3, <3>3 DEF Changed
    <3>5. QED
      BY <1>1, <2>2, <3>1, <3>2, <3>4
  <2>7. request'.command = "move" \/ request'.command = "restore" \/ request'.command = "delete"
    BY <1>1 DEF OperatorInv, WindowInv
  <2>8. response'.after = fate'[entry'] /\ entry' = entry /\ request' = request
        /\ Load(fs, entry)'.loaded /\ Load(fs, entry)'.state = fate'[entry']
    BY <1>1, <1>3, <1>8
  <2>9. response'.exit \in {0, 1} /\ response'.exit = Success'
    BY <1>1
  <2>10. CASE request'.command = "move"
    <3>1. IsMove
      BY <2>3, <2>8, <2>10
    <3>2. QED
      BY ONLY <2>8, <2>9, <2>10, <3>1 DEF AnswersAreTrue
  <2>11. CASE request'.command = "restore"
    <3>1. IsRestore
      BY <2>5, <2>8, <2>11
    <3>2. QED
      BY ONLY <2>8, <2>9, <2>11, <3>1 DEF AnswersAreTrue
  <2>12. CASE request'.command = "delete"
    <3>1. IsDelete
      BY <2>6, <2>8, <2>12
    <3>2. QED
      BY ONLY <2>8, <2>9, <2>12, <3>1 DEF AnswersAreTrue
  <2>13. QED
    BY <2>7, <2>10, <2>11, <2>12
<1>10. AnswerInv'
  BY <1>7, <1>9 DEF AnswerInv
<1>11. QED
  BY <1>2, <1>6, <1>7, <1>10 DEF OperatorInv

(* The listing does not touch what the operator has.                       *)
LEMMA StutterKeeps ==
  ASSUME OperatorInv, UNCHANGED operator
  PROVE  OperatorInv'
<1>1. UNCHANGED <<fs, clock, commands, pc, request, entry, draft, response, fate, filled,
                  started, cut>>
  BY DEF operator
<1>2. Window' = Window /\ Beginning' = Beginning
  BY <1>1 DEF Window, Beginning
<1>4. OperatorTypes' /\ FilesInv' /\ FateInv'
  BY <1>1 DEF OperatorInv, OperatorTypes, FilesInv, FateInv
<1>5. RequestInv' /\ WindowInv'
  BY <1>1 DEF OperatorInv, RequestInv, WindowInv, Window, Beginning, Reachable
<1>6. PathInv'
  BY <1>1, <1>2 DEF OperatorInv, PathInv, Reachable
<1>7. AnswerInv'
  <2>1. AnswersAreTrue' = AnswersAreTrue
    BY <1>1 DEF AnswersAreTrue, Answered, Changed, Destination, Load, Success
  <2>2. MovedSoFar' = MovedSoFar /\ TakenOutSoFar' = TakenOutSoFar
    BY <1>1 DEF MovedSoFar, TakenOutSoFar, TargetOfDraft
  <2>3. QED
    BY <1>1, <1>2, <2>1, <2>2 DEF OperatorInv, AnswerInv
<1>8. QED
  BY <1>4, <1>5, <1>6, <1>7 DEF OperatorInv

(* In a well-formed directory no record has its place in the quarantine.   *)
LEMMA OperatorInit == Init => OperatorInv
<1> SUFFICES ASSUME Init PROVE OperatorInv
  OBVIOUS
<1>1. PICK d \in Directories : fs = d.fs /\ fate = d.fate
  BY DEF Init
<1>2. WellFormed(d)
  BY DirectoriesAssumption
<1>3. ~Window /\ ~Beginning /\ pc = "idle" /\ clock = Now
  BY DEF Init, Window, Beginning
<1>4. OperatorTypes
  BY <1>1, <1>2 DEF Init, WellFormed, OperatorTypes, NoResponse
<1>5. FilesInv /\ FateInv
  BY <1>1, <1>2, <1>3 DEF WellFormed, FilesInv, FateInv
<1>6. RequestInv /\ WindowInv
  BY <1>3 DEF RequestInv, WindowInv
<1>7. PathInv
  <2>1. \A n \in Sidecars : IsAudit(fs[n]) => fs[n].original_path \in Outside \cup {None}
    BY <1>1, <1>2 DEF WellFormed
  <2>2. QED
    BY <1>3, <2>1, NamesOfPairs DEF PathInv, Reachable
<1>8. AnswerInv
  BY <1>3 DEF Init, AnswerInv, AnswersAreTrue, Answered, NoResponse
<1>9. QED
  BY <1>4, <1>5, <1>6, <1>7, <1>8 DEF OperatorInv

(* What a step of the operator may do to a sidecar and its payload, and    *)
(* what becomes of the places that are empty for good.                     *)
LEMMA WhatChanges ==
  ASSUME OperatorInv, OperatorStep, NEW n \in Sidecars
  PROVE  /\ clock' \in Nat /\ clock <= clock'
         /\ IsAudit(fs'[n]) /\ fs'[n] # fs[n] => Window /\ n = entry /\ fs'[n] = draft
         /\ IsAudit(fs[n]) /\ fs'[n] # fs[n] =>
              /\ request.command # "move" /\ Matches(fs, request.scan_id) = {n}
              /\ fs[PayloadOf(n)] = None /\ GoneForGood(n)'
              /\ BeingWritten(n)'
         /\ IsAudit(fs[n]) /\ fs[PayloadOf(n)] # None /\ fs'[PayloadOf(n)] = None =>
              IF request.command = "move" THEN PayloadOf(n) = request.source
              ELSE Matches(fs, request.scan_id) = {n}
         /\ GoneForGood(n) => GoneForGood(n)' \/ n \in filled'
         /\ filled \subseteq filled' /\ cut \subseteq cut'
         /\ BeingWritten(n) => IsAudit(fs'[n]) \/ n \in cut'
<1> DEFINE place == PayloadOf(n)
<1>1. /\ OperatorTypes /\ FilesInv /\ clock \in Nat /\ fs \in [Places -> Content]
      /\ n \in Places /\ n \in Names /\ place \in Names /\ place \in Places
      /\ place[1] \in Nat /\ place[1] = n[1] /\ n # place
  BY NamesOfPairs DEF OperatorInv, OperatorTypes
<1>2. CASE Begins \/ Ends
  <2>1. UNCHANGED <<fs, clock, fate, filled>> /\ ~Window' /\ cut \subseteq cut'
        /\ (BeingWritten(n) => n \in cut')
    BY <1>2 DEF Begins, Ends, Window, BeingWritten
  <2>2. QED
    BY <1>1, <2>1 DEF GoneForGood
<1>3. ASSUME NEW source, NEW s, Enters(source, s)
      PROVE  /\ clock' = clock + 1
             /\ IsAudit(fs'[n]) => fs'[n] = fs[n]
             /\ IsAudit(fs[n]) => fs'[n] = fs[n]
             /\ request.command = "move" /\ request.source = source
             /\ fs[place] # None /\ fs'[place] = None => place = source
             /\ GoneForGood(n) => GoneForGood(n)'
             /\ UNCHANGED <<filled, cut>> /\ ~BeingWritten(n)
  <2>1. /\ clock' = clock + 1 /\ request.command = "move" /\ request.source = source
        /\ fs[source] \in Blobs /\ fs'[source] = None
        /\ fs[PayloadOf(s)] = None /\ fs'[PayloadOf(s)] = fs[source]
        /\ \A p \in Places \ {source, PayloadOf(s)} : fs'[p] = fs[p]
        /\ s \in Sidecars /\ s[1] = clock + 1 /\ PayloadOf(s)[1] = clock + 1 /\ entry' = s
        /\ fs[source] # None
    BY <1>3, NamesOfPairs, AuditsAreAudits DEF Enters
  <2>2. (IsAudit(fs[n]) \/ IsAudit(fs'[n])) => fs'[n] = fs[n]
    BY <1>1, <2>1, AuditsAreAudits
  <2>3. ASSUME GoneForGood(n) PROVE GoneForGood(n)'
    <3>1. /\ fs[place] = None /\ n[1] <= clock /\ n # s
          /\ fate[n] \in {"restored", "deleted"}
      BY <1>1, <2>1, <2>3 DEF GoneForGood
    <3>2. place \notin {source, s, PayloadOf(s)}
      BY <1>1, <2>1, <3>1
    <3>3. fate'[n] = fate[n]
      BY <1>3, <3>1 DEF Enters
    <3>4. QED
      BY <1>1, <2>1, <3>1, <3>2, <3>3 DEF GoneForGood
  <2>4. UNCHANGED <<filled, cut>> /\ ~BeingWritten(n)
    BY <1>3 DEF Enters, BeingWritten
  <2>5. QED
    BY <1>1, <2>1, <2>2, <2>3, <2>4
<1>4. ASSUME NEW r, NEW targets, TakesOut(r, targets)
      PROVE  /\ clock' = clock
             /\ IsAudit(fs'[n]) => fs'[n] = fs[n]
             /\ IsAudit(fs[n]) => fs'[n] = fs[n]
             /\ request.command # "move" /\ Matches(fs, request.scan_id) = {r}
             /\ fs[place] # None /\ fs'[place] = None => n = r
             /\ GoneForGood(n) => GoneForGood(n)' \/ n \in filled'
             /\ filled \subseteq filled' /\ UNCHANGED cut /\ ~BeingWritten(n)
  <2>1. /\ clock' = clock /\ request.command # "move" /\ Matches(fs, request.scan_id) = {r}
        /\ r \in Sidecars /\ fs[r] \in Audit /\ fs[PayloadOf(r)] \in Blobs
        /\ fs'[PayloadOf(r)] = None
        /\ \A p \in targets : fs[p] = None /\ fs'[p] \in Blobs
        /\ \A p \in Places \ (targets \cup {PayloadOf(r)}) : fs'[p] = fs[p]
        /\ entry' = r
    BY <1>4 DEF TakesOut
  <2>2. (IsAudit(fs[n]) \/ IsAudit(fs'[n])) => fs'[n] = fs[n]
    BY <1>1, <2>1, AuditsAreAudits
  <2>3. fs[place] # None /\ fs'[place] = None => n = r
    BY <1>1, <2>1, NamesOfPairs, AuditsAreAudits
  <2>4. ASSUME GoneForGood(n), n \notin filled' PROVE GoneForGood(n)'
    <3>1. /\ fs[place] = None /\ n[1] <= clock
          /\ fate[n] \in {"restored", "deleted"}
      BY <2>4 DEF GoneForGood
    <3>2. n # r /\ place # r
      BY <2>1, <3>1, AuditsAreAudits
    <3>3. fate'[n] = fate[n] /\ place \notin targets
      BY <1>4, <2>4, <3>1, <3>2 DEF TakesOut
    <3>4. fs'[place] = None
      BY <1>1, <2>1, <3>1, <3>3
    <3>5. QED
      BY <2>1, <3>1, <3>2, <3>3, <3>4 DEF GoneForGood
  <2>5. filled \subseteq filled' /\ UNCHANGED cut /\ ~BeingWritten(n)
    BY <1>4 DEF TakesOut, BeingWritten
  <2>6. QED
    BY <2>1, <2>2, <2>3, <2>4, <2>5
<1>5. ASSUME OpenAudit \/ WriteAudit
      PROVE  /\ Window /\ clock' = clock
             /\ fs'[entry] = IF OpenAudit THEN Torn ELSE draft
             /\ \A p \in Places \ {entry} : fs'[p] = fs[p]
             /\ WriteAudit => fs[entry] = Torn
             /\ entry' = entry /\ entry \in Sidecars
             /\ UNCHANGED <<fate, filled, cut>>
             /\ fs'[entry] # None
  <2>1. Window
    BY <1>5 DEF OpenAudit, WriteAudit, Goto, Window
  <2>2. entry \in Sidecars /\ entry \in Places /\ draft \in Audit
    BY <2>1, WindowFacts
  <2>3. CASE OpenAudit
    BY <1>1, <2>1, <2>2, <2>3, AuditsAreAudits DEF OpenAudit, WriteAudit, Goto
  <2>4. CASE WriteAudit
    <3>1. ~OpenAudit /\ fs[entry] = Torn /\ entry' = entry /\ clock' = clock
          /\ fs' = [fs EXCEPT ![entry] = draft] /\ UNCHANGED <<fate, filled, cut>>
      BY <2>1, <2>4 DEF OpenAudit, WriteAudit, Goto, OperatorInv, WindowInv
    <3>2. QED
      BY <1>1, <2>1, <2>2, <2>4, <3>1, AuditsAreAudits
  <2>5. QED
    BY <1>5, <2>3, <2>4
<1>6. ASSUME OpenAudit \/ WriteAudit, GoneForGood(n)
      PROVE  GoneForGood(n)'
  <2>1. fs[place] = None /\ n[1] <= clock /\ place # entry
    BY <1>5, <1>6 DEF GoneForGood
  <2>2. QED
    BY <1>1, <1>5, <1>6, <2>1 DEF GoneForGood
<1>7. ASSUME OpenAudit, IsAudit(fs[n]), fs'[n] # fs[n]
      PROVE  /\ n = entry /\ request.command # "move" /\ Matches(fs, request.scan_id) = {n}
             /\ fs[place] = None /\ GoneForGood(n)' /\ BeingWritten(n)'
  <2>1. n = entry /\ pc = "open" /\ Window /\ pc' = "write"
    BY <1>1, <1>5, <1>7 DEF OpenAudit, Goto
  <2>2. /\ request.command # "move" /\ Matches(fs, request.scan_id) = {n}
        /\ fs[place] = None /\ fate[n] \in {"restored", "deleted"}
    BY <1>7, <2>1, AuditsAreAudits DEF OperatorInv, WindowInv
  <2>3. n[1] <= clock
    BY <1>1, <1>7, AuditsAreAudits DEF FilesInv
  <2>4. QED
    BY <1>1, <1>5, <1>7, <2>1, <2>2, <2>3 DEF GoneForGood, BeingWritten
<1>8. CASE OpenAudit
  <2>1. place # entry => fs'[place] = fs[place]
    BY <1>1, <1>5, <1>8
  <2>2. ~IsAudit(fs'[n]) \/ fs'[n] = fs[n]
    BY <1>1, <1>5, <1>8, AuditsAreAudits
  <2>3. fs[place] # None => fs'[place] # None
    BY <1>5, <1>8, <2>1
  <2>4. ~BeingWritten(n)
    BY <1>8 DEF OpenAudit, Goto, BeingWritten
  <2>5. QED
    BY <1>1, <1>5, <1>6, <1>7, <1>8, <2>2, <2>3, <2>4
<1>9. CASE WriteAudit
  <2>1. place # entry => fs'[place] = fs[place]
    BY <1>1, <1>5, <1>9
  <2>2. fs[place] # None => fs'[place] # None
    BY <1>5, <1>9, <2>1
  <2>3. fs'[n] # fs[n] => n = entry /\ fs'[n] = draft /\ ~IsAudit(fs[n])
    <3>1. ~OpenAudit
      BY <1>9 DEF WriteAudit, OpenAudit, Goto
    <3>2. QED
      BY <1>1, <1>5, <1>9, <3>1, AuditsAreAudits
  <2>4. BeingWritten(n) => IsAudit(fs'[n])
    <3>1. ~OpenAudit /\ draft \in Audit
      BY <1>5, <1>9, WindowFacts DEF WriteAudit, OpenAudit, Goto
    <3>2. QED
      BY <1>5, <1>9, <3>1, AuditsAreAudits DEF BeingWritten
  <2>5. QED
    BY <1>1, <1>5, <1>6, <1>9, <2>2, <2>3, <2>4
<1>10. CASE \E source, s : Enters(source, s)
  BY <1>1, <1>3, <1>10
<1>11. CASE \E r, targets : TakesOut(r, targets)
  BY <1>1, <1>4, <1>11
<1>12. QED
  BY <1>2, <1>8, <1>9, <1>10, <1>11, KindsOfStep

(* Every step keeps the operator's part of the invariant.                  *)
LEMMA OperatorKeeps ==
  ASSUME OperatorInv, [Next]_vars
  PROVE  OperatorInv'
<1>1. ASSUME OperatorStep PROVE OperatorInv'
  BY <1>1, KindsOfStep, BeginKeeps, EndKeeps, EnterKeeps, TakeKeeps, OpenKeeps, WriteKeeps
<1>2. ASSUME UNCHANGED operator PROVE OperatorInv'
  BY <1>2, StutterKeeps
<1>3. UNCHANGED vars => UNCHANGED operator
  BY DEF vars
<1>4. QED
  BY <1>1, <1>2, <1>3 DEF Next

-----------------------------------------------------------------------------
(* The histories.                                                          *)

(* A history extends itself, the empty one, and itself less an event.      *)
LEMMA HistoriesExtend ==
  ASSUME NEW S, NEW s \in Seq(S), NEW e \in S
  PROVE  IsPrefix(s, s) /\ IsPrefix(<< >>, s) /\ IsPrefix(s, Append(s, e))
<1>1. /\ Append(s, e) \in Seq(S) /\ Len(Append(s, e)) = Len(s) + 1
      /\ \A i \in 1 .. Len(s) : Append(s, e)[i] = s[i]
  BY AppendProperties
<1>2. Len(s) \in Nat /\ Len(s) <= Len(Append(s, e))
  BY <1>1
<1>3. SubSeq(s, 1, Len(s)) = SubSeq(Append(s, e), 1, Len(s))
  BY <1>1, <1>2
<1>4. IsPrefix(s, Append(s, e))
  BY <1>2, <1>3 DEF IsPrefix
<1>5. IsPrefix(s, s) /\ IsPrefix(<< >>, s)
  BY DEF IsPrefix
<1>6. QED
  BY <1>4, <1>5

(* The histories begin with the audits that are there.                     *)
LEMMA HistoryInit == Init => HistoryInv
<1> SUFFICES ASSUME Init PROVE HistoryInv
  OBVIOUS
<1>1. OperatorInv
  BY OperatorInit
<1>2. \A n \in Sidecars : IsAudit(fs[n]) => fs[n].events \in Seq(EventActions)
  BY <1>1, NamesOfPairs, AuditsAreAudits DEF OperatorInv, OperatorTypes, Audit
<1>3. \A n \in Sidecars : n[1] > clock => fs[n] = None
  <2>1. \A n \in Sidecars : fs[n] # None => n[1] <= clock
    BY <1>1, NamesOfPairs DEF OperatorInv, FilesInv
  <2>2. \A n \in Sidecars : n[1] \in Nat /\ clock \in Nat
    BY <1>1, NamesOfPairs DEF OperatorInv, OperatorTypes
  <2>3. QED
    BY <2>1, <2>2
<1>4. << >> \in Seq(EventActions) /\ told = [n \in Sidecars |-> EventsOf(fs[n])]
  BY DEF Init
<1>5. \A n \in Sidecars : told[n] = IF IsAudit(fs[n]) THEN fs[n].events ELSE << >>
  BY <1>4 DEF EventsOf
<1>6. told \in [Sidecars -> Seq(EventActions)]
  <2>1. \A n \in Sidecars : EventsOf(fs[n]) \in Seq(EventActions)
    BY <1>2, <1>4 DEF EventsOf
  <2>2. QED
    BY <1>4, <2>1
<1>7. ~Window
  BY DEF Init, Window
<1>8. QED
  BY <1>3, <1>5, <1>6, <1>7, AuditsAreAudits DEF HistoryInv

(* What stands at a sidecar extends what was told of it, but for the two   *)
(* exceptions.                                                             *)
Extends(n) ==
  /\ IsPrefix(told[n], told'[n])
  /\ IsPrefix(told[n], EventsOf(fs'[n])) \/ BeingWritten(n)' \/ n \in cut'

LEMMA HistoriesStand ==
  ASSUME HistoryInv, HistoryInv', NEW n \in Sidecars, IsPrefix(told[n], told'[n]),
         told'[n] = IF IsAudit(fs'[n]) THEN fs'[n].events ELSE told[n]
  PROVE  Extends(n)
<1>1. "restore" \in EventActions /\ << >> \in Seq(EventActions)
  BY DEF EventActions
<1>2. CASE IsAudit(fs'[n])
  BY <1>2 DEF Extends, EventsOf
<1>3. CASE ~IsAudit(fs'[n]) /\ told[n] = << >>
  BY <1>1, <1>3, HistoriesExtend DEF Extends, EventsOf
<1>4. CASE ~IsAudit(fs'[n]) /\ told[n] # << >>
  BY <1>4 DEF Extends, HistoryInv
<1>5. QED
  BY <1>2, <1>3, <1>4

(* Told changes only when the audit of the command is written, and that    *)
(* audit extends what was told.                                            *)
LEMMA HistoryKeeps ==
  ASSUME OperatorInv, HistoryInv, OperatorStep, Observe
  PROVE  HistoryInv' /\ \A n \in Sidecars : Extends(n)
<1>1. OperatorInv'
  BY KindsOfStep, BeginKeeps, EndKeeps, EnterKeeps, TakeKeeps, OpenKeeps, WriteKeeps
<1>2. /\ fs' \in [Places -> Content] /\ clock \in Nat /\ clock' \in Nat
      /\ Window' => draft' \in Audit /\ entry' \in Sidecars
  BY <1>1 DEF OperatorInv, OperatorTypes, WindowInv
<1>3. told' = [n \in Sidecars |-> IF IsAudit(fs'[n]) THEN fs'[n].events ELSE told[n]]
  BY DEF Observe
<1>4. \A n \in Sidecars : told[n] \in Seq(EventActions)
  BY DEF HistoryInv
<1>5. ASSUME NEW n \in Sidecars
      PROVE  /\ IsAudit(fs'[n]) => fs'[n].events \in Seq(EventActions)
             /\ n[1] > clock' => ~IsAudit(fs'[n]) /\ n[1] > clock
  <2>1. n \in Places /\ n \in Names /\ n[1] \in Nat
    BY NamesOfPairs
  <2>2. IsAudit(fs'[n]) => fs'[n].events \in Seq(EventActions)
    BY <1>2, <2>1, AuditsAreAudits DEF Audit
  <2>3. fs'[n] # None => n[1] <= clock'
    BY <1>1, <2>1 DEF OperatorInv, FilesInv
  <2>4. clock <= clock'
    BY WhatChanges
  <2>5. QED
    BY <1>2, <2>1, <2>2, <2>3, <2>4, AuditsAreAudits
<1>6. told' \in [Sidecars -> Seq(EventActions)]
  BY <1>3, <1>4, <1>5
<1>7. \A n \in Sidecars : /\ IsAudit(fs'[n]) => told'[n] = fs'[n].events
                          /\ n[1] > clock' => told'[n] = << >>
  BY <1>3, <1>5 DEF HistoryInv
<1>8. Window' => IsPrefix(told'[entry'], draft'.events)
  <2>1. CASE Begins \/ Ends \/ WriteAudit
    BY <2>1 DEF Begins, Ends, WriteAudit, Goto, Window
  <2>2. ASSUME NEW source, NEW s, Enters(source, s)
        PROVE  IsPrefix(told'[entry'], draft'.events)
    <3>1. /\ entry' = s /\ s \in Sidecars /\ s[1] > clock
          /\ draft' \in Audit
      BY <1>2, <2>2 DEF Enters
    <3>2. fs'[s] = None
      BY <2>2, NamesOfPairs DEF Enters
    <3>3. told'[s] = << >>
      BY <1>3, <3>1, <3>2, AuditsAreAudits DEF HistoryInv
    <3>4. draft'.events \in Seq(EventActions) /\ "restore" \in EventActions
      BY <3>1 DEF Audit, EventActions
    <3>5. QED
      BY <3>1, <3>3, <3>4, HistoriesExtend
  <2>3. ASSUME NEW r, NEW targets, TakesOut(r, targets)
        PROVE  IsPrefix(told'[entry'], draft'.events)
    <3>1. /\ entry' = r /\ r \in Sidecars /\ fs[r] \in Audit
          /\ draft'.events = Append(fs[r].events, request.command)
      BY <2>3 DEF TakesOut
    <3>2. fs'[r] = fs[r]
      <4>1. r \in Places /\ r # PayloadOf(r)
        BY <3>1, NamesOfPairs
      <4>2. QED
        BY <2>3, <4>1 DEF TakesOut
    <3>3. /\ told'[r] = fs[r].events /\ fs[r].events \in Seq(EventActions)
          /\ request.command \in EventActions
      BY <1>3, <2>3, <3>1, <3>2, AuditsAreAudits DEF Audit, TakesOut, EventActions
    <3>4. QED
      BY <3>1, <3>3, HistoriesExtend
  <2>4. CASE OpenAudit
    <3>1. Window /\ entry' = entry /\ draft' = draft /\ fs' = [fs EXCEPT ![entry] = Torn]
      BY <2>4 DEF OpenAudit, Goto, Window
    <3>2. entry \in Sidecars /\ entry \in Places
      BY <3>1, WindowFacts
    <3>3. fs'[entry] = Torn
      BY <3>1, <3>2 DEF OperatorInv, OperatorTypes
    <3>4. told'[entry] = told[entry]
      BY <1>3, <3>2, <3>3, AuditsAreAudits
    <3>5. QED
      BY <3>1, <3>4 DEF HistoryInv
  <2>5. QED
    BY <2>1, <2>2, <2>3, <2>4, KindsOfStep
<1>9. ASSUME NEW n \in Sidecars
      PROVE  IsPrefix(told[n], told'[n])
  <2>1. CASE ~IsAudit(fs'[n]) \/ fs'[n] = fs[n]
    <3>1. told'[n] = told[n] /\ "restore" \in EventActions
      BY <1>3, <2>1 DEF HistoryInv, EventActions
    <3>2. QED
      BY <1>4, <3>1, HistoriesExtend
  <2>2. CASE IsAudit(fs'[n]) /\ fs'[n] # fs[n]
    <3>1. Window /\ n = entry /\ fs'[n] = draft
      BY <2>2, WhatChanges
    <3>2. told'[n] = draft.events /\ IsPrefix(told[n], draft.events)
      BY <1>3, <2>2, <3>1 DEF HistoryInv
    <3>3. QED
      BY <3>2
  <2>3. QED
    BY <2>1, <2>2
<1>10. ASSUME NEW n \in Sidecars
       PROVE  IsAudit(fs'[n]) \/ told'[n] = << >> \/ BeingWritten(n)' \/ n \in cut'
  <2>1. IsAudit(fs[n]) => IsAudit(fs'[n]) \/ BeingWritten(n)'
    BY WhatChanges
  <2>2. BeingWritten(n) => IsAudit(fs'[n]) \/ n \in cut'
    BY WhatChanges
  <2>3. n \in cut => n \in cut'
    BY WhatChanges
  <2>4. ~IsAudit(fs'[n]) => told'[n] = told[n]
    BY <1>3
  <2>5. QED
    BY <2>1, <2>2, <2>3, <2>4 DEF HistoryInv
<1>11. HistoryInv'
  BY <1>6, <1>7, <1>8, <1>10 DEF HistoryInv
<1>12. QED
  BY <1>3, <1>9, <1>11, HistoriesStand

(* A listing does not change the histories.                                *)
LEMMA HistoryStutters ==
  ASSUME OperatorInv, HistoryInv, UNCHANGED operator, Observe \/ UNCHANGED told
  PROVE  HistoryInv' /\ told' = told
<1>1. UNCHANGED <<fs, clock, pc, entry, draft, cut>> /\ Window' = Window
      /\ \A n : BeingWritten(n)' = BeingWritten(n)
  BY DEF operator, Window, BeingWritten
<1>2. told' = told
  <2>1. CASE Observe
    <3>1. told' = [n \in Sidecars |-> IF IsAudit(fs[n]) THEN fs[n].events ELSE told[n]]
      BY <1>1, <2>1 DEF Observe
    <3>2. \A n \in Sidecars : told'[n] = told[n]
      BY <3>1 DEF HistoryInv
    <3>3. QED
      BY <3>1, <3>2 DEF HistoryInv
  <2>2. QED
    BY <2>1
<1>3. QED
  BY <1>1, <1>2 DEF HistoryInv

-----------------------------------------------------------------------------
(* The listing.                                                            *)

(* What the sequences of a listing hold.                                   *)
LEMMA Listings ==
  ASSUME NEW S, NEW s \in Seq(S)
  PROVE  /\ Range(s) \subseteq S
         /\ \A e \in S : /\ Append(s, e) \in Seq(S)
                         /\ Range(Append(s, e)) = Range(s) \cup {e}
         /\ s # << >> => /\ Head(s) \in S /\ Tail(s) \in Seq(S)
                         /\ Range(s) \subseteq {Head(s)} \cup Range(Tail(s))
         /\ s = << >> => Range(s) = {}
<1>1. ASSUME NEW t \in Seq(S)
      PROVE  Range(t) = {t[i] : i \in 1 .. Len(t)} /\ Range(t) \subseteq S
  BY RangeEquality, RangeOfSeq
<1>2. ASSUME NEW e \in S
      PROVE  /\ Append(s, e) \in Seq(S)
             /\ Range(Append(s, e)) = Range(s) \cup {e}
  <2>1. /\ Append(s, e) \in Seq(S) /\ Len(Append(s, e)) = Len(s) + 1
        /\ \A i \in 1 .. Len(s) : Append(s, e)[i] = s[i]
        /\ Append(s, e)[Len(s) + 1] = e
    BY AppendProperties
  <2>2. Range(Append(s, e)) = {Append(s, e)[i] : i \in 1 .. Len(Append(s, e))}
    BY <1>1, <2>1
  <2>3. Len(s) \in Nat /\ 1 .. Len(s) + 1 = (1 .. Len(s)) \cup {Len(s) + 1}
    OBVIOUS
  <2>4. QED
    BY <1>1, <2>1, <2>2, <2>3
<1>3. ASSUME s # << >>
      PROVE  /\ Head(s) \in S /\ Tail(s) \in Seq(S)
             /\ Range(s) \subseteq {Head(s)} \cup Range(Tail(s))
  <2>1. /\ Head(s) = s[1] /\ Head(s) \in S /\ Tail(s) \in Seq(S)
        /\ Len(Tail(s)) = Len(s) - 1
        /\ \A i \in 1 .. Len(Tail(s)) : Tail(s)[i] = s[i + 1]
    BY <1>3, HeadTailProperties
  <2>2. Range(Tail(s)) = {Tail(s)[i] : i \in 1 .. Len(Tail(s))}
    BY <1>1, <2>1
  <2>3. ASSUME NEW i \in 1 .. Len(s), i # 1
        PROVE  s[i] \in Range(Tail(s))
    <3>1. Len(s) \in Nat /\ i - 1 \in 1 .. Len(Tail(s)) /\ (i - 1) + 1 = i
      BY <2>1, <2>3
    <3>2. QED
      BY <2>1, <2>2, <3>1
  <2>4. QED
    BY <1>1, <2>1, <2>3
<1>4. s = << >> => Range(s) = {}
  BY DEF Range
<1>5. QED
  BY <1>1, <1>2, <1>3, <1>4

(* A listing enumerates exactly the sidecars that are there.               *)
LEMMA EnumeratedPaths ==
  ASSUME NEW paths, paths \in AuditPaths(fs)
  PROVE  paths \in Seq(Sidecars) /\ Range(paths) = Present(fs)
<1>1. IsFiniteSet(Present(fs))
  <2>1. Present(fs) \subseteq Names
    BY DEF Present, Sidecars
  <2>2. 0 \in Int /\ 2 \in Int
    OBVIOUS
  <2>3. IsFiniteSet(0 .. 2)
    BY ONLY <2>2, FS_Interval
  <2>4. IsFiniteSet(Names)
    BY <2>3, FS_Product DEF Names
  <2>5. QED
    BY <2>1, <2>4, FS_Subset
<1>2. Cardinality(Present(fs)) \in Nat
  BY <1>1, FS_CardinalityType
<1>3. paths \in [1 .. Cardinality(Present(fs)) -> Present(fs)] /\ Range(paths) = Present(fs)
  BY DEF AuditPaths
<1>4. Present(fs) \subseteq Sidecars
  BY DEF Present
<1>5. QED
  BY <1>2, <1>3, <1>4, SeqDef

(* No listing runs at the beginning.                                       *)
LEMMA ListInit == Init => ListInv
BY EmptySeq DEF Init, ListInv, Range

(* A sidecar that changes between the two reads of a listing: what was     *)
(* read of it is what was there at once before, and stays true.            *)
LEMMA HeldStays ==
  ASSUME OperatorInv, OperatorStep, NEW h \in Sidecars, HeldInv(h), AtOnce(h) \in was[h],
         UNCHANGED held, was[h] \subseteq was'[h]
  PROVE  HeldInv(h)'
<1>1. h \in Places /\ fs \in [Places -> Content]
  BY NamesOfPairs DEF OperatorInv, OperatorTypes
<1>2. CASE Gone \in was[h]
  BY <1>2 DEF HeldInv, Gone
<1>31. CASE h \in filled
  BY <1>31, WhatChanges DEF HeldInv
<1>3. CASE Reading(held, FALSE) \in was[h] /\ (GoneForGood(h) \/ ~IsAudit(held))
  <2>1. Reading(held, FALSE)' = Reading(held, FALSE) /\ IsAudit(held)' = IsAudit(held)
    BY DEF Reading, RecordOf, RecordIssues, StateOf, LoadFailed, IsAudit
  <2>2. GoneForGood(h) => GoneForGood(h)' \/ h \in filled'
    BY WhatChanges
  <2>3. QED
    BY <1>3, <2>1, <2>2 DEF HeldInv
<1>4. CASE fs[h] = held /\ fs'[h] = held
  BY <1>4 DEF HeldInv
<1>5. CASE fs[h] = held /\ fs'[h] # held
  <2>1. CASE fs[h] = None
    BY <1>2, <2>1 DEF AtOnce
  <2>2. CASE fs[h] # None
    <3>1. Load(fs, h) \in was[h]
      BY <2>2 DEF AtOnce
    <3>2. CASE ~IsAudit(held)
      BY <1>3, <1>5, <3>1, <3>2 DEF Load, Reading
    <3>3. CASE IsAudit(held)
      <4>1. fs[PayloadOf(h)] = None /\ GoneForGood(h)'
        BY <1>5, <3>3, WhatChanges
      <4>2. Reading(held, FALSE) \in was[h]
        BY <1>5, <3>1, <4>1 DEF Load
      <4>3. Reading(held, FALSE)' = Reading(held, FALSE)
        BY DEF Reading, RecordOf, RecordIssues, StateOf, LoadFailed, IsAudit
      <4>4. QED
        BY <4>1, <4>2, <4>3 DEF HeldInv
    <3>4. QED
      BY <3>2, <3>3
  <2>3. QED
    BY <2>1, <2>2
<1>6. QED
  BY <1>2, <1>3, <1>31, <1>4, <1>5 DEF HeldInv

(* While a listing runs, what has been seen is not forgotten, and what is  *)
(* there now is seen.                                                      *)
LEMMA WasGrows ==
  ASSUME Observe, lpc' # "idle", NEW n \in Sidecars
  PROVE  was[n] \subseteq was'[n] /\ AtOnce(n)' \in was'[n]
BY DEF Observe

(* The operator may do anything between two steps of a listing.            *)
LEMMA ListKeepsOperator ==
  ASSUME OperatorInv, ListInv, OperatorStep, UNCHANGED lister, Observe
  PROVE  ListInv'
<1>1. UNCHANGED <<lpc, filter, todo, held, listed>>
  BY DEF lister
<1>2. lpc # "idle" => \A n \in Sidecars : was[n] \subseteq was'[n] /\ AtOnce(n)' \in was'[n]
  BY <1>1, WasGrows
<1>3. lpc = "look" => HeldInv(Head(todo))'
  <2> SUFFICES ASSUME lpc = "look" PROVE HeldInv(Head(todo))'
    OBVIOUS
  <2> DEFINE h == Head(todo)
  <2>1. h \in Sidecars /\ HeldInv(h) /\ AtOnce(h) \in was[h] /\ was[h] \subseteq was'[h]
    BY <1>2, Listings DEF ListInv
  <2>2. HeldInv(h)'
    BY <1>1, <2>1, HeldStays
  <2>3. QED
    BY <1>1, <2>2
<1>4. ASSUME NEW r \in Range(listed)
      PROVE  was'[r.name] \cap {r.reading, Gone} # {} \/ r.name \in filled'
  <2>1. lpc # "idle"
    BY <1>4 DEF ListInv, Range
  <2>2. r.name \in Sidecars
    <3>1. listed \in Seq(Entries)
      BY DEF ListInv
    <3>2. Range(listed) \subseteq Entries
      BY <3>1, Listings
    <3>3. QED
      BY <1>4, <3>2 DEF Entries
  <2>3. QED
    BY <1>2, <1>4, <2>1, <2>2, WhatChanges DEF ListInv
<1>5. ASSUME NEW n \in Sidecars, lpc # "idle"
      PROVE  Gone \in was'[n] \/ n \in Range(todo) \/ \E r \in Range(listed) : r.name = n
  BY <1>2, <1>5 DEF ListInv
<1>6. Gone' = Gone
  BY DEF Gone
<1>7. QED
  BY <1>1, <1>2, <1>3, <1>4, <1>5, <1>6 DEF ListInv

(* Every step of a listing keeps its part of the invariant.                *)
LEMMA ListKeepsLister ==
  ASSUME OperatorInv, ListInv, ListerStep, UNCHANGED operator, Observe
  PROVE  ListInv'
<1>1. /\ UNCHANGED <<fs, filled>> /\ fs \in [Places -> Content]
      /\ Gone' = Gone /\ \A n \in Sidecars : AtOnce(n)' = AtOnce(n) /\ n \in Places
  BY NamesOfPairs DEF operator, OperatorInv, OperatorTypes, AtOnce, Gone, Load
<1>2. lpc' # "idle" => \A n \in Sidecars : was[n] \subseteq was'[n] /\ AtOnce(n)' \in was'[n]
  BY WasGrows
<1>3. todo \in Seq(Sidecars) /\ listed \in Seq(Entries) /\ Range(listed) \subseteq Entries
  BY Listings DEF ListInv
<1>4. \A r \in Range(listed) : r.name \in Sidecars
  BY <1>3 DEF Entries
<1>5. ASSUME NEW option, BeginList(option)
      PROVE  ListInv'
  <2>1. /\ lpc = "idle" /\ lpc' = "read" /\ todo' \in AuditPaths(fs)
        /\ listed' = << >> /\ listed = << >>
    BY <1>5 DEF BeginList, ListInv
  <2>2. todo' \in Seq(Sidecars) /\ Range(todo') = Present(fs)
    BY <2>1, EnumeratedPaths
  <2>3. ASSUME NEW n \in Sidecars PROVE Gone \in was'[n] \/ n \in Range(todo')
    <3>1. CASE fs[n] = None
      BY <1>1, <1>2, <2>1, <3>1 DEF AtOnce
    <3>2. CASE fs[n] # None
      BY <2>2, <3>2 DEF Present
    <3>3. QED
      BY <3>1, <3>2
  <2>4. Range(listed') = {} /\ listed' \in Seq(Entries)
    BY <1>3, <2>1, Listings
  <2>5. QED
    BY <1>1, <1>2, <2>1, <2>2, <2>3, <2>4 DEF ListInv
<1>6. ASSUME ReadSidecar PROVE ListInv'
  <2>1. /\ lpc = "read" /\ lpc' = "look" /\ todo # << >> /\ held' = fs[Head(todo)]
        /\ UNCHANGED <<todo, listed>>
    BY <1>6 DEF ReadSidecar
  <2>2. Head(todo) \in Sidecars
    BY <1>3, <2>1, Listings
  <2>3. held' \in Content /\ HeldInv(Head(todo))'
    BY <1>1, <2>1, <2>2 DEF HeldInv
  <2>4. ASSUME NEW n \in Sidecars
        PROVE  Gone \in was'[n] \/ n \in Range(todo) \/ \E r \in Range(listed) : r.name = n
    BY <1>2, <2>1 DEF ListInv
  <2>5. ASSUME NEW r \in Range(listed)
        PROVE  was'[r.name] \cap {r.reading, Gone} # {} \/ r.name \in filled
    BY <1>2, <1>4, <2>1 DEF ListInv
  <2>6. QED
    BY <1>1, <1>2, <1>3, <2>1, <2>3, <2>4, <2>5 DEF ListInv
<1>7. ASSUME LookForPayload PROVE ListInv'
  <2> DEFINE h == Head(todo)
             reading == Reading(held, fs[PayloadOf(h)] # None)
             e == [name |-> h, reading |-> reading]
  <2>1. /\ lpc = "look" /\ lpc' = "read" /\ listed' = Append(listed, e) /\ todo' = Tail(todo)
    BY <1>7 DEF LookForPayload
  <2>2. todo # << >> /\ held \in Content /\ HeldInv(h) /\ h \in Sidecars
    BY <1>3, <2>1, Listings DEF ListInv
  <2>3. reading \in Readings /\ e \in Entries
    <3>1. Reading(held, TRUE) \in Readings /\ Reading(held, FALSE) \in Readings
      BY <2>2 DEF Readings
    <3>2. reading \in {Reading(held, TRUE), Reading(held, FALSE)}
      <4>1. fs[PayloadOf(h)] # None => reading = Reading(held, TRUE)
        BY DEF Reading
      <4>2. fs[PayloadOf(h)] = None => reading = Reading(held, FALSE)
        BY DEF Reading
      <4>3. QED
        BY <4>1, <4>2
    <3>3. QED
      BY ONLY <2>2, <3>1, <3>2 DEF Entries
  <2>4. /\ todo' \in Seq(Sidecars) /\ Range(todo) \subseteq {h} \cup Range(todo')
        /\ listed' \in Seq(Entries) /\ Range(listed') = Range(listed) \cup {e}
    BY <1>3, <2>1, <2>2, <2>3, Listings
  <2>5. was[h] \cap {reading, Gone} # {} \/ h \in filled
    <3>1. CASE fs[h] = held
      <4>1. AtOnce(h) \in was[h]
        BY <2>1, <2>2 DEF ListInv
      <4>2. AtOnce(h) \in {reading, Gone}
        BY <3>1 DEF AtOnce, Load
      <4>3. QED
        BY <4>1, <4>2
    <3>2. CASE Gone \in was[h]
      BY <3>2
    <3>3. CASE Reading(held, FALSE) \in was[h]
               /\ (GoneForGood(h) \/ ~IsAudit(held))
      <4>1. reading = Reading(held, FALSE)
        BY <3>3 DEF GoneForGood, Reading
      <4>2. QED
        BY <3>3, <4>1
    <3>4. QED
      BY <2>2, <3>1, <3>2, <3>3 DEF HeldInv
  <2>6. ASSUME NEW n \in Sidecars
        PROVE  Gone \in was'[n] \/ n \in Range(todo') \/ \E r \in Range(listed') : r.name = n
    <3>1. Gone \in was[n] \/ n \in Range(todo) \/ \E r \in Range(listed) : r.name = n
      BY <2>1 DEF ListInv
    <3>2. e.name = h
      OBVIOUS
    <3>3. QED
      BY <1>2, <2>1, <2>4, <3>1, <3>2
  <2>7. ASSUME NEW r \in Range(listed')
        PROVE  was'[r.name] \cap {r.reading, Gone} # {} \/ r.name \in filled
    <3>1. r.name \in Sidecars
          /\ (was[r.name] \cap {r.reading, Gone} # {} \/ r.name \in filled)
      <4>1. CASE r \in Range(listed)
        BY <1>4, <4>1 DEF ListInv
      <4>2. CASE r = e
        <5>1. r.name = h /\ r.reading = reading
          BY <4>2
        <5>2. QED
          BY ONLY <2>2, <2>5, <5>1
      <4>3. QED
        BY <2>4, <4>1, <4>2
    <3>2. QED
      BY <1>2, <2>1, <3>1
  <2>8. QED
    BY <1>1, <1>2, <2>1, <2>4, <2>6, <2>7 DEF ListInv
<1>8. ASSUME EndList PROVE ListInv'
  <2>1. lpc' = "idle" /\ listed' = << >> /\ todo' = todo
    BY <1>8 DEF EndList
  <2>2. Range(listed') = {} /\ listed' \in Seq(Entries)
    BY <2>1, EmptySeq DEF Range
  <2>3. QED
    BY <1>3, <2>1, <2>2 DEF ListInv
<1>9. QED
  BY <1>5, <1>6, <1>7, <1>8 DEF ListerStep

(* A stuttering step keeps it too.                                         *)
LEMMA ListStutters ==
  ASSUME ListInv, UNCHANGED vars
  PROVE  ListInv'
<1>1. UNCHANGED <<fs, clock, pc, entry, fate, filled, lpc, todo, held, listed, was>>
  BY DEF vars, operator, lister
<1>2. \A n : GoneForGood(n)' = GoneForGood(n)
  BY <1>1 DEF GoneForGood, Window
<1>3. \A n : HeldInv(n)' = HeldInv(n) /\ AtOnce(n)' = AtOnce(n)
  BY <1>1, <1>2 DEF HeldInv, AtOnce, Load
<1>4. Gone' = Gone
  BY DEF Gone
<1>5. QED
  BY <1>1, <1>3, <1>4 DEF ListInv

-----------------------------------------------------------------------------
(* The theorems.                                                           *)

(* A step keeps the whole invariant, and every history grows.              *)
LEMMA Step ==
  ASSUME IInv, [Next]_vars
  PROVE  IInv' /\ \A n \in Sidecars : Extends(n)
<1>1. OperatorInv'
  BY OperatorKeeps DEF IInv
<1>2. ASSUME UNCHANGED <<told, fs>>, HistoryInv'
      PROVE  \A n \in Sidecars : Extends(n)
  <2>1. \A n \in Sidecars : told[n] \in Seq(EventActions)
    BY DEF IInv, HistoryInv
  <2>2. "restore" \in EventActions
    BY DEF EventActions
  <2>3. \A n \in Sidecars : IsPrefix(told[n], told'[n])
    BY <1>2, <2>1, <2>2, HistoriesExtend
  <2>4. \A n \in Sidecars : told'[n] = IF IsAudit(fs'[n]) THEN fs'[n].events ELSE told[n]
    BY <1>2 DEF IInv, HistoryInv
  <2>5. QED
    BY <1>2, <2>3, <2>4, HistoriesStand DEF IInv
<1>3. CASE OperatorStep /\ UNCHANGED lister /\ Observe
  BY <1>1, <1>3, HistoryKeeps, ListKeepsOperator DEF IInv
<1>4. CASE ListerStep /\ UNCHANGED operator /\ Observe
  <2>1. HistoryInv' /\ told' = told /\ fs' = fs
    BY <1>4, HistoryStutters DEF IInv, operator
  <2>2. QED
    BY <1>1, <1>2, <1>4, <2>1, ListKeepsLister DEF IInv
<1>5. CASE UNCHANGED vars
  <2>1. UNCHANGED operator /\ UNCHANGED told /\ UNCHANGED fs
    BY <1>5 DEF vars, operator
  <2>2. HistoryInv'
    BY <2>1, HistoryStutters DEF IInv
  <2>3. QED
    BY <1>1, <1>2, <1>5, <2>1, <2>2, ListStutters DEF IInv
<1>6. QED
  BY <1>3, <1>4, <1>5 DEF Next

(* The invariant holds in every session, whatever was in the directory.    *)
THEOREM Invariance == Spec => []IInv
<1>1. Init => IInv
  BY OperatorInit, HistoryInit, ListInit DEF IInv
<1>2. IInv /\ [Next]_vars => IInv'
  BY Step
<1>3. QED
  BY <1>1, <1>2, PTL DEF Spec

(* Every variable has its type.                                            *)
THEOREM TypeCorrect == Spec => []TypeOK
<1>1. IInv => TypeOK
  BY Listings DEF IInv, OperatorInv, OperatorTypes, ListInv, TypeOK
<1>2. QED
  BY <1>1, Invariance, PTL

(* A record without an issue about its state or its payload says what last *)
(* happened to the payload, unless a restore has put another file in the   *)
(* place of a payload that is lost or was moved away.                      *)
THEOREM RecordsAreRight == Spec => []RecordsTellFate
<1>1. IInv => RecordsTellFate
  <2> SUFFICES ASSUME IInv, NEW n \in Sidecars,
                      Load(fs, n).issues \subseteq {"quarantine_path_mismatch"}
               PROVE  \/ Load(fs, n).state = fate[n]
                      \/ n \in filled /\ Load(fs, n).state = "quarantined"
    BY DEF RecordsTellFate
  <2> DEFINE audit == fs[n]
             exists == fs[PayloadOf(n)] # None
  <2>1. IsAudit(audit)
    BY DEF Load, Reading, LoadFailed
  <2>2. audit.state \in RecordStates \cup {"none", "other"}
    BY <2>1, NamesOfPairs, AuditsAreAudits DEF IInv, OperatorInv, OperatorTypes, Audit
  <2>3. Load(fs, n).state = StateOf(audit, exists) /\ Load(fs, n).issues = RecordIssues(audit, exists)
    BY <2>1 DEF Load, Reading, RecordOf
  <2>4. /\ audit.state # "other" /\ ~(audit.state = "none" /\ ~exists)
        /\ ~(StateOf(audit, exists) = "quarantined" /\ ~exists)
    <3> DEFINE found == [invalid_state_value |-> audit.state = "other",
                         legacy_state_missing |-> audit.state = "none" /\ ~exists,
                         payload_missing |-> StateOf(audit, exists) = "quarantined" /\ ~exists,
                         payload_still_present |-> StateOf(audit, exists) \in {"restored", "deleted"} /\ exists,
                         quarantine_path_mismatch |-> audit.quarantine_path = "elsewhere"]
    <3>1. RecordIssues(audit, exists) = {issue \in DOMAIN found : found[issue]}
      BY DEF RecordIssues
    <3>2. \A issue \in DOMAIN found : found[issue] => issue = "quarantine_path_mismatch"
      BY <2>3, <3>1
    <3>3. /\ "invalid_state_value" \in DOMAIN found /\ "legacy_state_missing" \in DOMAIN found
          /\ "payload_missing" \in DOMAIN found
      OBVIOUS
    <3>4. ~found["invalid_state_value"] /\ ~found["legacy_state_missing"] /\ ~found["payload_missing"]
      BY <3>2, <3>3
    <3>5. QED
      BY <3>4
  <2>5. FateInv
    BY DEF IInv, OperatorInv
  <2>6. QED
    BY <2>1, <2>2, <2>3, <2>4, <2>5 DEF FateInv, StateOf, RecordStates
<1>2. QED
  BY <1>1, Invariance, PTL

(* What the operator is told is what happened.                             *)
THEOREM AnswersAreRight == Spec => []AnswersAreTrue
<1>1. IInv => AnswersAreTrue
  BY DEF IInv, OperatorInv, AnswerInv
<1>2. QED
  BY <1>1, Invariance, PTL

(* What stands at a sidecar extends every earlier history of it, but while *)
(* a command writes it and where a command was stopped writing it.         *)
THEOREM HistoriesGrow == Spec => HistoryOnlyGrows
<1>1. IInv /\ [Next]_vars =>
        [\A n \in Sidecars :
           /\ IsPrefix(told[n], told'[n])
           /\ IsPrefix(told[n], EventsOf(fs'[n])) \/ BeingWritten(n)' \/ n \in cut']_vars
  BY Step DEF Extends
<1>2. QED
  BY <1>1, Invariance, PTL DEF Spec, HistoryOnlyGrows

(* No command touches an entry that it was not asked for.                  *)
THEOREM OthersAreLeftAlone == Spec => OnlyTheRequestedEntry
<1> DEFINE Alone ==
      \A n \in Sidecars :
        IsAudit(fs[n]) /\ (fs'[n] # fs[n] \/ (fs[PayloadOf(n)] # None /\ fs'[PayloadOf(n)] = None)) =>
          IF request.command = "move" THEN fs'[n] = fs[n] /\ PayloadOf(n) = request.source
          ELSE Matches(fs, request.scan_id) = {n}
<1>1. ASSUME IInv, Next PROVE Alone
  <2>1. CASE OperatorStep
    BY <1>1, <2>1, WhatChanges DEF IInv
  <2>2. CASE UNCHANGED operator
    BY <2>2 DEF operator
  <2>3. QED
    BY <1>1, <2>1, <2>2 DEF Next
<1>2. IInv /\ [Next]_vars => [Alone]_vars
  BY <1>1
<1>3. QED
  BY <1>2, Invariance, PTL DEF Spec, OnlyTheRequestedEntry

(* What a listing says was true at some moment while it ran, and it leaves *)
(* nothing out that was there all the time; but for places that a restore  *)
(* has filled with another file.                                           *)
THEOREM ListingsAreRight == Spec => []ListingIsTrue
<1>1. IInv => ListingIsTrue
  <2> SUFFICES ASSUME IInv, AllRead PROVE ListingIsTrue
    BY DEF ListingIsTrue
  <2>1. \A r \in Range(listed) :
          was[r.name] \cap {r.reading, Gone} # {} \/ r.name \in filled
    BY DEF IInv, ListInv
  <2>2. ASSUME NEW n \in Sidecars \ filled, Gone \notin was[n], \A r \in was[n] : Asked(r, filter)
        PROVE  n \in Mentioned
    <3>1. PICK e \in Range(listed) : e.name = n
      <4>1. Range(todo) = {}
        BY Listings DEF AllRead, IInv, ListInv
      <4>2. QED
        BY <2>2, <4>1 DEF AllRead, IInv, ListInv
    <3>2. e.reading \in was[n]
      BY <2>1, <2>2, <3>1
    <3>3. Asked(e.reading, filter)
      BY <2>2, <3>2
    <3>4. Listed(e.reading, filter)
      BY <3>3 DEF Asked, Listed
    <3>5. CASE e.reading.loaded
      <4>1. e \in ListResponse.records
        BY <3>1, <3>4, <3>5 DEF ListResponse, Response
      <4>2. QED
        BY <3>1, <4>1 DEF Mentioned
    <3>6. CASE ~e.reading.loaded
      <4>1. e.reading \in Readings
        <5>1. Range(listed) \subseteq Entries
          BY Listings DEF IInv, ListInv
        <5>2. QED
          BY <3>1, <5>1 DEF Entries
      <4>2. e.reading.issues = {"audit_load_failed"}
        <5>1. PICK c \in Content : e.reading \in {Reading(c, TRUE), Reading(c, FALSE)}
          BY <4>1 DEF Readings
        <5>2. ASSUME IsAudit(c) PROVE FALSE
          <6>1. RecordOf(c, TRUE).loaded /\ RecordOf(c, FALSE).loaded
            BY DEF RecordOf
          <6>2. Reading(c, TRUE) = RecordOf(c, TRUE) /\ Reading(c, FALSE) = RecordOf(c, FALSE)
            BY <5>2 DEF Reading
          <6>3. QED
            BY <3>6, <5>1, <6>1, <6>2
        <5>3. e.reading = LoadFailed
          BY <5>1, <5>2 DEF Reading
        <5>4. QED
          BY <5>3 DEF LoadFailed
      <4>3. <<e, "audit_load_failed">> \in ListResponse.issues
        BY <3>1, <3>4, <4>2 DEF ListResponse, Response
      <4>4. <<e, "audit_load_failed">>[1].name = n
        BY <3>1
      <4>5. QED
        BY <4>3, <4>4 DEF Mentioned
    <3>7. QED
      BY <3>5, <3>6
  <2>3. QED
    BY <2>1, <2>2 DEF ListingIsTrue
<1>2. QED
  BY <1>1, Invariance, PTL
=============================================================================
