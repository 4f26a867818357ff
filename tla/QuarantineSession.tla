-------------------------- MODULE QuarantineSession --------------------------
(***************************************************************************)
(* A session at one quarantine directory: an operator runs the commands    *)
(* `scan --quarantine move`, `quarantine restore` and `quarantine delete`  *)
(* one after the other, and a `quarantine list` runs beside them.  The     *)
(* directory may hold sidecars of older versions, damaged ones, copies of  *)
(* one another, and records that have lost their payload.                  *)
(*                                                                         *)
(* QuarantineStore has any number of commands at once on well-formed       *)
(* records; here the commands take turns, no two moves are in one second,  *)
(* and everything the commands read and answer is there.  One directory    *)
(* tree holds all the files: a file in quarantine may itself be scanned    *)
(* and moved, and its original path is then in the quarantine directory.   *)
(***************************************************************************)
EXTENDS QuarantineRecords

CONSTANTS
  Directories,  (* The files there may be at the beginning, with the fate *)
                (* of each payload: [fs, fate].                           *)
  EndsInAudit,  (* The outside paths that end in .audit.json.             *)
  NoParent,     (* The outside paths whose directory does not exist.      *)
  Malicious,    (* The blobs an engine knows to be malicious.             *)
  Filters,      (* The --state options of `list`, None for no option.     *)
  Now,          (* The second in which the session begins.                *)
  MaxCommands   (* Bound on the commands of the operator.                 *)

ASSUME SessionAssumption ==
  /\ EndsInAudit \subseteq Outside /\ NoParent \subseteq Outside
  /\ Malicious \subseteq Blobs
  /\ Filters \subseteq RecordStates \cup {"unknown", None}
  /\ Now \in Nat /\ MaxCommands \in Nat

Fates == {"none", "quarantined", "restored", "deleted", "elsewhere", "lost"}

(* A directory that the program may have left, in this or an older version:*)
(* the payload of a sidecar is a file that came from outside, nothing but  *)
(* a sidecar has the name of the sidecar of something.audit.json, and what *)
(* a record says of its payload happened to it.                            *)
WellFormed(d) ==
  /\ d.fs \in [Places -> Content]
  /\ d.fate \in [Sidecars -> Fates]
  /\ \A p \in Outside : d.fs[p] \in Blobs \cup {None}
  /\ \A n \in Names :
       /\ d.fs[n] # None => n[1] <= Now
       /\ n[2] = 0 => d.fs[n] \in Blobs \cup {None}
       /\ n[2] = 2 => d.fs[n] \notin Blobs
  /\ \A n \in Sidecars :
       /\ d.fs[n] # None => d.fs[PayloadOf(n)] \in Blobs \cup {None}
       /\ IsAudit(d.fs[n]) =>
            /\ d.fs[n].original_path \in Outside \cup {None}
            /\ d.fs[n].state \in {"restored", "deleted"} => d.fate[n] = d.fs[n].state
            /\ d.fs[n].state \in {"quarantined", "none"} /\ d.fs[PayloadOf(n)] # None
                 => d.fate[n] = "quarantined"

ASSUME DirectoriesAssumption == \A d \in Directories : WellFormed(d)

VARIABLES
  fs,       (* The file at every place.                                    *)
  clock,    (* The last second in which a file was moved.                  *)
  commands, (* How many commands have begun.                               *)
  pc,       (* The step of the command, "idle" between two.                *)
  request,  (* Its arguments: [command, source, scan_id, target, yes].     *)
  entry,    (* The sidecar it works on.                                    *)
  draft,    (* The audit it is about to write.                             *)
  response, (* What the last command answered: [exit, issues, before,      *)
            (* after].                                                     *)
  lpc,      (* The step of the listing.                                    *)
  filter,   (* Its --state option.                                         *)
  todo,     (* The sidecars it has still to read.                          *)
  held,     (* The sidecar it has read.                                    *)
  listed,   (* What it has loaded: a sequence of [name, reading].          *)
  fate,     (* History: what last happened to the payload of each sidecar. *)
  filled,   (* History: the sidecars in whose payload's place a restore    *)
            (* has put another file.                                       *)
  started,  (* History: the files when the command began.                  *)
  told,     (* History: the last complete history of events of each.       *)
  cut,      (* History: the sidecars at which a command has been stopped   *)
            (* between opening and writing.                                *)
  was       (* History: every reading of each during the listing.          *)

operator == <<fs, clock, commands, pc, request, entry, draft, response, fate, filled,
              started, cut>>
lister == <<lpc, filter, todo, held, listed>>
vars == <<operator, lister, told, was>>

(* No exit code: the command has not ended.                                *)
Unanswered == -1

NoResponse == [exit |-> Unanswered, issues |-> {}, before |-> None, after |-> None]
EventsOf(content) == IF IsAudit(content) THEN content.events ELSE << >>

Init ==
  /\ \E d \in Directories : fs = d.fs /\ fate = d.fate
  /\ clock = Now
  /\ commands = 0
  /\ pc = "idle"
  /\ request = [command |-> "none"]
  /\ entry = None
  /\ draft = None
  /\ response = NoResponse
  /\ lpc = "idle"
  /\ filter = None
  /\ todo = << >>
  /\ held = None
  /\ listed = << >>
  /\ filled = {}
  /\ started = fs
  /\ cut = {}
  /\ told = [n \in Sidecars |-> EventsOf(fs[n])]
  /\ was = [n \in Sidecars |-> {}]

Goto(from, to) == pc = from /\ pc' = to

-----------------------------------------------------------------------------
(* The commands.                                                           *)

Begin(r) ==
  /\ Goto("idle", r.command)
  /\ commands < MaxCommands
  /\ commands' = commands + 1
  /\ request' = r
  /\ response' = NoResponse
  /\ entry' = None
  /\ draft' = None
  /\ started' = fs
  /\ UNCHANGED <<fs, clock, fate, filled, cut>>

Answer(exit, issues, before, after) ==
  response' = [exit |-> exit, issues |-> issues, before |-> before, after |-> after]

Refuse(issues, before) ==
  /\ pc' = "idle"
  /\ Answer(8, issues, before, None)
  /\ UNCHANGED <<fs, clock, commands, request, entry, draft, fate, filled, started, cut>>

(* A scan that convicts its target goes on to move it.                     *)
BeginScan(source) ==
  /\ fs[source] \in Malicious
  /\ clock + 1 \in Seconds
  /\ Begin([command |-> "move", source |-> source])

BeginRestore(id, output) ==
  Begin([command |-> "restore", scan_id |-> id, target |-> output])

BeginDelete(id, yes) ==
  Begin([command |-> "delete", scan_id |-> id, yes |-> yes])

(* The destination keeps the name of the file behind its time stamp.       *)
NameFor(source) ==
  <<clock + 1, IF source \in Outside THEN (IF source \in EndsInAudit THEN 1 ELSE 0)
               ELSE source[2]>>

MoveIntoQuarantine ==
  LET source == request.source
      name == NameFor(source)
  IN  /\ Goto("move", "open")
      /\ clock' = clock + 1
      /\ fs' = [fs EXCEPT ![source] = None, ![name] = fs[source]]
      /\ entry' = SidecarOf(name)
      /\ draft' = [scan_id |-> clock', state |-> "quarantined", original_path |-> source,
                   quarantine_path |-> "here", events |-> <<"quarantine_move">>]
      /\ fate' = [n \in Sidecars |->
                    IF n = SidecarOf(name) THEN "quarantined"
                    ELSE IF PayloadOf(n) = source /\ fate[n] = "quarantined" THEN "elsewhere"
                    ELSE fate[n]]
      /\ UNCHANGED <<commands, request, response, filled, started, cut>>

(* The record that a restore or a delete is about, the state it has, and   *)
(* why it may not be changed.                                              *)
Record == FindRecord(fs, request.scan_id)
Issues == FindIssues(fs, request.scan_id)
StateBefore == IF Record = None THEN None ELSE Load(fs, Record).state

NotMutable ==
  IF Record = None THEN {}
  ELSE LET record == Load(fs, Record)
       IN  IF record.state # "quarantined" THEN {"state_not_quarantined"}
           ELSE IF ~record.payload_exists THEN {"payload_missing"}
           ELSE {}

Mutable == Record # None /\ NotMutable = {}

RefuseRecord ==
  /\ pc \in {"restore", "delete"}
  /\ pc = "delete" => request.yes
  /\ ~Mutable
  /\ Refuse(Issues \cup NotMutable, StateBefore)

(* Without --yes nothing is looked up.                                     *)
RefuseUnconfirmed ==
  /\ pc = "delete" /\ ~request.yes
  /\ Refuse({"confirmation_required"}, None)

Target == IF request.target # None THEN request.target ELSE fs[Record].original_path

(* Mutant of TargetIssues: an existing target is not looked for.           *)
TargetIssuesUnchecked ==
  IF Target = None THEN {"restore_target_missing"}
  ELSE IF Target \in NoParent THEN {"restore_parent_missing"}
  ELSE {}

TargetIssues ==
  IF Target = None THEN {"restore_target_missing"}
  ELSE IF fs[Target] # None THEN {"target_already_exists", "restore_conflict"}
  ELSE IF Target \in NoParent THEN {"restore_parent_missing"}
  ELSE {}

RefuseTarget ==
  /\ pc = "restore" /\ Mutable
  /\ TargetIssues # {}
  /\ Refuse(Issues \cup TargetIssues, StateBefore)

(* Mutant of EndState: the state is named after the event.                 *)
EndStateNamedAfterEvent == request.command

EndState == IF request.command = "restore" THEN "restored" ELSE "deleted"

(* Mutant of Updated: the history starts anew.                             *)
UpdatedAnew(audit) ==
  [audit EXCEPT !.state = EndState, !.events = <<request.command>>]

(* The audit is read again and one event is appended; what it does not set *)
(* stays as it was.                                                        *)
Updated(audit) ==
  [audit EXCEPT !.state = EndState, !.events = Append(@, request.command)]

TakeOut(after) ==
  /\ pc' = "open"
  /\ entry' = Record
  /\ draft' = Updated(fs[Record])
  /\ Answer(Unanswered, Issues, StateBefore, None)
  /\ fs' = after
  /\ UNCHANGED <<clock, commands, request, started, cut>>

(* A payload that was itself the target of a scan is put back in its place.*)
(* Any other file that a restore puts there only stands in for the payload.*)
Returns(n) ==
  /\ PayloadOf(n) = Target /\ fate[n] = "elsewhere"
  /\ fs[Record].original_path = Target
  /\ {n, Record} \cap filled = {}

StandsIn(n) == PayloadOf(n) = Target /\ ~Returns(n)

MovePayloadOut ==
  /\ pc = "restore" /\ Mutable /\ TargetIssues = {}
  /\ TakeOut([fs EXCEPT ![Target] = fs[PayloadOf(Record)], ![PayloadOf(Record)] = None])
  /\ fate' = [n \in Sidecars |-> IF n = Record THEN "restored"
                                 ELSE IF Returns(n) THEN "quarantined" ELSE fate[n]]
  /\ filled' = filled \cup {n \in Sidecars : StandsIn(n)}

UnlinkPayload ==
  /\ pc = "delete" /\ request.yes /\ Mutable
  /\ TakeOut([fs EXCEPT ![PayloadOf(Record)] = None])
  /\ fate' = [fate EXCEPT ![Record] = "deleted"]
  /\ UNCHANGED filled

OpenAudit ==
  /\ Goto("open", "write")
  /\ fs' = [fs EXCEPT ![entry] = Torn]
  /\ UNCHANGED <<clock, commands, request, entry, draft, response, fate, filled, started, cut>>

(* A scan that has convicted its target has exit code 1.                   *)
Success == IF request.command = "move" THEN 1 ELSE 0

WriteAudit ==
  /\ Goto("write", "idle")
  /\ fs' = [fs EXCEPT ![entry] = draft]
  /\ Answer(Success, response.issues, response.before, draft.state)
  /\ UNCHANGED <<clock, commands, request, entry, draft, fate, filled, started, cut>>

(* Anything else that ends a command: an OSError of the quarantine, an     *)
(* invalid value in the configuration (both have exit code 6), or a kill.  *)
Fault ==
  /\ pc # "idle"
  /\ pc' = "idle"
  /\ Answer(6, {"quarantine_error"}, None, None)
  /\ cut' = IF pc = "write" THEN cut \cup {entry} ELSE cut
  /\ UNCHANGED <<fs, clock, commands, request, entry, draft, fate, filled, started>>

(* The configuration, which is loaded first, is missing or malformed.      *)
ConfigFails ==
  /\ pc \in {"restore", "delete"}
  /\ pc' = "idle"
  /\ Answer(7, {"config_error"}, None, None)
  /\ UNCHANGED <<fs, clock, commands, request, entry, draft, fate, filled, started, cut>>

ScanIds == {fs[n].scan_id : n \in {m \in Sidecars : IsAudit(fs[m])}} \cup {0}

(* --output-path may be any path, one in the quarantine directory included.*)
(* Two bounds: nobody writes to names of seconds still to come, nor gives a*)
(* file that is no sidecar two endings .audit.json.                        *)
Outputs == Outside \cup {n \in Names : n[1] <= clock /\ n[2] < 2} \cup {None}

OperatorStep ==
  \/ \E source \in Places : BeginScan(source)
  \/ \E id \in ScanIds, output \in Outputs : BeginRestore(id, output)
  \/ \E id \in ScanIds, yes \in BOOLEAN : BeginDelete(id, yes)
  \/ MoveIntoQuarantine
  \/ RefuseUnconfirmed \/ RefuseRecord \/ RefuseTarget
  \/ MovePayloadOut \/ UnlinkPayload
  \/ OpenAudit \/ WriteAudit
  \/ Fault \/ ConfigFails

-----------------------------------------------------------------------------
(* The listing: the sidecars are enumerated once, and then each is read,   *)
(* and its payload looked for, one after the other.                        *)

BeginList(option) ==
  /\ lpc = "idle"
  /\ lpc' = "read"
  /\ filter' = option
  /\ todo' \in AuditPaths(fs)
  /\ UNCHANGED <<held, listed>>

ReadSidecar ==
  /\ lpc = "read" /\ todo # << >>
  /\ lpc' = "look"
  /\ held' = fs[Head(todo)]
  /\ UNCHANGED <<filter, todo, listed>>

LookForPayload ==
  /\ lpc = "look"
  /\ lpc' = "read"
  /\ listed' = Append(listed, [name |-> Head(todo), reading |->
                                 Reading(held, fs[PayloadOf(Head(todo))] # None)])
  /\ todo' = Tail(todo)
  /\ held' = None
  /\ UNCHANGED filter

EndList ==
  /\ lpc = "read" /\ todo = << >>
  /\ lpc' = "idle"
  /\ filter' = None
  /\ listed' = << >>
  /\ UNCHANGED <<todo, held>>

ListerStep ==
  \/ \E option \in Filters : BeginList(option)
  \/ ReadSidecar \/ LookForPayload \/ EndList

-----------------------------------------------------------------------------

(* The history variables.                                                  *)
Gone == [loaded |-> FALSE, issues |-> {}]
AtOnce(n) == IF fs[n] = None THEN Gone ELSE Load(fs, n)

Observe ==
  /\ told' = [n \in Sidecars |-> IF IsAudit(fs'[n]) THEN fs'[n].events ELSE told[n]]
  /\ was' = [n \in Sidecars |-> IF lpc' = "idle" THEN {} ELSE was[n] \cup {AtOnce(n)'}]

Next ==
  /\ \/ OperatorStep /\ UNCHANGED lister
     \/ ListerStep /\ UNCHANGED operator
  /\ Observe

Spec == Init /\ [][Next]_vars

-----------------------------------------------------------------------------
(* Correctness.                                                            *)

(* The type of every variable.                                             *)
TypeOK ==
  /\ fs \in [Places -> Content]
  /\ \A p \in Outside : fs[p] \in Blobs \cup {None}
  /\ clock \in Nat /\ commands \in 0 .. MaxCommands
  /\ pc \in {"idle", "move", "restore", "delete", "open", "write"}
  /\ entry \in Sidecars \cup {None}
  /\ draft \in Audit \cup {None}
  /\ response.exit \in {0, 1, 6, 7, 8, Unanswered}
  /\ response.before \in RecordStates \cup {"unknown", None}
  /\ response.after \in RecordStates \cup {None}
  /\ lpc \in {"idle", "read", "look"}
  /\ Range(todo) \subseteq Sidecars
  /\ fate \in [Sidecars -> Fates] /\ filled \subseteq Sidecars /\ cut \subseteq Sidecars

(* operations.md 12.3, 12.6: the audit is the single source of truth, and  *)
(* old records are read conservatively.  A record that is shown without an *)
(* issue about its state or its payload says what last happened to the     *)
(* payload, whatever was done before, by whatever version, and wherever a  *)
(* command was stopped.  There is one exception: only the name of a payload*)
(* is looked for, so a record whose payload is lost, or was moved away, is *)
(* shown as quarantined, without an issue, once `restore --output-path` has*)
(* put the payload of another record in that place.                        *)
RecordsTellFate ==
  \A n \in Sidecars :
    LET record == Load(fs, n)
    IN  record.issues \subseteq {"quarantine_path_mismatch"} =>
          record.state = fate[n] \/ (n \in filled /\ record.state = "quarantined")

(* Over any number of commands and failures, what stands at a sidecar is a *)
(* history that extends every earlier one.  The audit is written in place, *)
(* so there are two exceptions: while a command is between opening and     *)
(* writing the sidecar, and for good once a command has been stopped there.*)
(* The whole history is then lost, although operations.md 12.6 has failed  *)
(* restore and delete attempts leave it alone.                             *)
BeingWritten(n) == pc = "write" /\ entry = n

HistoryOnlyGrows ==
  [][\A n \in Sidecars :
       /\ IsPrefix(told[n], told'[n])
       /\ IsPrefix(told[n], EventsOf(fs'[n])) \/ BeingWritten(n)' \/ n \in cut'
    ]_vars

(* No command changes the record of another scan id, nor one whose scan id *)
(* is not its own alone, nor takes its payload away, unless that payload   *)
(* is itself the target of a scan.                                         *)
OnlyTheRequestedEntry ==
  [][\A n \in Sidecars :
       IsAudit(fs[n]) /\ (fs'[n] # fs[n] \/ (fs[PayloadOf(n)] # None /\ fs'[PayloadOf(n)] = None)) =>
         IF request.command = "move" THEN fs'[n] = fs[n] /\ PayloadOf(n) = request.source
         ELSE Matches(fs, request.scan_id) = {n}
    ]_vars

(* What the operator is told is what happened: a command that is refused   *)
(* (exit code 7 or 8) says why and has changed nothing; one that succeeds  *)
(* (0, and 1 for a scan that has moved its target) names the state that its*)
(* record now has, has put the payload where it belongs, and has changed no*)
(* other file.                                                             *)
Answered == pc = "idle" /\ response.exit # Unanswered
Changed == {p \in Places : fs[p] # started[p]}
Destination == IF request.target = None THEN fs[entry].original_path ELSE request.target

AnswersAreTrue ==
  Answered =>
    /\ response.exit \in {7, 8} => Changed = {} /\ response.issues # {}
    /\ response.exit \in {0, 1} =>
         /\ response.exit = Success
         /\ response.after = fate[entry]
         /\ Load(fs, entry).loaded /\ Load(fs, entry).state = fate[entry]
         /\ CASE request.command = "move" ->
                   Changed = {request.source, entry, PayloadOf(entry)}
              [] request.command = "restore" ->
                   /\ response.before = "quarantined"
                   /\ Changed = {Destination, entry, PayloadOf(entry)}
                   /\ started[Destination] = None
                   /\ fs[Destination] = started[PayloadOf(entry)]
              [] request.command = "delete" ->
                   /\ response.before = "quarantined" /\ request.yes
                   /\ Changed = {entry, PayloadOf(entry)}
         /\ fs[PayloadOf(entry)] = IF request.command = "move" THEN started[request.source]
                                   ELSE None

(* What a listing says of a sidecar is what an instantaneous look at it    *)
(* would have said at some moment while the listing ran, although it reads *)
(* the sidecar first and looks for the payload later (unless another file  *)
(* has been put in the place of the payload); and nothing that was there   *)
(* all the time, in the requested state or not to be loaded, is left out of*)
(* the answer.                                                             *)
ListResponse == Response(Range(listed), filter)
Asked(r, option) == ~r.loaded \/ option \in {None, r.state}
Mentioned == {r.name : r \in ListResponse.records}
             \cup {issue[1].name : issue \in ListResponse.issues}

AllRead == lpc = "read" /\ todo = << >>

ListingIsTrue ==
  AllRead =>
    /\ \A r \in Range(listed) :
         was[r.name] \cap {r.reading, Gone} # {} \/ r.name \in filled
    /\ \A n \in Sidecars \ filled :
         Gone \notin was[n] /\ (\A r \in was[n] : Asked(r, filter)) => n \in Mentioned
=============================================================================
