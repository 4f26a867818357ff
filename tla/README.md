# A formal model of ScanBox

ScanBox (`src/scanbox` in the repository) is a command line program that scans a file or
a directory with ClamAV, YARA and capa, prints one JSON report, and may move a convicted
file to a quarantine directory, from where it can be restored or deleted later. This
directory holds TLA+ modules that model it, TLC configurations that check the modules on
small instances, and TLAPS proofs about them. Paths below are relative to `src/scanbox`
unless they name another place.

## 1. Inventory

One process runs one command, in one thread. Concurrency comes from outside: several
invocations share the quarantine directory without a lock, engines are processes of
their own, and users and other programs change the file system while a command runs.

| Component | State it keeps | Operations | Talks to | What is hard about it | What makes it correct |
|---|---|---|---|---|---|
| Quarantine service (`quarantine/service.py`) | payloads in the quarantine directory | `maybe_apply`, `restore`, `delete` | records, audit, `shutil.move`, `unlink` | two processes on one entry or one path; a stop between move and audit; volumes | an entry leaves once; nothing disappears unexplained; restore does not overwrite |
| Audit sidecars (`quarantine/audit.py`) | one JSON file per payload | `write_audit_record`, `update_audit_state` | service, records | the file is truncated and then written; read-modify-write without a lock | the audit tells what happened, history only grows |
| Records (`quarantine/records.py`) | none | load, find, list | sidecars and payloads | sidecar and payload are read at two moments; sidecars of older versions, damaged, copied | what is shown happened, or an issue says that it is not known |
| Verdict resolver (`pipeline/verdicts.py`) | none | `resolve` | reports | precedence of findings over failures | clean is never a default |
| Engine adapters (`adapters/`) | none | `discover`, `supports`, `scan` | engines as subprocesses or a library | timeouts, signals, bad output, an engine that vanishes after `discover` | every way to end gives the right engine state |
| Preflight, rule sets (`pipeline/preflight.py`, `core/rulesets.py`) | none | `apply_preflight`, `inspect_ruleset` | adapters, manifests | manifest and rules that disagree | an engine that is not equipped is not run, and is told of |
| Scan of one file (`orchestrator._scan_file_target`) | a report | hash, preflight, run engines, resolve, quarantine | all of the above | which exceptions are caught, and what is lost with them | clean is earned, a conviction decides, a move is reported |
| Archive expansion (`_scan_file_target_with_archive_expansion`, `pipeline/archive_expansion.py`) | a budget shared by nested archives, temporary files | open, extract, scan a member, aggregate | scan of one file, quarantine service | recursion, limits, damaged or odd members, partial results | limits hold, findings surface, clean covers everything, it ends |
| Directory scan (`orchestrator.scan_directory`, `pipeline/directory_scan_policy.py`) | a report | walk, filter, sort, scan, sum up | scan of one file | links, unreadable directories, files that vanish | one result for each file, counts that add up |
| Scan command (`cli/main.py`) | none | dispatch, load configuration, scan, emit, exit | all of the above | exceptions in exception handlers | one document, an exit code that tells the status |
| Quarantine command (`cli/main.py`) | none | list, restore, delete | quarantine service, records | the order of the refusals; a command that stops half way | an answer is true; a refusal changes nothing; no other entry is touched |
| Reporting (`reporting/json_report.py`) | none | `emit_report`, error documents, default view | stdout, the report file | a failure after stdout was written; members of members | no document contradicts another; the default view says what the report says |
| Configuration (`config/`) | none | load, overlay, resolve paths, validate | TOML files, environment, options | precedence of five sources; tables and values under one key; which exception a bad value is | each setting has the value of the last source that gives it; no invalid setting reaches a scan |
| Targets, file types, hashing, subprocesses, timeouts (`targets/`, `core/`) | none | helpers | file system | the file changes between calls | - |

Packaging, release, setup and acceptance scripts (`scripts/`, `packaging/`), the tests
and the rules are not part of the running program and are not modelled. The list with
the status of each part is `components` of `PROJECT.json`; what is hard to test in this
code, with the line where it bites, is `hazards`.

## 2. Modules

```
ScanPromise        (implemented by FileScan and ArchiveScan)

Verdicts ─┬─ Adapters ── FileScan ─┬─ MCFileScan
          │                        └─ FileScanProofs
          ├─ ArchiveScan ─┬─ MCArchiveScan
          │               └─ ArchiveScanProofs
          └─ Reporting ── DirectoryScan ─┐
                       Configuration ────┴─ ScanCommand ─┬─ MCScanCommand
                                                         └─ ScanCommandProofs
(ScanCommandProofs also extends DirectoryScanProofs and ConfigurationProofs, the proofs
about the two parts of the command; VerdictProofs has the lemmas that ArchiveScanProofs
and DirectoryScanProofs share)

QuarantineStore ── QuarantineInvariant ─┬─ MCQuarantineStore
    │ INSTANCE                          └─ QuarantineStoreProofs
QuarantineLifecycle

QuarantineRecords ── QuarantineSession ─┬─ MCQuarantineSession
                                        └─ QuarantineSessionProofs
```

**QuarantineStore** is the core: the quarantine directory and any number of processes on
it. A *scanner* is `scan --quarantine`, a *restorer* and a *deleter* are the two
`quarantine` commands. `payload` and `sidecar` are the two files of a *slot*, that is,
of a second and a base name (`_build_destination`); `user` are the files outside. Every
file-system call is one action: `Hash`, `RunEngines`, `MaybeApply` (naming the
destination, which comes before the mode is looked at), `MoveIn`, then `OpenAudit` and
`WriteAudit`, since `write_text` truncates before it writes. A restore is `FindRecord`
or `FindNothing`, `CheckTarget`, `MoveOut`, `ReadAudit`, `OpenAudit`, `UpdateAudit`; a
delete is `Confirm`, `FindRecord`, `UnlinkPayload` and the same three. When the path is
on another volume (`Remote`) `shutil.move` is a copy in two steps and an unlink.
`SourceMissing` is the `OSError` of a file that is gone, `Fault` any other `OSError` or
the death of the process; the two look alike to the others, as what a process has in
memory is lost either way. `UserEdit` is a user who changes files outside. The scan id
of an entry is the scanner that made it. `claimed` and `acted` are history variables. On
Windows a rename does not replace its destination, and `shutil.move` then copies over
it; the outcome, which is what the properties see, is the one of the rename.

**QuarantineLifecycle** is what the store promises, per scan id and without files or
processes: `none`, `quarantined`, then `restored` or `deleted`, once; the audit follows
and never runs ahead. `QuarantineStore` implements it (`ImplementsLifecycle`, with the
mapping `Life`, `Audit`) as long as no two files get one slot.

**QuarantineRecords** is `quarantine/records.py` and what the `quarantine` commands
answer: how a sidecar of any version is read (`Load`: its state, its issues), which
sidecars a scan id finds, in which order `restore` and `delete` refuse, and the summary
of `list`. A file in the quarantine directory is named by a second and by how often
`.audit.json` is in the name, so that the payload `x.audit.json`, which the listing
takes for a sidecar, is there. **QuarantineSession** is an operator who runs scans,
restores and deletes one after the other, each of which may fail after any call, and a
`quarantine list` beside them, which enumerates the directory once and then reads each
sidecar and looks for its payload in two steps. The session begins in any directory that
this or an older version may have left (`WellFormed`): records without a state, with
unknown ones, damaged sidecars, copies with one scan id, lost payloads. `--output-path`
may be any path, so a restore may put its file at a free place of the quarantine
directory, the place of another record's payload included (`Outputs`). `fate`, `filled`
and `cut` are history variables: what last happened to the payload of each sidecar, in
whose payload's place a restore has put another file, and at which sidecars a command
was stopped between opening and writing.

The two quarantine models split the work. The store has any number of commands at once
on records of the current version; the session has one command at a time and a reader,
and everything that is read and answered.

**Verdicts** holds the pure decisions: `Resolve` (`VerdictResolver.resolve`), `Overall`
(the priority order that archives and directories share) and `Decision` (what
`maybe_apply` does with a verdict and a mode). **Adapters** holds what each adapter
finds in `discover`, the rules of `inspect_ruleset`, and the engine state for each way
an engine ends. **FileScan** is `_scan_file_target` over them, with the exceptions it
catches and those it does not (`raised`).

**ArchiveScan** is the recursion over archives. The call stack of the Python code is the
variable `stack`: one element per open archive, with the report so far and the index of
the next member. A report is kept as what its ancestors read of it: the statuses and
codes in its tree, the members that convict the container, the numbers of the
accounting. The scan of one member is one step with any verdict. A member is opened by
its name, and of several with one name the last is what opening gives (`Opens`); the
budget is charged with the size of the entry that was asked for. `OSErrorInScan`,
`ExpansionFails`, `ExtractFails`, `OpenFails` and `Raise` are the five ways in which an
exception travels, and they differ in what they throw away.

**ScanPromise** is what the scan of a file promises whoever asked for it: it ends, with
a report or an exception; a conviction is told or hidden by `scan_error`, nothing else
is `known_malicious`; and the file leaves its place only after a conviction, only on
request, and not without a trace in the report. FileScan and ArchiveScan each implement
it (`KeepsPromise`), with mappings of their own: an engine that is certain is a step
`Look`, and so is the conviction of a member.

**Reporting** is what is written of a report: the default view on stdout, which drops
fields of raw summaries and puts the counts that are not zero first, for a file, for its
members however deep, and for every file of a directory. **Configuration** is
`load_app_config`: a TOML value is a tree of typed values, a layer is laid over another
as `_deep_merge` does, paths are resolved, the data model of `AppConfig` and then
`validate_config` refuse what they refuse; what the data model refuses ends as an
`internal_error`, what `validate_config` refuses as a `config_error`. **DirectoryScan**
and **ScanCommand** are the walk and the command around it: in `ScanCommand` the layers
are read one step at a time, the scan of a directory is `DirectoryScan` itself, step by
step, and the scan of a file is one step with the outcomes that ScanPromise allows. What
is raised is handled by a step of its own (`HandleError`), which looks at the path again
to choose the kind of error document; when that look raises too, the command ends with
exit code 1 and no further document. A failed write of the report file leaves it as it
was, or torn (`WriteFails`). Entries are numbers, whose order is that of the relative
paths.

`MC…` modules only define small values for the constants. Operators whose comment says
*Mutant of …* are plausible bugs, used to see that each property can fail; nothing else
refers to them. The lines each definition stands for are in `map` of `PROJECT.json`.

## 3. What is checked

`tlc -config X.cfg MC….tla`; each run takes at most about three minutes.

| Run | States | Shows |
|---|---|---|
| `quarantine_concurrent` | 2 461 000 | Two scanners, a restorer, a deleter and a user who edits, one of two paths on another volume, everyone may fail anywhere. `TakenOutOnce`: no entry is taken out twice. `TerminalMeansGone`: a record that says restored or deleted has no payload. `PayloadAccounted`, `MissingExplained`: payload and record disagree only while, or because, one process is or was stopped between its two writes. `SuccessIsAudited`: what reported success is in the history. `NoSilentLoss`: a content disappears only by an edit, a confirmed delete, a slot collision, the restore race below, or a copy between volumes whose source was replaced while it ran. |
| `quarantine_lifecycle` | 235 000 | Without slot collisions and faults: the refinement `ImplementsLifecycle`, and the liveness `AuditCatchesUp`. |
| `quarantine_session` | 940 000 | Two commands and a listing in each of nine directories. `RecordsTellFate`: a record shown without an issue about its state or payload says what happened to its payload, whatever was done before and wherever a command stopped, unless another record was restored into the place of that payload. `AnswersAreTrue`: a refusal has a reason and changed nothing, a success changed what it says and nothing else. `ListingIsTrue`: each line of a listing was true at some moment while it ran, and nothing that was there all the time is missing, with the same exception. `HistoryOnlyGrows`: what stands at a sidecar extends every history that stood there, except while a command is writing it and after one was stopped there. `OnlyTheRequestedEntry`. |
| `file_scan` | 355 000 | One engine at a time lacks any one thing, or ends in any way; every profile and set of engines. `CleanIsEarned`: every engine that is required had all it needs (`Equipped`, said without the order of the checks), was run and has answered; the one way not to answer that passes is a clamscan ended by a signal or with a code of its own (see `file_scan_unfinished`). `ConvictionDecides`, `MovesAreReported`, and the refinement `KeepsPromise`. |
| `archive_scan` | 207 000 | Archives in archives, in themselves, empty, with odd, protected and damaged members, with two members of one name, over both limits. `CleanCoversEverything`: below a clean target every file that was opened was scanned clean, and every member was opened but those that a later one of the same name hides. `LimitsHold`, `FindingsSurface`, `QuarantineFollowsFindings`, `AccountingMatchesBudget`, `ScanEnds`, and the refinement `KeepsPromise`. `StepsRunOut`: every step leaves less to do, in an order in which nothing decreases for ever; this is why an archive in itself comes to an end. |
| `scan_command` | 302 000 | The whole command on files and trees, from every combination of layers chosen below. `ConfiguredAsTold`: each setting of a scan is what the last source that says anything of it says, by a definition (`Told`) that merges nothing. `PrintedIsTheReport`: the default view on stdout differs from a complete report file only in the order of the counts and in details of the engines; no status, member or failure of an engine is missing. `DirectoryReportIsComplete`, `ExitTellsStatus`: the exit code is that of the last document, which the report file holds; or it is 1, with a report file that is untouched or torn, after an error document that could not be written to it or a handler that could not look at the path. `ExitZeroIsClean`, `DirectoryQuarantineRefused`, `CommandEnds`; `CommandStepsRunOut`: no directory is walked twice, and no error in an error handler starts another round. |

Six runs expect a violation. Each checks one sentence of the documentation that the code
does not keep (`findings` of `PROJECT.json`):

| Run | The sentence | What happens |
|---|---|---|
| `quarantine_history` | operations.md 12.6: previous events are preserved | Two files of one name quarantined in one second share a slot; payload and audit of the first are replaced. |
| `quarantine_restore` | 12.4: restore does not overwrite existing files | Two restores to one path both find it free. |
| `file_scan_unfinished` | 7.5: a step that did not complete is not clean | A clamscan ended by a signal counts as finished with nothing found. |
| `archive_scan_performed` | `--quarantine` is for known-malicious results | A convicted archive is moved before it is expanded; the expansion finds nothing and the report of the quarantined file says `scan_error`. |
| `scan_command_failure` | 13.5: individual file failures become child results | Any exception that is not a `ScanBoxError` ends the scan of the directory. |
| `scan_command_single` | README: a single JSON result | A report file that cannot be written gives two documents, and then exit code 1, which means known malicious. |

Four more are what the code does and no run checks for; they are the named exceptions of
the properties above.

- A command that is stopped, or fails, between opening a sidecar and writing it loses
  the whole history of the record (`audit.py` 137), while operations.md 12.6 says that
  failed attempts do not rewrite audit history. `HistoryOnlyGrows` excepts it (`cut`).
- `restore --output-path` may put a payload in the empty payload place of another
  record, which is then shown as quarantined, without an issue (`service.py` 256-266,
  `records.py` 47: only the name is looked for). `RecordsTellFate` and `ListingIsTrue`
  except it (`filled`).
- Of two members of an archive with one name the last is scanned twice and the first
  never, both count as scanned, and no issue says so (`archive_expansion.py` 320, 325).
  `CleanCoversEverything` excepts it (`Shadowed`).
- A path that cannot be looked at, below a directory that may not be searched or with a
  name that is too long, ends the command with a traceback, exit code 1 and no document
  (`main.py` 216, 221). `ExitTellsStatus` says so.

### Bounds

- *Quarantine store*: two scanners make two entries, or one twice; a restorer and a
  deleter meet at an entry with each other and with both scanners, and two restorers
  meet in `quarantine_restore`. `MaxClock = 1` gives two seconds, so that the same
  second and different ones both occur; the guard of `Tick` lets the clock advance only
  where the second makes a difference: when one scanner has its slot and another, of the
  same base name, has not yet. `MaxEdits` bounds users to one change. Processes of a
  kind are interchangeable, hence the symmetry sets; the run with liveness and
  refinement uses none.
- *Quarantine session*: two commands, so that one may undo, repeat or follow the other,
  and two entries, besides the one that a scan adds; `q` is an outside path that ends in
  `.audit.json`, `r` one without a parent directory. The nine directories have each kind
  of odd record beside a good one, or beside a copy of it. A restore may write to every
  name of a second that has passed; nobody writes to names of seconds to come, or gives
  a file that is no sidecar two endings `.audit.json` (`Outputs`). One content is
  enough, since places are compared and contents are not.
- *File scan*: the preflight looks at the engines independently, so one deficient engine
  at a time, with the others able to end in every way, reaches every branch.
  `TestFindings` has a score below, at and above each threshold, and a malicious finding
  with and without high confidence.
- *Archive scan*: four files, depth 2, three members and three bytes: each limit is
  reached at the first and at the second level, by one file too many and exactly. Two
  members of one name are enough for one to hide the other, in every form of either.
- *Scan command*: three directories in a row or side by side and two entries: enough for
  a link to a sibling, a link out, and ignored or unreadable directories at each level.
  Some 160 combinations of sources (missing, broken and unreadable files; two layers
  that set one key, a value over a section, values of another type and out of range;
  empty, relative and absolute paths) are combined with one tree, and the plain
  configuration with all the others, since the walk reads of the configuration only what
  to ignore.
- Runs set `CHECK_DEADLOCK FALSE`, because a command ends.

### Fairness

`QuarantineStore` has weak fairness for the steps of each process, not for faults, edits
or the clock: the operating system keeps running a process that was started. No step
waits for another process, so nothing stronger is needed, and `AuditCatchesUp` is
checked with `Fallible = {}` because a process that dies leaves its audit as it is. The
scans are one thread that keeps running, and `subprocess.run` has a timeout, so
`FileScan` has weak fairness of its next step. `ArchiveScan` has weak fairness of
`Proceed`, the steps of a scan in which nothing new goes wrong, so `ScanEnds` never
rests on a failure that happens to come to the rescue: it needs the loop over members to
advance and a limit to stop an archive that contains itself. `ScanCommand` has weak
fairness of `Command`: every loop in it is over a finite list. `PathChanges`, by which
others change what the path is, is not fair. `QuarantineSession` has no fairness and no
liveness property.

## 4. What is proved

The theorems hold for every value of the constants that the `ASSUME`s of the modules
allow: any sets of processes, paths, files and contents, any configuration and any
trees, and none of the bounds above. `theorems` of `PROJECT.json` lists the results; the
other lemmas are what they rest on.

**QuarantineStoreProofs** proves `Spec => []IInv` and from it `TypeOK`, `TakenOutOnce`,
`TerminalMeansGone`, `PayloadAccounted`, `MissingExplained` and `SuccessIsAudited`. None
of these is inductive: that a second restore cannot take an entry out depends on where
both processes are, whose record each has read, and which scanner owns the slot. `IInv`
(module QuarantineInvariant) is the conjunction of

- `ScannerInv`, `MutatorInv`: what holds of a process at each of its program counters; a
  mutator's slot is the slot of the scan id it was asked for, whose scanner is done;
- `SlotInv`: nothing is in a slot that no scanner claimed, and a record names a scanner
  that has finished there;
- `KeptInv`: the payload and sidecar of a claimed slot nobody has emptied, by the
  program counter of its owner;
- `TakenInv`: the same once a mutator has emptied it; that there is only one such
  mutator is part of it.

The last two hold as long as the slots of claimed entries differ (`NoCollision`), and so
do the theorems; `claimed` never shrinks and a claimed slot never changes, so if
`NoCollision` holds after a step it held before. The proof that a step preserves `IInv`
has one lemma per conjunct or group of actions.

The same module proves two things more. `Spec => NoSilentLoss`: `IInv` says too little
of a copy between volumes that is under way; `LossInv` adds that its destination holds
the incomplete copy and its source has been read, and that a delete in progress was
confirmed. `DistinctSlotsSpec => ImplementsLifecycle`: the initial states agree, and
under `IInv` every step is a step of the lifecycle or a stutter (`MoveIn` and
`UnlinkSource` are `Quarantine`, `MoveOut` and `UnlinkPayload` are `TakeOut`,
`OpenAudit` is `Rewrite`, `WriteAudit` and `UpdateAudit` are `Record`).

**QuarantineSessionProofs** proves every property of the session. Its invariant has a
part for each actor. For the operator: the shape of files and request, the window
between the payload and the audit of a command (`WindowInv`: the audit about to be
written names the fate, the sidecar is still what it was, or torn), what every record
says of the fate of its payload (`FateInv`), and what the command has done so far, as it
will be told (`AnswerInv`). `PathInv` is the part that is easy to miss: a file in
quarantine may itself be scanned and moved, so a payload may be the origin of another
and be put back there, and `--output-path` may lead there too; no such path is one that
a later scan will use. `filled` is what these two cases differ in: a payload that comes
back to its own place is quarantined again, any other file only stands in for it. For
the histories: `told` holds the events of the audit that stands, and where none stands
there was none, or a command is writing it, or one was stopped (`cut`). For the listing
(`HeldInv`): either the sidecar is still the one that was read, or what will be said of
it was already true once, which is why reading sidecar and payload at two moments is
harmless.

**FileScanProofs** proves all properties of FileScan, and the safety part of
`KeepsPromise`. `PreflightInv` and `ResultInv` say of every engine whether its result is
still that of the preflight or that of its scan, `TurnInv` that an engine that had its
turn and did not scan was not ready, `VerdictInv` that the verdict is that of the
results. From there `CleanIsEarned` is a case for each engine: the checks of `discover`
and of the preflight, in their order, amount to `Equipped`, and of the ways an engine
ends only an answer, and a killed clamscan, leave the state `ok` (`Served`).

**ArchiveScanProofs** proves every invariant of ArchiveScan and the safety part of
`KeepsPromise`, for archives of any shape, archives that contain themselves included,
and any limits. `ChainInv` says that the stack is a path of members in the tree, not
deeper than the limit, and that what is scanned or carried is what its top awaits;
`ReportInv`, `FindingInv` and `MoveInv` that every report on the stack says no less than
its parts, through each of the five ways of failing; `CoverInv` that what the members
before the current index open was scanned, or an issue says why not; `BudgetInv` that
the budget, which all levels share, is what the open archives report together and what
is still on its way.

It also proves that the recursion comes to an end (`ScanRunsOut`). What is left to do is
a tuple of four numbers (`StepsLeft`): the members the budget still allows, the phase of
the scan of one file, the number of open archives, the members of the archive on the
top. Every step, failures included, makes the tuple precede what it was, and
`NothingDecreasesForEver` says that such tuples do not decrease for ever. A member that
is scanned is charged, an archive that is given up is closed, a member that is skipped
is passed by; the archive that contains itself needs all of it, as opening it again
makes the stack grow and only the budget shrink. That the last number is never negative
rests on `AwaitInv`: while a member is out to be scanned, the archive that awaits it has
that member still before it.

**DirectoryScanProofs** proves `DirectoryReportIsComplete` of the scan of a directory on
its own (`DirectorySpec`), whatever becomes of its files. `WalkInv` says that there is a
set of directories listed so far (`Listed`): none of them waits to be listed again;
those listed or waiting are the top and, of each listed directory that could be read,
the children that are not ignored; the issues count those that could not be read. When
nothing waits, these are the directories that are reached: one that is reached and not
listed would have a parent of that kind, and so would that one, up to the top, which is
listed. The counts of the report add up by induction over the number of results, and
`DirectoryScansRunOut` says that each step leaves fewer, since a listed directory is
never waiting again (`Ahead` loses it).

**ConfigurationProofs** proves `LayersAreTold`: what the five layers, merged one over
the other, say of a setting is what the last layer that says anything of it says, which
is how `Told` defines it without a merge. The steps are what a merge has at one key, at
a place two and three keys deep (`LayersAt`, where a value over a section hides all that
is under it), and what `_set_nested` puts where (`NestedAt`).

**ScanCommandProofs** puts these together, for every configuration, every tree and every
report. `EmitInv` and `DocInv` tie the document to the exit code through the error
handlers, and say what may be in the report file (`NothingWritten`) while one runs;
`RefuseInv` the refusal to what the path was when `main` looked, `ConfigInv` what has
been read so far to the layers; `PrintInv` says that what is printed is the default view
of what is written. Every behaviour of the command is one of `DirectorySpec`
(`ScansDirectories`), which carries the results about directories over. From these
follow `ExitTellsStatus`, `ExitZeroIsClean`, `DirectoryQuarantineRefused`,
`DirectoryReportIsComplete`, `ConfiguredAsTold` and `PrintedIsTheReport`; and
`CommandRunsOut`: each step of the command leaves a smaller number of steps to take.

Every invariant and every action property that a passing run checks is so stated by a
theorem. What made the last ones provable is how three operators are written, since the
prover cannot use what a recursive definition computes. `Picked` (the order of the
counts) is a function from the number of positions looked at; `Overlay` (`_deep_merge`)
is applied three times, once for each level that settings have; and `Chain` (the parents
of a directory) is the least set closed under `parent`. Inductions are over sets of
numbers without a least element, by the library's fact that `<` on the natural numbers
is well-founded.

The assumptions on the constants are these, and TLC evaluates each in a run. Finite sets
and limits have the types of the code. `EntriesAssumption` (DirectoryScan): the reports
of files are trees of statuses and summaries with the fields of the engines, which is
all that `_scan_file_target` puts there. `SourcesAssumption` (ScanCommand): the data of
a TOML file are tables, texts, numbers, flags and lists, and of the environment only the
variables of `ENV_MAP` are read. `NamesAssumption` and `DirsAssumption`: a tree is
finite.

Only model-checked: the liveness `AuditCatchesUp`, `ScanEnds` and `CommandEnds`, and the
fairness of `KeepsPromise`. What is proved of the scans is that they cannot go on for
ever; that they do go on until they are done also needs that a step is enabled wherever
they are not, and `ENABLED` is beyond the prover.

## 5. Not modelled

- The content of reports, messages and summaries, except what a decision depends on;
  JSON and TOML as text; what pydantic does inside, which is external.
- Names and paths as strings: base names, slots and entries are values, paths of the
  configuration are relative or absolute. The working directory is one value, so
  commands started in several directories are not there.
- Failures of stdout itself (a closed pipe): every document that is emitted is printed.
- Rules, engines and databases that change between the preflight and the scan of one
  file, except that an engine may fail in every way when it runs. The YARA adapter looks
  for its rules again, and when they have vanished it finds nothing and says ok.
- `argparse`, which ends a wrong command line before the command begins.
- The text an engine prints, beyond the detections in it; the set of YARA rule files,
  where two of one stem replace each other; the children of an engine that was killed
  after a timeout.
- Digests and magic numbers: a hash is made or fails, a file has a kind.
- Scripts, packaging, tests and rules (section 1).
- In `QuarantineSession`, two commands of the operator at once: that is QuarantineStore.

## 6. Plan

Done: both quarantine models with their abstract specification and proofs; the scan of a
file and of an archive with their common promise and proofs; the directory scan and the
scan command with reporting and configuration; and a theorem for every safety property
of theirs.

Next, in this order:

1. QuarantineSession implements QuarantineLifecycle for the scan ids it makes, as
   QuarantineStore does.
2. A command that scans a directory with `ArchiveScan` in the place of the one step that
   stands for it, on one small tree: ScanPromise says that nothing is lost by the step.
3. Two restores with an `--output` each, and the clean-up of an interrupted `restore` by
   a second one, in QuarantineStore.
