------------------------------ MODULE Reporting -------------------------------
(***************************************************************************)
(* What is written of a report: all of it in the report file, the default  *)
(* view on stdout.  The default view leaves out what only a debugging      *)
(* reader wants of each engine's raw summary, in the report of a file, of  *)
(* every member of its archives, and of every file of a directory; and it  *)
(* puts the counts of a directory that are not zero first.                 *)
(***************************************************************************)
EXTENDS Verdicts, FiniteSets

(* The report of a file and those of its archive members, however deep,    *)
(* are a function from places to parts: << >> is the place of the file     *)
(* itself, <<2, 1>> that of the first member of its second member.  Of a   *)
(* raw summary a part keeps which keys are there, and whether the value is *)
(* an empty object.                                                        *)
Part(status, raw) == [overall_status |-> status, raw_summary |-> raw]
Root == << >>
StatusOf(report) == report[Root].overall_status

(* build_error_report and _build_file_error_report: no engines.            *)
BareReport(status) == [place \in {Root} |-> Part(status, [engine \in {} |-> {}])]

-----------------------------------------------------------------------------
(* The default view.                                                       *)

KeptKeys == [capa |-> {"returncode", "rule_count", "result_summary", "skip_reason",
                       "capa_skipped", "failure_summary"},
             clamav |-> {"returncode", "match_count", "result_summary", "failure_summary"},
             yara |-> {"match_count", "result_summary", "failure_summary"}]

(* Mutant of Compacted: capa's failures are for debugging.                 *)
CompactedWithoutFailures(engine, raw) ==
  Restrict(raw, {key \in DOMAIN raw : \/ key \in KeptKeys[engine] \ {"failure_summary"}
                                      \/ engine = "capa" /\ key = "analysis_summary"
                                         /\ raw[key] # "empty"})

Compacted(engine, raw) ==
  Restrict(raw, {key \in DOMAIN raw : \/ key \in KeptKeys[engine]
                                      \/ engine = "capa" /\ key = "analysis_summary"
                                         /\ raw[key] # "empty"})

CompactPart(part) ==
  [part EXCEPT !.raw_summary = [engine \in DOMAIN @ |-> Compacted(engine, @[engine])]]

CompactReport(report) == [place \in DOMAIN report |-> CompactPart(report[place])]

-----------------------------------------------------------------------------
(* Counts, in the order they are written: sequences of <<name, count>>.    *)

Listing(names, counts) == [k \in DOMAIN names |-> <<names[k], counts[names[k]]>>]
NonZero(entry) == entry[2] # 0
Zero(entry) == entry[2] = 0

(* What a sequence has at some of its positions, in its order.             *)
Picked(s, positions) ==
  LET first[n \in 0 .. Len(s)] == IF n = 0 THEN << >>
                                  ELSE IF n \in positions THEN Append(first[n - 1], s[n])
                                  ELSE first[n - 1]
  IN  first[Len(s)]

(* _stable_non_zero_first, for an order that names all the counts.         *)
NonZeroFirst(counts, order) ==
  LET listing == Listing(order, counts)
      first == {k \in DOMAIN listing : NonZero(listing[k])}
  IN  Picked(listing, first) \o Picked(listing, DOMAIN listing \ first)

SummaryFields == <<"known_malicious", "suspicious", "clean_by_known_checks", "partial_scan",
                   "scan_error", "engine_missing", "engine_unavailable">>
SummaryOrder == <<"known_malicious", "suspicious", "scan_error", "partial_scan",
                  "engine_missing", "engine_unavailable", "clean_by_known_checks">>
AccountingFields == <<"ignored_directory_count", "ignored_file_count",
                      "top_level_issue_count", "directory_access_error_count">>
AccountingOrder == <<"top_level_issue_count", "directory_access_error_count",
                     "ignored_directory_count", "ignored_file_count">>

-----------------------------------------------------------------------------
(* Documents: the report of a file or of a directory; one about an error   *)
(* has its code.                                                           *)

FileDocument(report, error) ==
  [mode |-> "file", status |-> StatusOf(report), error |-> error, reports |-> <<report>>]

DirectoryDocument(status, error, summary, accounting, reports) ==
  [mode |-> "directory", status |-> status, error |-> error,
   summary |-> Listing(SummaryFields, summary),
   accounting |-> Listing(AccountingFields, accounting),
   reports |-> reports]

Counts(listing) == [name \in {listing[k][1] : k \in DOMAIN listing} |->
                      (CHOOSE entry \in Range(listing) : entry[1] = name)[2]]

Compact(doc) ==
  LET reports == [k \in DOMAIN doc.reports |-> CompactReport(doc.reports[k])]
  IN  IF doc.mode = "file" THEN [doc EXCEPT !.reports = reports]
      ELSE [doc EXCEPT !.summary = NonZeroFirst(Counts(@), SummaryOrder),
                       !.accounting = NonZeroFirst(Counts(@), AccountingOrder),
                       !.reports = reports]

-----------------------------------------------------------------------------
(* What a reader of the default view may rely on.                          *)

(* What an engine found out, and how it failed.                            *)
Essential == {"result_summary", "failure_summary"}

SameReport(short, full) ==
  /\ DOMAIN short = DOMAIN full
  /\ \A place \in DOMAIN full :
       /\ short[place].overall_status = full[place].overall_status
       /\ DOMAIN short[place].raw_summary = DOMAIN full[place].raw_summary
       /\ \A engine \in DOMAIN full[place].raw_summary :
            LET less == short[place].raw_summary[engine]
                all == full[place].raw_summary[engine]
            IN  /\ DOMAIN less \subseteq DOMAIN all
                /\ \A key \in DOMAIN less : less[key] = all[key]
                /\ DOMAIN all \cap Essential \subseteq DOMAIN less

SameCounts(short, full) ==
  /\ Range(short) = Range(full) /\ Len(short) = Len(full)
  /\ \A j, k \in DOMAIN short : NonZero(short[k]) /\ Zero(short[j]) => k < j

(* The default view differs from the whole in the order of the counts and  *)
(* in the details of the engines only.                                     *)
SaysTheSame(short, full) ==
  /\ short.mode = full.mode /\ short.status = full.status /\ short.error = full.error
  /\ Len(short.reports) = Len(full.reports)
  /\ \A k \in DOMAIN full.reports : SameReport(short.reports[k], full.reports[k])
  /\ full.mode = "directory" => /\ SameCounts(short.summary, full.summary)
                                /\ SameCounts(short.accounting, full.accounting)
=============================================================================
