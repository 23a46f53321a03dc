----------------------------- MODULE ScanReport -----------------------------
(* What a scan writes and what the dashboard makes of it (report/report_json.py, report/coverage.py,
   core/ledger.py, the sidecar of cli.py, and web/reports).

   A result is the record of a finished scan: its id, profile, plan, findings, verdict and risk, what it scanned
   (target), what it covered (CoverageOf, kept once it is judged), why there was no embedding index (gap, "" when there was one), and how its sealing went. A scan
   writes one report, so its scanner (by) stands for the content of it. *)
EXTENDS Integers, Sequences, FiniteSets, SequencesExt, ScanPlan

Errored(result) == {f.det : f \in {g \in ToSet(result.findings) : g.avail = "ERROR"}}

(* A class counts as assessed by each check that was planned to run and did not crash. *)
CoverageOf(result) ==
    LET errored == Errored(result)
        ok(row) == Runnable(row.res) /\ row.check \notin errored
        classes(rows) == UNION {r.classes : r \in rows}
        by(rows) == [c \in classes(rows) \cap Claimable |-> {r.check : r \in {s \in rows : c \in s.classes}}]
    IN [assessed |-> by({r \in result.plan : ok(r)}), notAssessed |-> by({r \in result.plan : ~ ok(r)}),
        operational |-> classes(result.plan) \ Claimable, never |-> Claimable \ classes(result.plan)]

(* The verdict is never printed bare: what it was computed over comes with it. *)
VerdictLine(result) ==
    LET run == {r \in result.plan : Runnable(r.res)}
        errored == Errored(result)
        crashed == {r \in run : r.check \in errored}
    IN [verdict |-> result.verdict, ran |-> Cardinality(run \ crashed), crashed |-> Cardinality(crashed),
        notAssessed |-> Cardinality(result.plan \ run)]

AccessAssumptions(result) ==
    [present |-> result.caps, absent |-> (DatasetCaps \cup ModelCaps \cup ContextCaps) \ result.caps,
     consequence |-> Consequence(result.plan)]

(* Nothing was verified when there was no ledger to verify; with one, this build has no check to verify it. *)
ProvenanceSummary(result) ==
    [verified |-> IF "INFERENCE_LEDGER" \in result.caps THEN "unknown" ELSE "none",
     state |-> IF "SIGNING_KEY" \in result.caps THEN "unknown" ELSE "not_sealed"]

Reproduction(result) ==
    [command |-> result.command, pinned |-> result.prof # <<>> /\ result.prof[1].selftest, seed |-> result.seed]

(* The reviewed statements (an option: the file may be missing or unreadable) after what this scan could not do. *)
StandingLines(file) == IF file = <<>> THEN {"not found"} ELSE {"invariant", "reviewed"} \cup file[1]

StandingLimitations(target, gap, file) ==
    {"sandbox", "tier 4"} \cup (IF gap = "" THEN {} ELSE {"no index"})
    \cup (IF target.format = "none" \/ target.digest # "" THEN {}
          ELSE IF target.format = "torchscript" THEN {"frozen"}
          ELSE IF target.format = "query" THEN {"query only"} ELSE {"no digest"})
    \cup (IF target.format = "none" \/ target.preprocess THEN {} ELSE {"no preprocessing"})
    \cup StandingLines(file)

(* What was scanned: a digest that is not one is left out. *)
TargetOf(model, dataset) ==
    [format |-> IF model = <<>> THEN "none" ELSE model[1].format,
     digest |-> IF model = <<>> THEN "" ELSE ReferenceManifest(model[1], FALSE).digest,
     arch |-> IF model = <<>> THEN "" ELSE ReferenceManifest(model[1], FALSE).arch,
     preprocess |-> model # <<>> /\ model[1].preprocess,
     samples |-> IF dataset = <<>> THEN 0 ELSE Len(dataset[1])]

Counts(findings, field(_), values) == [v \in values |-> Cardinality({i \in DOMAIN findings : field(findings[i]) = v})]

(* report.json. It never names the record that will seal it. *)
BuildReport(result) ==
    [by |-> result.by, scan |-> result.id, profile |-> result.prof[1].name, verdict |-> result.verdict,
     plan |-> AccessAssumptions(result).consequence,
     findings |-> Counts(result.findings, LAMBDA f : f.disp, {"accept", "review", "quarantine"}),
     risk |-> Quarantined(result.rows), baseline |-> result.baseline,
     provenance |-> ProvenanceSummary(result), coverage |-> result.coverage,
     limitations |-> StandingLimitations(result.target, result.gap, result.standing),
     reproduction |-> Reproduction(result)]

RenderMarkdown(result) ==
    [scan |-> result.id, line |-> VerdictLine(result), coverage |-> result.coverage,
     limitations |-> StandingLimitations(result.target, result.gap, result.standing)]

(* A file is Absent, Partial (truncated, or not yet written) or a report. *)
Absent == [state |-> "absent"]
Partial == [state |-> "partial"]
Whole(report) == [state |-> "whole", report |-> report]

Digest(file) == IF file.state = "whole" THEN <<file.report.by>> ELSE <<>>

(* The record that seals a report: found by its scan id, as the report does not know its number. *)
ScanRecord(result, digest) ==
    [type |-> "scan_record", scan |-> result.id, digest |-> digest,
     counts |-> Counts(result.findings, LAMBDA f : f.sev, Info..Critical)]

(* The sealing outcome, beside the report and never in it. seq is 0 when the ledger raised; a scan without a
   ledger gets a number of its own, and counts as sealed. *)
WriteSealSidecar(result, onDisk) ==
    [scan |-> result.id, digest |-> Digest(onDisk), sealed |-> result.seq # 0 /\ ~ result.ledgerError, seq |-> result.seq]

---------------------------------------------------------------------------
(* The dashboard. *)
Load(file) == IF file.state = "whole" THEN <<file.report>> ELSE <<>>

(* Where the records that name a scan are in the ledger. *)
ScanRecordsFor(records, id) == {i \in DOMAIN records : records[i].type = "scan_record" /\ records[i].scan = id}

(* The last record that names the scan decides. *)
SealCheck(digest, id, records, available) ==
    LET matching == ScanRecordsFor(records, id) IN
    IF ~ available THEN "unknown"
    ELSE IF matching = {} THEN "not sealed"
    ELSE IF records[Max(matching)].digest = digest THEN "sealed" ELSE "differs"

CoverageGroups(coverage) ==
    [assessed |-> DOMAIN coverage.assessed, notAssessed |-> DOMAIN coverage.notAssessed, never |-> coverage.never,
     total |-> Cardinality(DOMAIN coverage.assessed) + Cardinality(DOMAIN coverage.notAssessed)
               + Cardinality(coverage.never)]

CompareCoverage(left, right) ==
    LET la == DOMAIN left.assessed   ra == DOMAIN right.assessed
    IN [onlyLeft |-> la \ ra, onlyRight |-> ra \ la, both |-> la \cap ra,
        lost |-> [c \in la \ ra |-> IF c \in DOMAIN right.notAssessed THEN right.notAssessed[c] ELSE {}]]

(* A row of the index: what the report said when it was read, or that it could not be read. *)
Upsert(report, mtime) == [mtime |-> mtime, readable |-> TRUE, verdict |-> report.verdict, digest |-> Digest(Whole(report)),
                          findings |-> report.findings]
UpsertUnreadable(mtime) == [mtime |-> mtime, readable |-> FALSE, verdict |-> "", digest |-> <<>>,
                            findings |-> [d \in {"accept", "review", "quarantine"} |-> 0]]
=============================================================================
