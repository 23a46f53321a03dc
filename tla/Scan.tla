-------------------------------- MODULE Scan --------------------------------
(* The scanner, from its command line to the dashboard's index (core/orchestrator.py, cli.py, core/scanid.py,
   web/reports/index.py).

   A scanner takes one job: it resolves a profile and a plan, runs the checks that may run, lets the risk engine
   route what they found, and then publishes, one file after another, in the directory its scan id names: the
   report, the record that seals it, the sidecar, the coverage statement and the page. Anything before the first
   file may refuse the job; a crash may come between any two steps. Scanners share the output directory and the
   audit ledger, and a scan id names the minute the scan started in. The dashboard indexes the reports as they
   change. *)
EXTENDS Integers, Sequences, FiniteSets, SequencesExt, TLC, Calibration, ContributorRisk, ScanReport, Drift

CONSTANTS
    Assignments,    \* the processes that scan and what they may be asked to do: a set of functions to jobs
    MaxMinute,      \* bound on the clock
    Failures        \* bound on the scanners that crash or whose ledger raises

(* run_scan over the corpus is given the path of a model (cli.py:154). *)
ASSUME ScanAssumption ==
    /\ MaxMinute \in Nat
    /\ \A jobs \in Assignments : \A p \in DOMAIN jobs : jobs[p].program = "corpus" => jobs[p].model # <<>>

VARIABLES
    job,            \* job[p]: what scanner p was asked to do
    pc,             \* pc[p]: the step it is about to take
    work,           \* work[p]: the result so far, an option
    minute,         \* the clock
    disk,           \* disk[id]: the directory of a scan, by id
    records,        \* the sealed audit ledger
    index,          \* the dashboard's rows, by scan id
    look,           \* the report whose time the dashboard has read and whose content it has not: an option
    drifts          \* the directories of the drift command, by scan id: who made it and the files in it

Scanners == DOMAIN job
Scans == {p \in Scanners : job[p].program # "drift"}

vars == <<job, pc, work, minute, disk, records, index, look, drifts>>

---------------------------------------------------------------------------
(* The scan: its context, its embeddings, its checks. *)
CheckOrder ==
    <<"model.intrinsic_probes", "data.annotation_geometry", "data.duplicate_label_conflict",
      "data.label_consistency", "data.metadata_anomaly", "data.near_dup", "data.negative_space", "data.ood",
      "data.systematic_mislabel", "data.trigger_artifact", "model.anomalous", "model.data_consistency",
      "model.fingerprint", "model.graph_structure", "model.neural_cleanse", "model.strip",
      "model.universal_margin", "model.weight_digest", "model.weight_stats">>

(* Only the corpus path supplies probes, a battery and a manifest; only the other one takes datasets and a
   ledger. *)
Context(j) ==
    [probes |-> j.probes, suspects |-> 0, labelled |-> j.probes > 0,
     battery |-> IF j.corpus = {} \/ j.model = <<>> THEN 0 ELSE BuildBattery(j.corpus, j.model[1].digest),
     manifest |-> IF j.manifest = <<>> THEN <<>> ELSE <<ManifestFrom(j.manifest[1])>>,
     signs |-> j.ledger = "socket" /\ j.ledgerSigns, audits |-> j.inference,
     dataset |-> j.dataset, model |-> j.model, reference |-> j.reference]

(* The index is not built for more images than the tier allows, nor without an extractor; extracting may raise. *)
BuildEmbeddings(data, prof, extractor) ==
    LET gap == IF Len(data) > prof.maxImages THEN "over the ceiling"
               ELSE IF extractor = "missing" THEN "no extractor" ELSE ""
    IN [emb |-> gap = "", gap |-> gap, raised |-> gap = "" /\ extractor = "raises"]

(* The vectors of an index: none when a sample has none. *)
IndexMatrix(emb, data) == IF emb /\ \A i \in DOMAIN data : data[i].vec # 0 THEN Len(data) ELSE 0

AbsentModel == [absent |-> TRUE, broken |-> FALSE, caps |-> {}, boxes |-> FALSE, queryable |-> FALSE, hot |-> 0,
                activated |-> FALSE, norms |-> <<>>]

Detect(check, data, emb, model, c) ==
    LET p(defaults) == IF check \in DOMAIN c.params THEN Params(defaults, c.params[check]) ELSE defaults IN
    CASE check = "data.annotation_geometry" -> AnnotationGeometry(data, p(GeometryDefaults))
      [] check = "data.duplicate_label_conflict" -> DuplicateLabelConflict(data, emb, p(DupDefaults))
      [] check = "data.label_consistency" -> LabelConsistency(data, emb, p(LabelDefaults))
      [] check = "data.metadata_anomaly" -> MetadataAnomaly(data, p(MetadataDefaults))
      [] check = "data.near_dup" -> NearDuplicate(data, emb, p(DupDefaults))
      [] check = "data.negative_space" -> NegativeSpace(data, model, p(NegativeDefaults))
      [] check = "data.ood" -> OutOfDistribution(data, emb, c.reference, p(OodDefaults))
      [] check = "data.systematic_mislabel" -> SystematicMislabel(data, emb, p(MislabelDefaults))
      [] check = "data.trigger_artifact" -> TriggerArtifact(data, model, p(TriggerDefaults))
      [] check = "model.anomalous" -> AnomalousBehaviourCheck(model, c)
      [] check = "model.data_consistency" -> DataConsistencyCheck(model, c)
      [] check = "model.fingerprint" -> FingerprintCheck(model, c)
      [] check = "model.graph_structure" -> GraphStructureCheck(model, c)
      [] check = "model.intrinsic_probes" -> IntrinsicProbeCheck(model, c)
      [] check = "model.neural_cleanse" -> NeuralCleanseCheck(model, c)
      [] check = "model.strip" -> StripCheck(model, c)
      [] check = "model.universal_margin" -> UniversalMarginCheck(model, c)
      [] check = "model.weight_digest" -> WeightDigestCheck(model, c)
      [] check = "model.weight_stats" -> WeightStatisticsCheck(model, c)

(* The out-of-distribution check raises when it is handed an index where it expects vectors. *)
Raises(check, emb, c) == check \in c.raises \/ (check = "data.ood" /\ emb /\ c.reference # 0 /\ c.referenceIsIndex)

(* A check that raises leaves an ERROR finding and none of its own; one that ran without something it could
   have used is degraded. *)
ToolError(row) == [Finding(row.check, "tool.error", "ERROR", Medium, 0, 0) EXCEPT !.assessed = FALSE]
Degraded(row, found) ==
    [i \in DOMAIN found |->
        IF found[i].avail = "OK" /\ row.res.state = "DEGRADED" THEN [found[i] EXCEPT !.avail = "DEGRADED"]
        ELSE found[i]]
RunCheck(row, data, emb, model, c) ==
    IF Raises(row.check, emb, c) THEN <<ToolError(row)>>
    ELSE Degraded(row, Detect(row.check, data, emb, model, c))

CheckContext(j, prof, order, reference, isIndex) ==
    [manifest |-> Context(j).manifest, battery |-> Context(j).battery, probes |-> j.probes,
     labelled |-> j.probes > 0, suspects |-> 0, order |-> order, topK |-> prof.topK, trigger |-> <<>>,
     params |-> j.params, raises |-> j.raises, reference |-> reference, referenceIsIndex |-> isIndex]

OptData(dataset) == IF dataset = <<>> THEN <<>> ELSE dataset[1]
OptModel(model) == IF model = <<>> THEN AbsentModel ELSE model[1]
None == [emb |-> FALSE, gap |-> "", raised |-> FALSE]

Unrun == [findings |-> <<>>, own |-> None, ref |-> None, built |-> FALSE, order |-> <<>>]

(* What a check found joins what was found; the intrinsic probes rank the classes for the checks after them. *)
Noted(acc, check, model, got) ==
    [acc EXCEPT !.findings = @ \o got,
                !.order = IF check = "model.intrinsic_probes" /\ got[1].avail = "OK" THEN Ranking(model) ELSE @]

(* Every row in order, the intrinsic probes first. Both indexes are built on the first data row that runs. *)
RunChecks(j, prof, plan) ==
    LET rowOf(check) == CHOOSE r \in plan : r.check = check
        indexed(acc) == [acc EXCEPT !.built = TRUE, !.own = BuildEmbeddings(OptData(j.dataset), prof, j.extractor),
                                    !.ref = IF j.reference = <<>> THEN None
                                            ELSE BuildEmbeddings(OptData(j.reference), prof, j.extractor)]
        step(acc, check) ==
            LET row == rowOf(check)
                a == IF row.kind = KindData /\ ~ acc.built THEN indexed(acc) ELSE acc
                c == CheckContext(j, prof, a.order, IndexMatrix(a.ref.emb, OptData(j.reference)), FALSE)
            IN IF a.own.raised \/ a.ref.raised THEN a
               ELSE IF ~ Runnable(row.res) THEN [acc EXCEPT !.findings = Append(@, PlanFinding(row))]
               ELSE Noted(a, check, OptModel(j.model), RunCheck(row, OptData(j.dataset), a.own.emb, OptModel(j.model), c))
    IN FoldLeft(step, Unrun, CheckOrder)

---------------------------------------------------------------------------
(* The risk engine: routed findings, the reference's own flag rate, the contributors, the verdict. *)
Route(findings, prof, cal) == ApplyDispositions(ApplyCalibration(findings, cal), prof.rules, DOMAIN cal.curves)

Baseline(state, why, rate, exceeds) == [state |-> state, why |-> why, rate |-> rate, exceeds |-> exceeds]
Unusable(why) == Baseline("unavailable", why, 0, FALSE)

(* The upper end of the Jeffreys interval on the reference's flag rate. *)
ReferenceCeiling(n, k) == Interval(10000 * k + 5000, 10000 * (n - k) + 5000).hi

(* The same data checks over the reference dataset; only the flag count leaves. *)
DataRows(plan) ==
    SelectSeq(CheckOrder, LAMBDA ch : \E r \in plan : r.check = ch /\ r.kind = KindData /\ Runnable(r.res))

NoFlags(why) == [why |-> why, n |-> 0, k |-> 0]

(* found: what each data check found in the reference. *)
CountFlags(data, prof, cal, found) ==
    IF \E i \in DOMAIN found : \E f \in ToSet(found[i]) : f.avail = "ERROR" THEN NoFlags("a check raised")
    ELSE [why |-> "", n |-> Len(data),
          k |-> Cardinality(FlaggedSamples(Route(FlattenSeq(found), prof, cal)) \cap DOMAIN data)]

ReferenceFlags(j, prof, plan, ran, cal) ==
    LET data == OptData(j.reference)
        rows == DataRows(plan)
        rowOf(check) == CHOOSE r \in plan : r.check = check
        c == CheckContext(j, prof, ran.order, IF ran.ref.emb THEN Len(data) ELSE 0, TRUE)
    IN IF data = <<>> THEN NoFlags("no samples")
       ELSE IF rows = <<>> THEN NoFlags("no data check")
       ELSE IF ran.own.gap # "" THEN NoFlags("the scanned dataset had no index")
       ELSE IF ran.ref.gap # "" THEN NoFlags("the reference was not embedded")
       ELSE CountFlags(data, prof, cal,
                       [i \in DOMAIN rows |-> RunCheck(rowOf(rows[i]), data, ran.ref.emb, OptModel(j.model), c)])

(* The contributors are compared with one another and with the reference's flag rate, when there is one. *)
AssessRouted(data, prof, ref, routed) ==
    LET ceiling == IF ref.n > 0 THEN ReferenceCeiling(ref.n, ref.k) ELSE -1
        got == IF data = <<>> THEN [rows |-> <<>>, rates |-> <<>>, permutationOn |-> ""]
               ELSE AssessGroups(data, FlaggedSamples(routed), prof.rules, ceiling)
    IN [findings |-> routed, rows |-> got.rows, verdict |-> Verdict(routed, got.rows),
        baseline |-> IF ref.n = 0 \/ data = <<>>
                     THEN IF ref.why = "" THEN Baseline("none", "", 0, FALSE) ELSE Unusable(ref.why)
                     ELSE IF got.rates = <<>> THEN Unusable("no grouping key")
                     ELSE Baseline("computed", "", got.rates[1], got.rates[1] > ceiling)]

Assess(j, prof, plan, ran, cal) ==
    AssessRouted(OptData(j.dataset), prof,
                 IF j.reference = <<>> THEN NoFlags("") ELSE ReferenceFlags(j, prof, plan, ran, cal),
                 Route(DeferDigestToFingerprint(ran.findings), prof, cal))

Covered(result) == [result EXCEPT !.coverage = CoverageOf(result)]

(* The minute the scan started in; a policy that pins its id takes it from the seed; drift
   takes the first number of the day that is free. *)
NewScanId == [day |-> 0, n |-> minute]
NewDriftId == [day |-> 0, n |-> 0]
SelftestScanId(seed) == [day |-> 1, n |-> seed % 10000]
(* The corpus path names its files after the model and never asks for a directory of its own. *)
CorpusId(j) == [day |-> 2, n |-> j.model[1].behaviour]

---------------------------------------------------------------------------
Ids == [day : {0}, n : 0..MaxMinute] \cup {SelftestScanId(job[p].seed) : p \in Scans}
       \cup {CorpusId(job[p]) : p \in {q \in Scans : job[q].model # <<>>}}
Empty == [report |-> Absent, mtime |-> 0, seal |-> <<>>, reference |-> <<>>, coverage |-> <<>>, page |-> FALSE]

Init ==
    /\ job \in Assignments
    /\ pc = [p \in Scanners |-> "start"]
    /\ work = [p \in Scanners |-> <<>>]
    /\ minute = 0
    /\ disk = << >>
    /\ records = <<>>
    /\ index = << >>
    /\ look = <<>>
    /\ drifts = << >>

Go(p, step) == pc' = [pc EXCEPT ![p] = step]
Result(p) == work[p][1]
Save(p, result) == work' = [work EXCEPT ![p] = <<result>>]
Directory(id) == IF id \in DOMAIN disk THEN disk[id] ELSE Empty
(* A dictionary with one entry set. *)
Put(dict, key, value) == [k \in DOMAIN dict \cup {key} |-> IF k = key THEN value ELSE dict[k]]
Write(p, d) == disk' = Put(disk, Result(p).id, d)
Here(p) == Directory(Result(p).id)

(* What stops a scan before it starts: its arguments, its profile, a calibration that is not one, two audit
   ledgers, or an input that does not load. *)
ScanRefused(j) ==
    \/ ModelArgError(j.args)
    \/ LET found == ResolveProfile(j.profile, j.tier)
       IN IF found = <<>> THEN TRUE ELSE ~ ValidateProfileIds(found[1])
    \/ j.calibration # <<>> /\ LoadCalibration(j.calibration[1]) = <<>>
    \/ ~ j.loads
    \/ j.ledger = "both"

(* A drift command is refused before it takes a directory: an unusable profile, a folder that is not one of
   readable images, embeddings that are not of it, or of a reference that was not given. *)
DriftRefused(j) ==
    \/ LoadProfile(j.supplied, j.options, j.selftest) = <<>>
    \/ j.reference = <<>> /\ j.referenceRows # <<>>
    \/ ~ LoadsFolder(j.incoming) \/ ~ LoadsEmbeddings(j.incomingRows, j.incoming)
    \/ j.reference # <<>> /\ ~ (LoadsFolder(j.reference[1]) /\ LoadsEmbeddings(j.referenceRows, j.reference[1]))

Refused(j) == IF j.program = "drift" THEN DriftRefused(j) ELSE ScanRefused(j)

Refuse(p) ==
    /\ pc[p] = "start" /\ Refused(job[p])
    /\ Go(p, "refused")
    /\ UNCHANGED <<job, work, minute, disk, records, index, look, drifts>>

(* The result a scan starts with. *)
NewResult(p) ==
    LET j == job[p]
        prof == ResolveProfile(j.profile, j.tier)[1]
        ctx == Context(j)
    IN [by |-> p, prof |-> <<prof>>, plan |-> BuildPlan(ctx, prof),
        caps |-> ContextCapabilities(ctx) \cup IF j.model = <<>> THEN {} ELSE j.model[1].caps,
        id |-> IF j.program = "corpus" THEN CorpusId(j)
               ELSE IF prof.selftest THEN SelftestScanId(j.seed) ELSE NewScanId,
        cal |-> IF j.calibration = <<>> THEN EmptySet ELSE LoadCalibration(j.calibration[1])[1],
        target |-> TargetOf(j.model, j.dataset), command |-> j.program, seed |-> j.seed,
        standing |-> j.standing, gap |-> "", ran |-> Unrun, findings |-> <<>>, rows |-> <<>>,
        baseline |-> Baseline("none", "", 0, FALSE), verdict |-> "", coverage |-> <<>>, seq |-> 0,
        ledgerError |-> FALSE, digest |-> <<>>, pending |-> FALSE]

(* The plan, before any work; the id of the scan is taken here. *)
Plan(p) ==
    /\ pc[p] = "start" /\ job[p].program # "drift" /\ ~ Refused(job[p])
    /\ Save(p, NewResult(p))
    /\ Go(p, IF job[p].dryRun THEN "dry run" ELSE "checks")
    /\ UNCHANGED <<job, minute, disk, records, index, look, drifts>>

NewDriftResult(p) ==
    LET j == job[p]
        prof == LoadProfile(j.supplied, j.options, j.selftest)[1]
    IN [by |-> p, prof |-> prof, id |-> IF j.selftest THEN SelftestScanId(prof.psi.seed) ELSE NewDriftId,
        plan |-> {}, findings |-> <<>>, verdict |-> ""]

(* The drift command: one directory of its own, taken before the checks run, and one file after another. *)
LoadDrift(p) ==
    /\ pc[p] = "start" /\ job[p].program = "drift" /\ ~ Refused(job[p])
    /\ Save(p, NewDriftResult(p))
    /\ Go(p, "reserve")
    /\ UNCHANGED <<job, minute, disk, records, index, look, drifts>>

(* Mutant of Reserve: a directory that is there is used. *)
ReserveExisting(p) ==
    LET id == Result(p).id IN
    /\ pc[p] = "reserve"
    /\ drifts' = Put(drifts, id, [by |-> p, files |-> <<>>])
    /\ Go(p, "drift")
    /\ UNCHANGED <<job, work, minute, disk, records, index, look>>

(* mkdir decides who has a directory; whoever comes second tries the day's next number, unless the number was
   pinned: then it is refused, and leaves what it found. *)
Reserve(p) ==
    LET id == Result(p).id
        taken == id \in DOMAIN drifts
    IN /\ pc[p] = "reserve"
       /\ drifts' = IF taken THEN drifts ELSE Put(drifts, id, [by |-> p, files |-> <<>>])
       /\ IF taken /\ ~ job[p].selftest THEN Save(p, [Result(p) EXCEPT !.id.n = @ + 1]) ELSE UNCHANGED work
       /\ Go(p, IF ~ taken THEN "drift" ELSE IF job[p].selftest THEN "failed" ELSE "reserve")
       /\ UNCHANGED <<job, minute, disk, records, index, look>>

DriftInput(p) ==
    [incoming |-> job[p].incoming, reference |-> job[p].reference, incomingRows |-> job[p].incomingRows,
     referenceRows |-> job[p].referenceRows, psi |-> Result(p).prof.psi, few |-> job[p].few]

CompareFolders(p) ==
    /\ pc[p] = "drift"
    /\ \E got \in {ScanDrift(DriftInput(p), Result(p).prof)} :
          Save(p, [Result(p) EXCEPT !.plan = got.plan, !.findings = got.findings, !.verdict = got.verdict])
    /\ Go(p, "publish")
    /\ UNCHANGED <<job, minute, disk, records, index, look, drifts>>

DriftFiles == <<"profile", "report", "page", "coverage">>
Mine(p) == drifts[Result(p).id]
WriteDrift(p) ==
    /\ pc[p] = "publish"
    /\ drifts' = [drifts EXCEPT ![Result(p).id].files = Append(@, DriftFiles[Len(@) + 1])]
    /\ Go(p, IF Len(Mine(p).files) + 1 = Len(DriftFiles) THEN "done" ELSE "publish")
    /\ UNCHANGED <<job, work, minute, disk, records, index, look>>

(* Whatever fails from here on, the directory goes with everything in it. *)
DropDrift(p) ==
    /\ pc[p] \in {"drift", "publish"}
    /\ drifts' = [id \in DOMAIN drifts \ {Result(p).id} |-> drifts[id]]
    /\ Go(p, "failed")
    /\ UNCHANGED <<job, work, minute, disk, records, index, look>>

(* A crash of the embedding pass itself is not a finding: it ends the scan. *)
Run(p) ==
    /\ pc[p] = "checks"
    /\ \E ran \in {RunChecks(job[p], Result(p).prof[1], Result(p).plan)} :
          /\ Save(p, [Result(p) EXCEPT !.ran = ran, !.gap = ran.own.gap])
          /\ Go(p, IF ran.own.raised \/ ran.ref.raised THEN "failed" ELSE "assess")
    /\ UNCHANGED <<job, minute, disk, records, index, look, drifts>>

Judge(p) ==
    /\ pc[p] = "assess"
    /\ \E got \in {Assess(job[p], Result(p).prof[1], Result(p).plan, Result(p).ran, Result(p).cal)} :
          Save(p, Covered([Result(p) EXCEPT !.findings = got.findings, !.rows = got.rows, !.verdict = got.verdict,
                                            !.baseline = got.baseline, !.ran = Unrun]))
    /\ Go(p, IF job[p].program = "corpus" THEN "reference" ELSE "directory")
    /\ UNCHANGED <<job, minute, disk, records, index, look, drifts>>

(* Mutant of ScanOutDir: the directory of an older scan is emptied and used again. *)
ScanOutDirEmptied(p) ==
    /\ pc[p] = "directory"
    /\ disk' = [id \in DOMAIN disk \ {Result(p).id} |-> disk[id]]
    /\ Go(p, IF job[p].model = <<>> THEN "truncate" ELSE "reference")
    /\ UNCHANGED <<job, work, minute, records, index, look, drifts>>

(* A directory that already holds a scan is refused, and the finished scan with it. *)
ScanOutDir(p) ==
    /\ pc[p] = "directory"
    /\ Go(p, IF Here(p) # Empty THEN "failed" ELSE IF job[p].model = <<>> THEN "truncate" ELSE "reference")
    /\ UNCHANGED <<job, work, minute, disk, records, index, look, drifts>>

WriteReference(p) ==
    LET m == job[p].model[1] IN
    /\ pc[p] = "reference"
    /\ Write(p, [Here(p) EXCEPT !.reference = <<ReferenceManifest(m, job[p].program = "corpus"
                                                                     \/ "MODEL_PREDICT" \in m.caps)>>])
    /\ Go(p, "truncate")
    /\ UNCHANGED <<job, work, minute, records, index, look, drifts>>

(* The report is written in place: truncated, then filled. *)
TruncateReport(p) ==
    /\ pc[p] = "truncate"
    /\ Write(p, [Here(p) EXCEPT !.report = Partial, !.mtime = @ + 1])
    /\ Go(p, "report")
    /\ UNCHANGED <<job, work, minute, records, index, look, drifts>>

WriteReport(p) ==
    /\ pc[p] = "report"
    /\ Write(p, [Here(p) EXCEPT !.report = Whole(BuildReport(Result(p))), !.mtime = @ + 1])
    /\ Go(p, "hash")
    /\ UNCHANGED <<job, work, minute, records, index, look, drifts>>

(* Mutant of HashReport: the report is hashed as soon as it has been opened. *)
HashReportEarly(p) ==
    /\ pc[p] = "report"
    /\ Save(p, [Result(p) EXCEPT !.digest = Digest(Here(p).report)])
    /\ Go(p, "seal")
    /\ UNCHANGED <<job, minute, disk, records, index, look, drifts>>

(* The bytes on disk are hashed; the record binds the hash. *)
HashReport(p) ==
    /\ pc[p] = "hash"
    /\ Save(p, [Result(p) EXCEPT !.digest = Digest(Here(p).report)])
    /\ Go(p, "seal")
    /\ UNCHANGED <<job, minute, disk, records, index, look, drifts>>

MayFail(p) ==
    LET failed(q) == pc[q] = "crashed" \/ (q \in Scans /\ work[q] # <<>> /\ Result(q).ledgerError)
    IN Cardinality({q \in Scanners \ {p} : failed(q)}) < Failures

Outcome(p, seq, error, pending) ==
    Save(p, [Result(p) EXCEPT !.seq = seq, !.ledgerError = error, !.pending = pending])
Binds(p) == records' = Append(records, ScanRecord(Result(p), Result(p).digest))

(* The daemon answered with the record's number. *)
AppendReturns(p) == job[p].ledger = "socket" /\ Binds(p) /\ Outcome(p, Len(records) + 1, FALSE, FALSE)

(* The append raised: a refusal, which the status probe does not foretell, no daemon, or no answer in time. It
   costs the seal only, and the daemon may have the call still. *)
AppendRaises(p) ==
    /\ job[p].ledger # "null"
    /\ MayFail(p)
    /\ UNCHANGED records /\ Outcome(p, 0, TRUE, job[p].ledger = "socket")

(* A ledger that is no daemon has a number for everything. *)
AppendLists(p) == job[p].ledger # "socket" /\ UNCHANGED records /\ Outcome(p, 1, FALSE, FALSE)

AppendScanRecord(p) ==
    /\ pc[p] = "seal"
    /\ AppendReturns(p) \/ AppendRaises(p) \/ AppendLists(p)
    /\ Go(p, "sidecar")
    /\ UNCHANGED <<job, minute, disk, index, look, drifts>>

(* The daemon records a scan whose scanner has given the call up, and may be gone; it does not know a scan it has
   recorded, and nothing is tried again. *)
RecordLate(p) ==
    /\ p \in Scans /\ work[p] # <<>> /\ Result(p).pending
    /\ Binds(p)
    /\ Save(p, [Result(p) EXCEPT !.pending = FALSE])
    /\ UNCHANGED <<job, pc, minute, disk, index, look, drifts>>

(* The sidecar hashes the report again. *)
WriteSidecar(p) ==
    /\ pc[p] = "sidecar"
    /\ Write(p, [Here(p) EXCEPT !.seal = <<WriteSealSidecar(Result(p), Here(p).report)>>])
    /\ Go(p, "coverage")
    /\ UNCHANGED <<job, work, minute, records, index, look, drifts>>

WriteCoverage(p) ==
    /\ pc[p] = "coverage"
    /\ Write(p, [Here(p) EXCEPT !.coverage = <<RenderMarkdown(Result(p))>>])
    /\ Go(p, "page")
    /\ UNCHANGED <<job, work, minute, records, index, look, drifts>>

WritePage(p) ==
    /\ pc[p] = "page"
    /\ Write(p, [Here(p) EXCEPT !.page = TRUE])
    /\ Go(p, "done")
    /\ UNCHANGED <<job, work, minute, records, index, look, drifts>>

Halted == {"refused", "dry run", "failed", "done", "crashed"}
Crash(p) ==
    /\ pc[p] \notin Halted \cup {"start"}
    /\ MayFail(p)
    /\ Go(p, "crashed")
    /\ UNCHANGED <<job, work, minute, disk, records, index, look, drifts>>

(* The minute matters only to a scan that is yet to start. *)
Tick ==
    /\ minute < MaxMinute
    /\ \E p \in Scans : pc[p] = "start" /\ ~ Refused(job[p])
    /\ minute' = minute + 1
    /\ UNCHANGED <<job, pc, work, disk, records, index, look, drifts>>

---------------------------------------------------------------------------
(* The dashboard's refresh: the time of a report it does not know is read first, its content after. *)
(* Only a directory named by a scan id is one. *)
Discovered == {id \in DOMAIN disk : id.day # 2 /\ disk[id].report # Absent}

StatReport(id) ==
    /\ look = <<>> /\ id \in Discovered
    /\ id \in DOMAIN index => index[id].mtime # disk[id].mtime
    /\ look' = <<[id |-> id, mtime |-> disk[id].mtime]>>
    /\ UNCHANGED <<job, pc, work, minute, disk, records, index, drifts>>

(* Mutant of LoadReport: a report that is known already only has its time brought up to date. *)
LoadReportOnce ==
    /\ look # <<>>
    /\ LET id == look[1].id
           got == Load(disk[id].report)
       IN index' = Put(index, id, IF id \in DOMAIN index THEN [index[id] EXCEPT !.mtime = look[1].mtime]
                                  ELSE IF got = <<>> THEN UpsertUnreadable(look[1].mtime) ELSE Upsert(got[1], look[1].mtime))
    /\ look' = <<>>
    /\ UNCHANGED <<job, pc, work, minute, disk, records, drifts>>

LoadReport ==
    /\ look # <<>>
    /\ LET id == look[1].id
           got == Load(disk[id].report)
       IN index' = Put(index, id, IF got = <<>> THEN UpsertUnreadable(look[1].mtime) ELSE Upsert(got[1], look[1].mtime))
    /\ look' = <<>>
    /\ UNCHANGED <<job, pc, work, minute, disk, records, drifts>>

(* The index is a cache: a corrupt one is deleted and built again. *)
Rebuild ==
    /\ look = <<>> /\ DOMAIN index # {}
    /\ index' = << >>
    /\ UNCHANGED <<job, pc, work, minute, disk, records, look, drifts>>

Step(p) ==
    \/ Refuse(p) \/ Plan(p) \/ Run(p) \/ Judge(p) \/ ScanOutDir(p) \/ WriteReference(p)
    \/ TruncateReport(p) \/ WriteReport(p) \/ HashReport(p) \/ AppendScanRecord(p)
    \/ WriteSidecar(p) \/ WriteCoverage(p) \/ WritePage(p)
    \/ LoadDrift(p) \/ Reserve(p) \/ CompareFolders(p) \/ WriteDrift(p) \/ DropDrift(p)

Refresh == LoadReport \/ \E id \in Discovered : StatReport(id)

Next ==
    \/ \E p \in Scanners : Step(p) \/ Crash(p) \/ RecordLate(p)
    \/ Tick
    \/ Refresh
    \/ Rebuild

Spec == Init /\ [][Next]_vars

---------------------------------------------------------------------------
Steps == Halted \cup {"start", "checks", "assess", "directory", "reference", "truncate", "report", "hash", "seal",
                      "sidecar", "coverage", "page", "reserve", "drift", "publish"}

(* The shape of the state: what a scanner has written is where its step says, and nothing else is on the disk. *)
TypeOK ==
    /\ pc \in [Scanners -> Steps]
    /\ minute \in 0..MaxMinute
    /\ \A p \in Scanners : (work[p] = <<>>) = (pc[p] \in {"start", "refused"})
    /\ {Result(p).id : p \in {q \in Scans : work[q] # <<>>}} \cup DOMAIN disk \subseteq Ids
    /\ DOMAIN index \subseteq Discovered
    /\ {records[i].scan : i \in DOMAIN records} \subseteq DOMAIN disk
    /\ look = <<>> \/ look[1].id \in Discovered

(* Just judged: what a result says does not change again. *)
Judged(p) == p \in Scans /\ pc[p] \in {"directory", "reference"}

(* A quarantine rests on arithmetic, on a calibrated score nine in ten sure and high, or on a contributor. *)
VerdictSound(p) ==
    LET r == Result(p)
        found == ToSet(r.findings)
        grave(f) == Ran(f) /\ f.sev >= High
                    /\ (f.det \in Provenance \/ (f.det \in DOMAIN r.cal.curves /\ f.conf >= 90))
    IN /\ r.verdict = "QUARANTINE" => Quarantined(r.rows) # {} \/ \E f \in found : grave(f)
       /\ r.verdict = "ACCEPT" => /\ \A f \in found : f.avail # "ERROR"
                                  /\ \A f \in found : (Ran(f) /\ f.sev >= Medium) => f.disp = "accept"
                                  /\ \A f \in found : (Ran(f) /\ f.sev = Critical) => (f.det \in DOMAIN r.cal.curves /\ f.conf < 60)

(* A contributor is blamed only for its own samples, and never for none. *)
ContributorSound(p) ==
    LET r == Result(p)
        data == OptData(job[p].dataset)
        own(row) == {i \in DOMAIN data : data[i][row.key] = row.group}
    IN \A row \in Quarantined(r.rows) :
          \E f \in ToSet(r.findings) : Ran(f) /\ f.target \in own(row) /\ f.disp # "accept"

(* A curve changes how sure a check is, never which of two of its findings is the surer. *)
OrderKept(p) ==
    LET r == Result(p) IN
    \A f, g \in ToSet(r.findings) :
        (/\ f.det = g.det /\ f.det \in DOMAIN r.cal.curves /\ Ran(f) /\ Ran(g) /\ f.raw <= g.raw) => f.conf <= g.conf

(* Every planned check is answered for exactly once in the coverage statement. *)
CoverageComplete(p) ==
    LET r == Result(p)
        cov == CoverageOf(r)
        named(side) == UNION {side[c] : c \in DOMAIN side}
    IN /\ named(cov.assessed) \cap named(cov.notAssessed) = {}
       /\ \A row \in r.plan : row.classes \cap Claimable # {} =>
              row.check \in named(cov.assessed) \cup named(cov.notAssessed)
       /\ DOMAIN cov.assessed \cup DOMAIN cov.notAssessed \cup cov.never = Claimable
       /\ VerdictLine(r).ran = Cardinality(named(cov.assessed))

(* A reference dataset the operator supplied is used, or the report says why it was not. *)
ReferenceAnswered(p) ==
    (job[p].reference # <<>> /\ OptData(job[p].dataset) # <<>>) => Result(p).baseline.state # "none"

(* The verdict follows from what ran: for every scan that has been judged (orchestrator.py:734, engine.py:80). *)
VerdictFollows ==
    \A p \in Scanners : Judged(p) =>
        VerdictSound(p) /\ ContributorSound(p) /\ OrderKept(p) /\ CoverageComplete(p) /\ ReferenceAnswered(p)

Shared(id) == \E p, q \in Scans : p # q /\ work[p] # <<>> /\ work[q] # <<>> /\ Result(p).id = id /\ Result(q).id = id
State(id) == SealCheck(Digest(disk[id].report), id, records, TRUE)

(* No step of one scan, no crash between two and no answer that came late or never makes the dashboard call a clean
   report altered, and a scan is recorded once: only a second scan of the same id changes that. What a record
   binds is on the disk, whole. From its sidecar on, a scan says that it is sealed only if the daemon has its
   record; the other way round it may not know (cli.py:440, orchestrator.py:691, seal_check.py:60). *)
SealHolds ==
    \A id \in DOMAIN disk :
        \/ Shared(id)
        \/ /\ State(id) # "differs"
           /\ \A i, j \in ScanRecordsFor(records, id) : i = j
           /\ State(id) = "sealed" => disk[id].report.state = "whole" /\ disk[id].report.report.scan = id
           /\ \A p \in Scans : (work[p] # <<>> /\ Result(p).id = id /\ pc[p] \in {"coverage", "page", "done"}) =>
                 /\ disk[id].seal[1].digest = Digest(disk[id].report)
                 /\ State(id) = "sealed" => job[p].ledger = "socket"
                 /\ job[p].ledger = "socket" /\ disk[id].seal[1].sealed => State(id) = "sealed"

(* A row of the index whose time is the file's own says what the file says: a report that changed while it was
   being read is read again (index.py:140). *)
IndexFollows ==
    \A id \in DOMAIN index : index[id].mtime = disk[id].mtime =>
        LET got == Load(disk[id].report)
        IN index[id] = IF got = <<>> THEN UpsertUnreadable(disk[id].mtime) ELSE Upsert(got[1], disk[id].mtime)

(* A drift run has the directory it reserved to itself and its files in it; one that failed leaves none. *)
DriftOwns(p) ==
    /\ pc[p] \in {"drift", "publish", "done"} =>
          /\ Result(p).id \in DOMAIN drifts /\ Mine(p).by = p
          /\ IsPrefix(Mine(p).files, DriftFiles) /\ (pc[p] = "done" => Mine(p).files = DriftFiles)
    /\ pc[p] = "failed" => \A id \in DOMAIN drifts : drifts[id].by # p

(* Every row says what its findings say; shared or too small samples are not assessed. *)
DriftRowsSettled(r, in) ==
    /\ \A row \in r.plan : \E f \in ToSet(r.findings) : f.det = row.check
    /\ \A row \in r.plan : \A f \in ToSet(r.findings) : f.det = row.check => f.avail = row.res.state
    /\ Overlap(in) \/ TooFew(in) => \A f \in ToSet(r.findings) : f.avail = "UNAVAILABLE"

(* What an axis alone would show, with all the permutations there could be, is not lost among the others: a sole
   rejection survives the correction and sends the batch to review. A drift finding never does more. *)
RejectionSurvives(r, in) ==
    LET measured == Measure(in.incoming)   before == Measure(in.reference[1])
        alone(axis) == CompareAxis(before[axis], measured[axis], [in.psi EXCEPT !.permutations = Certain], in.few)
        shows(axis) == \E row \in {alone(axis)} : row.psiP = 0 /\ row.ks >= ThresholdOf(axis, in.psi)
    IN /\ r.verdict # "QUARANTINE"
       /\ \A f \in ToSet(r.findings) :
             (/\ f.det = "drift.interpretable_axes" /\ Ran(f) /\ in.reference # <<>>
              /\ \E axis \in DOMAIN measured \cap DOMAIN before : shows(axis)) => r.verdict = "REVIEW"

(* Which of the two folders is called the reference makes no difference to what moved. *)
SameBothWays(r, in) ==
    in.reference # <<>> =>
        r.findings = ScanDrift([in EXCEPT !.incoming = in.reference[1], !.reference = <<in.incoming>>,
                                          !.incomingRows = in.referenceRows, !.referenceRows = in.incomingRows,
                                          !.psi.minReference = in.psi.minIncoming,
                                          !.psi.minIncoming = in.psi.minReference], r.prof).findings

(* Drift stands on what was compared (drift_scan.py:62, common.py:27, statistics.py:47, command.py:34). *)
DriftStands ==
    \A p \in Scanners \ Scans :
        /\ DriftOwns(p)
        /\ (pc[p] = "publish" /\ Mine(p).files = <<>>) =>
              \A r \in {Result(p)}, in \in {DriftInput(p)} :
                 DriftRowsSettled(r, in) /\ RejectionSurvives(r, in) /\ SameBothWays(r, in)

---------------------------------------------------------------------------
(* A registered digest that does not match is answered by a fingerprint that was measured, or by a verdict that
   is not ACCEPT (disposition.py:153: the fingerprint owns the verdict "whenever it ran"). *)
SubstitutionCaught ==
    \A p \in Scanners :
        LET r == Result(p)
            about(det) == {f \in ToSet(r.findings) : f.det = det /\ f.assessed}
            changed == \E f \in about("model.weight_digest") : f.raw = 100
        IN (Judged(p) /\ changed /\ about("model.fingerprint") = {}) => r.verdict # "ACCEPT"
=============================================================================
