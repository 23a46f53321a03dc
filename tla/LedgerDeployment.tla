--------------------------- MODULE LedgerDeployment ---------------------------
(***************************************************************************)
(* The life of one ledger file in the field, and its examination.          *)
(*                                                                         *)
(* Lives: it is initialised, models are registered, inferences sealed,     *)
(* checkpoints taken, keys rotated, anchors exported to files that are     *)
(* never overwritten, the Merkle cache rebuilt; the process may die or the *)
(* power fail between any two steps of an export, a rebuild or the         *)
(* initialisation.  Examined: verify.py runs over the rows as they are, or *)
(* after one change of the lab, and `report` keeps what it says.           *)
(*                                                                         *)
(* The transaction of an append is one step here (its interleavings are    *)
(* SealedLedger's subject); the steps of export_anchor and of              *)
(* rebuild_merkle_cache, which hold no lock in between, are separate.      *)
(***************************************************************************)
EXTENDS TamperLab, RecomputeLab

CONSTANTS
  Unit,             \* the hash of the deployment manifest
  Keys,             \* the keys the deployment will use, in order
  Witness, Boundary, \* the keys that cosign and attest anchors
  ModelId,          \* the id under which models are registered
  Weights,          \* what the registered file may contain
  Loaded,           \* what it contains when it is first registered
  Paths,            \* where anchors may be written
  CheckpointEvery,
  GroupCommit,      \* an append is durable only at the next flush
  MaxSize,          \* bound: rows of an honest ledger and events, together
  MaxEvents         \* bound: rotations, markers, exports, ... taken

LedgerKeys == {Keys[i] : i \in DOMAIN Keys}

ASSUME DeploymentAssumption ==
  /\ Keys \in Seq(LedgerKeys) \ {<<>>} /\ Cardinality(LedgerKeys) = Len(Keys)
  /\ Attacker \cap (LedgerKeys \cup {Witness, Boundary}) = {}
  /\ Unit \notin {OtherUnit, NoLink}
  /\ Loaded \in Weights
  /\ CheckpointEvery \in Nat \ {0, 1}
  /\ GroupCommit \in BOOLEAN
  /\ MaxSize \in Nat /\ MaxEvents \in Nat

VARIABLES
  file,      \* "absent", "created" (schema, no record) or "ledger"
  rows,      \* the committed records
  synced,    \* how many of them survive a power failure
  nodes,     \* the table merkle_nodes
  clock,     \* the host clock
  boot,      \* how often the power failed: what is sealed after is new
  files,     \* path |-> anchor, or Partial between O_EXCL and the write
  export,    \* the call of export_anchor under way
  leaves,    \* what rebuild_merkle_cache has read
  events,    \* how many of the bounded events were taken
  report     \* what the examination found

vars == <<file, rows, synced, nodes, clock, boot, files, export, leaves, events, report>>

Partial == [kind |-> "partial"]
Idle == [stage |-> "none"]
NoReport == [scenario |-> "none"]

-----------------------------------------------------------------------------
\* Sealing.

Trust == [ledger |-> {Keys[1]}, witness |-> {Witness}, boundary |-> {Boundary}, manifest |-> Unit]

\* _current_key_id
Active == ActiveAt(rows, Len(rows))

\* Random nonces make what is sealed at a position again a new content.
Fresh(n) == (MaxSize + 2) * boot + n

SealedOneAhead(rs, key, type, body) ==
  LET row == [form |-> "ok", seq |-> Len(rs) + 1, type |-> type, key |-> key, prev |-> Unit,
              at |-> clock, nonce |-> Len(rs), body |-> body, c |-> Len(rs),
              sig |-> [by |-> key, c |-> Len(rs)], cols |-> NoColumns] IN
  Append(rs, Recol(row))

\* seal_next
Sealed(rs, key, type, body) ==
  LET n == Len(rs)
      row == [form |-> "ok", seq |-> n, type |-> type, key |-> key,
              prev |-> IF n = 0 THEN Unit ELSE Link(rs[n]), at |-> clock, nonce |-> Fresh(n), body |-> body,
              c |-> Fresh(n), sig |-> [by |-> key, c |-> Fresh(n)], cols |-> NoColumns] IN
  Append(rs, Recol(row))

\* rotation_body: the incoming key signs its own position.
RotationBody(n) ==
  LET new == Keys[(CHOOSE i \in DOMAIN Keys : Keys[i] = Active) + 1] IN
  [new |-> new, pop |-> RotationProof(new, n + 1, Active)]

Leaves(rs) == [i \in DOMAIN rs |-> LeafOf(rs[i])]

\* _recover_checks, when a ledger is opened to write: the cache has as many
\* nodes as the rows make.
NodeCount(n) == Cardinality(TreeNodes(n))
CountsUp == Cardinality(DOMAIN nodes) = NodeCount(Len(rows))

\* The last row enters the node store.
Grown(rs, store) == [rows |-> rs, nodes |-> AddLeaf(store, Len(rs) - 1, LeafOf(rs[Len(rs)]))]

\* append_many of one record, with the checkpoint it makes due under its key.
Checkpointed(one, key) ==
  LET n == Len(one.rows) IN
  Grown(Sealed(one.rows, key, "checkpoint", [size |-> n, root |-> StoreRoot(one.nodes, n)]), one.nodes)

Due(type) == type # "checkpoint" /\ (Len(rows) + 1) % CheckpointEvery = 0

WithRecord(type, body) == Grown(Sealed(rows, Active, type, body), nodes)

After(type, body) ==
  IF Due(type) THEN Checkpointed(WithRecord(type, body), IF type = "key_rotation" THEN body.new ELSE Active)
  ELSE WithRecord(type, body)

\* Only what the append reads of the cache must be there: the siblings of the
\* row and, for a checkpoint that is due, what its root is made of.  A missing
\* node raises and rolls the transaction back.  That the cache is short
\* otherwise, only the opening of a ledger notices.
Appendable(type, body) ==
  /\ CanAdd(nodes, Len(rows))
  /\ Due(type) => HasRoot(WithRecord(type, body).nodes, Len(rows) + 1)

AppendTyped(type, body, durably) ==
  /\ file = "ledger" /\ Len(rows) + events < MaxSize /\ report = NoReport
  /\ Appendable(type, body)
  /\ \E after \in {After(type, body)} :
       /\ rows' = after.rows /\ nodes' = after.nodes
       /\ synced' = IF durably \/ ~GroupCommit THEN Len(after.rows) ELSE synced

Event == events < MaxEvents /\ events' = events + 1
NoEvent == UNCHANGED events
Aside == UNCHANGED <<file, clock, boot, files, leaves, report>>

Model(weights) == [id |-> ModelId, weights |-> weights]

Registrations == {i \in DOMAIN rows : rows[i].type = "model_registration"}
LastModel == rows[CHOOSE i \in Registrations : \A j \in Registrations : j <= i].body.model

-----------------------------------------------------------------------------
Init ==
  /\ file = "absent" /\ rows = <<>> /\ synced = 0 /\ nodes = <<>> /\ clock = 1 /\ boot = 0
  /\ files = <<>> /\ export = Idle /\ leaves = None /\ events = 0 /\ report = NoReport

\* init_ledger: the file and its schema, then the genesis record.  A crash in
\* between leaves a file that neither opens nor can be initialised again.
Create ==
  /\ file = "absent" /\ file' = "created"
  /\ UNCHANGED <<rows, synced, nodes, clock, boot, files, export, leaves, events, report>>

WriteGenesis ==
  /\ file = "created" /\ file' = "ledger"
  /\ rows' = Sealed(<<>>, Keys[1], "genesis", Unit)
  /\ nodes' = AddLeaf(nodes, 0, LeafOf(rows'[1]))
  /\ synced' = 1
  /\ UNCHANGED <<clock, boot, files, export, leaves, events, report>>

\* register_model, first or again with other weights.
Register(weights) ==
  /\ IF Registrations = {} THEN weights = Loaded /\ NoEvent ELSE LastModel.weights # weights /\ Event
  /\ AppendTyped("model_registration", [model |-> Model(weights)], TRUE)
  /\ Aside /\ UNCHANGED export

\* commit: an inference of the model loaded last.
Infer ==
  /\ Registrations # {}
  /\ LET n == Len(rows)
         out == <<"output", n>> IN
     AppendTyped("inference", [model |-> LastModel, input |-> <<"input", n>>,
                               output |-> [decision |-> out, raw |-> out, ref |-> out]], FALSE)
  /\ NoEvent /\ Aside /\ UNCHANGED export

Mark == Event /\ AppendTyped("degraded_marker", <<>>, FALSE) /\ Aside /\ UNCHANGED export

Rotate ==
  /\ file = "ledger" /\ Active # Keys[Len(Keys)]
  /\ Event /\ AppendTyped("key_rotation", RotationBody(Len(rows)), TRUE) /\ Aside /\ UNCHANGED export

\* The host's clock is set back.
ClockBack ==
  /\ clock = 1 /\ file = "ledger" /\ Event /\ clock' = 0 /\ report = NoReport
  /\ UNCHANGED <<file, rows, synced, nodes, boot, files, export, leaves, report>>

-----------------------------------------------------------------------------
\* Anchors.

Checkpoints == {i \in DOMAIN rows : rows[i].type = "checkpoint"}
Latest == CHOOSE i \in Checkpoints : \A j \in Checkpoints : j <= i

BuildAnchor(cp) ==
  [kind |-> "file", size |-> cp.body.size, root |-> cp.body.root, cp |-> cp,
   cosignatures |-> {}, attestations |-> {}]

Cosign(a, key) == [a EXCEPT !.cosignatures = {s \in @ : s.by # key} \cup {[by |-> key, of |-> Bytes(a.cp)]}]
Attest(a, key) ==
  [a EXCEPT !.attestations = {s \in @ : s.by # key} \cup {[by |-> key, size |-> a.size, root |-> a.root]}]
LogbookAnchor(a) == [kind |-> "logbook", size |-> a.size, root |-> a.root]

\* prepare_anchor: the newest checkpoint serves if only anchor events follow;
\* otherwise checkpoint_now reads the root before the append.
Reusable == Checkpoints # {} /\ \A i \in Latest + 1 .. Len(rows) : rows[i].type = "anchor_event"

PrepareAnchor ==
  /\ export = Idle /\ Event /\ file = "ledger" /\ report = NoReport
  /\ IF Reusable
       THEN export' = [stage |-> "prepared", anchor |-> BuildAnchor(rows[Latest])]
            /\ UNCHANGED <<rows, nodes, synced>>
       ELSE /\ HasRoot(nodes, Len(rows))
            /\ AppendTyped("checkpoint", [size |-> Len(rows), root |-> StoreRoot(nodes, Len(rows))], TRUE)
            /\ export' = [stage |-> "prepared", anchor |-> BuildAnchor(rows'[Len(rows')])]
  /\ Aside

CreateAnywhere(path) ==
  /\ export.stage = "prepared"
  /\ export' = [stage |-> "created", anchor |-> export.anchor, path |-> path]
  /\ files' = [p \in DOMAIN files \cup {path} |-> IF p = path THEN Partial ELSE files[p]]
  /\ UNCHANGED <<file, rows, synced, nodes, clock, boot, leaves, events, report>>

\* write_anchor, in two steps: O_EXCL creates, then the bytes are written.
CreateAnchor(path) == path \notin DOMAIN files /\ CreateAnywhere(path)

\* It refuses a path that exists; the export ends.
RefuseAnchor(path) ==
  /\ export.stage = "prepared" /\ path \in DOMAIN files /\ export' = Idle
  /\ UNCHANGED <<file, rows, synced, nodes, clock, boot, files, leaves, events, report>>

WriteAnchor ==
  /\ export.stage = "created"
  /\ files' = [files EXCEPT ![export.path] = export.anchor]
  /\ export' = [stage |-> "written", anchor |-> export.anchor]
  /\ UNCHANGED <<file, rows, synced, nodes, clock, boot, leaves, events, report>>

\* record_anchor: the event, then flush.
RecordAnchor ==
  /\ export.stage = "written"
  /\ AppendTyped("anchor_event", [cpSeq |-> export.anchor.cp.seq, size |-> export.anchor.size,
                                  root |-> export.anchor.root], TRUE)
  /\ export' = Idle /\ NoEvent /\ Aside

-----------------------------------------------------------------------------
\* Maintenance and failures.

\* rebuild_merkle_cache reads the leaves before its transaction begins: what
\* another process appends in between is missing in the cache it makes.
RebuildRead ==
  /\ leaves = None /\ Event /\ file = "ledger" /\ report = NoReport
  /\ leaves' = Leaves(rows)
  /\ UNCHANGED <<file, rows, synced, nodes, clock, boot, files, export, report>>

Rebuilt(ls) ==
  LET store[n \in 0 .. Len(ls)] == IF n = 0 THEN <<>> ELSE AddLeaf(store[n - 1], n - 1, ls[n]) IN
  store[Len(ls)]

RebuildWrite ==
  /\ leaves # None /\ leaves' = None
  /\ nodes' = Rebuilt(leaves)
  /\ UNCHANGED <<file, rows, synced, clock, boot, files, export, events, report>>

\* The process that exports or rebuilds dies; what it committed stays.
Crash ==
  /\ export # Idle \/ leaves # None
  /\ export' = Idle /\ leaves' = None
  /\ UNCHANGED <<file, rows, synced, nodes, clock, boot, files, events, report>>

\* The power fails: what no fsync covered is gone, rows and nodes alike.  A
\* rebuild is taken to survive.
PowerFails ==
  /\ synced < Len(rows) /\ Event /\ boot' = boot + 1
  /\ rows' = SubSeq(rows, 1, synced)
  /\ nodes' = [at \in DOMAIN nodes \cap TreeNodes(synced) |-> nodes[at]]
  /\ export' = Idle /\ leaves' = None
  /\ UNCHANGED <<file, synced, clock, files, report>>

-----------------------------------------------------------------------------
\* Examination.

Written == {files[p] : p \in {q \in DOMAIN files : files[q] # Partial}}

\* What the verifier is given: no anchor, the files as the parties signed
\* them, or what the logbook says.
Anchors(kind) ==
  CASE kind = "none"    -> <<>>
    [] kind = "file"    -> SetToSeq({Attest(Cosign(a, Witness), Boundary) : a \in Written})
    [] kind = "logbook" -> SetToSeq({LogbookAnchor(a) : a \in Written})

Given(kind) ==
  [trust |-> Trust, anchors |-> Anchors(kind), expected |-> <<>>, payloads |-> <<>>,
   manifest |-> <<>>, inputs |-> <<>>]

\* What the scenario supplies goes in place of what was there.
Supplied(given, with) ==
  IF "unit" \in DOMAIN with THEN [given EXCEPT !.trust.manifest = with.unit]
  ELSE [f \in DOMAIN given |-> IF f \in DOMAIN with THEN with[f] ELSE given[f]]

\* The length of the longest prefix an anchor fixes.
Fixed(anchors) == IF anchors = <<>> THEN 0 ELSE Max({Covered(anchors[i]) : i \in DOMAIN anchors})

\* One examination: its name, the position it concerns, whose anchors the
\* verifier is given, and the changed ledger.
Report(case) ==
  LET result == case[4]
      given  == Supplied(Given(case[3]), result.with) IN
  [scenario |-> case[1], position |-> case[2], expected |-> result.classes, picked |-> result.picked,
   findings |-> Verified(result.rows, given).findings,
   second |-> Second!verify(Exported(result.rows), given), fixed |-> Fixed(given.anchors),
   chainOk |-> ChainOk(result.rows, Trust.ledger)]

Positions == 0 .. Len(rows) - 1

Kinds == IF Written = {} THEN {"none"} ELSE {"none", "file", "logbook"}

AsItIs == {<<"clean", 0, kind, Result(rows, "db", <<>>, TRUE)>> : kind \in Kinds}

\* One scenario at one position.
OneRow(k) ==
  {<<"T1a", k, "none", T1a(rows, k)>>, <<"T2a", k, "none", T2a(rows, k)>>, <<"T2b", k, "none", T2b(rows, k)>>,
   <<"T3a", k, "none", T3a(rows, k)>>, <<"T3b", k, "none", T3b(rows, k)>>, <<"T13", k, "none", T13(rows, k)>>,
   <<"T14", k, "none", T14(rows, k)>>, <<"T15", k, "none", T15(rows, k)>>}

BeforeTheLast(k) ==
  IF k + 1 \notin Positions THEN {}
  ELSE {<<"T1c", k, "none", T1c(rows, k)>>, <<"T4a", k, "none", T4a(rows, k)>>, <<"T4b", k, "none", T4b(rows, k)>>}

OfInference(k) ==
  IF k \notin Inferences(rows) THEN {}
  ELSE {<<"T1b", k, "none", T1b(rows, k)>>, <<"T6", k, "none", T6(rows, k)>>}
       \cup {<<"T7b", k, "none", T7b(rows, k, w)>> : w \in Weights \ {rows[k + 1].body.model.weights}}

OfRegistration(k) ==
  IF k + 1 \notin Registrations THEN {}
  ELSE {<<"T7a", k, "none", T7a(rows, k, w)>> : w \in {v \in Weights : \A i \in Registrations :
          (rows[i].body.model.weights = v) = (i # k + 1)}}

\* Neighbours, or two inferences, change places.
TwoRows(k) ==
  (UNION {{<<"T5a", k, "none", T5a(rows, j, k)>>, <<"T5b", k, "none", T5b(rows, j, k)>>} :
            j \in {i \in 1 .. k - 1 : i = k - 1 \/ {i, k} \subseteq Inferences(rows)}})
  \cup {<<"T11", k, "none", T11(rows, j, k)>> : j \in {p \in Inferences(rows) : p < k /\ k \in Inferences(rows)}}

\* Changes at the tip need no position.
AtTheTip ==
  LET body == rows[(CHOOSE p \in Inferences(rows) : TRUE) + 1].body IN
  {<<"T9", 0, "none", T9(rows)>>, <<"T12", 0, "none", T12(rows, 1)>>,
   <<"T10a", 0, "none", T10a(rows, body)>>, <<"T10b", 0, "none", T10b(rows, body, Active)>>}
  \cup (IF Active = Keys[1] THEN {} ELSE {<<"T10c", 0, "none", T10c(rows, body, Keys[1])>>})

\* The two changes only an anchor shows.
Anchored(k) ==
  UNION {{<<"T4c", k, kind, T4c(rows, k)>>, <<"T8", k, kind, T8(rows, k)>>} : kind \in Kinds}

AllRecorded ==
  \A p \in DOMAIN files : files[p] # Partial /\
    \E i \in DOMAIN rows : rows[i].type = "anchor_event" /\ rows[i].body.size = files[p].size

\* Without anchors, only a ledger whose anchors are all recorded is changed.
Scenarios(k) ==
  (IF k > 0 THEN Anchored(k) ELSE {})
  \cup (IF ~AllRecorded THEN {}
        ELSE OneRow(k) \cup BeforeTheLast(k) \cup OfInference(k) \cup OfRegistration(k) \cup TwoRows(k)
             \cup (IF k = 0 /\ Inferences(rows) # {} THEN AtTheTip ELSE {}))

\* Only a ledger as long as the bound is changed, while nothing else is under way.
Quiet == Len(rows) + events >= MaxSize /\ export = Idle /\ leaves = None

\* The verifiers run over the rows as they are, or after a change of the lab.
Examine(k) ==
  /\ report = NoReport
  /\ \E case \in (IF k = 0 THEN AsItIs ELSE {}) \cup (IF Quiet THEN Scenarios(k) ELSE {}) :
       report' = Report(case)
  /\ UNCHANGED <<file, rows, synced, nodes, clock, boot, files, export, leaves, events>>

\* prov.recompute over a ledger of two inferences: the first was sealed and is
\* derived again as the job says, the other one as it was.
Plain(job) == [job EXCEPT !.forged = "none", !.jitter = [i \in DOMAIN @ |-> [conf |-> 0, box |-> 0]]]

World(p, job) ==
  [digest |-> job.env.digest, specs |-> job.env.specs, payload |-> job.env.payload, tensor |-> job.env.tensor,
   serialises |-> job.env.serialises, sameRuntime |-> job.env.sameRuntime,
   inputs  |-> [q \in IF job.env.input = "none" THEN Inferences(rows) \ {p} ELSE Inferences(rows) |->
                  IF q = p /\ job.env.input = "other" THEN <<"other">> ELSE rows[q + 1].body.input],
   sealed  |-> [q \in Inferences(rows) |-> SealedObjects(IF q = p THEN job ELSE Plain(job))],
   derived |-> [q \in Inferences(rows) |-> Rederived(IF q = p THEN job ELSE Plain(job))]]

\* The store the scan was given holds a payload that was edited, or not.
Stored(p, job) ==
  [Given("none") EXCEPT !.payloads =
     IF job.env.payload = "corrupt" THEN Assign(<<>>, rows[p + 1].body.output.decision, <<"edited">>) ELSE <<>>]

ExamineRecompute(p) ==
  /\ report = NoReport /\ events = 0 /\ Cardinality(Inferences(rows)) = 2 /\ p = Min(Inferences(rows))
  /\ \E job \in Jobs : \E v \in {Verified(rows, Stored(p, job))} : \E chosen \in Samples(rows, v) :
       report' = [scenario |-> "recompute", position |-> p, job |-> job,
                  re |-> recompute(rows, v, chosen, World(p, job))]
  /\ UNCHANGED <<file, rows, synced, nodes, clock, boot, files, export, leaves, events>>

Next ==
  \/ Create \/ WriteGenesis
  \/ \E w \in Weights : Register(w)
  \/ Infer \/ Mark \/ Rotate \/ ClockBack
  \/ PrepareAnchor \/ WriteAnchor \/ RecordAnchor
  \/ \E p \in Paths : CreateAnchor(p) \/ RefuseAnchor(p)
  \/ RebuildRead \/ RebuildWrite \/ Crash
  \/ \E k \in Positions : Examine(k) \/ ExamineRecompute(k)

Spec == Init /\ [][Next]_vars

\* With power failures, which only group commit makes different.
PowerSpec == Init /\ [][Next \/ PowerFails]_vars

-----------------------------------------------------------------------------
\* Properties.

\* The ledger, its cache and what is under way have the shapes the code gives
\* them.
TypeOK ==
  /\ file \in {"absent", "created", "ledger"}
  /\ (file = "ledger") = (rows # <<>>)
  /\ synced \in 0 .. Len(rows)
  /\ \A i \in DOMAIN rows : rows[i].seq = i - 1 /\ rows[i].key \in LedgerKeys
  /\ DOMAIN files \subseteq Paths
  /\ export.stage \in {"none", "prepared", "created", "written"}
  /\ events \in 0 .. MaxEvents

Alarming(f) == f.severity # "info" /\ f.class # "degraded_gap"
Above(findings) == SelectSeq(findings, Alarming)
Alarm(findings) == \E i \in DOMAIN findings : Alarming(findings[i])
ClassesOf(findings) == [i \in DOMAIN findings |-> findings[i].class]

\* No false alarm: an unchanged ledger verifies clean whatever its history -
\* rotations, markers, models registered again, clocks set back, cosigned,
\* attested or handwritten anchors, exports cut short - and passes the SDK's
\* own chain check (verify.py, anchor.py, chain.py verify_chain).
HonestIsClean ==
  report.scenario = "clean" =>
    /\ ~Alarm(report.findings) /\ report.chainOk
    /\ \A f \in Range(ScanFindings(report.findings, <<>>)) : f.disposition # "QUARANTINE"

\* What the lab builds: one registration but for T7, a rotation for T10c only,
\* and no anchor in the ledger.
Fixture(scenario) ==
  /\ scenario \notin {"T7a", "T7b"} => Cardinality(Registrations) = 1
  /\ scenario # "T10c" => \A i \in DOMAIN rows : rows[i].type # "key_rotation"
  /\ \A i \in DOMAIN rows : rows[i].type # "anchor_event"

\* The lab's matrix holds at every position the lab may pick, in every fixture
\* it may build: exactly the expected classes, in order, and no other
\* (attacklab/tamper.py Expected).
MatrixIsExact ==
  report.scenario \notin {"none", "clean", "T4c", "T8", "recompute"} =>
    (report.picked /\ Fixture(report.scenario) => ClassesOf(Above(report.findings)) = report.expected)

\* Wherever the change is made, in any history and at positions the lab never
\* picks, it is not silent, and neither is what the SDK's own chain check
\* refuses; at a position the lab may pick, its cause is among the findings.
\* Only a nonce may come again once an anchor closed its window.
ChangeIsSeen ==
  report.scenario \notin {"none", "clean", "T4c", "T8", "recompute"} =>
    /\ (report.scenario = "T11" => report.picked) => ~Clean(report.findings)
    /\ report.picked => \A i \in DOMAIN report.expected : report.expected[i] \in Classes(report.findings)
    /\ ~report.chainOk => Alarm(report.findings)

\* A truncation or a second branch is seen exactly when an anchor fixes more
\* than the rows it kept.  An anchor whose key the truncated rows no longer
\* introduce is invalid instead.
AnchorsDecide ==
  report.scenario \in {"T4c", "T8"} =>
    LET seen == IF report.scenario = "T4c" THEN {"tail_truncation", "anchor_invalid"} ELSE {"ledger_fork"} IN
    /\ Alarm(report.findings) = (report.fixed > report.position)
    /\ report.fixed > report.position => seen \cap Classes(report.findings) # {}

\* The cache gives no wrong answer, however short a rebuild that overlapped with
\* appends left it and whatever was appended to it since: a root it can make is
\* that of the records.  One that passes the check on open answers everything:
\* its root, every inclusion proof and every consistency proof (store.py,
\* merkle.py).
CacheIsTree ==
  LET n == Len(rows) IN
  report = NoReport /\ n > 0 =>
    /\ \A m \in 1 .. n : HasRoot(nodes, m) => StoreRoot(nodes, m) = MTH(Leaves(SubSeq(rows, 1, m)))
    /\ CountsUp => HasRoot(nodes, n)
    /\ CountsUp => \A i \in 0 .. n - 1 :
         VerifyInclusion(LeafOf(rows[i + 1]), i, n, InclusionProof(nodes, i, n), StoreRoot(nodes, n))
    /\ CountsUp => \A m \in 1 .. n :
         VerifyConsistency(m, n, StoreRoot(nodes, m), StoreRoot(nodes, n), ConsistencyProof(nodes, m, n))

\* Deriving an output again accuses nobody of float jitter: an honest record is an
\* output mismatch only where the order of two overlapping boxes, or a suppression
\* that another one rests on, turned.  A lie beyond jitter is one whenever its record
\* is derived.  And nothing counts as derived from another input or model
\* (ladder.py, recompute.py; the study's gate is no false alarm).
RecomputeIsHonest ==
  report.scenario = "recompute" =>
    \A q \in DOMAIN report.re.verdicts :
      LET job     == report.job
          verdict == report.re.verdicts[q]
          honest  == q # report.position \/ job.forged = "none"
          \* A class renamed at its rank, its confidence kept, passes for a near-tie.
          renamed == job.scene.task = "classify" /\ job.forged = "relabel"
          steady  == q # report.position \/ job.scene.kind \notin {"tie", "cascade"} IN
      /\ honest /\ steady /\ job.env.payload = "stored" /\ job.env.input # "other" =>
           \A f \in report.re.findings : q \in f.positions => f.disposition # "QUARANTINE"
      /\ ~honest /\ ~renamed /\ verdict \in Derived => verdict = "output_mismatch"
      /\ verdict \in Derived => rows[q + 1].body.model.weights = job.env.digest
      /\ verdict \in Derived /\ q = report.position => job.env.input = "sealed"

\* The two implementations say the same of every ledger, changed or not: the same
\* classes at the same positions and severities, in the same order, with as many
\* consequences folded into each.  Only the reference sees the columns of a database,
\* which an export has not (verify.py, spec/independent_verifier.py).
VerifiersAgree ==
  report.scenario \notin {"none", "recompute"} =>
    ("derived_column_mismatch" \notin Classes(report.findings) => report.second = report.findings)

\* An anchor written stays as it is: replacing one silently would defeat its
\* purpose (anchor.py write_anchor).
AnchorsStay ==
  [][\A p \in DOMAIN files : files[p] # Partial => p \in DOMAIN files' /\ files'[p] = files[p]]_vars

\* A ledger nobody changed is never called a fork, a finding of adversarial
\* nature (verify.py CLASS_PROFILE).  With group commit it is: an anchor made
\* of a checkpoint that was not yet flushed outlives a power failure that the
\* checkpoint does not.
HonestIsNoFork ==
  report.scenario = "clean" => "ledger_fork" \notin Classes(report.findings)
=============================================================================
