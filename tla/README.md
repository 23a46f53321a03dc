# TLA+ models and proofs of CVA

This directory models CVA: the tamper-evident ledger and the SDK that fills it
(`cva/provenance/seal/`), its verifiers, anchors and attack lab, the daemon in
front of it (`cva/ledgerd/`), the path of an analyst's decision (`cva/web/`),
accounts and sessions, and the scanner from its command line to the dashboard
(`cva/core/`, `cva/risk/`, `cva/detectors/`, `cva/report/`). TLC checks the
models on small instances; TLAPS proves, for every value of the constants, the
properties of the ledger's store, of the sealer, of the Merkle tree, of a ledger's
life with the verifier that examines it, of the decision path with its daemons, of
the accounts and sessions, and of the files a scan publishes.

    tlc -workers 2 -config LedgerTwoProcesses.cfg MCSealedLedger
    tlapm SealedLedgerProofs.tla

`PROJECT.json` lists components, runs, mutants, the source lines of each
definition, findings, hazards and theorems.

## 1. Inventory

### The system

CVA scans data sets and models for signs of tampering, scores what it finds,
writes a report, and keeps two kinds of fact in a signed, hash-chained ledger:
what was inferred and scanned, and what people decided about the findings.

| Part | State it keeps | Operations that change it | Talks to |
|---|---|---|---|
| Sealed ledger (`provenance/seal/store.py`, `chain.py`) | rows of `records`, Merkle nodes and payloads in SQLite; per handle: key, cached tip and its link, `_unflushed`, a sticky flush error, a flusher thread | `init_ledger`, `open`, `append_many`, `rotate_key`, `checkpoint_now`, `flush`, `rebuild_merkle_cache`, `close`, the flusher's loop | several processes through the file; threads through one handle |
| Sealer (`sealer.py`) | registered models, the unsealed gap, the spill file | `commit`, `_note_unsealed`, `_retire_spill`, `_recover_spill`, `flush`, `close`, `rotate_key` | its ledger handle |
| Anchors (`anchor.py`) | anchor files outside the ledger | prepare, write, record | ledger, verifier |
| Verifiers (`verify.py`, `spec/independent_verifier.py`), Merkle proofs (`merkle.py`, `proof.py`), native verifiers | none | none (readers) | ledger file, trust root, anchors |
| Recompute (`provenance/checks/`) | none | none | ledger rows, payload store, a model |
| `cva-ledgerd` (`ledgerd/server.py`) | the request-id map `_seen`; a thread per connection | `append_analyst_event`, `append_scan_record`, rebuild at start | Unix socket clients; one ledger handle |
| Module C daemon and audit fold (`seal/ledgerd.py`, `audit.py`) | its fold and the replies it gave | `handle`, replay | ledger |
| Peer policy (`ledgerd/policy.py`, `peercred.py`, `protocol.py`) | a fixed table | none | each request |
| Workflow rules (`web/workflow/fold.py`, `states.py`, `events.py`) | none (pure) | none | called by web and daemon |
| `cva-web` decision endpoints (`views/api.py`, `services.py`, `ledgerd_client.py`) | nothing between requests but caches | `act`, `target_act` | daemon, report files, browser |
| Frontend decision sheet | the detail it fetched, with its request id | fetch, send | endpoints |
| Accounts and sessions (`web/accounts.py`, `auth.py`, `security.py`) | account rows, failures by address, session epochs; a database connection per thread | sign-in, lockout, sign-out, role, disabling, password, creation | endpoints |
| Verification cache, report index, job runner | caches, an index database and one dictionary of jobs | refresh, rebuild, invalidate, start | pages, report directory |
| Orchestrator and command line (`core/`, `cli.py`) | one scan's result; its output directory | plan, run, score, write, seal | detectors, report, ledger |
| Drift command (`detectors/drift/`, `core/drift_scan.py`) | its output directory | reserve, compare, publish, remove | folders, embedding files |
| Risk engine, calibration, detectors, reports | calibration files; else nothing that outlives a call | fit and save | orchestrator |
| Loaders, features, bench, remediation | an embedding cache | extraction | orchestrator |

### What is hard here

* **Several writers.** Any process may open the ledger for writing. SQLite
  serialises the transactions; it does not keep a handle's cached tip, link,
  key or counters up to date.
* **State read outside the lock that protects its use.** The signing key, the
  size and root of an explicit checkpoint, the leaves of a rebuild, the fold
  before the append, the failure count and the session epoch before a password
  derivation, the time of a report before its content.
* **Acknowledged before durable.** With `group_commit` a commit returns before
  any fsync, and a counter shared by callers, flusher and `flush()` decides
  what a receipt calls durable; an anchor may outlive the records it fixes.
* **Crashes and power failures** between commit and fsync, between append and
  remembering a request id, between a marker and the renaming of the spill,
  between an anchor's file and its record, between any two files of a scan.
* **Time-outs and retries.** A client gives up while its request is served.
* **Decisions that interact.** A raise cancels a lowering that waits, a
  quarantine cancels a release, an approval names one exact request of
  somebody else, and every decision is made on a view that may be old.
* **Two of a kind that must agree**: two folds of one ledger, two daemons, two
  verifiers, an incremental tree and the definition it caches.
* **Order of rules.** One change to a ledger breaks many checks: which speaks
  first, and what it folds into itself, is the diagnosis. A finding is rewritten
  several times before it decides a verdict.
* **Boundaries**: float jitter against a lie, bins and corrections over small
  samples, lockout thresholds, two scans in one minute.

What makes each component correct:

* *Ledger*: one chain by position and link; checkpoints exact and at the
  cadence; every record signed by the key active at its position; nothing
  called durable that is not; everything durable in the end; a failed batch
  leaves nothing behind; the Merkle cache is the tree of the records.
* *Sealer*: an inference that was not sealed is counted in a marker exactly
  once, through crashes; with fail-closed nothing is released unsealed; an
  inference stands behind its registration and behind the holes before it.
* *Verifier, anchors, recompute*: a ledger nobody changed is clean whatever its
  history; a change is never silent and its cause is named; a truncation is
  seen exactly when an anchor fixes more than what is left; an honest output
  is never called forged.
* *Daemons*: the ledger of decisions reads as if they had been taken one at a
  time, each admissible on all before it, each request id once; whoever is
  answered is answered with the record of the own request; the replay of the
  trail finds nothing wrong with what was admitted.
* *Workflow*: a lowering or a release takes two people and the latest request;
  no decision on a stale view.
* *Web*: a revoked session decides nothing; guesses are counted; a verified
  badge is of the ledger it is shown with.
* *Scanner*: the verdict follows from what ran; every planned check is answered
  for; a sealed report is the one on disk; the dashboard shows what the file
  says; a drift result rests on what was compared.

The hazards, each at its line, are in `PROJECT.json`.

## 2. Modules

### The ledger

**`AppendOnlyLog`** is what a ledger promises: a log of records and the length
of its durable prefix. `Commit` appends one or more records, each naming the
nonce of the record before it; `Sync` extends the durable prefix; `Lose` cuts
the log at or after it.

**`SealedLedger`** is `store.py` and the sealing part of `chain.py`. State: the
file (`records`, `synced`, `nonce`), each process's handle (`open`, `activeKey`,
`tip`, `tipLink`, `unflushed`, `flushError`, `flusher`), each thread's call
(`pc`, `call`) and the one write transaction (`writer`, `tx`). `committed` is a
history variable: how long the ledger was at the handle's last commit.

| Action | Code |
|---|---|
| `Call` | `append_many` up to the lock; the key is read here (`store.py:413`) |
| `CallRotate` | `rotate_key` up to the lock |
| `CallCheckpoint` | `checkpoint_now`: takes the lock, reads size and root |
| `Refuse` | closed handle, sticky flush error, `LedgerBusy` |
| `Begin` | `BEGIN IMMEDIATE` and the tip, from the cache when its seq is the last one |
| `Insert` | one turn of the loop: seal, INSERT, key change, checkpoint put at the head of the queue |
| `Commit` | COMMIT, caches, key, `_after_commit` |
| `Rollback` | any error after BEGIN |
| `Flush`, `FlushFails` | `flush()`, alone and at the end of `rotate_key` |
| `FlusherTake`, `FlusherSync`, `FlusherFails`, `FlusherAccount` | the flusher: the count under the lock, fsync without it, subtraction under it |
| `ReadTip`, `Open`, `Close` | `tip()`, `open()` with `_recover`, `close()` |
| `Crash`, `PowerLoss` | the process is killed; the power fails and committed transactions no fsync covered may be gone |

A nonce is a number never drawn before, a link is the nonce of the record it
covers, a root is the sequence of nonces of its leaves: hashes are taken to be
injective. The field `last` marks the end of a transaction, so that a power
failure drops whole transactions. A checkpoint of SQLite's own only ever makes
more of the ledger durable than `synced` says; `PowerLoss` may keep any prefix
from `synced` on, so it covers that.

**`Sealer`** is `sealer.py` over that log, where `append_many` succeeds or fails
as a whole. State: `log` and `durable`, the spill file, each process's sealer
(its gap, its phase, its inference), and the `fate` of every inference as the
caller sees it. `Commit`, `SealBatch`, `Return`, `Raise` are the sealed path;
`NoteUnsealed`, `WriteSpill`/`WriteSpillFails`, `ReturnUnsealed` the unsealed
one; `Retire`/`RetireFails` renames the spill; `Open`, `OpenOnSpill`,
`DeclareOrphan`, `OpenFails` are opening with recovery; `Close` is `close()` and the
end of a `with` block: it takes the ledger away but not the gap, which stays in the
memory of a sealer that can declare nothing any more, and it does not wait for the
commit another thread is in, which then fails or is released unsealed. `Crash` and
`PowerLoss` come between any two steps. `ends` counts closes, kills and power failures; two
history variables say what the properties may except: `lost` holds the records that
power failures took, `dropped` the inferences that were counted by a sealer when it
was closed or died. A marker names the inferences it counts, where
the code has their number. Directory entries survive a power failure.

### The tree, the verifiers and the life of a ledger

**`MerkleTree`** is `merkle.py`: the node store with its incremental append,
roots of any size read back from the nodes, the streaming root, inclusion and
consistency proofs and their verifiers, next to the definition of RFC 6962. A
hash is the value that was hashed.

**`LedgerVerifier`** is the walk of `verify.py` as a fold over rows: form,
columns, position, link, signature and key, then what each type of record asks
for, then checkpoints, anchors and the tip; `emit` and `cascade` with the taint
that decides what is folded into what. **`IndependentVerifier`** is
`spec/independent_verifier.py`, translated from that file alone; it shares the
representation of rows and nothing else.

**`TamperLab`** holds the scenarios of `attacklab/tamper.py`: one change each,
with the exact classes the verifier must report. **`ProvenanceChecks`** turns
the verifier's findings into scan findings (`ledger_verify.py`) and derives
outputs again (`recompute.py`, `ladder.py`); **`RecomputeLab`** is the study
that feeds it, with jitter and dishonest sealers.

**`LedgerDeployment`** composes them: a ledger is created, filled, rotated,
anchored, its cache rebuilt, and at any point examined. A transaction is one
step here (its interleavings are `SealedLedger`'s); the steps of `export_anchor`
(`PrepareAnchor`, `CreateAnchor`, `WriteAnchor`, `RecordAnchor`), of
`init_ledger` (`Create`, `WriteGenesis`) and of `rebuild_merkle_cache`
(`RebuildRead`, `RebuildWrite`), which hold no lock in between, are separate.
`Examine(k)` applies one scenario at one position and keeps what both verifiers
say in `report`; `ExamineRecompute(p)` does the same for one recompute job.

### Decisions

**`Decisions`** is `fold.py`: `Fold`, `ApplyFinding`, `ApplyTarget`,
`GoesToTarget` and `Admissible` are the functions of the same purpose. A
record's position in the log is its seq. `WebFold` starts from the report's
dispositions, `DaemonFold` from nothing and tracks every finding it meets.
**`AuditReplay`** is `audit.py`: the trail replayed per finding, with the codes
of the rules that were not followed. **`DecisionRegister`** is what a ledger of
decisions promises: decisions enter one at a time, each admissible by the rules
in force, none under a request id that is in use.

**`AnalystDaemon`** is a decision from the click to the record. State: the
ledger (`records`), the daemon (`up`, its request-id map `seen`, or the
`memory` of the SDK's daemon, its connection threads `handler`), the people
(`window`), the `shift` that was drawn at the start, and two counters.

| Action | Code |
|---|---|
| `View` | `act`/`target_act` call `load_scan`: the ledger is read |
| `Send` | `build`, `check_admissible` on that view, `append_analyst_event`; the request id comes from the open sheet or a newly fetched one |
| `TimeOut` | `LedgerdClient._call` gives up; the handler does not notice |
| `LookUp`, `Check`, `AppendEvent`, `Remember` | `_append_analyst`: the request id, the fold and the gate, the append, the map and the answer |
| `AppendScan` | `_append_scan` |
| the SDK's actions (guarded by `Sdk`) | `seal/ledgerd.py` `handle`: all of it under one lock |
| `Crash`, `Restart` | the daemon dies; `_rebuild_idempotency`, or the replay of the ledger |

### Web

**`WebAccounts`** holds the rows of the accounts table and the columns each
operation writes, sessions and when they are honoured, the rate limit, and the
verdict a ledger gets. **`Web`** serves requests: `Receive`, `Admit` (rate,
session, form token, origin, role), the handlers, `Respond`. Signing in is
`StartLogin`, which reads the row, and `FinishLogin` after the derivation.
Every thread has a database connection whose `state` says what its open
transaction pins or locks. `AskStatus`, `LookUp`, `RunVerifier`, `StoreVerdict`
are the verification cache; `Ledger` is what other programs do to the file,
shortening it included. Passwords are version numbers.

### The scanner

**`ScanPlan`**: profiles with inheritance, tiers, capabilities, the access
block, the plan. **`ModelChecks`**, **`DataChecks`**: what each check answers,
from inputs that hold what its numerical part measures. **`RiskRules`**: the
routing table, caps, the deferral of the digest, the verdict. **`Calibration`**:
isotonic curves. **`ContributorRisk`**: whose samples were flagged.
**`ScanReport`**: what is written and what the dashboard reads of it.
**`Drift`**: two folders compared axis by axis.

**`Scan`** composes them. `Refuse`, `Plan`, `Run`, `Judge` work in memory;
`ScanOutDir`, `WriteReference`, `TruncateReport`, `WriteReport`, `HashReport`,
`AppendScanRecord`, `WriteSidecar`, `WriteCoverage`, `WritePage` are the files
in the order they are written; `LoadDrift`, `Reserve`, `CompareFolders`,
`WriteDrift`, `DropDrift` are the drift command; `Refresh` and `Rebuild` the
dashboard's index; `Crash` comes between any two. `AppendScanRecord` has three
outcomes: the daemon answered (`AppendReturns`), the call raised (`AppendRaises`: a
refusal, no daemon, no answer in time), or the ledger is no daemon (`AppendLists`).
A call that raised may be recorded by the daemon at any time after (`RecordLate`),
also when the scanner is long gone.

### How the modules fit

    AppendOnlyLog  <-- implemented by --  SealedLedger
    Decisions <- AuditReplay <- DecisionRegister <-- implemented by --  AnalystDaemon
    MerkleTree <- LedgerVerifier <- TamperLab, ProvenanceChecks <- RecomputeLab
                  IndependentVerifier, TamperLab, RecomputeLab <- LedgerDeployment
    WebAccounts <- Web
    RiskRules <- ModelChecks <- DataChecks;  RiskRules <- Calibration, ContributorRisk
    ScanPlan <- ScanReport, Drift;  all of these <- Scan

    SealedLedger <- SealedLedgerProofs
    Sealer <- SealerProofs
    Recursion, TamperLab <- VerifierProofs;  VerifierProofs, LedgerDeployment <- LedgerDeploymentProofs
    AnalystDaemon <- AnalystDaemonProofs
    Web <- WebProofs
    Scan <- ScanProofs

An `MC` module gives each composition the values of its constants. Definitions
that no other definition uses are wrong variants of the one that follows: put
in its place, each makes the property `PROJECT.json` names fail.

## 3. Runs

| Run | Instance | Shows |
|---|---|---|
| `LedgerOneThread` | one process, one thread that does everything; batches of up to 2, cadence 2, 5 records | `TypeOK`; `CheckpointsExact` and `WellSigned` hold when nobody else writes, through rotations, crashes and power failures |
| `LedgerTwoProcesses` | two processes, one with two threads, group commit, cadence 3, 5 records | `ChainLinked`, `CheckpointCadence`, `DurableMeansSynced`, `CommittedGetsSynced`, `ImplementsLog` |
| `SealerRecovery` | five deployments of the sealer, three inferences, two models, three closes, kills or power failures | `EveryHoleDeclared`, `DeclaredOnce`, `ReleasedIsSealed`, `SealedInContext` |
| `DeploymentHistory` | every history with up to eight rows and events, then one examination | `HonestIsClean`, `MatrixIsExact`, `ChangeIsSeen`, `AnchorsDecide`, `CacheIsTree`, `VerifiersAgree`, `RecomputeIsHonest`, `AnchorsStay` |
| `DaemonShifts` | two people, four shifts: findings, targets, two overlapping connections, the SDK's daemon | `ApprovalsNameARequest`, `AnsweredWithItsRecord`, `DecidedOnLatest`, `AuditReads`, `DaemonAgrees`, `LoweringNeedsTwo`, `LiftingNeedsTwo`, `ImplementsRegister` |
| `WebSessions` | two threads, two browsers, three accounts, three workloads | `LiveSessionsAreCurrent`, `CountedWhenAlone`, `BadgeIsFresh` |
| `Scan` | over a hundred jobs by one scanner, pairs by two, drift commands, one crash or raising ledger | `VerdictFollows`, `SealHolds`, `IndexFollows`, `DriftStands` |
| `LedgerStaleKey` | two threads, one rotates | **violation** of `WellSigned` |
| `DaemonReusedId` | one window, two decisions | **violation** of `RecordedAsAsked` |
| `DeploymentPowerLoss` | group commit and power failures | **violation** of `HonestIsNoFork` |
| `ScanSubstitution` | one corpus scan of a substituted model | **violation** of `SubstitutionCaught` |
| `WebDuplicateAccount` | a refused creation, two more requests | **violation** of `AdmittedIsCurrent` |

Each passing run but `LedgerTwoProcesses` also checks its module's `TypeOK`.

### Bounds, and why they are enough

*Ledger.* `MaxRecords` (no transaction begins on a ledger this long) and
`MaxNonce` (nor once so many nonces are drawn) end the runs. Five records hold
the genesis record, a batch, the checkpoint it triggers, and what follows the
checkpoint: the next positions repeat these. `MaxNonce` above `MaxRecords`
leaves room for records that were rolled back or lost and replaced. `MaxBatch`
is 2 where a batch can cross the cadence in its middle, 1 elsewhere. Two
processes, one of them with two threads, have all three ways of meeting: same
handle, other handle, and a thread against its own flusher. The two-process run
leaves out rotation, explicit checkpoints and explicit flushes: as soon as
somebody else writes, the first violates `WellSigned` (`LedgerStaleKey`), the
second `CheckpointsExact` and the third `DurableMeansSynced` (section 4). A
program that uses the ledger from one thread is covered by the first run. A run
stops at the bound in states where every process can still open or close its
handle, so deadlock is checked in both.

*Sealer.* Three inferences are a hole, the inference that has to declare it and
one more of another model; `MaxEnds` is 3: three closes, kills or power failures
lose a sealer in a hole, in its recovery and in the recovery of that. One
process has at most one sealer; two processes that share a spill are not
considered (with two, TLC violates `EveryHoleDeclared`, `DeclaredOnce` and
`SealedInContext`: the second retires the spill of the first, so the theorems
about them have `OneProcess` as hypothesis).

*Deployment.* `MaxSize` bounds rows and events together (eight), so that a
history is either long or eventful; `MaxEvents` (two) bounds rotations, markers,
exports, clock steps and crashes. Eight rows hold the genesis record, a registration,
inferences on both sides of a checkpoint of cadence 4, and a rotation or an
anchor's event. The unchanged rows are examined at any point,
changed ones at the bound and at every position; recompute over ledgers of two
inferences. Two weights under one model id are the swap the verifier must see;
the first registration is of weights "A" without loss of generality. Trees of up
to eight leaves have every shape of a right edge.

*Recompute.* Scenes of at most three detections or ranks: apart, at the
threshold, at a pixel boundary, at the overlap limit, in a tie, in a cascade.
Jitter moves each confidence and each box by up to one unit, on one axis; the
unit is half a quantum, and the tolerances are scaled to it. Dishonest sealers
move everything alike.

*Decisions.* Two people, an analyst and an approver, are enough for every rule:
each rule is about "the same" or "another" person. The report has one finding,
which the engine put at `review`, so that `accept` lowers and `quarantine`
raises; one target, with the synthetic finding id of a decision on the target
itself. Four records hold a request, one that supersedes it, an approval and one
more. One restart is enough to lose the map between append and remembering. The
serial shifts restrict the *daemon* to one connection at a time while people
read, wait, time out and retry at any time: they say what the code guarantees
when requests do not overlap in the daemon; the overlapping shift says what is
left when they do. The connections are a symmetry set that no property names.

*Web.* Two threads are the least that interleave; a behaviour serves two or
three requests of one of three workloads (accounts; reverify and decisions;
health, decisions, role changes and logout), because every hazard here is between
two requests and one that prepared them. Thresholds are 2, times 1 or 2 ticks; a
tick is a little over a minute, so that the rate window, the idle time-out and the
cache expire within the clock. The failure row of an account and that of an
address commit together, and the address row is read and written in one step.

*Scan.* One scanner takes each of the rich jobs; two scanners take the pairs
that could meet: the same directory, the same minute. `Failures` bounds the
scanners that crash or whose append raises (one in a behaviour; its record may
still come late). One minute passes. The clock ticks only while a scan is yet to
start, because nothing else reads it. The digest of a report is who wrote it and
whether it is whole. Coverage is computed once the scan is judged. Drift folders
have four or five images and ten for the case where bins decide; the draw of
permutations is a boolean of the job ("few exceed").

Deadlock is checked in the ledger runs. Elsewhere people may stop deciding, the
pipeline may run out of inferences, a scan ends.

### Fairness

Only `LedgerTwoProcesses` assumes any (`FairSpec`). The flusher's loop runs as
long as its handle is open and takes the handle's lock twice per turn: strong
fairness of `FlusherTake` and `FlusherAccount`, because the lock is held and
released over and over by callers, and a thread that keeps asking for it gets it
in the end. Its fsync returns or fails: weak fairness of `FlusherSync`
(`FlusherFails` disables it). A thread inside a transaction goes on: weak
fairness of `Insert` and `Commit`. Nothing is assumed of callers, of
`flush()`, or of `close()`.

## 4. What modelling found

The violation runs, each with a finding in `PROJECT.json`:

1. `store.py:413` reads the signing key before the lock (`LedgerStaleKey`); the
   same happens across processes, where a rotation never reaches other handles.
2. `ledgerd/server.py:162`: a request id that is reused with other content is
   answered as recorded; the decision sheet does reuse it (`DaemonReusedId`).
   The audit daemon of Module C refuses this (`seal/ledgerd.py:93`).
3. `anchor.py:315`: an anchor made of an unflushed checkpoint survives the power
   failure its checkpoint does not, and an honest ledger is reported as a fork
   (`DeploymentPowerLoss`).
4. `disposition.py:163`: a critical digest mismatch is lowered in favour of a
   fingerprint that was not measured, and the verdict is ACCEPT
   (`ScanSubstitution`).
5. `accounts.py:160`: a refused duplicate leaves a transaction open, after which
   another thread admits revoked sessions (`WebDuplicateAccount`).

Four more behaviours of this kind that no run shows any longer: explicit
checkpoints read size and root outside their transaction (`store.py:503`); the
flusher and `flush()` can subtract the same records (`store.py:610`, `642`);
two overlapping connections approve one change (`ledgerd/server.py:181-188`), and
`ledgerd_client.py:66` says nothing was recorded, which the client cannot know
after a time-out; so does `warn_unsealed` (`cli.py:253`) of a scan record.

What the properties of section 3 except, because the code does it:

* A hole of the sealer is never declared if its own marker is taken by a power
  failure: the spill is renamed when the marker is committed, not when it is durable
  (`sealer.py:272`, against `sealer.py:21`, where an undeclared hole is "a lie by
  omission"). Nor is one whose spill line could not be written and whose sealer is
  closed: `close()` (`sealer.py:373`) drops the gap without a word, as a crash does.
  No other hole is lost (`EveryHoleDeclared`).
* The sidecar of a scan says "not sealed" although the daemon recorded it after the
  call had raised. The other direction does not happen with a daemon (`SealHolds`).

Read in the source while modelling, without a run of their own:

* *Ledger and verification.* The ladder's R2 does not consider that jitter may
  turn the order of two overlapping boxes, or a suppression another one rests on:
  such an honest record is `output_mismatch` (the exception in
  `RecomputeIsHonest`). A class renamed at its rank with the confidence kept reads
  as a near-tie. Thresholds are read from the sealed payload's own filter block. A
  rebuild of the Merkle cache that overlaps an append misses its leaf. Appends go on,
  as they read only the siblings they join, until one needs what is missing: the next
  checkpoint's root, usually. It raises, rolls back, and so does every append after it
  until the cache is rebuilt. No wrong root comes of it (`CacheIsTree`).
* *Decisions.* The audit replay reads approvals of a release as
  `approve_without_override` and the target-level staleness of `cva-ledgerd` as
  `stale_write` (the exceptions in `AuditReads`); the SDK's daemon refuses every
  approval of a release. A refusal says `nothing_changed` also after a lost answer.
* *Web.* A slow wrong login in flight can overwrite a lockout; an expired cookie
  can still POST `/logout` and revoke; the role refresh in `current_account` is
  never reached; overlapping wrong logins count as one (`CountedWhenAlone`'s
  condition).
* *Scan.* `new_scan_id` is called "a per-day counter" and counts minutes, so two
  scans of one minute share an id (`SealHolds`' exception). The reference baseline
  hands the index object on where vectors are expected and is then unavailable.
  With the null ledger the sidecar says `sealed: true`, since the counter
  `unsealed-N` is not None (`cli.py:245`). `total_attack_classes` of the coverage
  page can count a class twice. The digest of a frozen TorchScript model never
  matches a manifest; `trigger_candidate` is never written; rule D2 matches nothing.
  Without a reference the drift axes are only described, and coverage still lists
  `distribution_shift` as assessed (`interpretable_axes.py:23`). A report index on a
  file system with coarse times can keep a row of a half-written report.
* *Outside the models.* Two scanners that extract the same image share the name
  of their temporary file (`features/cache.py:83`); a remediation job whose
  manifest is not a list leaves its job "running" (`remediation/jobs.py:153`).

## 5. Proofs

Every theorem is proved from the named assumptions of the modules it is about
(`ConstantsAssumption`, `SealerAssumption`, `DeploymentAssumption`, `TamperAssumption`
and `VerifierAssumption`, `DecisionsAssumption` and `DaemonAssumption`,
`LimitsAssumption` and `WebAssumption`, `ScanAssumption`): types of the constants, and
that a null value is none of the others. TLC evaluates each in the runs.
`DeploymentAssumption` also says that the keys of a deployment are different keys,
none of them an attacker's, and that its manifest is not that of the other deployment,
`WebAssumption` that at the start no row of the accounts table counts a failure. Some
theorems have a hypothesis; each is the weakest for which the property holds, because
without it TLC violates the property (in a run of section 3 where one is named, or on
the same instance with that one constant changed).

| Module | Theorem | Property | Hypothesis |
|---|---|---|---|
| `SealedLedgerProofs` | `TypeCorrect` | `TypeOK` | |
| | `AlwaysLinked` | `ChainLinked` | |
| | `LedgerImplementsLog` | `ImplementsLog` | |
| | `AlwaysOnCadence` | `CheckpointCadence` | |
| | `AlwaysExact` | `CheckpointsExact` | `LoneCheckpointers`: who calls `checkpoint_now` shares its handle with every other thread |
| | `AlwaysWellSigned` | `WellSigned` | `LoneRotator`: a thread that rotates is alone (`LedgerStaleKey`) |
| | `AlwaysDurable` | `DurableMeansSynced` | `FlusherAlone`: under group commit nobody calls `flush()` (`store.py:610`, `642`) |
| `SealerProofs` | `SealerTypeCorrect` | `TypeOK` | |
| | `AlwaysReleasedIsSealed` | `ReleasedIsSealed` | |
| | `AlwaysEveryHoleDeclared` | `EveryHoleDeclared` | `OneProcess` |
| | `AlwaysDeclaredOnce` | `DeclaredOnce` | `OneProcess` |
| | `AlwaysSealedInContext` | `SealedInContext` | `OneProcess` |
| `Recursion` | `Prefixes` | | the turn of the recursion looks at smaller numbers only |
| `VerifierProofs` | `AccumulatedRoot` | | |
| | `InclusionVerifies`, `ConsistencyVerifies` | | the store is one of these leaves |
| | `SameFindings` | | the rows can be read (`Readable`) and hold their own columns, anchors state what their checkpoints say |
| `LedgerDeploymentProofs` | `DeploymentTypes` | `TypeOK` | (also when the power fails) |
| | `WrittenAnchorsStay` | `AnchorsStay` | (also when the power fails) |
| | `FieldHolds` | | |
| | `NoFalseAlarm` | `HonestIsClean` | |
| | `CacheAnswers` | `CacheIsTree` | |
| | `SecondOpinion` | `VerifiersAgree` | |
| `AnalystDaemonProofs` | `FoldAppend`, `ReplayAppend`, `FoldReads`, `ReplayReads` | | |
| | `DaemonTypeCorrect` | `TypeOK` | |
| | `AlwaysAnsweredWithItsRecord` | `AnsweredWithItsRecord` | |
| | `AlwaysApprovalsNameARequest` | `ApprovalsNameARequest` | |
| | `AlwaysDecidedOnLatest` | `DecidedOnLatest` | |
| | `AlwaysAuditReads` | `AuditReads` | |
| | `AlwaysDaemonAgrees` | `DaemonAgrees` | |
| | `AlwaysLoweringNeedsTwo` | `LoweringNeedsTwo` | |
| | `AlwaysLiftingNeedsTwo` | `LiftingNeedsTwo` | |
| | `DaemonImplementsRegister` | `ImplementsRegister` | |
| `WebProofs` | `WebTypeCorrect` | `TypeOK` | |
| | `AlwaysLiveSessionsAreCurrent` | `LiveSessionsAreCurrent` | |
| | `AlwaysCountedWhenAlone` | `CountedWhenAlone` | |
| | `AlwaysBadgeIsFresh` | `BadgeIsFresh` | |
| | `AlwaysAdmittedIsCurrent` | `AdmittedIsCurrent` | `NoCreations`: no request creates an account (`WebDuplicateAccount`) |
| `ScanProofs` | `ScanTypeCorrect` | `TypeOK` | |
| | `AlwaysSealHolds` | `SealHolds` | |
| | `AlwaysIndexFollows` | `IndexFollows` | |
| | `AlwaysDriftOwns` | of `DriftStands` the part about directories | |
| | `AlwaysDiskGrows` | (an action property) | |

### The ledger

`TypeInv` adds to the types that a thread in a call has something to append.
`ChainLinked` is not inductive: it says nothing of what the next record will be
linked to. `ChainInv` adds

* `NonEmpty`: the ledger has its genesis record and `synced` lies within it;
* `Linked(Rows)`, where `Rows` is the ledger with the rows of the open
  transaction: so COMMIT, whenever it comes, keeps the chain;
* `CachesSound`: the cached tip of an open handle *is* the record at its seq as
  long as the ledger reaches that far, and the cached link is that record's
  nonce or none. This is why comparing seqs is enough although others append:
  rows are never changed, and a power failure, which may cut and regrow the
  ledger, takes every handle with it;
* `WriterSound`: the transaction's `prev` and `link` are those of the last of
  `Rows`.

The refinement follows from it: `Commit` appends linked rows and never shortens
the durable prefix, a power failure cuts at or after `synced`, and every other
step leaves `records` alone and sets `synced` to itself or to the length.

*Cadence.* `CadenceInv` adds what a queue looks like (`QueuesSound`: at most one
checkpoint, at its head), that no transaction ends on a row that owes a
checkpoint, so that a power failure cannot separate the two, and that of the rows
in the transaction only the last may owe one, which then heads the queue.

*Checkpoints.* `ExactInv` adds that a checkpoint in a queue, or held by a thread
in `checkpoint_now`, is the one of the rows it will follow. Nothing in the code
keeps another process from appending in between, hence the hypothesis.

*Keys.* `SignedInv` adds `KeysCurrent`: each copy of the key, in the handle, in a
call and in the transaction, is the one owed to the next row. `RotationsByRotators`
keeps it true where nobody rotates.

*Durability.* `Accounted` ties the counter to the disk: `unflushed` is at least what
the flusher has taken, and when the two are equal and no fsync is under way,
everything committed is synced.

### The sealer

`ReleaseInv` adds to `ReleasedIsSealed` the inferences whose batch is in the ledger
and whose answer is to come. `HoleInv` says where a hole is accounted for, one that is
not `Settled` (declared, or by a marker that a power failure took): each line of the
spill is counted in memory, or waits for the next open; an unsealed inference has its
line, so a crash or a close that takes the memory leaves it; one without a line is
counted, or was dropped with its sealer; what a closed sealer counts is dropped
already, as it seals nothing more; and a spill that a marker names holds only what is
settled, which is what makes the rename after a crash safe. `OnceInv` is stronger and
holds where writes and renames succeed: what is counted *is* what the spill says, and
neither is declared, unless the marker names just this spill. `RegisteredInv`: what a
sealer takes for registered is in the ledger, because a power failure takes the sealer
too.

### The tree

Everything `merkle.py` computes is a recursion over sizes, positions or leaves, and
the prover has no induction over data. `Recursion` supplies it once, for any
function over numbers given by a turn that looks at smaller numbers only: one such
function exists (`Exists`), there is no other (`Unique`), and what a definition
computes up to some bound is what the function on all numbers is there
(`Prefixes`). All three look at the least number that would be an exception. A module
instantiates `Recursion` with the turn of each of its definitions.

`RangeOf(leaves, from, size)` is the RFC's hash of a range, on all ranges at once;
`MthIsRange` says that `MTH` is the range from 0. Everything else is compared to it:

* `IsStore(store, leaves, n)`: the nodes are exactly those of a tree of n leaves,
  each the hash of its range. `AddLeafGrows`: one leaf more, one store more. The
  subtrees a leaf completes are those on whose right edge it is, which is a fact
  about shifts and powers of two (`ShrBelow`, `CompletedEnd`); so are the ranges that
  are nodes and those that are split (`PowerBetween`, `SplitAt`). `RangeHashIsRange`:
  what is read from a store is the RFC's hash, for ranges that begin where a split
  puts them.
* `IsStack(stack, leaves, n)`: perfect subtrees of falling levels that cover the
  leaves. `PushKeeps` says that `Push` keeps it, `RootIsRange` what its root is:
  together `AccumulatedRoot`.
* A verifier of a proof knows no tree, only two numbers it shifts. `OnPath` relates
  those numbers after k steps to the range the k hashes stand for, `JoinLeft`,
  `JoinRight` and `Alone` say what one more hash, or a level without one, makes of it.
  `ClimbStep` and `AgreesStep` are then the inductions over the size of the range
  for inclusion and for consistency; the latter follows two roots at once, and
  begins in the middle of the tree (`Starts`).

### The life of a ledger

`Shape` is the type invariant with what it needs: sequence numbers and keys by
position, the introduced key of a rotation among the ledger's, a genesis record
that is durable, and an export that has a path only between `O_EXCL` and the write.
It is inductive with power failures too, and `AnchorsStay` follows: only the path
that was created just before is written, and only once.

`Field` is the invariant of a ledger whose power does not fail. `Honest(rows)` says
what each record holds given the ones before it: its place, its link, the key active
there with its signature, and (`Fits`) the size and root of a checkpoint, the
checkpoint an anchor event names, the proof of a rotation, the model of an inference.
It speaks of each record and those before it only, so that it is also true of every
prefix and survives every append. `Cached` says that the node store is a part of the
tree of the records (`Partly`): each node it has is the hash of its range, but a
rebuild that overlaps an append leaves some out, and appends go on from there. What is
read of such a store is right or missing. `CanAdd` says which nodes an append reads,
`HasRoot` which a root is made of (`PeaksAnswer`: with those the root is the RFC's),
and an append succeeds exactly when its own are there (`Appendable`). If the number of
nodes is that of the whole tree, nothing is missing, since a part of a finite set with
as many elements is all of it. `Anchoring` says that whatever is exported, or was, is
a copy of a checkpoint of the ledger. With power failures the last is false
(`DeploymentPowerLoss`), and nothing else: this is finding 3.

The verifier is a fold, so what it knows after n rows is a second invariant,
`Walked`, inductive over positions instead of steps: no finding but the three that
accuse nobody (`Milds`), no cause to fold into, every checkpoint so far on record, the
keys and nonces and registrations of the rows so far, the accumulator a stack of
their leaves. `StepPasses` has one lemma per check of the walk. `AnchorsPass` needs
that the accumulated root of a prefix is the one the checkpoint stated, which is
where `CheckpointPasses`, the store and the accumulator meet in `RangeOf`.
`NoFalseAlarm` follows for every kind of anchor; that the SDK's chain check passes
(`HonestChain`) is read off `Honest`. `CacheAnswers` is `Field` with the theorems about the
tree.

The two verifiers are compared state by state. `Twin` says that the fields of one
walk are the other's, under its own names, with three differences that the proof has
to carry: the second verifier lists a position as signed before it reads the row, the
first one with the nonce (`Sealing`); it knows no time yet where the first has 0; and
it keeps the leaves where the first keeps a stack of subtrees (`StackAgrees`, by the
theorem about the accumulator). Each check keeps them twins, so does each row
(`TwinStep`), and `SameFindings` follows by induction over rows, anchors and sealed
payloads. It is about any rows with a form, a number and a time, not only those of an
honest ledger: the lab's changes need no lemma about what they do to the verifiers,
only that the result can be read (`PutReadable`, `JoinReadable`, `ResignIs`, ...). The
one exception of `VerifiersAgree` needs the converse: rows whose columns are not their
own *are* reported, whatever comes later. `Grows` is the relation for that: each check,
and so each walk, adds findings or counts one more consequence, and takes none away
(`FoundAlong`, `ColumnsTold`).

### Decisions

`Fold` and `Replay` are recursive functions of the whole log. That such a function
exists and obeys its equation takes induction, which the prover does not have over
data. The proofs look instead at the least position where the prefix of a log
would be an exception: `FoldStates` and `ReplayStates` define the sequence of
states, a prefix has the same states, and so `FoldAppend` and `ReplayAppend` follow: one
more record is one more step. In the same way `FoldReads` and `ReplayReads`
say, for every log, what a fold holds: the latest event about each finding
and target, the pending change and who asked for it, which requests can be approved
and which are. Everything after this is about logs, not about folds.

`AnswerInv` is inductive for every shift: an entry of the idempotency map names
a record of that id, so does a handler that recorded, and a person who waits is
waited for by one handler only, which carries that person's request. `DaemonInv`
adds that every event of the ledger was admitted by the daemon's fold on some prefix
before it (`EachDecided`; on all before it when `Serial`), that a handler between
check and append still is (`AdmittedSound`), that the map lags the ledger only by
handlers yet to remember (`RidsKnown`), and for the SDK's daemon that its memory is
what a replay gives (`MemorySound`). `AuditReads` and the two four-eyes properties
are then facts about the log that `FoldReads` and `ReplayReads` connect. The
refinement maps `AppendEvent` to `Record`, `AppendScan` to `SealScan` and every other
step to a stutter.

`DecidedOnLatest` has no target clause for the SDK's daemon: the attempt to prove
one showed that its audit knows no targets, so that two releases of one target that
cite different findings both pass.

### Accounts and sessions

`WebInv` is one invariant of five parts. `TablesInv`: what a connection pinned was
committed, is the table unless somebody wrote since, and holds no account that
is gone; one connection at most has the write lock; the epoch of a row counts the
times its sessions were ended. `RequestsInv`: every session, in a cookie, in a
request or in an answer, carries the epoch its row had when the password was read.
`CountInv`: while attempts do not overlap, the row a derivation started from has the
count of the committed row, if its write can be accepted at all. `HealthInv`:
how old a verdict in the cache or in a request is, and that it covers the size the
request asked for. `AlwaysAdmittedIsCurrent` adds `NoneOpen`, no connection keeps a
transaction after its request, which a refused creation breaks and nothing else:
so the theorem says that the cause of finding 5 is the only one.

### The scanner

Nothing here depends on what a check finds: of a result the proofs use its id, its
number in the ledger and its digest, and every computation stays unexpanded. The
only assumption on the jobs is that a corpus job has a model (`ScanAssumption`,
`cli.py:154`), after which its files are named.

`ScanInv` is one invariant of five parts. `PlacesInv`: where a scanner can be, and
which fields its result has. `IdsInv`: every directory is of a scan that started, and
from the moment a report is opened its directory is there; a scan keeps its id, so the
first part lasts. `SealInv` speaks of a scan that shares its id with no other
(`Alone`), which `SealHolds` excepts: it has no record and no call under way until its
report is whole and hashed, one record at most after that, whether it came in time,
late or never, bound to the digest of the report that lies in its directory; a call
that is pending has none yet; and the sidecar says what the call answered, so that it
says sealed of a daemon's scan only if the record is there. A late record needs that
the report it names is unchanged since: nothing writes it once it is whole. The step
that needs care is the start of a scan: that no record names its id already follows
from `IdsInv`, as a record names a directory and a directory a scan. `IndexInv` adds
to `IndexFollows` that no row is of a later time than its file and that a time once
read is not ahead of it, so that `AlwaysDiskGrows` (a report never changes without its
time, and none goes) carries a row over every step of every scanner. `DriftInv`: a
directory made by a drift command that has not crashed is the one its result names,
while it has one.

### What stays with TLC

* `CommittedGetsSynced` is liveness under fairness.
* `RecordedAsAsked`, `HonestIsNoFork` and `SubstitutionCaught` do not hold of the
  code.
* `MatrixIsExact`, `ChangeIsSeen` and `AnchorsDecide` are about what the verifier says
  of a *changed* ledger: one walk per scenario, each of which leaves the states
  `Walked` describes at another place.
* `RecomputeIsHonest` is about a numerical study with bounded scenes.
* `VerdictFollows`, and of `DriftStands` what the rows say, are about what pure
  functions (routing, pooling a curve, permuting two samples) compute, by folds over
  sets and data.

Their properties are checked on the instances of section 3.

## 6. Not modelled

* **In the ledger**: what SQLite does when COMMIT itself fails halfway and the
  transaction survives; a WAL checkpoint inside `flush()` that reports busy;
  payload rows; the key check of `open()` as several reads; several rotations
  merged in one call; read-only handles.
* **In the sealer**: the hashing of inputs and outputs; a directory entry lost in
  a power failure; two sealers on one spill, also one that is opened while a commit of
  a closed one is under way. A renamed spill is named after a number that a later
  recovery can reach again, and `os.replace` overwrites it (`sealer.py:352`): it takes
  four inferences and two orphans, the marker stays, only its evidence goes.
* **In the verifiers**: canonical encoding and field rules (a row has its form or
  not); `explain.py`; signatures and hashes as arithmetic.
* **In the decision path**: a read that fails and folds an empty list; several
  scans in one ledger; reason codes and justifications; a seal that refuses a
  record. The four-eyes switch is one constant, although web and daemon are
  configured separately. Roles are constants there; they change in `Web`.
* **In the web**: the read-only pages, exports, the audit timeline, the job
  runner, configuration; timing of the derivation as a side channel.
* **In the scanner**: everything numerical below a check's answer; file formats;
  progress events; egress blocking; the commands of `cli.py` that neither scan,
  calibrate nor compare. In `Drift`: which permutations are drawn, scipy's tails
  (constants), wide embeddings except as an overflow.
* **Components** marked `not_modelled` in `PROJECT.json`: encodings and keys, the
  peer policy, feature extraction, benchmarks and remediation, the native
  verifiers.

## 7. Plan

Done: the ledger and its proofs, the decision path with both daemons, the sealer,
the life of a ledger with its verifiers, anchors, tree and recompute, the
accounts and sessions, the scanner from arguments to dashboard.

Proved: every property of the ledger's store, of the sealer, of the decision path
and of the web that the code keeps, but the one about liveness; of the Merkle tree,
that store, accumulator, proofs and definition agree; of the deployment, that an
honest ledger raises no alarm and that the two verifiers agree on any ledger; of the
scanner, what concerns its files.

Next are the changed ledgers. `Honest` holds of a prefix, so `AnchorsDecide` for
truncations and the first finding of each scenario of `ChangeIsSeen` begin with
`WalkPasses` up to the change. Of the scanner, `CoverageComplete` is about sets only
and within reach; the rest of `VerdictFollows` needs induction over folds.
