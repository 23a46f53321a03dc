----------------------------- MODULE ScanProofs -----------------------------
(***************************************************************************)
(* Proofs about the files of Scan, for any number of scanners and jobs:    *)
(* what a scan seals is what lies in its directory, what the dashboard     *)
(* indexed is what it read, and a drift command owns its directory.  Of    *)
(* what the checks find, nothing is used but the id of the result.         *)
(***************************************************************************)
EXTENDS Scan, SequenceTheorems, TLAPS

-----------------------------------------------------------------------------
(* Where the scanners are, and what they carry.                            *)

DriftSteps == {"reserve", "drift", "publish"}
Started(p) == work[p] # <<>>

ResultFields ==
  {"by", "prof", "caps", "plan", "id", "cal", "target", "command", "seed", "standing", "gap",
   "ran", "findings", "rows", "baseline", "verdict", "coverage", "seq", "ledgerError", "digest", "pending"}
DriftFields == {"by", "prof", "id", "plan", "findings", "verdict"}

PlaceOn(p) ==
  /\ pc[p] \in Steps
  /\ Started(p) <=> pc[p] \notin {"start", "refused"}
  /\ p \in Scans => pc[p] \notin DriftSteps /\ (Started(p) => DOMAIN Result(p) = ResultFields)
  /\ p \notin Scans =>
       /\ pc[p] \in DriftSteps \cup {"start", "refused", "done", "failed", "crashed"}
       /\ Started(p) => DOMAIN Result(p) = DriftFields

PlacesInv ==
  /\ job \in Assignments
  /\ DOMAIN pc = Scanners /\ DOMAIN work = Scanners
  /\ pc = [p \in Scanners |-> pc[p]] /\ work = [p \in Scanners |-> work[p]]
  /\ minute \in 0 .. MaxMinute
  /\ \A p \in Scanners : PlaceOn(p)

-----------------------------------------------------------------------------
(* The directories.                                                        *)

\* The report's file is there.
Opened == {"report", "hash", "seal", "sidecar", "coverage", "page", "done"}

IdsInv ==
  /\ \A p \in Scans : Started(p) => Result(p).id \in Ids
  /\ \A id \in DOMAIN disk : \E p \in Scans : Started(p) /\ Result(p).id = id
  /\ \A id \in DOMAIN disk : DOMAIN disk[id] = DOMAIN Empty /\ disk[id].mtime \in Nat
  /\ \A p \in Scans : pc[p] \in Opened \/ (Started(p) /\ Result(p).pending) => Result(p).id \in DOMAIN disk
  /\ Len(records) \in Nat /\ records = [i \in 1 .. Len(records) |-> records[i]]
  /\ \A i \in DOMAIN records : records[i].scan \in DOMAIN disk

\* What the dashboard has read of a report whose time is still the same is the report.
ReadOn(id, row) ==
  LET got == Load(disk[id].report)
  IN row = IF got = <<>> THEN UpsertUnreadable(disk[id].mtime) ELSE Upsert(got[1], disk[id].mtime)

IndexInv ==
  /\ \A id \in DOMAIN index :
       /\ id \in Discovered
       /\ index[id].mtime <= disk[id].mtime /\ index[id].mtime \in Nat
       /\ index[id].mtime = disk[id].mtime => ReadOn(id, index[id])
  /\ look # <<>> =>
       /\ look = <<look[1]>> /\ look[1].id \in Discovered
       /\ look[1].mtime \in Nat /\ look[1].mtime <= disk[look[1].id].mtime

-----------------------------------------------------------------------------
(* The seal.                                                               *)

\* No other scan has the id.
Alone(p) == \A q \in Scans \ {p} : Started(q) => Result(q).id # Result(p).id

Unsealed == {"checks", "assess", "dry run", "directory", "reference", "truncate", "report", "hash", "seal"}
Complete == {"seal", "sidecar", "coverage", "page", "done"}
Recorded == {"sidecar", "coverage", "page", "done"}
Described == {"coverage", "page", "done"}

Records(p) == ScanRecordsFor(records, Result(p).id)
Report(p) == Here(p).report

Ready(p) == Report(p).state = "whole" /\ Report(p).report.scan = Result(p).id

\* The daemon has the record when it has said so; when it has not, it records what is on the disk, or nothing.
SealOn(p) ==
  /\ \A i, j \in Records(p) : i = j
  /\ \A i \in Records(p) : Ready(p) /\ records[i].digest = Digest(Report(p))
  /\ Records(p) # {} => job[p].ledger = "socket"
  /\ pc[p] \in Unsealed => Records(p) = {} /\ ~ Result(p).pending
  /\ pc[p] \in {"hash"} \cup Complete => Ready(p)
  /\ pc[p] = "seal" \/ Result(p).pending => Result(p).digest = Digest(Report(p))
  /\ Result(p).pending => Ready(p) /\ Records(p) = {} /\ job[p].ledger = "socket"
  /\ (pc[p] \in Recorded /\ job[p].ledger = "socket" /\ Result(p).seq # 0 /\ ~ Result(p).ledgerError) =>
       Records(p) # {}
  /\ pc[p] \in Described =>
       /\ Here(p).seal[1].digest = Digest(Report(p))
       /\ Here(p).seal[1].sealed = (Result(p).seq # 0 /\ ~ Result(p).ledgerError)

SealInv == \A p \in Scans : Started(p) /\ Alone(p) => SealOn(p)

-----------------------------------------------------------------------------
(* The directories of the drift command.                                   *)

DriftOn(p) ==
  /\ pc[p] \in {"drift", "publish", "done"} =>
       /\ Result(p).id \in DOMAIN drifts
       /\ Mine(p) = [by |-> p, files |-> Mine(p).files]
       /\ \E n \in 0 .. Len(DriftFiles) :
            /\ Mine(p).files = SubSeq(DriftFiles, 1, n)
            /\ n = Len(DriftFiles) <=> pc[p] = "done"
  /\ pc[p] # "crashed" => \A id \in DOMAIN drifts : drifts[id].by = p =>
       pc[p] \in {"drift", "publish", "done"} /\ id = Result(p).id

DriftInv == \A p \in Scanners \ Scans : DriftOn(p)

ScanInv == PlacesInv /\ IdsInv /\ IndexInv /\ SealInv /\ DriftInv

-----------------------------------------------------------------------------
(* Lemmas on the places.                                                   *)

\* What a dictionary holds after one entry was set.
LEMMA PutFacts ==
  ASSUME NEW d, NEW k, NEW v
  PROVE  /\ DOMAIN Put(d, k, v) = DOMAIN d \cup {k}
         /\ Put(d, k, v)[k] = v
         /\ \A j \in DOMAIN d \ {k} : Put(d, k, v)[j] = d[j]
  BY DEF Put

\* What a step of one scanner leaves alone.
Turn(p) ==
  /\ job' = job
  /\ DOMAIN pc' = DOMAIN pc /\ DOMAIN work' = DOMAIN work
  /\ pc' = [q \in Scanners |-> pc'[q]] /\ work' = [q \in Scanners |-> work'[q]]
  /\ \A q \in Scanners \ {p} : pc'[q] = pc[q] /\ work'[q] = work[q]

LEMMA GoTurn ==
  ASSUME PlacesInv, NEW p \in Scanners, NEW step, Go(p, step), job' = job,
         UNCHANGED work \/ \E r : Save(p, r)
  PROVE  Turn(p) /\ pc'[p] = step
<1>1. DOMAIN pc = Scanners /\ DOMAIN work = Scanners
  BY DEF PlacesInv
<1> QED BY <1>1 DEF PlacesInv, Go, Save, Turn

\* Each scanner takes its own step.
LEMMA TurnPlaces ==
  ASSUME PlacesInv, NEW p \in Scanners, Turn(p), minute' = minute, PlaceOn(p)'
  PROVE  PlacesInv'
<1>1. Scanners' = Scanners /\ Scans' = Scans
  BY DEF Turn, Scanners, Scans
<1>2. ASSUME NEW q \in Scanners \ {p} PROVE PlaceOn(q)'
  BY <1>1, <1>2 DEF PlacesInv, PlaceOn, Turn, Started, Result
<1> QED BY <1>1, <1>2 DEF PlacesInv, Turn

\* A step that keeps the result.
LEMMA KeptPlaces ==
  ASSUME PlacesInv, NEW p \in Scanners, NEW step \in Steps, Go(p, step), UNCHANGED <<job, work>>,
         step # "start", step = "refused" <=> ~Started(p),
         p \in Scans => step \notin DriftSteps,
         p \notin Scans => step \in DriftSteps \cup {"refused", "done", "failed", "crashed"}
  PROVE  Turn(p) /\ pc'[p] = step /\ PlaceOn(p)'
<1>1. Turn(p) /\ pc'[p] = step
  BY GoTurn
<1>2. Scans' = Scans
  BY DEF Scanners, Scans
<1> QED BY <1>1, <1>2 DEF PlacesInv, PlaceOn, Started, Result

\* A step that leaves a result of the program's form.
LEMMA SavedPlaces ==
  ASSUME PlacesInv, NEW p \in Scanners, NEW step \in Steps, Go(p, step), UNCHANGED job,
         NEW r, Save(p, r), step \notin {"start", "refused"},
         DOMAIN r = IF p \in Scans THEN ResultFields ELSE DriftFields,
         p \in Scans => step \notin DriftSteps,
         p \notin Scans => step \in DriftSteps \cup {"refused", "done", "failed", "crashed"}
  PROVE  Turn(p) /\ pc'[p] = step /\ PlaceOn(p)' /\ Result(p)' = r
<1>1. Turn(p) /\ pc'[p] = step
  BY GoTurn
<1>2. Scans' = Scans
  BY DEF Scanners, Scans
<1>3. work'[p] = <<r>>
  BY DEF Save, PlacesInv
<1> QED BY <1>1, <1>2, <1>3 DEF PlaceOn, Started, Result

\* A new result has the program's fields.
LEMMA NewFields ==
  ASSUME NEW p
  PROVE  DOMAIN NewResult(p) = ResultFields /\ DOMAIN NewDriftResult(p) = DriftFields /\ ~ NewResult(p).pending
<1>1. DOMAIN NewResult(p) = ResultFields /\ NewResult(p).pending = FALSE
  BY DEF NewResult, ResultFields
<1>2. DOMAIN NewDriftResult(p) = DriftFields
  BY DEF NewDriftResult, DriftFields
<1> QED BY <1>1, <1>2

LEMMA StepPlaces ==
  ASSUME PlacesInv, NEW p \in Scanners, Step(p) \/ Crash(p)
  PROVE  Turn(p) /\ PlaceOn(p)' /\ minute' = minute
<1>1. /\ PlaceOn(p)
      /\ p \in Scans <=> job[p].program # "drift"
  BY DEF PlacesInv, Scans
<1> USE DEF Steps, Halted, DriftSteps
<1>2. CASE Refuse(p)
  <2>1. Go(p, "refused") /\ UNCHANGED <<job, work, minute>> /\ ~Started(p)
    BY <1>1, <1>2 DEF Refuse, PlaceOn
  <2> QED BY <2>1, KeptPlaces
<1>3. CASE Plan(p)
  <2>1. Save(p, NewResult(p)) /\ DOMAIN NewResult(p) = ResultFields
    BY <1>3, NewFields DEF Plan
  <2>2. PICK step \in {"dry run", "checks"} : Go(p, step)
    BY <1>3 DEF Plan
  <2>3. UNCHANGED <<job, minute>> /\ p \in Scans /\ ~Started(p)
    BY <1>1, <1>3 DEF Plan, PlaceOn
  <2> QED BY <2>1, <2>2, <2>3, SavedPlaces
<1>4. CASE LoadDrift(p)
  <2>1. Save(p, NewDriftResult(p)) /\ DOMAIN NewDriftResult(p) = DriftFields
    BY <1>4, NewFields DEF LoadDrift
  <2>2. PICK step \in {"reserve"} : Go(p, step)
    BY <1>4 DEF LoadDrift
  <2>3. UNCHANGED <<job, minute>> /\ p \notin Scans
    BY <1>1, <1>4 DEF LoadDrift
  <2> QED BY <2>1, <2>2, <2>3, SavedPlaces
<1>5. CASE Run(p)
  <2>1. Started(p) /\ p \in Scans /\ UNCHANGED <<job, minute>>
    BY <1>1, <1>5 DEF Run, PlaceOn
  <2>2. PICK ran : /\ Save(p, [Result(p) EXCEPT !.ran = ran, !.gap = ran.own.gap])
                   /\ \E step \in {"failed", "assess"} : Go(p, step)
    BY <1>5 DEF Run
  <2> QED BY <1>1, <2>1, <2>2, SavedPlaces DEF PlaceOn
<1>6. CASE Judge(p)
  <2>1. Started(p) /\ p \in Scans /\ UNCHANGED <<job, minute>>
    BY <1>1, <1>6 DEF Judge, PlaceOn
  <2>2. PICK got : /\ Save(p, Covered([Result(p) EXCEPT !.findings = got.findings, !.rows = got.rows,
                                          !.verdict = got.verdict, !.baseline = got.baseline, !.ran = Unrun]))
                   /\ \E step \in {"reference", "directory"} : Go(p, step)
    BY <1>6 DEF Judge
  <2> QED BY <1>1, <2>1, <2>2, SavedPlaces DEF PlaceOn, Covered
<1>7. CASE ScanOutDir(p)
  <2>1. PICK step \in {"failed", "truncate", "reference"} : Go(p, step)
    BY <1>7 DEF ScanOutDir
  <2>2. UNCHANGED <<job, work, minute>> /\ Started(p) /\ p \in Scans
    BY <1>1, <1>7 DEF ScanOutDir, PlaceOn
  <2> QED BY <2>1, <2>2, KeptPlaces
<1>8. CASE WriteReference(p) \/ TruncateReport(p) \/ WriteReport(p)
  <2>1. PICK step \in {"truncate", "report", "hash"} : Go(p, step)
    BY <1>8 DEF WriteReference, TruncateReport, WriteReport
  <2>2. UNCHANGED <<job, work, minute>> /\ Started(p) /\ p \in Scans
    BY <1>1, <1>8 DEF WriteReference, TruncateReport, WriteReport, PlaceOn
  <2> QED BY <2>1, <2>2, KeptPlaces
<1>9. CASE WriteSidecar(p) \/ WriteCoverage(p) \/ WritePage(p)
  <2>1. PICK step \in {"coverage", "page", "done"} : Go(p, step)
    BY <1>9 DEF WriteSidecar, WriteCoverage, WritePage
  <2>2. UNCHANGED <<job, work, minute>> /\ Started(p) /\ p \in Scans
    BY <1>1, <1>9 DEF WriteSidecar, WriteCoverage, WritePage, PlaceOn
  <2> QED BY <2>1, <2>2, KeptPlaces
<1>10. CASE HashReport(p)
  <2>1. Started(p) /\ p \in Scans /\ UNCHANGED <<job, minute>>
    BY <1>1, <1>10 DEF HashReport, PlaceOn
  <2>2. PICK step \in {"seal"} : Go(p, step) /\ Save(p, [Result(p) EXCEPT !.digest = Digest(Report(p))])
    BY <1>10 DEF HashReport, Report
  <2> QED BY <1>1, <2>1, <2>2, SavedPlaces DEF PlaceOn
<1>11. CASE AppendScanRecord(p)
  <2>1. Started(p) /\ p \in Scans /\ UNCHANGED <<job, minute>>
    BY <1>1, <1>11 DEF AppendScanRecord, PlaceOn
  <2>2. PICK step \in {"sidecar"} :
          Go(p, step) /\ \E n, b, c : Save(p, [Result(p) EXCEPT !.seq = n, !.ledgerError = b, !.pending = c])
    BY <1>11 DEF AppendScanRecord, AppendReturns, AppendRaises, AppendLists, Outcome
  <2> QED BY <1>1, <2>1, <2>2, SavedPlaces DEF PlaceOn
<1>12. CASE Reserve(p)
  <2>1. Started(p) /\ p \notin Scans /\ UNCHANGED <<job, minute>>
    BY <1>1, <1>12 DEF Reserve, PlaceOn
  <2>2. PICK step \in {"drift", "failed", "reserve"} : Go(p, step)
    BY <1>12 DEF Reserve
  <2>3. CASE UNCHANGED work
    BY <2>1, <2>2, <2>3, KeptPlaces
  <2>4. CASE Save(p, [Result(p) EXCEPT !.id.n = @ + 1])
    BY <1>1, <2>1, <2>2, <2>4, SavedPlaces DEF PlaceOn
  <2> QED BY <1>12, <2>3, <2>4 DEF Reserve
<1>13. CASE CompareFolders(p)
  <2>1. Started(p) /\ p \notin Scans /\ UNCHANGED <<job, minute>>
    BY <1>1, <1>13 DEF CompareFolders, PlaceOn
  <2>2. PICK step \in {"publish"} :
          Go(p, step) /\ \E got : Save(p, [Result(p) EXCEPT !.plan = got.plan, !.findings = got.findings,
                                                        !.verdict = got.verdict])
    BY <1>13 DEF CompareFolders
  <2> QED BY <1>1, <2>1, <2>2, SavedPlaces DEF PlaceOn
<1>14. CASE WriteDrift(p) \/ DropDrift(p)
  <2>1. PICK step \in {"done", "publish", "failed"} : Go(p, step)
    BY <1>14 DEF WriteDrift, DropDrift
  <2>2. UNCHANGED <<job, work, minute>> /\ Started(p) /\ p \notin Scans
    BY <1>1, <1>14 DEF WriteDrift, DropDrift, PlaceOn
  <2> QED BY <2>1, <2>2, KeptPlaces
<1>15. CASE Crash(p)
  <2>1. Go(p, "crashed") /\ UNCHANGED <<job, work, minute>> /\ Started(p)
    BY <1>1, <1>15 DEF Crash, PlaceOn
  <2> QED BY <2>1, KeptPlaces
<1> QED BY <1>2, <1>3, <1>4, <1>5, <1>6, <1>7, <1>8, <1>9, <1>10, <1>11, <1>12, <1>13, <1>14, <1>15 DEF Step

\* A record that comes late changes the ledger, and what is known of the call.
Later(p) == [Result(p) EXCEPT !.pending = FALSE]

LEMMA LatePlaces ==
  ASSUME PlacesInv, NEW p \in Scanners, RecordLate(p)
  PROVE  /\ Turn(p) /\ PlaceOn(p)' /\ UNCHANGED pc /\ p \in Scans /\ Started(p) /\ Started(p)'
         /\ Result(p)' = Later(p) /\ DOMAIN Later(p) = DOMAIN Result(p)
         /\ \A f \in ResultFields \ {"pending"} : Result(p)'[f] = Result(p)[f]
         /\ ~ Result(p)'.pending
<1>1. /\ p \in Scans /\ Started(p) /\ UNCHANGED <<job, pc>> /\ work' = [work EXCEPT ![p] = <<Later(p)>>]
  BY DEF RecordLate, Save, Later, Started
<1>2. DOMAIN Result(p) = ResultFields /\ DOMAIN work = Scanners /\ PlaceOn(p)
  BY <1>1 DEF PlacesInv, PlaceOn
<1>3. /\ DOMAIN Later(p) = DOMAIN Result(p)
      /\ \A f \in ResultFields \ {"pending"} : Later(p)[f] = Result(p)[f]
      /\ ~ Later(p).pending
  BY <1>2 DEF Later, ResultFields
<1>4. Turn(p) /\ work'[p] = <<Later(p)>>
  BY <1>1, <1>2 DEF Turn, PlacesInv
<1>5. Result(p)' = Later(p) /\ Started(p)'
  BY <1>4 DEF Result, Started
<1>6. PlaceOn(p)'
  BY <1>1, <1>2, <1>3, <1>5 DEF PlaceOn, Scans, Scanners
<1> QED BY <1>1, <1>3, <1>4, <1>5, <1>6

LEMMA StartsPlaces == Init => PlacesInv
  BY ScanAssumption DEF Init, PlacesInv, PlaceOn, Steps, DriftSteps, Scanners, Started

LEMMA NextPlaces == PlacesInv /\ [Next]_vars => PlacesInv'
<1> SUFFICES ASSUME PlacesInv, [Next]_vars PROVE PlacesInv'
  OBVIOUS
<1>1. CASE \E p \in Scanners : Step(p) \/ Crash(p)
  BY <1>1, StepPlaces, TurnPlaces
<1>2. CASE UNCHANGED <<job, pc, work>> /\ minute' \in 0 .. MaxMinute
  BY <1>2 DEF PlacesInv, PlaceOn, Scanners, Scans, Started, Result
<1>3. CASE Tick
  BY <1>2, <1>3, ScanAssumption DEF Tick, PlacesInv
<1>4. CASE Refresh \/ Rebuild \/ UNCHANGED vars
  BY <1>2, <1>4 DEF Refresh, LoadReport, StatReport, Rebuild, vars, PlacesInv
<1>5. CASE \E p \in Scanners : RecordLate(p)
  BY <1>5, LatePlaces, TurnPlaces DEF RecordLate
<1> QED BY <1>1, <1>3, <1>4, <1>5 DEF Next

\* A scan starts with its plan.
LEMMA StepStarts ==
  ASSUME PlacesInv, NEW p \in Scans, ~Started(p), Step(p) \/ Crash(p), Started(p)'
  PROVE  Plan(p) /\ Result(p)' = NewResult(p)
<1>1. /\ pc[p] \in {"start", "refused"} /\ DOMAIN work = Scanners /\ p \in Scanners
      /\ job[p].program # "drift"
  BY DEF PlacesInv, PlaceOn, Scans
<1>2. CASE Plan(p)
  BY <1>1, <1>2 DEF Plan, Save, Result
<1> QED BY <1>1, <1>2
        DEF Step, Refuse, Run, Judge, ScanOutDir, WriteReference, TruncateReport, WriteReport, HashReport,
            AppendScanRecord, WriteSidecar, WriteCoverage, WritePage, LoadDrift, Reserve, CompareFolders,
            WriteDrift, DropDrift, Crash, Halted, Started

\* A scan keeps its id.
LEMMA StepKeeps ==
  ASSUME PlacesInv, NEW p \in Scans, Started(p), Step(p) \/ Crash(p)
  PROVE  Started(p)' /\ Result(p)'.id = Result(p).id
<1>1. /\ DOMAIN Result(p) = ResultFields /\ DOMAIN work = Scanners /\ p \in Scanners
      /\ pc[p] \notin DriftSteps \cup {"start"}
  BY DEF PlacesInv, PlaceOn, Scans
<1>2. CASE UNCHANGED work
  BY <1>2 DEF Result, Started
<1>3. ASSUME NEW r, Save(p, r), r.id = Result(p).id PROVE Started(p)' /\ Result(p)'.id = Result(p).id
  BY <1>1, <1>3 DEF Save, Result, Started
<1>4. CASE Run(p)
  <2>1. PICK ran : Save(p, [Result(p) EXCEPT !.ran = ran, !.gap = ran.own.gap])
    BY <1>4 DEF Run
  <2> QED BY <1>1, <1>3, <2>1 DEF ResultFields
<1>5. CASE Judge(p)
  <2>1. PICK got : Save(p, Covered([Result(p) EXCEPT !.findings = got.findings, !.rows = got.rows,
                                          !.verdict = got.verdict, !.baseline = got.baseline, !.ran = Unrun]))
    BY <1>5 DEF Judge
  <2> QED BY <1>1, <1>3, <2>1 DEF ResultFields, Covered
<1>6. CASE HashReport(p)
  <2>1. Save(p, [Result(p) EXCEPT !.digest = Digest(Here(p).report)])
    BY <1>6 DEF HashReport
  <2> QED BY <1>1, <1>3, <2>1 DEF ResultFields
<1>7. CASE AppendScanRecord(p)
  <2>1. PICK n, b, c : Save(p, [Result(p) EXCEPT !.seq = n, !.ledgerError = b, !.pending = c])
    BY <1>7 DEF AppendScanRecord, AppendReturns, AppendRaises, AppendLists, Outcome
  <2> QED BY <1>1, <1>3, <2>1 DEF ResultFields
<1> QED BY <1>1, <1>2, <1>4, <1>5, <1>6, <1>7
        DEF Step, Refuse, Plan, ScanOutDir, WriteReference, TruncateReport, WriteReport, WriteSidecar,
            WriteCoverage, WritePage, LoadDrift, Reserve, CompareFolders, WriteDrift, DropDrift, Crash, DriftSteps

\* A scan gives up the call that is to record it, and no other.
LEMMA StepGivesUp ==
  ASSUME PlacesInv, NEW p \in Scans, Started(p), Step(p) \/ Crash(p), Result(p)'.pending
  PROVE  pc[p] = "seal" \/ Result(p).pending
<1>1. /\ DOMAIN Result(p) = ResultFields /\ DOMAIN work = Scanners /\ p \in Scanners
      /\ pc[p] \notin DriftSteps \cup {"start"}
  BY DEF PlacesInv, PlaceOn, Scans
<1>2. CASE UNCHANGED work
  BY <1>2 DEF Result
<1>3. ASSUME NEW r, Save(p, r), r.pending = Result(p).pending PROVE Result(p).pending
  BY <1>1, <1>3 DEF Save, Result
<1>4. CASE Run(p)
  <2>1. PICK ran : Save(p, [Result(p) EXCEPT !.ran = ran, !.gap = ran.own.gap])
    BY <1>4 DEF Run
  <2> QED BY <1>1, <1>3, <2>1 DEF ResultFields
<1>5. CASE Judge(p)
  <2>1. PICK got : Save(p, Covered([Result(p) EXCEPT !.findings = got.findings, !.rows = got.rows,
                                          !.verdict = got.verdict, !.baseline = got.baseline, !.ran = Unrun]))
    BY <1>5 DEF Judge
  <2> QED BY <1>1, <1>3, <2>1 DEF ResultFields, Covered
<1>6. CASE HashReport(p)
  <2>1. Save(p, [Result(p) EXCEPT !.digest = Digest(Here(p).report)])
    BY <1>6 DEF HashReport
  <2> QED BY <1>1, <1>3, <2>1 DEF ResultFields
<1>7. CASE AppendScanRecord(p)
  BY <1>7 DEF AppendScanRecord
<1> QED BY <1>1, <1>2, <1>4, <1>5, <1>6, <1>7
        DEF Step, Refuse, Plan, ScanOutDir, WriteReference, TruncateReport, WriteReport, WriteSidecar,
            WriteCoverage, WritePage, LoadDrift, Reserve, CompareFolders, WriteDrift, DropDrift, Crash, DriftSteps

-----------------------------------------------------------------------------
(* What a step writes.                                                     *)

\* A file is written into the scan's directory; its time moves when the report does.
Fills(p, d) ==
  /\ Write(p, d) /\ UNCHANGED <<work, records>>
  /\ DOMAIN d = DOMAIN Empty
  /\ \/ d.report = Report(p) /\ d.mtime = Here(p).mtime /\ pc'[p] \in {"truncate"} \cup Opened
     \/ d.report.state \in {"partial", "whole"} /\ d.mtime = Here(p).mtime + 1 /\ pc[p] \in {"truncate", "report"}

LEMMA HereType ==
  ASSUME IdsInv, NEW p
  PROVE  DOMAIN Here(p) = DOMAIN Empty /\ Here(p).mtime \in Nat
  BY DEF IdsInv, Here, Directory, Empty

LEMMA StepFills ==
  ASSUME PlacesInv, IdsInv, NEW p \in Scanners, Step(p) \/ Crash(p)
  PROVE  \/ UNCHANGED disk
         \/ p \in Scans /\ Started(p) /\ \E d : Fills(p, d)
<1>1. /\ pc[p] \in {"reference", "truncate", "report", "sidecar", "coverage", "page"} => p \in Scans /\ Started(p)
      /\ DOMAIN pc = Scanners
  BY DEF PlacesInv, PlaceOn, DriftSteps
<1>2. CASE WriteReference(p)
  <2> DEFINE d == [Here(p) EXCEPT !.reference = <<ReferenceManifest(job[p].model[1], job[p].program = "corpus"
                                                       \/ "MODEL_PREDICT" \in job[p].model[1].caps)>>]
  <2>1. Write(p, d) /\ UNCHANGED <<work, records>> /\ pc'[p] = "truncate"
    BY <1>1, <1>2 DEF WriteReference, Go
  <2>2. DOMAIN d = DOMAIN Empty /\ d.report = Report(p) /\ d.mtime = Here(p).mtime
    BY HereType DEF Empty, Report
  <2>3. p \in Scans /\ Started(p)
    BY <1>1, <1>2 DEF WriteReference, DriftSteps
  <2> HIDE DEF d
  <2> QED BY <2>1, <2>2, <2>3 DEF Fills, Opened
<1>3. CASE TruncateReport(p)
  <2> DEFINE d == [Here(p) EXCEPT !.report = Partial, !.mtime = @ + 1]
  <2>1. Write(p, d) /\ UNCHANGED <<work, records>> /\ pc[p] = "truncate"
    BY <1>1, <1>3 DEF TruncateReport, Go
  <2>2. DOMAIN d = DOMAIN Empty /\ d.report.state \in {"partial", "whole"} /\ d.mtime = Here(p).mtime + 1
    BY HereType DEF Empty, Report, Partial, Whole
  <2>3. p \in Scans /\ Started(p)
    BY <1>1, <1>3 DEF TruncateReport, DriftSteps
  <2> HIDE DEF d
  <2> QED BY <2>1, <2>2, <2>3 DEF Fills, Opened
<1>4. CASE WriteReport(p)
  <2> DEFINE d == [Here(p) EXCEPT !.report = Whole(BuildReport(Result(p))), !.mtime = @ + 1]
  <2>1. Write(p, d) /\ UNCHANGED <<work, records>> /\ pc[p] = "report"
    BY <1>1, <1>4 DEF WriteReport, Go
  <2>2. DOMAIN d = DOMAIN Empty /\ d.report.state \in {"partial", "whole"} /\ d.mtime = Here(p).mtime + 1
    BY HereType DEF Empty, Report, Partial, Whole
  <2>3. p \in Scans /\ Started(p)
    BY <1>1, <1>4 DEF WriteReport, DriftSteps
  <2> HIDE DEF d
  <2> QED BY <2>1, <2>2, <2>3 DEF Fills, Opened
<1>5. CASE WriteSidecar(p)
  <2> DEFINE d == [Here(p) EXCEPT !.seal = <<WriteSealSidecar(Result(p), Here(p).report)>>]
  <2>1. Write(p, d) /\ UNCHANGED <<work, records>> /\ pc'[p] = "coverage"
    BY <1>1, <1>5 DEF WriteSidecar, Go
  <2>2. DOMAIN d = DOMAIN Empty /\ d.report = Report(p) /\ d.mtime = Here(p).mtime
    BY HereType DEF Empty, Report
  <2>3. p \in Scans /\ Started(p)
    BY <1>1, <1>5 DEF WriteSidecar, DriftSteps
  <2> HIDE DEF d
  <2> QED BY <2>1, <2>2, <2>3 DEF Fills, Opened
<1>6. CASE WriteCoverage(p)
  <2> DEFINE d == [Here(p) EXCEPT !.coverage = <<RenderMarkdown(Result(p))>>]
  <2>1. Write(p, d) /\ UNCHANGED <<work, records>> /\ pc'[p] = "page"
    BY <1>1, <1>6 DEF WriteCoverage, Go
  <2>2. DOMAIN d = DOMAIN Empty /\ d.report = Report(p) /\ d.mtime = Here(p).mtime
    BY HereType DEF Empty, Report
  <2>3. p \in Scans /\ Started(p)
    BY <1>1, <1>6 DEF WriteCoverage, DriftSteps
  <2> HIDE DEF d
  <2> QED BY <2>1, <2>2, <2>3 DEF Fills, Opened
<1>7. CASE WritePage(p)
  <2> DEFINE d == [Here(p) EXCEPT !.page = TRUE]
  <2>1. Write(p, d) /\ UNCHANGED <<work, records>> /\ pc'[p] = "done"
    BY <1>1, <1>7 DEF WritePage, Go
  <2>2. DOMAIN d = DOMAIN Empty /\ d.report = Report(p) /\ d.mtime = Here(p).mtime
    BY HereType DEF Empty, Report
  <2>3. p \in Scans /\ Started(p)
    BY <1>1, <1>7 DEF WritePage, DriftSteps
  <2> HIDE DEF d
  <2> QED BY <2>1, <2>2, <2>3 DEF Fills, Opened
<1> QED BY <1>2, <1>3, <1>4, <1>5, <1>6, <1>7
        DEF Step, Refuse, Plan, Run, Judge, ScanOutDir, HashReport, AppendScanRecord,
            LoadDrift, Reserve, CompareFolders, WriteDrift, DropDrift, Crash

\* Such a write sets one entry of the disk.
LEMMA Filled ==
  ASSUME NEW p, NEW d, Fills(p, d)
  PROVE  /\ DOMAIN disk' = DOMAIN disk \cup {Result(p).id}
         /\ disk'[Result(p).id] = d
         /\ \A id \in DOMAIN disk \ {Result(p).id} : disk'[id] = disk[id]
         /\ Result(p)' = Result(p) /\ Here(p)' = d
<1>1. disk' = Put(disk, Result(p).id, d) /\ work' = work
  BY DEF Fills, Write
<1>2. /\ DOMAIN disk' = DOMAIN disk \cup {Result(p).id}
      /\ disk'[Result(p).id] = d
      /\ \A id \in DOMAIN disk \ {Result(p).id} : disk'[id] = disk[id]
  BY <1>1 DEF Put
<1>3. Result(p)' = Result(p)
  BY <1>1 DEF Result
<1>4. Here(p)' = d
  BY <1>2, <1>3 DEF Here, Directory
<1> QED BY <1>2, <1>3, <1>4

\* Nothing disappears from the disk, and a report whose time is the same is the same.
DiskGrows ==
  \A id \in DOMAIN disk :
    /\ id \in DOMAIN disk'
    /\ disk'[id].mtime \in Nat /\ disk[id].mtime <= disk'[id].mtime
    /\ disk[id].mtime = disk'[id].mtime => disk'[id].report = disk[id].report
    /\ disk[id].report # Absent => disk'[id].report # Absent

LEMMA StepGrows ==
  ASSUME PlacesInv, IdsInv, NEW p \in Scanners, Step(p) \/ Crash(p)
  PROVE  DiskGrows
<1>1. CASE UNCHANGED disk
  BY <1>1 DEF IdsInv, DiskGrows
<1>2. ASSUME NEW d, Fills(p, d) PROVE DiskGrows
  <2> SUFFICES ASSUME NEW id \in DOMAIN disk
               PROVE  /\ id \in DOMAIN disk'
                      /\ disk'[id].mtime \in Nat /\ disk[id].mtime <= disk'[id].mtime
                      /\ disk[id].mtime = disk'[id].mtime => disk'[id].report = disk[id].report
                      /\ disk[id].report # Absent => disk'[id].report # Absent
    BY DEF DiskGrows
  <2>1. id \in DOMAIN disk' /\ disk'[id] = IF id = Result(p).id THEN d ELSE disk[id]
    BY <1>2, Filled
  <2>2. disk[id].mtime \in Nat /\ (id = Result(p).id => disk[id] = Here(p))
    BY DEF Here, Directory, IdsInv
  <2>3. Absent.state = "absent"
    BY DEF Absent
  <2>4. CASE id # Result(p).id
    BY <2>1, <2>2, <2>4
  <2>5. CASE id = Result(p).id /\ d.report = Report(p) /\ d.mtime = Here(p).mtime
    BY <2>1, <2>2, <2>5 DEF Report
  <2>6. CASE id = Result(p).id /\ d.report.state \in {"partial", "whole"} /\ d.mtime = Here(p).mtime + 1
    BY <2>1, <2>2, <2>3, <2>6
  <2> QED BY <1>2, <2>4, <2>5, <2>6 DEF Fills
<1> QED BY <1>1, <1>2, StepFills

-----------------------------------------------------------------------------
(* Where the directories stay.                                             *)

\* A new result has an id of the scan's.
LEMMA NewIds ==
  ASSUME PlacesInv, NEW p \in Scans
  PROVE  NewResult(p).id \in Ids
<1>1. p \in Scanners /\ job \in Assignments /\ minute \in 0 .. MaxMinute
  BY DEF PlacesInv, Scans
<1>2. job[p].program = "corpus" => job[p].model # <<>>
  BY <1>1, ScanAssumption DEF Scanners
<1>3. NewResult(p).id = IF job[p].program = "corpus" THEN CorpusId(job[p])
                        ELSE IF ResolveProfile(job[p].profile, job[p].tier)[1].selftest
                             THEN SelftestScanId(job[p].seed) ELSE NewScanId
  BY DEF NewResult
<1>4. NewScanId \in [day : {0}, n : 0 .. MaxMinute]
  BY <1>1 DEF NewScanId
<1> HIDE DEF CorpusId, SelftestScanId
<1> QED BY <1>1, <1>2, <1>3, <1>4 DEF Ids

\* The report is open from when it is truncated.
LEMMA StepOpens ==
  ASSUME PlacesInv, NEW p \in Scans, Step(p) \/ Crash(p), pc'[p] \in Opened
  PROVE  pc[p] \in Opened \/ TruncateReport(p)
<1>1. p \in Scanners /\ DOMAIN pc = Scanners /\ pc[p] \notin DriftSteps
  BY DEF PlacesInv, PlaceOn, Scans
<1>2. \A step : Go(p, step) => pc'[p] = step
  BY <1>1 DEF Go
<1> QED BY <1>1, <1>2
        DEF Step, Refuse, Plan, Run, Judge, ScanOutDir, WriteReference, WriteReport, HashReport, AppendScanRecord,
            WriteSidecar, WriteCoverage, WritePage, LoadDrift, Reserve, CompareFolders, WriteDrift, DropDrift, Crash,
            DriftSteps, Opened

\* Only a scan that has its report's hash appends a record.
Appends(p) ==
  /\ p \in Scans /\ Started(p)
  /\ pc[p] = "seal" \/ Result(p).pending
  /\ records' = Append(records, ScanRecord(Result(p), Result(p).digest))

LEMMA StepAppends ==
  ASSUME PlacesInv, NEW p \in Scanners, Step(p) \/ Crash(p)
  PROVE  UNCHANGED records \/ Appends(p)
<1>1. pc[p] = "seal" => p \in Scans /\ Started(p)
  BY DEF PlacesInv, PlaceOn, DriftSteps
<1> QED BY <1>1
        DEF Step, Refuse, Plan, Run, Judge, ScanOutDir, WriteReference, TruncateReport, WriteReport, HashReport,
            AppendScanRecord, AppendReturns, AppendRaises, AppendLists, Binds, WriteSidecar, WriteCoverage, WritePage,
            LoadDrift, Reserve, CompareFolders, WriteDrift, DropDrift, Crash, Appends

\* What a sequence holds after one element was appended.
LEMMA AppendOne ==
  ASSUME NEW s, Len(s) \in Nat, s = [i \in 1 .. Len(s) |-> s[i]], NEW e
  PROVE  LET t == Append(s, e)
         IN  /\ Len(t) = Len(s) + 1 /\ t = [i \in 1 .. Len(t) |-> t[i]]
             /\ t[Len(t)] = e
             /\ \A i \in DOMAIN s : t[i] = s[i]
             /\ DOMAIN s = 1 .. Len(s) /\ DOMAIN t = DOMAIN s \cup {Len(t)}
<1> DEFINE S == {s[i] : i \in 1 .. Len(s)} \cup {e}
<1>1. s \in Seq(S)
  BY SeqDef
<1> HIDE DEF S
<1>2. e \in S
  BY DEF S
<1> DEFINE t == Append(s, e)
<1>3. t \in Seq(S) /\ Len(t) = Len(s) + 1 /\ t[Len(s) + 1] = e /\ \A i \in 1 .. Len(s) : t[i] = s[i]
  BY <1>1, <1>2, AppendProperties
<1>4. DOMAIN s = 1 .. Len(s) /\ DOMAIN t = 1 .. Len(t) /\ t = [i \in 1 .. Len(t) |-> t[i]]
  BY <1>1, <1>3, LenProperties
<1> HIDE DEF t
<1>5. 1 .. Len(t) = 1 .. Len(s) \cup {Len(t)}
  BY <1>3
<1> QED BY <1>3, <1>4, <1>5 DEF t

LEMMA StepIds ==
  ASSUME PlacesInv, IdsInv, NEW p \in Scanners, Step(p) \/ Crash(p)
  PROVE  IdsInv'
<1>1. /\ Turn(p) /\ PlacesInv' /\ DiskGrows
      /\ Scans' = Scans /\ Ids' = Ids /\ Scans \subseteq Scanners
  BY StepPlaces, TurnPlaces, StepGrows DEF Turn, Scans, Scanners, Ids
<1>2. ASSUME NEW q \in Scans, Started(q) PROVE Started(q)' /\ Result(q)'.id = Result(q).id
  BY <1>1, <1>2, StepKeeps DEF Turn, Started, Result
<1>3. ASSUME NEW q \in Scans, Started(q)' PROVE Result(q)'.id \in Ids
  <2>1. CASE Started(q)
    BY <1>2, <1>3, <2>1 DEF IdsInv
  <2>2. CASE ~ Started(q)
    BY <1>1, <1>3, <2>2, StepStarts, NewIds DEF Turn, Started
  <2> QED BY <2>1, <2>2
<1>4. ASSUME NEW id \in DOMAIN disk' PROVE \E q \in Scans : Started(q)' /\ Result(q)'.id = id
  <2>1. CASE id \in DOMAIN disk
    BY <1>2, <2>1 DEF IdsInv
  <2>2. CASE id \notin DOMAIN disk
    <3>1. PICK d : p \in Scans /\ Started(p) /\ Fills(p, d)
      BY <1>4, <2>2, StepFills
    <3>2. id = Result(p).id
      BY <1>4, <2>2, <3>1, Filled
    <3> QED BY <1>2, <3>1, <3>2
  <2> QED BY <2>1, <2>2
<1>5. ASSUME NEW id \in DOMAIN disk' PROVE DOMAIN disk'[id] = DOMAIN Empty /\ disk'[id].mtime \in Nat
  <2>1. CASE UNCHANGED disk
    BY <1>5, <2>1 DEF IdsInv
  <2>2. ASSUME NEW d, Fills(p, d) PROVE DOMAIN disk'[id] = DOMAIN Empty /\ disk'[id].mtime \in Nat
    <3>1. DOMAIN d = DOMAIN Empty /\ d.mtime \in Nat
      BY <2>2, HereType DEF Fills
    <3>2. CASE id = Result(p).id
      BY <2>2, <3>1, <3>2, Filled
    <3>3. CASE id # Result(p).id
      <4>1. id \in DOMAIN disk /\ disk'[id] = disk[id]
        BY <1>5, <2>2, <3>3, Filled
      <4> QED BY <4>1 DEF IdsInv
    <3> QED BY <3>2, <3>3
  <2> QED BY <2>1, <2>2, StepFills
<1>6. ASSUME NEW q \in Scans, pc'[q] \in Opened PROVE Result(q)'.id \in DOMAIN disk'
  <2>1. CASE pc[q] \in Opened
    <3>1. Started(q)
      BY <1>1, <2>1 DEF PlacesInv, PlaceOn, Opened
    <3> QED BY <1>1, <1>2, <2>1, <3>1 DEF IdsInv, DiskGrows
  <2>2. CASE pc[q] \notin Opened
    <3>1. q = p /\ TruncateReport(p)
      BY <1>1, <1>6, <2>2, StepOpens DEF Turn
    <3>2. Result(p)' = Result(p) /\ \E d : disk' = Put(disk, Result(p).id, d)
      BY <3>1 DEF TruncateReport, Write, Result
    <3> QED BY <3>1, <3>2 DEF Put
  <2> QED BY <2>1, <2>2
<1>8. ASSUME NEW q \in Scans, Started(q)', Result(q)'.pending PROVE Result(q)'.id \in DOMAIN disk'
  <2>1. CASE ~ Started(q)
    <3>1. Result(q)' = NewResult(q)
      BY <1>1, <1>8, <2>1, StepStarts DEF Turn, Started
    <3> QED BY <1>8, <3>1, NewFields
  <2>2. CASE Started(q)
    <3>1. pc[q] = "seal" \/ Result(q).pending
      BY <1>1, <1>8, <2>2, StepGivesUp DEF Turn, Result
    <3> QED BY <1>1, <1>2, <2>2, <3>1 DEF IdsInv, DiskGrows, Opened
  <2> QED BY <2>1, <2>2
<1>7. /\ Len(records') \in Nat /\ records' = [i \in 1 .. Len(records') |-> records'[i]]
      /\ \A i \in DOMAIN records' : records'[i].scan \in DOMAIN disk'
  <2>1. CASE UNCHANGED records
    BY <1>1, <2>1 DEF IdsInv, DiskGrows
  <2>2. CASE Appends(p)
    <3>1. ScanRecord(Result(p), Result(p).digest).scan \in DOMAIN disk
      BY <2>2 DEF Appends, IdsInv, ScanRecord, Opened
    <3> HIDE DEF ScanRecord
    <3> QED BY <1>1, <2>2, <3>1, AppendOne DEF Appends, IdsInv, DiskGrows
  <2> QED BY <2>1, <2>2, StepAppends
<1> QED BY <1>1, <1>3, <1>4, <1>5, <1>6, <1>7, <1>8 DEF IdsInv

\* A late record names a directory.
LEMMA LateIds ==
  ASSUME PlacesInv, IdsInv, NEW p \in Scanners, RecordLate(p)
  PROVE  IdsInv'
<1>1. /\ Turn(p) /\ UNCHANGED <<pc, disk, minute>> /\ Scans' = Scans /\ Ids' = Ids /\ Appends(p)
      /\ Result(p)'.id = Result(p).id /\ ~ Result(p)'.pending /\ Scans \subseteq Scanners
  BY LatePlaces DEF RecordLate, Turn, Scans, Scanners, Ids, Appends, Binds, ResultFields
<1>2. ASSUME NEW q \in Scans
      PROVE  /\ Started(q)' <=> Started(q)
             /\ Result(q)'.id = Result(q).id /\ (Result(q)'.pending => Result(q).pending)
  <2>1. CASE q = p
    BY <1>1, <2>1, LatePlaces
  <2>2. CASE q # p
    BY <1>1, <2>2 DEF Turn, Started, Result
  <2> QED BY <2>1, <2>2
<1>3. Len(records') \in Nat /\ records' = [i \in 1 .. Len(records') |-> records'[i]]
      /\ \A i \in DOMAIN records' : records'[i].scan \in DOMAIN disk
  <2>1. ScanRecord(Result(p), Result(p).digest).scan \in DOMAIN disk
    BY <1>1 DEF Appends, IdsInv, ScanRecord, Opened
  <2> HIDE DEF ScanRecord
  <2> QED BY <1>1, <2>1, AppendOne DEF Appends, IdsInv
<1>4. \A q \in Scans : pc[q] \in Opened => Result(q)'.id \in DOMAIN disk
  <2>1. \A q \in Scans : pc[q] \in Opened => Started(q)
    BY <1>1 DEF PlacesInv, PlaceOn, Opened
  <2> QED BY <1>2, <2>1 DEF IdsInv
<1> QED BY <1>1, <1>2, <1>3, <1>4 DEF IdsInv

\* The rest of a step's view: what only the dashboard and the clock move.
LEMMA OtherIds ==
  ASSUME IdsInv, UNCHANGED <<job, pc, work, disk, records>>
  PROVE  IdsInv'
<1>1. Scans' = Scans /\ Ids' = Ids
  BY DEF Scans, Scanners, Ids
<1> QED BY <1>1 DEF IdsInv, Started, Result

-----------------------------------------------------------------------------
(* What the dashboard has read.                                            *)

LEMMA IndexKept ==
  ASSUME IdsInv, IndexInv, DiskGrows, UNCHANGED <<index, look>>
  PROVE  IndexInv'
<1>1. \A id \in Discovered : id \in Discovered' /\ id \in DOMAIN disk
  BY DEF Discovered, DiskGrows
<1>2. ASSUME NEW id \in DOMAIN index
      PROVE  /\ id \in Discovered'
             /\ index[id].mtime <= disk'[id].mtime /\ index[id].mtime \in Nat
             /\ index[id].mtime = disk'[id].mtime => ReadOn(id, index[id])'
  <2>1. /\ id \in Discovered /\ id \in DOMAIN disk
        /\ index[id].mtime <= disk[id].mtime /\ index[id].mtime \in Nat
        /\ index[id].mtime = disk[id].mtime => ReadOn(id, index[id])
        /\ disk[id].mtime \in Nat
    BY <1>1, <1>2 DEF IndexInv, IdsInv
  <2>2. /\ disk'[id].mtime \in Nat /\ disk[id].mtime <= disk'[id].mtime
        /\ disk[id].mtime = disk'[id].mtime => disk'[id].report = disk[id].report
    BY <2>1 DEF DiskGrows
  <2>3. index[id].mtime = disk'[id].mtime => disk[id].mtime = disk'[id].mtime
    BY <2>1, <2>2
  <2>4. index[id].mtime = disk'[id].mtime => ReadOn(id, index[id])'
    BY <2>1, <2>2, <2>3 DEF ReadOn
  <2> QED BY <1>1, <2>1, <2>2, <2>4
<1>3. look # <<>> => /\ look = <<look[1]>> /\ look[1].id \in Discovered'
                     /\ look[1].mtime \in Nat /\ look[1].mtime <= disk'[look[1].id].mtime
  BY <1>1 DEF IndexInv, IdsInv, DiskGrows
<1> QED BY <1>2, <1>3 DEF IndexInv

\* A row that has been read anew.
LEMMA IndexRead ==
  ASSUME IdsInv, IndexInv, LoadReport
  PROVE  IndexInv'
<1> DEFINE id == look[1].id
           m == look[1].mtime
           got == Load(disk[id].report)
           row == IF got = <<>> THEN UpsertUnreadable(m) ELSE Upsert(got[1], m)
<1>1. /\ index' = Put(index, id, row) /\ look' = <<>> /\ UNCHANGED disk
      /\ id \in Discovered /\ m \in Nat /\ m <= disk[id].mtime
  BY DEF LoadReport, IndexInv
<1>2. row.mtime = m
  BY DEF Upsert, UpsertUnreadable
<1>3. m = disk[id].mtime => ReadOn(id, row)
  BY DEF ReadOn
<1> HIDE DEF row, id, m
<1>4. DOMAIN index' = DOMAIN index \cup {id} /\ index'[id] = row
      /\ \A i \in DOMAIN index \ {id} : index'[i] = index[i]
  BY <1>1 DEF Put
<1>5. Discovered' = Discovered
  BY <1>1 DEF Discovered
<1>6. ASSUME NEW i \in DOMAIN index'
      PROVE  /\ i \in Discovered
             /\ index'[i].mtime <= disk[i].mtime /\ index'[i].mtime \in Nat
             /\ index'[i].mtime = disk[i].mtime => ReadOn(i, index'[i])
  <2>1. CASE i = id
    BY <1>1, <1>2, <1>3, <1>4, <2>1
  <2>2. CASE i # id
    BY <1>4, <1>6, <2>2 DEF IndexInv
  <2> QED BY <2>1, <2>2
<1> QED BY <1>1, <1>5, <1>6 DEF IndexInv, ReadOn

LEMMA OtherIndex ==
  ASSUME IdsInv, IndexInv, UNCHANGED disk, Rebuild \/ \E id \in Discovered : StatReport(id)
  PROVE  IndexInv'
<1>1. Discovered' = Discovered
  BY DEF Discovered
<1>2. CASE Rebuild
  BY <1>1, <1>2 DEF Rebuild, IndexInv
<1>3. ASSUME NEW id \in Discovered, StatReport(id) PROVE IndexInv'
  <2>1. /\ look' = <<[id |-> id, mtime |-> disk[id].mtime]>> /\ UNCHANGED index
        /\ disk[id].mtime \in Nat
    BY <1>3 DEF StatReport, IdsInv, Discovered
  <2> QED BY <1>1, <1>3, <2>1 DEF IndexInv, ReadOn
<1> QED BY <1>2, <1>3

-----------------------------------------------------------------------------
(* What a scan seals.                                                      *)

\* A record that is appended seals one id.
LEMMA RecordsGrow ==
  ASSUME IdsInv, NEW p, Appends(p), NEW id
  PROVE  /\ \A i \in ScanRecordsFor(records, id) : records'[i] = records[i]
         /\ ScanRecordsFor(records', id) =
              IF id = Result(p).id THEN ScanRecordsFor(records, id) \cup {Len(records')}
              ELSE ScanRecordsFor(records, id)
         /\ records'[Len(records')].digest = Result(p).digest
<1> DEFINE e == ScanRecord(Result(p), Result(p).digest)
<1>1. e.type = "scan_record" /\ e.scan = Result(p).id /\ e.digest = Result(p).digest
  BY DEF ScanRecord
<1> HIDE DEF e
<1>2. /\ DOMAIN records' = DOMAIN records \cup {Len(records')} /\ Len(records') \notin DOMAIN records
      /\ records'[Len(records')] = e
      /\ \A i \in DOMAIN records : records'[i] = records[i]
  <2>1. records' = Append(records, e) /\ Len(records) \in Nat /\ records = [i \in 1 .. Len(records) |-> records[i]]
    BY DEF Appends, IdsInv, e
  <2> QED BY <2>1, AppendOne
<1> QED BY <1>1, <1>2 DEF ScanRecordsFor

\* No record names an id that no scan has.
LEMMA NoRecords ==
  ASSUME PlacesInv, IdsInv, NEW p \in Scans, ~Started(p), NEW id,
         \A q \in Scans \ {p} : Started(q) => Result(q).id # id
  PROVE  ScanRecordsFor(records, id) = {}
  BY DEF IdsInv, ScanRecordsFor

\* A step of another scanner does not touch a scan that is alone.
LEMMA OtherSeal ==
  ASSUME PlacesInv, IdsInv, NEW p \in Scanners, Step(p) \/ Crash(p) \/ RecordLate(p),
         NEW q \in Scans, q # p, Started(q), Alone(q), SealOn(q)
  PROVE  SealOn(q)'
<1>1. Turn(p) /\ pc'[q] = pc[q] /\ Result(q)' = Result(q)
  BY StepPlaces, LatePlaces DEF Turn, Result, Scans
<1>2. p \in Scans /\ Started(p) => Result(p).id # Result(q).id
  BY DEF Alone
<1>3. Here(q)' = Here(q)
  <2>1. CASE UNCHANGED disk
    BY <1>1, <2>1 DEF Here, Directory
  <2>2. ASSUME NEW d, Fills(p, d), p \in Scans, Started(p) PROVE Here(q)' = Here(q)
    BY <1>1, <1>2, <2>2, Filled DEF Here, Directory
  <2> QED BY <2>1, <2>2, StepFills DEF RecordLate
<1>4. Records(q)' = Records(q) /\ \A i \in Records(q) : records'[i] = records[i]
  <2>1. CASE UNCHANGED records
    BY <1>1, <2>1 DEF Records
  <2>2. CASE Appends(p)
    <3>1. Result(p).id # Result(q).id
      BY <1>2, <2>2 DEF Appends
    <3> QED BY <1>1, <2>2, <3>1, RecordsGrow DEF Records
  <2>3. RecordLate(p) => Appends(p)
    BY DEF RecordLate, Appends, Binds, Started
  <2> QED BY <2>1, <2>2, <2>3, StepAppends
<1>5. job' = job
  BY <1>1 DEF Turn
<1> QED BY <1>1, <1>3, <1>4, <1>5 DEF SealOn, Ready, Report

\* A scan that starts has sealed nothing.
LEMMA NewSeal ==
  ASSUME PlacesInv, IdsInv, NEW p \in Scans, ~Started(p), Step(p) \/ Crash(p), Started(p)', Alone(p)'
  PROVE  SealOn(p)'
<1>1. Plan(p) /\ Turn(p) /\ p \in Scanners
  BY StepStarts, StepPlaces DEF Scans
<1>2. pc'[p] \in {"dry run", "checks"}
  BY <1>1 DEF Plan, Go, PlacesInv
<1>3. \A q \in Scans \ {p} : Started(q) => Result(q).id # Result(p)'.id
  BY <1>1 DEF Alone, Turn, Started, Result, Scans, Scanners
<1>4. UNCHANGED records
  BY <1>1 DEF Plan
<1>5. Records(p)' = {}
  BY <1>3, <1>4, NoRecords DEF Records
<1>6. ~ Result(p)'.pending
  <2>1. Result(p)' = NewResult(p)
    BY StepStarts
  <2> QED BY <2>1, NewFields
<1> QED BY <1>2, <1>5, <1>6 DEF SealOn, Complete, Recorded, Described

\* A scan's own steps.
LEMMA OwnSeal ==
  ASSUME PlacesInv, IdsInv, NEW p \in Scans, Started(p), SealOn(p), Step(p) \/ Crash(p)
  PROVE  SealOn(p)'
<1>1. /\ Turn(p) /\ Result(p)'.id = Result(p).id /\ p \in Scanners
      /\ pc[p] \notin DriftSteps \cup {"start", "refused"}
      /\ \A step : Go(p, step) => pc'[p] = step
  BY StepPlaces, StepKeeps DEF Scans, PlacesInv, PlaceOn, Go
<1>2. job' = job
  BY <1>1 DEF Turn
<1>3. DOMAIN Result(p) = ResultFields /\ \A r : Save(p, r) => Result(p)' = r
  BY <1>1 DEF PlacesInv, PlaceOn, Save, Result
<1> DEFINE Places == {"hash"} \cup Complete
<1>4. ASSUME UNCHANGED <<disk, records>>, pc'[p] \notin Places, pc'[p] \in Unsealed => pc[p] \in Unsealed,
             UNCHANGED work \/ (pc[p] \in Unsealed /\ Result(p)'.pending = Result(p).pending)
      PROVE  SealOn(p)'
  <2>1. Report(p)' = Report(p) /\ Records(p)' = Records(p) /\ Ready(p)' = Ready(p)
    BY <1>1, <1>4 DEF Report, Here, Directory, Records, Ready
  <2>2. Result(p)'.pending => Result(p)' = Result(p)
    BY <1>4 DEF SealOn, Result
  <2>3. Result(p)'.pending = Result(p).pending
    BY <1>4 DEF Result
  <2> QED BY <1>1, <1>2, <1>4, <2>1, <2>2, <2>3 DEF SealOn, Complete, Recorded, Described
<1>5. CASE Run(p) \/ Judge(p) \/ ScanOutDir(p) \/ Crash(p)
  <2>1. PICK step \in {"failed", "assess", "reference", "directory", "truncate", "crashed"} : Go(p, step)
    BY <1>5 DEF Run, Judge, ScanOutDir, Crash
  <2>2. UNCHANGED <<disk, records>> /\ (pc[p] \in {"checks", "assess", "directory"} \/ pc'[p] = "crashed")
    BY <1>1, <1>5 DEF Run, Judge, ScanOutDir, Crash
  <2>3. UNCHANGED work \/ (pc[p] \in Unsealed /\ Result(p)'.pending = Result(p).pending)
    BY <1>3, <1>5 DEF Run, Judge, ScanOutDir, Crash, Covered, ResultFields, Unsealed
  <2> QED BY <1>1, <1>4, <2>1, <2>2, <2>3 DEF Unsealed, Complete
<1>6. CASE WriteReference(p) \/ TruncateReport(p)
  <2>1. pc'[p] \in {"truncate", "report"} /\ pc[p] \in Unsealed /\ UNCHANGED <<work, records>>
    BY <1>1, <1>6 DEF WriteReference, TruncateReport, Unsealed
  <2>2. Records(p)' = {} /\ ~ Result(p)'.pending
    BY <2>1 DEF SealOn, Records, Result
  <2> QED BY <2>1, <2>2 DEF SealOn, Complete, Recorded, Described
<1>7. CASE WriteReport(p)
  <2> DEFINE d == [Here(p) EXCEPT !.report = Whole(BuildReport(Result(p))), !.mtime = @ + 1]
  <2>1. pc'[p] = "hash" /\ pc[p] \in Unsealed /\ UNCHANGED <<work, records>> /\ Write(p, d)
    BY <1>1, <1>7 DEF WriteReport, Unsealed
  <2>2. d.report.state = "whole" /\ d.report.report.scan = Result(p).id
    BY HereType DEF Empty, Whole, BuildReport
  <2>3. Here(p)' = d
    BY <2>1 DEF Write, Put, Here, Directory, Result
  <2>4. Records(p)' = {} /\ ~ Result(p)'.pending
    BY <2>1 DEF SealOn, Records, Result
  <2> HIDE DEF d
  <2> QED BY <1>1, <2>1, <2>2, <2>3, <2>4 DEF SealOn, Ready, Report, Complete, Recorded, Described
<1>8. CASE HashReport(p)
  <2>1. pc'[p] = "seal" /\ pc[p] = "hash" /\ UNCHANGED <<disk, records>> /\ Result(p)'.digest = Digest(Report(p))
    BY <1>1, <1>3, <1>8 DEF HashReport, Report, ResultFields
  <2>2. Report(p)' = Report(p) /\ Records(p)' = Records(p) /\ Ready(p)' = Ready(p)
    BY <1>1, <2>1 DEF Report, Here, Directory, Records, Ready
  <2>3. ~ Result(p)'.pending /\ Records(p) = {}
    BY <1>3, <1>8, <2>1 DEF HashReport, ResultFields, SealOn, Unsealed
  <2> QED BY <1>1, <2>1, <2>2, <2>3 DEF SealOn, Unsealed, Complete, Recorded, Described
<1>9. CASE AppendScanRecord(p)
  <2>1. pc'[p] = "sidecar" /\ pc[p] = "seal" /\ UNCHANGED disk
    BY <1>1, <1>9 DEF AppendScanRecord
  <2>2. /\ Report(p)' = Report(p) /\ Ready(p)' = Ready(p) /\ Ready(p)
        /\ Records(p) = {} /\ Result(p).digest = Digest(Report(p))
    BY <1>1, <2>1 DEF Report, Ready, Here, Directory, SealOn, Unsealed, Complete
  <2>3. ASSUME NEW n, NEW b, NEW c, Outcome(p, n, b, c)
        PROVE  /\ Result(p)'.seq = n /\ Result(p)'.ledgerError = b /\ Result(p)'.pending = c
               /\ Result(p)'.digest = Result(p).digest
    BY <1>3, <2>3 DEF Outcome, ResultFields
  <2>4. CASE AppendReturns(p)
    <3>1. Appends(p) /\ job[p].ledger = "socket"
      BY <2>1, <2>4 DEF AppendReturns, Appends, Binds
    <3>2. Records(p)' = {Len(records')} /\ records'[Len(records')].digest = Digest(Report(p))
      BY <1>1, <2>2, <3>1, RecordsGrow DEF Records
    <3>3. ~ Result(p)'.pending
      BY <2>3, <2>4 DEF AppendReturns
    <3> QED BY <1>1, <1>2, <2>1, <2>2, <3>1, <3>2, <3>3 DEF SealOn, Unsealed, Complete, Recorded, Described
  <2>5. CASE AppendRaises(p)
    <3>1. Result(p)'.ledgerError /\ (Result(p)'.pending => job[p].ledger = "socket")
          /\ Result(p)'.digest = Result(p).digest
      BY <2>3, <2>5 DEF AppendRaises
    <3>2. Records(p)' = {}
      BY <1>1, <2>2, <2>5 DEF AppendRaises, Records
    <3> QED BY <1>1, <1>2, <2>1, <2>2, <3>1, <3>2 DEF SealOn, Unsealed, Complete, Recorded, Described
  <2>6. CASE AppendLists(p)
    <3>1. ~ Result(p)'.pending /\ job[p].ledger # "socket"
      BY <2>3, <2>6 DEF AppendLists
    <3>2. Records(p)' = {}
      BY <1>1, <2>2, <2>6 DEF AppendLists, Records
    <3> QED BY <1>1, <1>2, <2>1, <2>2, <3>1, <3>2 DEF SealOn, Unsealed, Complete, Recorded, Described
  <2> QED BY <1>9, <2>4, <2>5, <2>6 DEF AppendScanRecord
<1>10. CASE WriteSidecar(p)
  <2> DEFINE d == [Here(p) EXCEPT !.seal = <<WriteSealSidecar(Result(p), Here(p).report)>>]
  <2>1. pc'[p] = "coverage" /\ pc[p] = "sidecar" /\ UNCHANGED <<work, records>> /\ Write(p, d)
    BY <1>1, <1>10 DEF WriteSidecar
  <2>2. /\ d.report = Report(p) /\ d.seal[1].digest = Digest(Report(p))
        /\ d.seal[1].sealed = (Result(p).seq # 0 /\ ~Result(p).ledgerError)
    BY HereType DEF Empty, WriteSealSidecar, Report
  <2>3. Here(p)' = d
    BY <2>1 DEF Write, Put, Here, Directory, Result
  <2> HIDE DEF d
  <2>4. Result(p)' = Result(p) /\ Records(p)' = Records(p) /\ Report(p)' = Report(p) /\ Ready(p)' = Ready(p)
    BY <2>1, <2>2, <2>3 DEF Result, Records, Report, Ready
  <2> QED BY <1>1, <1>2, <2>1, <2>2, <2>3, <2>4 DEF SealOn, Unsealed, Complete, Recorded, Described
<1>11. CASE WriteCoverage(p) \/ WritePage(p)
  <2>1. PICK d : /\ Write(p, d) /\ d.report = Report(p) /\ d.seal = Here(p).seal
                 /\ UNCHANGED <<work, records>>
                 /\ pc[p] \in {"coverage", "page"} /\ pc'[p] \in {"page", "done"}
    BY <1>1, <1>11, HereType DEF WriteCoverage, WritePage, Report, Empty
  <2>2. Here(p)' = d
    BY <2>1 DEF Write, Put, Here, Directory, Result
  <2>3. /\ Result(p)' = Result(p) /\ Records(p)' = Records(p) /\ Report(p)' = Report(p) /\ Ready(p)' = Ready(p)
        /\ Here(p)'.seal = Here(p).seal
    BY <2>1, <2>2 DEF Result, Records, Report, Ready
  <2> QED BY <1>1, <1>2, <2>1, <2>3 DEF SealOn, Unsealed, Complete, Recorded, Described
<1> QED BY <1>1, <1>5, <1>6, <1>7, <1>8, <1>9, <1>10, <1>11
        DEF Step, Refuse, Plan, LoadDrift, Reserve, CompareFolders, WriteDrift, DropDrift, DriftSteps

\* A record that came late is the one the scan asked for.
LEMMA OwnLate ==
  ASSUME PlacesInv, IdsInv, NEW p \in Scans, SealOn(p), RecordLate(p)
  PROVE  SealOn(p)'
<1>1. /\ p \in Scanners /\ Appends(p) /\ Result(p).pending /\ UNCHANGED <<job, pc, disk>>
  BY DEF RecordLate, Appends, Binds, Started, Scans
<1>2. /\ \A f \in ResultFields \ {"pending"} : Result(p)'[f] = Result(p)[f]
      /\ ~ Result(p)'.pending
  BY <1>1, LatePlaces
<1>3. /\ Result(p)'.id = Result(p).id /\ Result(p)'.seq = Result(p).seq
      /\ Result(p)'.ledgerError = Result(p).ledgerError
  BY <1>2 DEF ResultFields
<1>4. Here(p)' = Here(p) /\ Report(p)' = Report(p) /\ Ready(p)' = Ready(p)
  BY <1>1, <1>3 DEF Here, Directory, Report, Ready
<1>5. Records(p) = {} /\ Ready(p) /\ Result(p).digest = Digest(Report(p)) /\ job[p].ledger = "socket"
      /\ pc[p] \notin Unsealed
  BY <1>1 DEF SealOn
<1>6. Records(p)' = {Len(records')} /\ records'[Len(records')].digest = Digest(Report(p))
  BY <1>1, <1>3, <1>5, RecordsGrow DEF Records
<1> QED BY <1>1, <1>2, <1>3, <1>4, <1>5, <1>6 DEF SealOn, Unsealed, Complete

LEMMA LateSeals ==
  ASSUME PlacesInv, IdsInv, SealInv, NEW p \in Scanners, RecordLate(p)
  PROVE  SealInv'
<1>1. /\ Turn(p) /\ Scans' = Scans /\ Scans \subseteq Scanners /\ p \in Scans
      /\ Result(p)'.id = Result(p).id /\ Started(p) /\ Started(p)'
  BY LatePlaces DEF Turn, Scans, Scanners, ResultFields, PlaceOn, RecordLate, PlacesInv
<1>2. \A q \in Scans : Started(q)' = Started(q) /\ (Started(q) => Result(q)'.id = Result(q).id)
  BY <1>1 DEF Turn, Started, Result
<1>3. ASSUME NEW q \in Scans, Started(q)', Alone(q)' PROVE SealOn(q)'
  <2>1. Started(q) /\ Alone(q)
    BY <1>1, <1>2, <1>3 DEF Alone
  <2>2. SealOn(q)
    BY <2>1 DEF SealInv
  <2> QED BY <2>1, <2>2, OwnLate, OtherSeal
<1> QED BY <1>1, <1>3 DEF SealInv

LEMMA StepSeals ==
  ASSUME PlacesInv, IdsInv, SealInv, NEW p \in Scanners, Step(p) \/ Crash(p)
  PROVE  SealInv'
<1>1. Turn(p) /\ Scans' = Scans /\ Scans \subseteq Scanners
  BY StepPlaces DEF Turn, Scans, Scanners
<1>2. ASSUME NEW r \in Scans, Started(r) PROVE Started(r)' /\ Result(r)'.id = Result(r).id
  BY <1>1, <1>2, StepKeeps DEF Turn, Started, Result
<1>3. ASSUME NEW q \in Scans, Started(q)', Alone(q)' PROVE SealOn(q)'
  <2>1. CASE ~ Started(q)
    <3>1. q = p
      BY <1>1, <1>3, <2>1 DEF Turn, Started
    <3> QED BY <1>3, <2>1, <3>1, NewSeal
  <2>2. CASE Started(q)
    <3>1. Alone(q)
      BY <1>1, <1>2, <1>3, <2>2 DEF Alone
    <3>2. SealOn(q)
      BY <2>2, <3>1 DEF SealInv
    <3> QED BY <2>2, <3>1, <3>2, OwnSeal, OtherSeal
  <2> QED BY <2>1, <2>2
<1> QED BY <1>1, <1>3 DEF SealInv

LEMMA OtherSeals ==
  ASSUME SealInv, UNCHANGED <<job, pc, work, disk, records>>
  PROVE  SealInv'
<1>1. Scans' = Scans
  BY DEF Scans, Scanners
<1>2. ASSUME NEW p PROVE Started(p)' = Started(p) /\ Result(p)' = Result(p) /\ Here(p)' = Here(p)
                         /\ Report(p)' = Report(p) /\ Records(p)' = Records(p) /\ Ready(p)' = Ready(p)
  BY DEF Started, Result, Report, Records, Ready, Here, Directory
<1>3. ASSUME NEW p \in Scans, Started(p)', Alone(p)' PROVE SealOn(p)'
  <2>1. Started(p) /\ Alone(p)
    BY <1>1, <1>2, <1>3 DEF Alone
  <2>2. SealOn(p)
    BY <2>1 DEF SealInv
  <2> QED BY <1>2, <2>2 DEF SealOn
<1> QED BY <1>1, <1>3 DEF SealInv

-----------------------------------------------------------------------------
(* The drift command and its directory.                                    *)

LEMMA FilesGrow ==
  ASSUME NEW n \in 0 .. Len(DriftFiles), n # Len(DriftFiles), NEW s, s = SubSeq(DriftFiles, 1, n)
  PROVE  /\ Len(s) = n
         /\ Append(s, DriftFiles[Len(s) + 1]) = SubSeq(DriftFiles, 1, n + 1)
         /\ n + 1 \in 0 .. Len(DriftFiles)
  BY DEF DriftFiles

\* A step of another scanner leaves a drift command's directory to it.
LEMMA OtherDrift ==
  ASSUME PlacesInv, NEW p \in Scanners, Step(p) \/ Crash(p), p \notin Scans => DriftOn(p),
         NEW q \in Scanners \ Scans, q # p, DriftOn(q)
  PROVE  DriftOn(q)'
<1>1. /\ Turn(p) /\ pc'[q] = pc[q] /\ Result(q)' = Result(q)
      /\ pc[p] \in DriftSteps => p \notin Scans
  BY StepPlaces DEF Turn, Result, PlacesInv, PlaceOn
<1>2. CASE UNCHANGED drifts
  BY <1>1, <1>2 DEF DriftOn, Mine
<1>3. CASE Reserve(p) /\ Result(p).id \notin DOMAIN drifts
  <2>1. drifts' = Put(drifts, Result(p).id, [by |-> p, files |-> <<>>])
    BY <1>3 DEF Reserve
  <2> QED BY <1>1, <1>3, <2>1 DEF DriftOn, Mine, Put
<1>4. CASE WriteDrift(p)
  <2>1. /\ Result(p).id \in DOMAIN drifts /\ drifts[Result(p).id] = [by |-> p, files |-> Mine(p).files]
    BY <1>1, <1>4 DEF WriteDrift, DriftOn, DriftSteps, Mine
  <2>2. /\ DOMAIN drifts' = DOMAIN drifts
        /\ drifts'[Result(p).id].by = p
        /\ \A id \in DOMAIN drifts \ {Result(p).id} : drifts'[id] = drifts[id]
    BY <1>4, <2>1 DEF WriteDrift
  <2> QED BY <1>1, <2>1, <2>2 DEF DriftOn, Mine
<1>5. CASE DropDrift(p)
  <2>1. Result(p).id \in DOMAIN drifts /\ drifts[Result(p).id].by = p
    BY <1>1, <1>5 DEF DropDrift, DriftOn, DriftSteps, Mine
  <2>2. /\ DOMAIN drifts' = DOMAIN drifts \ {Result(p).id}
        /\ \A id \in DOMAIN drifts' : drifts'[id] = drifts[id]
    BY <1>5 DEF DropDrift
  <2> QED BY <1>1, <2>1, <2>2 DEF DriftOn, Mine
<1> QED BY <1>2, <1>3, <1>4, <1>5
        DEF Step, Refuse, Plan, Run, Judge, ScanOutDir, WriteReference, TruncateReport, WriteReport, HashReport,
            AppendScanRecord, WriteSidecar, WriteCoverage, WritePage, LoadDrift, Reserve, CompareFolders, Crash

\* A drift command's own steps.
LEMMA OwnDrift ==
  ASSUME PlacesInv, NEW p \in Scanners \ Scans, DriftOn(p), Step(p) \/ Crash(p)
  PROVE  DriftOn(p)'
<1>1. /\ Turn(p) /\ \A step : Go(p, step) => pc'[p] = step
      /\ pc[p] \in DriftSteps \cup {"start", "refused", "done", "failed", "crashed"}
      /\ \A r : Save(p, r) => Result(p)' = r
      /\ UNCHANGED work => Result(p)' = Result(p)
  BY StepPlaces DEF PlacesInv, PlaceOn, Go, Save, Result
<1>2. CASE Refuse(p) \/ LoadDrift(p)
  BY <1>1, <1>2 DEF Refuse, LoadDrift, DriftOn
<1>3. CASE Crash(p)
  BY <1>1, <1>3 DEF Crash, DriftOn
<1>4. CASE Reserve(p)
  <2> DEFINE id == Result(p).id
  <2>1. CASE id \in DOMAIN drifts
    <3>1. pc'[p] \in {"reserve", "failed"} /\ UNCHANGED drifts /\ pc[p] = "reserve"
      BY <1>1, <1>4, <2>1 DEF Reserve
    <3> QED BY <3>1 DEF DriftOn
  <2>2. CASE id \notin DOMAIN drifts
    <3>1. /\ pc'[p] = "drift" /\ UNCHANGED work /\ pc[p] = "reserve"
          /\ drifts' = Put(drifts, id, [by |-> p, files |-> <<>>])
      BY <1>1, <1>4, <2>2 DEF Reserve
    <3>2. Result(p)' = Result(p) /\ Mine(p)' = [by |-> p, files |-> <<>>] /\ DOMAIN drifts' = DOMAIN drifts \cup {id}
          /\ \A i \in DOMAIN drifts : drifts'[i] = drifts[i]
      BY <1>1, <2>2, <3>1 DEF Put, Mine
    <3>3. <<>> = SubSeq(DriftFiles, 1, 0) /\ 0 \in 0 .. Len(DriftFiles) /\ Len(DriftFiles) # 0
      BY DEF DriftFiles
    <3> QED BY <3>1, <3>2, <3>3 DEF DriftOn
  <2> QED BY <2>1, <2>2
<1>5. CASE CompareFolders(p)
  <2>1. pc[p] = "drift" /\ pc'[p] = "publish" /\ UNCHANGED drifts
    BY <1>1, <1>5 DEF CompareFolders
  <2>2. Result(p)'.id = Result(p).id
    <3>1. PICK a, b, c : Save(p, [Result(p) EXCEPT !.plan = a, !.findings = b, !.verdict = c])
      BY <1>5 DEF CompareFolders
    <3>2. DOMAIN Result(p) = DriftFields
      BY <2>1 DEF PlacesInv, PlaceOn
    <3> QED BY <1>1, <3>1, <3>2 DEF DriftFields
  <2> QED BY <2>1, <2>2 DEF DriftOn, Mine
<1>6. CASE WriteDrift(p)
  <2>1. /\ pc[p] = "publish" /\ UNCHANGED work /\ Result(p)' = Result(p)
        /\ drifts' = [drifts EXCEPT ![Result(p).id].files = Append(@, DriftFiles[Len(@) + 1])]
        /\ pc'[p] = IF Len(Mine(p).files) + 1 = Len(DriftFiles) THEN "done" ELSE "publish"
    BY <1>1, <1>6 DEF WriteDrift
  <2>2. PICK n \in 0 .. Len(DriftFiles) : Mine(p).files = SubSeq(DriftFiles, 1, n) /\ n # Len(DriftFiles)
    BY <2>1 DEF DriftOn
  <2>3. /\ Result(p).id \in DOMAIN drifts
        /\ Mine(p) = [by |-> p, files |-> Mine(p).files]
    BY <2>1 DEF DriftOn
  <2> DEFINE id == Result(p).id
             f == Mine(p).files
             g == Append(f, DriftFiles[Len(f) + 1])
  <2>4. /\ DOMAIN drifts' = DOMAIN drifts
        /\ Mine(p)' = [by |-> p, files |-> g]
        /\ \A i \in DOMAIN drifts \ {id} : drifts'[i] = drifts[i]
    <3>1. drifts' = [drifts EXCEPT ![id] = [drifts[id] EXCEPT !.files = g]]
      BY <2>1 DEF Mine
    <3> HIDE DEF f, g
    <3>2. drifts[id] = [by |-> p, files |-> f]
      BY <2>3 DEF Mine, f
    <3>3. [drifts[id] EXCEPT !.files = g] = [by |-> p, files |-> g]
      BY <3>2
    <3> QED BY <2>1, <2>3, <3>1, <3>3 DEF Mine
  <2>5. /\ g = SubSeq(DriftFiles, 1, n + 1) /\ n + 1 \in 0 .. Len(DriftFiles)
        /\ Len(f) = n
    BY <2>2, FilesGrow
  <2> HIDE DEF g
  <2>6. pc'[p] \in {"done", "publish"} /\ (n + 1 = Len(DriftFiles) <=> pc'[p] = "done")
    BY <2>1, <2>5
  <2> QED BY <2>1, <2>3, <2>4, <2>5, <2>6 DEF DriftOn
<1>7. CASE DropDrift(p)
  <2>1. pc'[p] = "failed" /\ drifts' = [id \in DOMAIN drifts \ {Result(p).id} |-> drifts[id]]
        /\ pc[p] \in {"drift", "publish"}
    BY <1>1, <1>7 DEF DropDrift
  <2> QED BY <2>1 DEF DriftOn
<1> QED BY <1>1, <1>2, <1>3, <1>4, <1>5, <1>6, <1>7
        DEF Step, Plan, Run, Judge, ScanOutDir, WriteReference, TruncateReport, WriteReport, HashReport,
            AppendScanRecord, WriteSidecar, WriteCoverage, WritePage, DriftSteps, Scans

LEMMA StepDrifts ==
  ASSUME PlacesInv, DriftInv, NEW p \in Scanners, Step(p) \/ Crash(p)
  PROVE  DriftInv'
<1>1. Scans' = Scans /\ Scanners' = Scanners
  BY StepPlaces DEF Turn, Scans, Scanners
<1> QED BY <1>1, OwnDrift, OtherDrift DEF DriftInv

LEMMA LateDrifts ==
  ASSUME PlacesInv, DriftInv, NEW p \in Scanners, RecordLate(p)
  PROVE  DriftInv'
<1>1. /\ Scans' = Scans /\ Scanners' = Scanners /\ UNCHANGED <<pc, drifts>>
      /\ \A q \in Scanners \ Scans : Result(q)' = Result(q)
  BY LatePlaces DEF RecordLate, Turn, Scans, Scanners, Result
<1> QED BY <1>1 DEF DriftInv, DriftOn, Mine

LEMMA OtherDrifts ==
  ASSUME DriftInv, UNCHANGED <<job, pc, work, drifts>>
  PROVE  DriftInv'
<1>1. Scans' = Scans /\ Scanners' = Scanners
  BY DEF Scans, Scanners
<1> QED BY <1>1 DEF DriftInv, DriftOn, Mine, Result

-----------------------------------------------------------------------------
(* The invariant.                                                          *)

LEMMA ScanStarts == Init => ScanInv
<1> SUFFICES ASSUME Init PROVE ScanInv
  OBVIOUS
<1>1. DOMAIN disk = {} /\ DOMAIN index = {} /\ DOMAIN drifts = {} /\ DOMAIN records = {}
      /\ Len(records) = 0 /\ records = [i \in 1 .. 0 |-> records[i]]
  BY DEF Init
<1>2. \A p \in Scanners : pc[p] = "start" /\ ~Started(p)
  BY DEF Init, Started
<1>3. IdsInv
  BY <1>1, <1>2 DEF IdsInv, Opened, Scans
<1>4. IndexInv
  BY <1>1 DEF IndexInv, Init
<1>5. SealInv /\ DriftInv
  BY <1>1, <1>2 DEF SealInv, DriftInv, DriftOn, Scans
<1> QED BY <1>3, <1>4, <1>5, StartsPlaces DEF ScanInv

LEMMA ScanSteps == ScanInv /\ [Next]_vars => ScanInv'
<1> SUFFICES ASSUME ScanInv, [Next]_vars PROVE ScanInv'
  OBVIOUS
<1>1. PlacesInv /\ IdsInv /\ IndexInv /\ SealInv /\ DriftInv /\ PlacesInv'
  BY NextPlaces DEF ScanInv
<1>2. ASSUME NEW p \in Scanners, Step(p) \/ Crash(p) PROVE ScanInv'
  <2>1. UNCHANGED <<index, look>>
    BY <1>2 DEF Step, Refuse, Plan, Run, Judge, ScanOutDir, WriteReference, TruncateReport, WriteReport, HashReport,
            AppendScanRecord, WriteSidecar, WriteCoverage, WritePage, LoadDrift, Reserve, CompareFolders,
            WriteDrift, DropDrift, Crash
  <2>2. IndexInv'
    BY <1>1, <1>2, <2>1, StepGrows, IndexKept
  <2> QED BY <1>1, <1>2, <2>2, StepIds, StepSeals, StepDrifts DEF ScanInv
<1>3. ASSUME UNCHANGED <<job, pc, work, disk, records, drifts>>, IndexInv' PROVE ScanInv'
  BY <1>1, <1>3, OtherIds, OtherSeals, OtherDrifts DEF ScanInv
<1>4. CASE LoadReport
  BY <1>1, <1>3, <1>4, IndexRead DEF LoadReport
<1>5. CASE Rebuild \/ \E id \in Discovered : StatReport(id)
  BY <1>1, <1>3, <1>5, OtherIndex DEF Rebuild, StatReport
<1>6. CASE Tick \/ UNCHANGED vars
  BY <1>1, <1>3, <1>6 DEF Tick, vars, IndexInv, Discovered, ReadOn
<1>7. ASSUME NEW p \in Scanners, RecordLate(p) PROVE ScanInv'
  <2>1. UNCHANGED <<disk, index, look>>
    BY <1>7 DEF RecordLate
  <2>2. IndexInv'
    BY <1>1, <2>1, IndexKept DEF DiskGrows, IdsInv
  <2> QED BY <1>1, <1>7, <2>2, LateIds, LateSeals, LateDrifts DEF ScanInv
<1> QED BY <1>2, <1>4, <1>5, <1>6, <1>7 DEF Next, Refresh

THEOREM ScanSafe == Spec => []ScanInv
  BY ScanStarts, ScanSteps, PTL DEF Spec

-----------------------------------------------------------------------------
(* What follows from it.                                                   *)

\* The shape of the state (TypeOK of Scan): a scanner has a result exactly from its plan on, ids and directories are
\* those of the jobs, every row of the index is of a report on the disk and every record of a directory.
THEOREM ScanTypeCorrect == Spec => []TypeOK
<1>1. ScanInv => TypeOK
  <2> SUFFICES ASSUME ScanInv PROVE TypeOK
    OBVIOUS
  <2>1. pc \in [Scanners -> Steps] /\ minute \in 0 .. MaxMinute
    BY DEF ScanInv, PlacesInv, PlaceOn
  <2>2. \A p \in Scanners : (work[p] = <<>>) = (pc[p] \in {"start", "refused"})
    BY DEF ScanInv, PlacesInv, PlaceOn, Started
  <2>3. {Result(p).id : p \in {q \in Scans : work[q] # <<>>}} \cup DOMAIN disk \subseteq Ids
    BY DEF ScanInv, IdsInv, Started
  <2>4. DOMAIN index \subseteq Discovered /\ (look = <<>> \/ look[1].id \in Discovered)
    BY DEF ScanInv, IndexInv
  <2>5. {records[i].scan : i \in DOMAIN records} \subseteq DOMAIN disk
    BY DEF ScanInv, IdsInv
  <2> QED BY <2>1, <2>2, <2>3, <2>4, <2>5 DEF TypeOK
<1> QED BY <1>1, ScanSafe, PTL

\* What the dashboard makes of a scan that is alone in its directory.
LEMMA AloneState ==
  ASSUME ScanInv, NEW p \in Scans, Started(p), Alone(p), NEW id \in DOMAIN disk, id = Result(p).id
  PROVE  /\ State(id) = IF Records(p) = {} THEN "not sealed" ELSE "sealed"
         /\ disk[id] = Here(p) /\ SealOn(p)
<1>1. SealOn(p) /\ disk[id] = Here(p)
  BY DEF ScanInv, SealInv, Here, Directory
<1>2. CASE Records(p) = {}
  BY <1>1, <1>2 DEF State, SealCheck, Records
<1>3. CASE Records(p) # {}
  <2>1. PICK i \in Records(p) : TRUE
    BY <1>3
  <2>2. Records(p) = {i} /\ i \in Nat
    BY <1>1, <2>1 DEF SealOn, Records, ScanRecordsFor, ScanInv, IdsInv
  <2>3. Max(Records(p)) = i
    BY <2>2 DEF Max
  <2>4. records[i].digest = Digest(disk[id].report)
    BY <1>1, <2>1 DEF SealOn, Report
  <2> QED BY <1>1, <1>3, <2>3, <2>4 DEF State, SealCheck, Records
<1> QED BY <1>1, <1>2, <1>3

\* No step of a scan, no crash between two and no answer of the daemon that is late or never comes makes the
\* dashboard call its report altered; it is recorded once, with a report that is whole; and from its sidecar on it
\* says that it is sealed only if the daemon has the record (cli.py, orchestrator.py, seal_check.py). A second scan of
\* the same id is excepted.
THEOREM AlwaysSealHolds == Spec => []SealHolds
<1>1. ScanInv => SealHolds
  <2> SUFFICES ASSUME ScanInv, NEW id \in DOMAIN disk, ~ Shared(id)
               PROVE  /\ State(id) # "differs"
                      /\ \A i, j \in ScanRecordsFor(records, id) : i = j
                      /\ State(id) = "sealed" => disk[id].report.state = "whole" /\ disk[id].report.report.scan = id
                      /\ \A p \in Scans :
                           (work[p] # <<>> /\ Result(p).id = id /\ pc[p] \in {"coverage", "page", "done"}) =>
                              /\ disk[id].seal[1].digest = Digest(disk[id].report)
                              /\ State(id) = "sealed" => job[p].ledger = "socket"
                              /\ job[p].ledger = "socket" /\ disk[id].seal[1].sealed => State(id) = "sealed"
    BY DEF SealHolds
  <2>1. PICK p \in Scans : Started(p) /\ Result(p).id = id
    BY DEF ScanInv, IdsInv
  <2>2. \A q \in Scans : Started(q) /\ Result(q).id = id => q = p
    BY <2>1 DEF Shared, Started
  <2>3. Alone(p)
    BY <2>1, <2>2 DEF Alone
  <2>4. /\ State(id) = IF Records(p) = {} THEN "not sealed" ELSE "sealed"
        /\ disk[id] = Here(p) /\ SealOn(p)
    BY <2>1, <2>3, AloneState
  <2>5. State(id) = "sealed" => disk[id].report.state = "whole" /\ disk[id].report.report.scan = id
    BY <2>1, <2>4 DEF SealOn, Ready, Report
  <2>6. \A i, j \in ScanRecordsFor(records, id) : i = j
    BY <2>1, <2>4 DEF SealOn, Records
  <2>7. ASSUME pc[p] \in {"coverage", "page", "done"}
        PROVE  /\ disk[id].seal[1].digest = Digest(disk[id].report)
               /\ State(id) = "sealed" => job[p].ledger = "socket"
               /\ job[p].ledger = "socket" /\ disk[id].seal[1].sealed => State(id) = "sealed"
    BY <2>4, <2>7 DEF SealOn, Recorded, Described, Report
  <2> QED BY <2>2, <2>4, <2>5, <2>6, <2>7 DEF Started
<1> QED BY <1>1, ScanSafe, PTL

\* A row of the index whose time is the file's says what the file says, however a scanner and the dashboard's
\* refresh interleave: the time is read before the content, and moves with it (web/reports/index.py).
THEOREM AlwaysIndexFollows == Spec => []IndexFollows
<1>1. ScanInv => IndexFollows
  BY DEF ScanInv, IndexInv, IndexFollows, ReadOn
<1> QED BY <1>1, ScanSafe, PTL

\* No directory goes, no report is taken away, and none changes without its time: what the dashboard compares
\* (orchestrator.py, web/reports/index.py).
THEOREM AlwaysDiskGrows == Spec => [][DiskGrows]_vars
<1>1. ScanInv /\ [Next]_vars => DiskGrows \/ UNCHANGED vars
  <2> SUFFICES ASSUME ScanInv, [Next]_vars PROVE DiskGrows \/ UNCHANGED vars
    OBVIOUS
  <2>1. CASE \E p \in Scanners : Step(p) \/ Crash(p)
    BY <2>1, StepGrows DEF ScanInv
  <2>2. CASE UNCHANGED disk
    BY <2>2 DEF ScanInv, IdsInv, DiskGrows
  <2> QED BY <2>1, <2>2 DEF Next, Tick, RecordLate, Refresh, LoadReport, StatReport, Rebuild
<1> QED BY <1>1, ScanSafe, PTL DEF Spec

\* A drift command has the directory it reserved, and its files in their order, to itself; one that failed leaves
\* none (drift/command.py).
THEOREM AlwaysDriftOwns == Spec => [](\A p \in Scanners \ Scans : DriftOwns(p))
<1>1. ScanInv => \A p \in Scanners \ Scans : DriftOwns(p)
  <2> SUFFICES ASSUME ScanInv, NEW p \in Scanners \ Scans PROVE DriftOwns(p)
    OBVIOUS
  <2>1. DriftOn(p)
    BY DEF ScanInv, DriftInv
  <2>2. CASE pc[p] \in {"drift", "publish", "done"}
    <3>1. PICK n \in 0 .. Len(DriftFiles) :
            Mine(p).files = SubSeq(DriftFiles, 1, n) /\ (n = Len(DriftFiles) <=> pc[p] = "done")
      BY <2>1, <2>2 DEF DriftOn
    <3>2. DriftFiles \in Seq({DriftFiles[i] : i \in 1 .. 4}) /\ Len(DriftFiles) = 4
      BY DEF DriftFiles
    <3>3. SubSeq(DriftFiles, 1, Len(DriftFiles)) = DriftFiles
      BY <3>2, SubSeqFull
    <3>4. Len(SubSeq(DriftFiles, 1, n)) = n /\ SubSeq(SubSeq(DriftFiles, 1, n), 1, n) = SubSeq(DriftFiles, 1, n)
      BY DEF DriftFiles
    <3>5. IsPrefix(SubSeq(DriftFiles, 1, n), DriftFiles)
      BY <3>2, <3>4 DEF IsPrefix
    <3>6. IsPrefix(Mine(p).files, DriftFiles) /\ (pc[p] = "done" => Mine(p).files = DriftFiles)
      BY <3>1, <3>3, <3>5
    <3>7. Result(p).id \in DOMAIN drifts /\ Mine(p).by = p
      BY <2>1, <2>2 DEF DriftOn
    <3> QED BY <2>2, <3>6, <3>7 DEF DriftOwns
  <2>3. CASE pc[p] \notin {"drift", "publish", "done"}
    BY <2>1, <2>3 DEF DriftOn, DriftOwns
  <2> QED BY <2>2, <2>3
<1> QED BY <1>1, ScanSafe, PTL

=============================================================================
