-------------------------------- MODULE Sealer --------------------------------
(***************************************************************************)
(* The SDK the field pipeline calls: cva/provenance/seal/sealer.py.        *)
(*                                                                         *)
(* A Sealer puts one record per inference into the ledger.  When the       *)
(* ledger cannot be written it refuses (fail_closed) or releases the       *)
(* output unsealed (fail_open), counts it in memory and writes its input   *)
(* hash to a side file, the spill.  The next record that can be written    *)
(* carries a degraded_marker in front of it that declares the hole; a      *)
(* process that died meanwhile leaves the spill to the next one.           *)
(*                                                                         *)
(* The ledger is the log that SealedLedger implements: append_many is one  *)
(* step that succeeds as a whole or not at all.  An inference is an        *)
(* identity.  The digest of a spill is its content.  A marker names the    *)
(* inferences it counts, where the code has their number.                  *)
(*                                                                         *)
(* Directory entries are taken to survive a power failure.  Definitions no *)
(* other definition uses are wrong variants of the one that follows.       *)
(***************************************************************************)
EXTENDS Integers, Sequences, FiniteSets, TLC

CONSTANTS
  Proc,          \* processes, each with at most one Sealer on the ledger
  Inference,     \* inferences the pipeline runs
  PairOf,        \* the model and configuration of each
  Setups,        \* the deployments considered, see SetupType
  MaxEnds        \* bound: how many closes, kills and power failures happen

\* policy.on_ledger_failure is fail_open; the ledger's durability is
\* group_commit; writing the spill may fail; renaming it may fail.
SetupType == [failOpen : BOOLEAN, groupCommit : BOOLEAN,
              spillFails : BOOLEAN, renameFails : BOOLEAN]

ASSUME SealerAssumption ==
  /\ DOMAIN PairOf = Inference
  /\ Setups \subseteq SetupType
  /\ MaxEnds \in Nat
  /\ Inference \cap {"no file", "unavailable", [none |-> TRUE]} = {}

VARIABLES
  setup,     \* the deployment, fixed
  log,       \* the ledger's records
  durable,   \* how many of them a power failure leaves
  spill,     \* the spill file: NoFile, or the inferences of its lines
  retired,   \* the renamed spill files: number in the name -> content
  sealer,    \* each process's Sealer
  fate,      \* what became of each inference
  ends,      \* how many closes, kills and power failures so far
  lost,      \* history: the records that power failures took from the log
  dropped    \* history: the inferences counted by a Sealer that was closed or
             \* died with them

vars == <<setup, log, durable, spill, retired, sealer, fate, ends, lost, dropped>>

NoFile == <<"no file">>
Unavailable == <<"unavailable">>
NoGap == [covers |-> {}, spillOk |-> TRUE]
NoInference == [none |-> TRUE]

Closed == [phase |-> "closed", open |-> FALSE, gap |-> NoGap, registered |-> {},
           inference |-> NoInference, digest |-> NoFile, target |-> 0]

Marker(covers, digest) == [type |-> "degraded_marker", covers |-> covers, spill |-> digest]
Registration(pair)     == [type |-> "model_registration", pair |-> pair]
Sealed(i)              == [type |-> "inference", inference |-> i]

Content(s) == {s[n] : n \in 1 .. Len(s)}
Lines == IF spill = NoFile THEN <<>> ELSE spill

Records(type) == {n \in 1 .. Len(log) : log[n].type = type}

\* registered_models(): what a new Sealer takes for registered.
Registered == {log[n].pair : n \in Records("model_registration")}

MarkedLast == log[Len(log)].type = "degraded_marker" /\ log[Len(log)].spill = spill

\* has_degraded_marker_for(sha)
Marked == \E n \in Records("degraded_marker") : log[n].spill = spill

Init ==
  /\ setup \in Setups
  /\ log = <<[type |-> "genesis"]>>
  /\ durable = 1
  /\ spill = NoFile
  /\ retired = <<>>
  /\ sealer = [p \in Proc |-> Closed]
  /\ fate = [i \in Inference |-> "new"]
  /\ ends = 0
  /\ lost = {}
  /\ dropped = {}

\* append_many commits: per_record makes the batch durable at once.
AppendMany(items) ==
  /\ log' = log \o items
  /\ durable' = IF setup.groupCommit THEN durable ELSE Len(log')

\* The background flusher, or Sealer.flush().
Flush ==
  /\ durable < Len(log)
  /\ durable' = Len(log)
  /\ UNCHANGED <<setup, log, spill, retired, sealer, fate, ends, lost, dropped>>

-----------------------------------------------------------------------------
\* Opening: _recover_spill.

\* The process has no Sealer, or is done with one that was closed.
Unused(p) == sealer[p].phase \in {"closed", "idle"} /\ ~ sealer[p].open

\* Sealer.open on a ledger without a spill to recover.
Open(p) ==
  /\ Unused(p)
  /\ spill = NoFile
  /\ sealer' = [sealer EXCEPT
       ![p] = [Closed EXCEPT !.phase = "idle", !.open = TRUE, !.registered = Registered]]
  /\ UNCHANGED <<setup, log, durable, spill, retired, fate, ends, lost, dropped>>

\* An orphan spill is read.  An empty one, or one that a marker already
\* declares, is only renamed.
OpenOnSpill(p) ==
  /\ Unused(p)
  /\ spill # NoFile
  /\ sealer' = [sealer EXCEPT
       ![p] = [Closed EXCEPT
                 !.phase = IF spill = <<>> \/ Marked THEN "opening retire" ELSE "opening",
                 !.open = TRUE,
                 !.registered = Registered,
                 !.digest = spill,
                 !.target = IF spill = <<>> THEN 0 ELSE Len(log)]]
  /\ UNCHANGED <<setup, log, durable, spill, retired, fate, ends, lost, dropped>>

\* The hole that a process which died left is declared from its spill.
DeclareOrphan(p) ==
  /\ sealer[p].phase = "opening"
  /\ AppendMany(<<Marker(Content(sealer[p].digest), sealer[p].digest)>>)
  /\ sealer' = [sealer EXCEPT ![p].phase = "opening retire", ![p].target = Len(log)]
  /\ UNCHANGED <<setup, spill, retired, fate, ends, lost, dropped>>

\* The marker cannot be written: open raises and the spill stays.
OpenFails(p) ==
  /\ sealer[p].phase = "opening"
  /\ sealer' = [sealer EXCEPT ![p] = Closed]
  /\ UNCHANGED <<setup, log, durable, spill, retired, fate, ends, lost, dropped>>

-----------------------------------------------------------------------------
\* Sealing one inference.

\* commit() takes the lock, and reads the spill's digest if there is a gap.
Commit(p, i) ==
  /\ sealer[p].phase = "idle"
  /\ fate[i] = "new"
  /\ fate' = [fate EXCEPT ![i] = "running"]
  /\ sealer' = [sealer EXCEPT
       ![p].phase = "append",
       ![p].inference = i,
       ![p].digest = IF sealer[p].gap.spillOk /\ spill # NoFile THEN spill ELSE Unavailable]
  /\ UNCHANGED <<setup, log, durable, spill, retired, ends, lost, dropped>>

BatchMarkerLast(s) ==
  (IF PairOf[s.inference] \in s.registered
     THEN <<>> ELSE <<Registration(PairOf[s.inference])>>)
  \o <<Sealed(s.inference)>>
  \o (IF s.gap = NoGap THEN <<>> ELSE <<Marker(s.gap.covers, s.digest)>>)

\* The marker of a gap, then a registration, then the inference.
Batch(s) ==
  (IF s.gap = NoGap THEN <<>> ELSE <<Marker(s.gap.covers, s.digest)>>)
  \o (IF PairOf[s.inference] \in s.registered
        THEN <<>> ELSE <<Registration(PairOf[s.inference])>>)
  \o <<Sealed(s.inference)>>

\* append_many succeeds on a ledger that is open.  A marker's gap is closed and
\* its spill is renamed next; the file is named after the last record of the
\* batch.
SealBatch(p) ==
  LET s == sealer[p] IN
  /\ s.phase = "append" /\ s.open
  /\ AppendMany(Batch(s))
  /\ sealer' = [sealer EXCEPT
       ![p].phase = IF s.gap = NoGap THEN "return" ELSE "retire",
       ![p].gap = NoGap,
       ![p].registered = @ \cup {PairOf[s.inference]},
       ![p].target = Len(log') - 1]
  /\ UNCHANGED <<setup, spill, retired, fate, ends, lost, dropped>>

ReturnDurable(p) ==
  /\ sealer[p].phase = "return" /\ sealer[p].open
  /\ sealer' = [sealer EXCEPT ![p].phase = "idle", ![p].inference = NoInference]
  /\ fate' = [fate EXCEPT ![sealer[p].inference] = "durable"]
  /\ UNCHANGED <<setup, log, durable, spill, retired, ends, lost, dropped>>

\* The Receipt, with what it says of durability, reaches the caller, who
\* releases the output.
Return(p) ==
  /\ sealer[p].phase = "return" /\ sealer[p].open
  /\ sealer' = [sealer EXCEPT ![p].phase = "idle", ![p].inference = NoInference]
  /\ fate' = [fate EXCEPT ![sealer[p].inference] =
                 IF durable = Len(log) THEN "durable" ELSE "sealed"]
  /\ UNCHANGED <<setup, log, durable, spill, retired, ends, lost, dropped>>

\* fail_closed raises LedgerUnavailable; any other error is raised in both
\* modes, as by asking a ledger closed since the append for its size: the
\* output is not released.
Raise(p) ==
  /\ \/ sealer[p].phase = "append"
     \/ sealer[p].phase = "return" /\ ~ sealer[p].open
  /\ sealer' = [sealer EXCEPT ![p].phase = "idle", ![p].inference = NoInference]
  /\ fate' = [fate EXCEPT ![sealer[p].inference] = "refused"]
  /\ UNCHANGED <<setup, log, durable, spill, retired, ends, lost, dropped>>

NoteUnsealedRegistered(p) ==
  /\ setup.failOpen
  /\ sealer[p].phase = "append"
  /\ sealer' = [sealer EXCEPT ![p].phase = "spill", ![p].gap.covers = @ \cup {sealer[p].inference},
                              ![p].registered = @ \cup {PairOf[sealer[p].inference]}]
  /\ dropped' = dropped \cup {i \in {sealer[p].inference} : ~ sealer[p].open}
  /\ UNCHANGED <<setup, log, durable, spill, retired, fate, ends, lost>>

\* LedgerUnavailable under fail_open, also on a ledger that was closed: counted
\* in memory first.
NoteUnsealed(p) ==
  /\ setup.failOpen
  /\ sealer[p].phase = "append"
  /\ sealer' = [sealer EXCEPT ![p].phase = "spill", ![p].gap.covers = @ \cup {sealer[p].inference}]
  /\ dropped' = dropped \cup {i \in {sealer[p].inference} : ~ sealer[p].open}
  /\ UNCHANGED <<setup, log, durable, spill, retired, fate, ends, lost>>

\* The unsealed Receipt reaches the caller.
ReturnUnsealed(p, spillOk) ==
  /\ sealer' = [sealer EXCEPT ![p].phase = "idle", ![p].inference = NoInference,
                              ![p].gap.spillOk = spillOk /\ @]
  /\ fate' = [fate EXCEPT ![sealer[p].inference] =
                 IF spillOk THEN "unsealed" ELSE "unspilled"]

WriteSpillAfresh(p) ==
  /\ sealer[p].phase = "spill"
  /\ spill' = <<sealer[p].inference>>
  /\ ReturnUnsealed(p, TRUE)
  /\ UNCHANGED <<setup, log, durable, retired, ends, lost, dropped>>

\* A line is appended to the spill and fsynced.
WriteSpill(p) ==
  /\ sealer[p].phase = "spill"
  /\ spill' = Lines \o <<sealer[p].inference>>
  /\ ReturnUnsealed(p, TRUE)
  /\ UNCHANGED <<setup, log, durable, retired, ends, lost, dropped>>

\* It fails: before the file is there, before the line is, or at the fsync.
WriteSpillFails(p) ==
  /\ setup.spillFails
  /\ sealer[p].phase = "spill"
  /\ spill' \in {spill, Lines, Lines \o <<sealer[p].inference>>}
  /\ ReturnUnsealed(p, FALSE)
  /\ UNCHANGED <<setup, log, durable, retired, ends, lost, dropped>>

-----------------------------------------------------------------------------
\* _retire_spill, at the end of a commit and of open().

Retiring(p) == sealer[p].phase \in {"retire", "opening retire"}

AfterRetireReturn(p) == sealer' = [sealer EXCEPT ![p].phase = "return"]

AfterRetire(p) ==
  IF sealer[p].phase = "retire"
    THEN sealer' = [sealer EXCEPT ![p].phase = "return"]
    ELSE sealer' = [sealer EXCEPT ![p].phase = "idle"]

\* os.replace: a file of that name is overwritten.
Retire(p) ==
  /\ Retiring(p)
  /\ retired' = IF spill = NoFile THEN retired ELSE (sealer[p].target :> spill) @@ retired
  /\ spill' = NoFile
  /\ AfterRetire(p)
  /\ UNCHANGED <<setup, log, durable, fate, ends, lost, dropped>>

\* An OSError is ignored.
RetireFails(p) ==
  /\ setup.renameFails
  /\ Retiring(p)
  /\ AfterRetire(p)
  /\ UNCHANGED <<setup, log, durable, spill, retired, fate, ends, lost, dropped>>

-----------------------------------------------------------------------------
\* The end of a Sealer and of its process.

\* close(), also by leaving the with block: it does not wait for a commit that
\* another thread is in, and leaves the gap where it is, in the memory of a
\* Sealer that can declare nothing any more.  The checkpoint that makes the
\* records durable may fail.
Close(p) ==
  /\ ends < MaxEnds
  /\ ends' = ends + 1
  /\ sealer[p].open
  /\ sealer[p].phase \notin {"opening", "opening retire"}
  /\ sealer' = [sealer EXCEPT ![p].open = FALSE]
  /\ durable' \in {durable, Len(log)}
  /\ dropped' = dropped \cup sealer[p].gap.covers
  /\ UNCHANGED <<setup, log, spill, retired, fate, lost>>

\* Its inference gets no answer and its output is not released.
Abandoned(procs) ==
  [i \in Inference |->
     IF \E p \in procs : sealer[p].inference = i THEN "lost" ELSE fate[i]]

Crash(p) ==
  /\ sealer[p].phase # "closed"
  /\ ends < MaxEnds
  /\ ends' = ends + 1
  /\ fate' = Abandoned({p})
  /\ sealer' = [sealer EXCEPT ![p] = Closed]
  /\ dropped' = dropped \cup sealer[p].gap.covers
  /\ UNCHANGED <<setup, log, durable, spill, retired, lost>>

PowerLoss ==
  /\ ends < MaxEnds
  /\ ends' = ends + 1
  /\ \E n \in durable .. Len(log) : log' = SubSeq(log, 1, n)
  /\ durable' = Len(log')
  /\ lost' = lost \cup {log[n] : n \in Len(log') + 1 .. Len(log)}
  /\ dropped' = dropped \cup UNION {sealer[p].gap.covers : p \in Proc}
  /\ fate' = Abandoned(Proc)
  /\ sealer' = [p \in Proc |-> Closed]
  /\ UNCHANGED <<setup, spill, retired>>

SealerStep(p) ==
  \/ Open(p) \/ OpenOnSpill(p) \/ DeclareOrphan(p) \/ OpenFails(p)
  \/ \E i \in Inference : Commit(p, i)
  \/ SealBatch(p) \/ Return(p) \/ Raise(p)
  \/ NoteUnsealed(p) \/ WriteSpill(p) \/ WriteSpillFails(p)
  \/ Retire(p) \/ RetireFails(p) \/ Close(p) \/ Crash(p)

Next == Flush \/ PowerLoss \/ \E p \in Proc : SealerStep(p)

Spec == Init /\ [][Next]_vars

-----------------------------------------------------------------------------
\* Properties.

\* The values of the variables; a Sealer is in a call exactly while it has an
\* inference, and the durable records are a prefix.
TypeOK ==
  /\ durable \in 1 .. Len(log)
  /\ spill = NoFile \/ spill \in Seq(Inference)
  /\ \A p \in Proc :
       /\ sealer[p].inference \in Inference \cup {NoInference}
       /\ sealer[p].phase \in {"append", "retire", "return", "spill"}
            <=> sealer[p].inference \in Inference
       /\ sealer[p].gap.covers \subseteq Inference
  /\ \A i \in Inference :
       fate[i] \in {"new", "running", "sealed", "durable", "unsealed", "unspilled",
                    "refused", "lost"}

MarkersIn(records) == {r \in records : r.type = "degraded_marker"}
Covered(records) == UNION {r.covers : r \in MarkersIn(records)}

\* A marker in the log, or one that a power failure took, covers it.
Declared == Covered(Content(log))
MarkerLost == Covered(lost)

\* Counted in memory by a Sealer that can still declare it.
Counted == UNION {sealer[p].gap.covers : p \in {q \in Proc : sealer[q].open}}

\* Every inference released without a seal is covered by a marker, or is in the
\* spill that a commit, or the next Sealer to open the ledger, declares; if its
\* line could not be written, it is counted by a Sealer that can declare it: no
\* failed batch, orderly close, crash or failed rename leaves a silent hole.
\* The exceptions, one by one: the hole's own marker was taken by a power
\* failure (group_commit), after which nothing declares it again; or it has no
\* spill line and the Sealer that counted it was closed or died first.
EveryHoleDeclared ==
  \A i \in Inference :
    /\ fate[i] = "unsealed" => i \in Declared \cup Content(Lines) \cup MarkerLost
    /\ fate[i] = "unspilled" => i \in Declared \cup Counted \cup dropped \cup MarkerLost

\* No hole is declared twice, also when the process dies between the marker
\* and the renaming of the spill ("don't declare the hole twice"), as long as
\* the spill can be written and renamed.
DeclaredOnce ==
  ~setup.spillFails /\ ~setup.renameFails =>
    \A m, n \in Records("degraded_marker") : m # n => log[m].covers \cap log[n].covers = {}

\* Released without a seal, by a Sealer that could not have lost the hole.
Outstanding(i) ==
  /\ fate[i] = "unsealed" \/ (fate[i] = "unspilled" /\ i \notin dropped)
  /\ i \notin MarkerLost

\* When an inference is sealed, what its record rests on stands in front of it:
\* the registration of its model and configuration, and a marker for every
\* inference released unsealed before it; through failed batches, orderly
\* closes, crashes and power failures.  A marker that a power failure took, and
\* a hole without a spill line that its Sealer did not live to declare, are not
\* there.
SealedInContext ==
  [][\A n \in Len(log) + 1 .. Len(log') : log'[n].type = "inference" =>
       /\ \E m \in 1 .. n - 1 : log'[m] = Registration(PairOf[log'[n].inference])
       /\ \A i \in Inference : Outstanding(i) =>
            \E m \in 1 .. n - 1 : log'[m].type = "degraded_marker" /\ i \in log'[m].covers
    ]_log

\* An output released with a receipt that says durable has its record in the
\* ledger whatever fails later; with a receipt that does not, unless a power
\* failure took that record; under fail_closed nothing else is released.
ReleasedIsSealed ==
  \A i \in Inference :
    /\ fate[i] = "durable" => \E n \in Records("inference") : log[n].inference = i
    /\ fate[i] = "sealed" => Sealed(i) \in lost \/ \E n \in Records("inference") : log[n].inference = i
    /\ fate[i] \in {"unsealed", "unspilled"} => setup.failOpen
=============================================================================
