---------------------------- MODULE SealedLedger ----------------------------
(***************************************************************************)
(* The SQLite ledger of cva/provenance/seal/store.py, with the sealing of  *)
(* one record from chain.py: several processes, each with one SealedLedger *)
(* handle on the same file and several threads that share the handle.      *)
(*                                                                         *)
(* A record is its nonce (128 random bits: an identity), its position, its *)
(* type, the key that signed it and its link to the record before.  A hash *)
(* is what it is computed from: a link is the nonce of the record it       *)
(* covers, a Merkle root the sequence of nonces of the leaves.  Payloads,  *)
(* timestamps and the wording of a record are left out.                    *)
(*                                                                         *)
(* SQLite gives: BEGIN IMMEDIATE admits one writing transaction at a time  *)
(* over all processes; a transaction's rows appear together at COMMIT or   *)
(* never; after a power failure the database holds a prefix of the         *)
(* committed transactions that includes every fsynced one.                 *)
(*                                                                         *)
(* Definitions no other definition uses are wrong variants of the one that *)
(* follows; PROJECT.json names the property each of them breaks.           *)
(***************************************************************************)
EXTENDS Integers, Sequences

CONSTANTS
  Proc,             \* processes, each with at most one open handle
  Thread,           \* threads that call the handle of their process
  Host,             \* Host[t]: the process thread t runs in
  Key,              \* key ids
  GenesisKey,       \* the key that signed the genesis record
  NoKey,            \* no key: the handle is closed, or no rotation asked for
  Nobody,           \* no thread is in a write transaction
  CheckpointEvery,  \* meta.checkpoint_every
  GroupCommit,      \* durability is group_commit (else per_record)
  Rotators,         \* threads whose program calls rotate_key
  Checkpointers,    \* threads whose program calls checkpoint_now
  Flushers,         \* threads whose program calls flush
  MaxBatch,         \* bound: records a caller passes to one append_many
  MaxRecords,       \* bound: no transaction begins on a ledger this long
  MaxNonce          \* bound: no transaction begins once so many are drawn

ASSUME ConstantsAssumption ==
  /\ Host \in [Thread -> Proc]
  /\ GenesisKey \in Key
  /\ NoKey \notin Key
  /\ Nobody \notin Thread
  /\ CheckpointEvery \in Nat \ {0}
  /\ GroupCommit \in BOOLEAN
  /\ Rotators \subseteq Thread
  /\ Checkpointers \subseteq Thread
  /\ Flushers \subseteq Thread
  /\ MaxBatch \in Nat \ {0}
  /\ MaxRecords \in Nat
  /\ MaxNonce \in Nat

VARIABLES
  \* the file
  records,     \* the committed rows of table `records`
  synced,      \* how many of them an fsync has put on stable storage
  nonce,       \* nonces drawn so far
  \* each process's handle
  open,        \* the handle exists and is not _closed
  activeKey,   \* _key
  tip,         \* _tip: the cached last record
  tipLink,     \* _tip_link: the cached link of the cached record
  unflushed,   \* _unflushed: records committed but not known to be synced
  flushError,  \* _flush_error is set
  flusher,     \* the background flusher: its phase and the count it took
  committed,   \* history: the ledger's length at this handle's last commit
  \* each thread's call, and the one write transaction
  pc,
  call,        \* what the thread passed to append_many
  writer,      \* the thread between BEGIN IMMEDIATE and COMMIT/ROLLBACK
  tx           \* that transaction's local variables and uncommitted rows

fileVars    == <<records, synced, nonce>>
handleVars  == <<open, activeKey, tip, tipLink>>
flushVars   == <<unflushed, flushError, flusher, committed>>
threadVars  == <<pc, call, writer, tx>>
vars == <<fileVars, handleVars, flushVars, threadVars>>

-----------------------------------------------------------------------------
\* Records.

NoLink == 0

RecordType == {"genesis", "entry", "checkpoint", "key_rotation"}

Item == [type : RecordType, size : Nat, root : Seq(Nat)]

Record == [nonce : Nat, seq : Int, type : RecordType, key : Key \cup {NoKey},
           prev : Nat, size : Nat, root : Seq(Nat), newKey : Key \cup {NoKey},
           last : BOOLEAN]

Genesis == [nonce |-> 1, seq |-> 0, type |-> "genesis", key |-> GenesisKey,
            prev |-> NoLink, size |-> 0, root |-> <<>>, newKey |-> NoKey,
            last |-> TRUE]

NoRecord == [nonce |-> 0, seq |-> -1, type |-> "genesis", key |-> NoKey,
             prev |-> NoLink, size |-> 0, root |-> <<>>, newKey |-> NoKey,
             last |-> TRUE]

\* Any record the caller's own program appends: inference, scan_record, ...
Entry    == [type |-> "entry", size |-> 0, root |-> <<>>]
Rotation == [type |-> "key_rotation", size |-> 0, root |-> <<>>]

Entries(n) == [i \in 1 .. n |-> Entry]

\* MerkleTree.root over the first n rows.
Root(rows, n) == [i \in 1 .. n |-> rows[i].nonce]

CheckpointOneLeafShort(rows) ==
  [type |-> "checkpoint", size |-> Len(rows), root |-> Root(rows, Len(rows) - 1)]

\* The checkpoint that summarises all of these rows.
CheckpointOf(rows) ==
  [type |-> "checkpoint", size |-> Len(rows), root |-> Root(rows, Len(rows))]

Tip(rows) == rows[Len(rows)]

\* _current_key_id: the last rotation's new key, or the genesis key.
CurrentKey(rows) ==
  LET rotations == {i \in 1 .. Len(rows) : rows[i].type = "key_rotation"}
      latest == CHOOSE i \in rotations : \A j \in rotations : j <= i
  IN  IF rotations = {} THEN rows[1].key ELSE rows[latest].newKey

-----------------------------------------------------------------------------
\* The handle's lock, and the transaction's start.

\* A thread of p holds the handle's RLock across steps: it is inside
\* checkpoint_now, or inside append_many's transaction.
Locked(p) ==
  \E t \in Thread : Host[t] = p /\ pc[t] \in {"checkpoint", "writing"}

NoCall == [items |-> <<>>, key |-> NoKey, rotateTo |-> NoKey]

NoTx == [new |-> <<>>, queue |-> <<>>, prev |-> NoRecord, link |-> NoLink,
         key |-> NoKey, rotateTo |-> NoKey]

\* The record the next one follows, and the cached link if it may be used.
CacheFresh(p) == tip[p].seq = Tip(records).seq

PrevOf(p)  == IF CacheFresh(p) THEN tip[p] ELSE Tip(records)

LinkOf(p)  == IF CacheFresh(p) THEN tipLink[p] ELSE NoLink

\* seal_next: the record that follows prev, with the cached link if there is one.
SealNext(item, prev, link, key, newKey, n) ==
  [nonce |-> n, seq |-> prev.seq + 1, type |-> item.type, key |-> key,
   prev |-> IF link = NoLink THEN prev.nonce ELSE link,
   size |-> item.size, root |-> item.root, newKey |-> newKey, last |-> FALSE]

CheckpointDueSinceGenesis(item, count) ==
  item.type \notin {"checkpoint", "genesis"} /\ (count - 1) % CheckpointEvery = 0

\* The cadence rule at the foot of append_many's loop.
CheckpointDue(item, count) ==
  item.type \notin {"checkpoint", "genesis"} /\ count % CheckpointEvery = 0

KeyAfterUnchanged(item, key, rotateTo) == key

\* The key of the next record in the loop.
KeyAfter(item, key, rotateTo) ==
  IF item.type = "key_rotation" THEN rotateTo ELSE key

-----------------------------------------------------------------------------
Init ==
  /\ records = <<Genesis>>
  /\ synced = 1
  /\ nonce = 1
  /\ open = [p \in Proc |-> FALSE]
  /\ activeKey = [p \in Proc |-> NoKey]
  /\ tip = [p \in Proc |-> NoRecord]
  /\ tipLink = [p \in Proc |-> NoLink]
  /\ unflushed = [p \in Proc |-> 0]
  /\ flushError = [p \in Proc |-> FALSE]
  /\ flusher = [p \in Proc |-> [phase |-> "idle", pending |-> 0]]
  /\ committed = [p \in Proc |-> 0]
  /\ pc = [t \in Thread |-> "idle"]
  /\ call = [t \in Thread |-> NoCall]
  /\ writer = Nobody
  /\ tx = NoTx

\* open(): a writer's key must be the active one; _recover caches the tip.
Open(p) ==
  /\ ~open[p]
  /\ \A t \in Thread : Host[t] = p => pc[t] = "idle"
  /\ open' = [open EXCEPT ![p] = TRUE]
  /\ activeKey' = [activeKey EXCEPT ![p] = CurrentKey(records)]
  /\ tip' = [tip EXCEPT ![p] = Tip(records)]
  /\ tipLink' = [tipLink EXCEPT ![p] = NoLink]
  /\ unflushed' = [unflushed EXCEPT ![p] = 0]
  /\ flushError' = [flushError EXCEPT ![p] = FALSE]
  /\ flusher' = [flusher EXCEPT ![p] = [phase |-> "idle", pending |-> 0]]
  /\ committed' = [committed EXCEPT ![p] = 0]
  /\ UNCHANGED <<fileVars, threadVars>>

ReadTipKeepsLink(p) ==
  /\ open[p]
  /\ ~Locked(p)
  /\ ~CacheFresh(p)
  /\ tip' = [tip EXCEPT ![p] = Tip(records)]
  /\ UNCHANGED <<fileVars, open, activeKey, tipLink, flushVars, threadVars>>

\* tip(): returns the last record, refreshing the cache; a refreshed record
\* drops the link cached for the old one.
ReadTip(p) ==
  /\ open[p]
  /\ ~Locked(p)
  /\ ~CacheFresh(p)
  /\ tip' = [tip EXCEPT ![p] = Tip(records)]
  /\ tipLink' = [tipLink EXCEPT ![p] = NoLink]
  /\ UNCHANGED <<fileVars, open, activeKey, flushVars, threadVars>>

-----------------------------------------------------------------------------
\* append_many.

\* append_many is called: `key = self._key` is read before the lock is taken.
Call(t) ==
  /\ pc[t] = "idle"
  /\ open[Host[t]]
  /\ \E n \in 1 .. MaxBatch :
       call' = [call EXCEPT ![t] = [items |-> Entries(n), rotateTo |-> NoKey,
                                    key |-> activeKey[Host[t]]]]
  /\ pc' = [pc EXCEPT ![t] = "append"]
  /\ UNCHANGED <<fileVars, handleVars, flushVars, writer, tx>>

\* rotate_key: the outgoing key is read, still outside the lock, and
\* append_many is called with the rotation.
CallRotate(t) ==
  /\ t \in Rotators
  /\ pc[t] = "idle"
  /\ open[Host[t]]
  /\ \E k \in Key \ {activeKey[Host[t]]} :
       call' = [call EXCEPT ![t] = [items |-> <<Rotation>>, rotateTo |-> k,
                                    key |-> activeKey[Host[t]]]]
  /\ pc' = [pc EXCEPT ![t] = "append"]
  /\ UNCHANGED <<fileVars, handleVars, flushVars, writer, tx>>

\* checkpoint_now takes the handle's lock, reads the size and the root, and
\* only then calls append_many, whose transaction has not begun.
CallCheckpoint(t) ==
  /\ t \in Checkpointers
  /\ pc[t] = "idle"
  /\ open[Host[t]]
  /\ ~Locked(Host[t])
  /\ call' = [call EXCEPT ![t] = [items |-> <<CheckpointOf(records)>>,
                                  rotateTo |-> NoKey,
                                  key |-> activeKey[Host[t]]]]
  /\ pc' = [pc EXCEPT ![t] = "checkpoint"]
  /\ UNCHANGED <<fileVars, handleVars, flushVars, writer, tx>>

\* A thread in append_many has the handle's lock, or can take it.
HasLock(t) ==
  \/ pc[t] = "checkpoint"
  \/ (pc[t] = "append" /\ ~Locked(Host[t]))

\* append_many refuses: closed, a sticky flush error, or LedgerBusy.
Refuse(t) ==
  /\ HasLock(t)
  /\ ~open[Host[t]] \/ flushError[Host[t]] \/ writer # Nobody
  /\ pc' = [pc EXCEPT ![t] = "idle"]
  /\ call' = [call EXCEPT ![t] = NoCall]
  /\ UNCHANGED <<fileVars, handleVars, flushVars, writer, tx>>

\* BEGIN IMMEDIATE, and the tip read under it.
Begin(t) ==
  /\ HasLock(t)
  /\ open[Host[t]]
  /\ ~flushError[Host[t]]
  /\ writer = Nobody
  /\ Len(records) < MaxRecords
  /\ nonce < MaxNonce
  /\ writer' = t
  /\ tx' = [new |-> <<>>, queue |-> call[t].items, prev |-> PrevOf(Host[t]),
            link |-> LinkOf(Host[t]), key |-> call[t].key,
            rotateTo |-> call[t].rotateTo]
  /\ pc' = [pc EXCEPT ![t] = "writing"]
  /\ UNCHANGED <<fileVars, handleVars, flushVars, call>>

\* One turn of the loop: seal, INSERT, Merkle nodes, the rotation's key, and
\* a checkpoint put at the head of the queue when the cadence asks for one.
\* The table's PRIMARY KEY refuses a seq that is taken.
Insert(t) ==
  LET item  == Head(tx.queue)
      new   == IF item.type = "key_rotation" THEN tx.rotateTo ELSE NoKey
      r     == SealNext(item, tx.prev, tx.link, tx.key, new, nonce + 1)
      rows  == Append(tx.new, r)
      all   == records \o rows
  IN  /\ writer = t
      /\ tx.queue # <<>>
      /\ r.seq >= Len(records) + Len(tx.new)
      /\ nonce' = nonce + 1
      /\ tx' = [tx EXCEPT
                  !.new   = rows,
                  !.queue = IF CheckpointDue(item, Len(all))
                              THEN <<CheckpointOf(all)>> \o Tail(@)
                              ELSE Tail(@),
                  !.prev  = r,
                  !.link  = r.nonce,
                  !.key   = KeyAfter(item, @, tx.rotateTo)]
      /\ UNCHANGED <<records, synced, handleVars, flushVars, pc, call, writer>>

\* COMMIT, then the caches, the handle's key and _after_commit.  rotate_key
\* goes on to flush(), after the lock is released.
Commit(t) ==
  LET p    == Host[t]
      rows == [tx.new EXCEPT ![Len(tx.new)].last = TRUE]
  IN  /\ writer = t
      /\ tx.queue = <<>>
      /\ records' = records \o rows
      /\ synced' = IF GroupCommit THEN synced ELSE Len(records')
      /\ tip' = [tip EXCEPT ![p] = Tip(rows)]
      /\ tipLink' = [tipLink EXCEPT ![p] = tx.link]
      /\ activeKey' = [activeKey EXCEPT ![p] = tx.key]
      /\ unflushed' = IF GroupCommit
                        THEN [unflushed EXCEPT ![p] = @ + Len(rows)]
                        ELSE unflushed
      /\ committed' = [committed EXCEPT ![p] = Len(records')]
      /\ pc' = [pc EXCEPT ![t] = IF tx.rotateTo # NoKey THEN "flush" ELSE "idle"]
      /\ call' = [call EXCEPT ![t] = NoCall]
      /\ writer' = Nobody
      /\ tx' = NoTx
      /\ UNCHANGED <<nonce, open, flushError, flusher>>

RollbackKeepsTip(t) ==
  /\ writer = t
  /\ tip' = [tip EXCEPT ![Host[t]] = tx.prev]
  /\ tipLink' = [tipLink EXCEPT ![Host[t]] = tx.link]
  /\ pc' = [pc EXCEPT ![t] = "idle"]
  /\ call' = [call EXCEPT ![t] = NoCall]
  /\ writer' = Nobody
  /\ tx' = NoTx
  /\ UNCHANGED <<fileVars, open, activeKey, flushVars>>

\* Any error inside the transaction: the whole of it is rolled back.
Rollback(t) ==
  /\ writer = t
  /\ pc' = [pc EXCEPT ![t] = "idle"]
  /\ call' = [call EXCEPT ![t] = NoCall]
  /\ writer' = Nobody
  /\ tx' = NoTx
  /\ UNCHANGED <<fileVars, handleVars, flushVars>>

-----------------------------------------------------------------------------
\* Durability.

\* flush(): everything committed is made durable and the sticky error cleared.
Flush(t) ==
  LET p == Host[t]
  IN  /\ pc[t] = "flush" \/ (pc[t] = "idle" /\ t \in Flushers)
      /\ open[p]
      /\ ~Locked(p)
      /\ synced' = Len(records)
      /\ unflushed' = [unflushed EXCEPT ![p] = 0]
      /\ flushError' = [flushError EXCEPT ![p] = FALSE]
      /\ pc' = [pc EXCEPT ![t] = "idle"]
      /\ UNCHANGED <<records, nonce, handleVars, flusher, committed,
                     call, writer, tx>>

\* The flush that ends rotate_key raises, or finds the handle closed.
FlushFails(t) ==
  /\ pc[t] = "flush"
  /\ pc' = [pc EXCEPT ![t] = "idle"]
  /\ UNCHANGED <<fileVars, handleVars, flushVars, call, writer, tx>>

FlusherTakeFullGroup(p) ==
  /\ GroupCommit
  /\ open[p]
  /\ ~Locked(p)
  /\ flusher[p].phase = "idle"
  /\ unflushed[p] > 1
  /\ flusher' = [flusher EXCEPT ![p] = [phase |-> "syncing",
                                        pending |-> unflushed[p]]]
  /\ UNCHANGED <<fileVars, handleVars, unflushed, flushError, committed,
                 threadVars>>

\* _flush_loop reads _unflushed under the lock and releases it.
FlusherTake(p) ==
  /\ GroupCommit
  /\ open[p]
  /\ ~Locked(p)
  /\ flusher[p].phase = "idle"
  /\ unflushed[p] > 0
  /\ flusher' = [flusher EXCEPT ![p] = [phase |-> "syncing",
                                        pending |-> unflushed[p]]]
  /\ UNCHANGED <<fileVars, handleVars, unflushed, flushError, committed,
                 threadVars>>

\* _sync_now fsyncs the WAL without the lock: whatever is committed by now.
FlusherSync(p) ==
  /\ flusher[p].phase = "syncing"
  /\ synced' = Len(records)
  /\ flusher' = [flusher EXCEPT ![p].phase = "synced"]
  /\ UNCHANGED <<records, nonce, handleVars, unflushed, flushError, committed,
                 threadVars>>

\* The fsync fails: the error sticks and the next append_many refuses.
FlusherFails(p) ==
  /\ flusher[p].phase = "syncing"
  /\ flushError' = [flushError EXCEPT ![p] = TRUE]
  /\ flusher' = [flusher EXCEPT ![p] = [phase |-> "idle", pending |-> 0]]
  /\ UNCHANGED <<fileVars, handleVars, unflushed, committed, threadVars>>

SubtractAll(count, pending) == 0

SubtractUnclamped(count, pending) == count - pending

\* Back under the lock, the count it took is subtracted.
Subtract(count, pending) == IF count > pending THEN count - pending ELSE 0

FlusherAccount(p) ==
  /\ flusher[p].phase = "synced"
  /\ ~Locked(p)
  /\ unflushed' = [unflushed EXCEPT ![p] = Subtract(@, flusher[p].pending)]
  /\ flusher' = [flusher EXCEPT ![p] = [phase |-> "idle", pending |-> 0]]
  /\ UNCHANGED <<fileVars, handleVars, flushError, committed, threadVars>>

\* durable: what a Receipt reports.
Durable(p) == ~GroupCommit \/ unflushed[p] = 0

-----------------------------------------------------------------------------
\* The end of a handle.

Gone(p) ==
  /\ open' = [open EXCEPT ![p] = FALSE]
  /\ activeKey' = [activeKey EXCEPT ![p] = NoKey]
  /\ tip' = [tip EXCEPT ![p] = NoRecord]
  /\ tipLink' = [tipLink EXCEPT ![p] = NoLink]
  /\ flusher' = [flusher EXCEPT ![p] = [phase |-> "idle", pending |-> 0]]
  /\ unflushed' = [unflushed EXCEPT ![p] = 0]
  /\ flushError' = [flushError EXCEPT ![p] = FALSE]
  /\ committed' = [committed EXCEPT ![p] = 0]

\* close(): joins the flusher and checkpoints the WAL; an error there is
\* swallowed, so what was unsynced may stay so.
Close(p) ==
  /\ open[p]
  /\ ~Locked(p)
  /\ Gone(p)
  /\ synced' \in {synced, Len(records)}
  /\ UNCHANGED <<records, nonce, threadVars>>

\* The process is killed: its threads are gone, its open transaction with
\* them.  What it committed is in the file.
Crash(p) ==
  /\ open[p]
  /\ Gone(p)
  /\ pc' = [t \in Thread |-> IF Host[t] = p THEN "idle" ELSE pc[t]]
  /\ call' = [t \in Thread |-> IF Host[t] = p THEN NoCall ELSE call[t]]
  /\ IF \E t \in Thread : writer = t /\ Host[t] = p
       THEN writer' = Nobody /\ tx' = NoTx
       ELSE UNCHANGED <<writer, tx>>
  /\ UNCHANGED fileVars

\* Power fails: every process is gone, and so may be transactions at the end
\* of the ledger that no fsync covered.
PowerLoss ==
  /\ \E n \in synced .. Len(records) :
       /\ records[n].last
       /\ records' = SubSeq(records, 1, n)
       /\ synced' = n
  /\ open' = [p \in Proc |-> FALSE]
  /\ activeKey' = [p \in Proc |-> NoKey]
  /\ tip' = [p \in Proc |-> NoRecord]
  /\ tipLink' = [p \in Proc |-> NoLink]
  /\ flusher' = [p \in Proc |-> [phase |-> "idle", pending |-> 0]]
  /\ unflushed' = [p \in Proc |-> 0]
  /\ flushError' = [p \in Proc |-> FALSE]
  /\ committed' = [p \in Proc |-> 0]
  /\ pc' = [t \in Thread |-> "idle"]
  /\ call' = [t \in Thread |-> NoCall]
  /\ writer' = Nobody
  /\ tx' = NoTx
  /\ UNCHANGED nonce

-----------------------------------------------------------------------------
ThreadStep(t) ==
  \/ Call(t) \/ CallRotate(t) \/ CallCheckpoint(t)
  \/ Refuse(t) \/ Begin(t) \/ Insert(t) \/ Commit(t) \/ Rollback(t)
  \/ Flush(t) \/ FlushFails(t)

ProcStep(p) ==
  \/ Open(p) \/ ReadTip(p) \/ Close(p) \/ Crash(p)
  \/ FlusherTake(p) \/ FlusherSync(p) \/ FlusherFails(p) \/ FlusherAccount(p)

Next ==
  \/ \E t \in Thread : ThreadStep(t)
  \/ \E p \in Proc : ProcStep(p)
  \/ PowerLoss

Spec == Init /\ [][Next]_vars

\* The flusher's loop never stops while its handle is open, it gets the lock
\* in the end, and a thread inside the transaction goes on.
FairSpec ==
  /\ Spec
  /\ \A p \in Proc :
       /\ SF_vars(FlusherTake(p))
       /\ WF_vars(FlusherSync(p))
       /\ SF_vars(FlusherAccount(p))
  /\ \A t \in Thread : WF_vars(Insert(t)) /\ WF_vars(Commit(t))

-----------------------------------------------------------------------------
\* Properties.

\* Every variable has its type; in particular no count of unflushed records
\* goes below zero.
TypeOK ==
  /\ records \in Seq(Record)
  /\ synced \in Nat
  /\ nonce \in Nat
  /\ open \in [Proc -> BOOLEAN]
  /\ activeKey \in [Proc -> Key \cup {NoKey}]
  /\ tip \in [Proc -> Record]
  /\ tipLink \in [Proc -> Nat]
  /\ unflushed \in [Proc -> Nat]
  /\ flushError \in [Proc -> BOOLEAN]
  /\ flusher \in [Proc -> [phase : {"idle", "syncing", "synced"}, pending : Nat]]
  /\ committed \in [Proc -> Nat]
  /\ pc \in [Thread -> {"idle", "append", "checkpoint", "writing", "flush"}]
  /\ call \in [Thread -> [items : Seq(Item), key : Key \cup {NoKey},
                           rotateTo : Key \cup {NoKey}]]
  /\ writer \in Thread \cup {Nobody}
  /\ tx \in [new : Seq(Record), queue : Seq(Item), prev : Record, link : Nat,
             key : Key \cup {NoKey}, rotateTo : Key \cup {NoKey}]

\* The record at index i says seq i and carries the link of the record at
\* index i - 1.
Linked(rows) ==
  \A i \in 1 .. Len(rows) :
    /\ rows[i].seq = i - 1
    /\ rows[i].prev = IF i = 1 THEN NoLink ELSE rows[i - 1].nonce

\* What verify_chain checks of position and link, whichever handle wrote each
\* record and whatever tip it had cached.
ChainLinked == Linked(records)

\* A checkpoint at index i states tree_size i and the root of the i records
\* before it (spec/cva-seal-spec-v1.md:210).
CheckpointsExact ==
  \A i \in 1 .. Len(records) :
    records[i].type = "checkpoint" =>
      /\ records[i].size = i - 1
      /\ records[i].root = Root(records, i - 1)

\* The key that must sign the record after r.
NextKey(r) == IF r.type = "key_rotation" THEN r.newKey ELSE r.key

\* Every record is signed by the key the records before it make active: the
\* verifier's KEY check, walked over rotations.
WellSigned ==
  \A i \in 2 .. Len(records) : records[i].key = NextKey(records[i - 1])

\* The cadence: a ledger that reaches a multiple of checkpoint_every has a
\* checkpoint there, so no CheckpointEvery + 1 records in a row lack one.
CheckpointCadence ==
  \A i \in 2 .. Len(records) :
    i % CheckpointEvery = 0 =>
      \/ records[i].type = "checkpoint"
      \/ i < Len(records) /\ records[i + 1].type = "checkpoint"

\* `durable`: "True when everything committed so far has been fsynced".
DurableMeansSynced ==
  \A p \in Proc : open[p] /\ Durable(p) => committed[p] <= synced

\* What a handle commits is fsynced in the end, unless the handle goes away
\* or its flusher has reported an error: there is always a later instant at
\* which nothing it committed is at risk.
CommittedGetsSynced ==
  \A p \in Proc :
    []<>(committed[p] <= synced \/ ~open[p] \/ flushError[p])

\* The ledger implements the log it promises.
Log == INSTANCE AppendOnlyLog WITH log <- records, durable <- synced

ImplementsLog == Log!Spec
=============================================================================
