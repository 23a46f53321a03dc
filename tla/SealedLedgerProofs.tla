-------------------------- MODULE SealedLedgerProofs --------------------------
(***************************************************************************)
(* Proofs about SealedLedger, for every set of processes, threads and keys *)
(* and every bound: first its types and the chain of records; then the     *)
(* handles, the key each one signs with and what each one reports as       *)
(* durable; last the checkpoints, that they come when the cadence asks for *)
(* one and state what they cover.                                          *)
(***************************************************************************)
EXTENDS SealedLedger, SequenceTheorems, WellFoundedInduction, TLAPS

-----------------------------------------------------------------------------
\* Lemmas on the operators of the model.

\* A non-empty set of positions has a greatest one: _current_key_id finds the
\* last rotation.
LEMMA LastPosition ==
  ASSUME NEW n \in Nat, NEW S \in SUBSET (1 .. n), S # {}
  PROVE  \E i \in S : \A j \in S : j <= i
<1> DEFINE Distances == {d \in Nat : \E i \in S : d = n - i}
<1>1. Distances \subseteq Nat /\ Distances # {}
  <2>1. PICK i \in S : TRUE
    OBVIOUS
  <2>2. n - i \in Distances
    BY <2>1
  <2> QED BY <2>2
<1>2. PICK d \in Distances :
        \A e \in Distances : ~ (<<e, d>> \in OpToRel(<, Nat))
  <2> HIDE DEF Distances
  <2> QED BY <1>1, WFMin, NatLessThanWellFounded, Zenon
<1>3. \A e \in Distances : ~ (e < d)
  BY <1>1, <1>2, Zenon DEF OpToRel
<1>4. PICK i \in S : d = n - i
  BY <1>2
<1>5. \A j \in S : j <= i
  <2> TAKE j \in S
  <2>1. n - j \in Distances
    OBVIOUS
  <2> QED BY <2>1, <1>3, <1>4
<1> QED BY <1>5

\* The active key of a ledger is a key of the model.
LEMMA CurrentKeyType ==
  ASSUME NEW rows \in Seq(Record), Len(rows) >= 1
  PROVE  CurrentKey(rows) \in Key \cup {NoKey}
<1> DEFINE rotations == {i \in 1 .. Len(rows) : rows[i].type = "key_rotation"}
           latest == CHOOSE i \in rotations : \A j \in rotations : j <= i
<1>1. \A i \in 1 .. Len(rows) : rows[i] \in Record
  BY ElementOfSeq
<1>2. CASE rotations = {}
  BY <1>1, <1>2 DEF CurrentKey, Record
<1>3. CASE rotations # {}
  <2>1. Len(rows) \in Nat
    BY LenProperties
  <2>2. \E i \in rotations : \A j \in rotations : j <= i
    <3> rotations \in SUBSET (1 .. Len(rows))
      OBVIOUS
    <3> HIDE DEF rotations
    <3> QED BY <1>3, <2>1, LastPosition
  <2>3. latest \in rotations
    BY <2>2
  <2>4. rows[latest] \in Record
    BY <1>1, <2>3
  <2>5. CurrentKey(rows) = rows[latest].newKey
    BY <1>3 DEF CurrentKey
  <2> QED BY <2>4, <2>5 DEF Record
<1> QED BY <1>2, <1>3

\* The checkpoint of a list of rows is an item to seal.
LEMMA CheckpointType ==
  ASSUME NEW rows \in Seq(Record)
  PROVE  CheckpointOf(rows) \in Item
<1>0. \A i \in 1 .. Len(rows) : rows[i] \in Record
  BY ElementOfSeq
<1>1. Len(rows) \in Nat /\ \A i \in 1 .. Len(rows) : rows[i].nonce \in Nat
  BY <1>0, LenProperties DEF Record
<1>2. Root(rows, Len(rows)) \in Seq(Nat)
  BY <1>1 DEF Root
<1> QED BY <1>1, <1>2 DEF CheckpointOf, Item, RecordType

\* Sealing an item gives a record.
LEMMA SealNextType ==
  ASSUME NEW item \in Item, NEW prev \in Record, NEW link \in Nat,
         NEW key \in Key \cup {NoKey}, NEW newKey \in Key \cup {NoKey},
         NEW n \in Nat
  PROVE  SealNext(item, prev, link, key, newKey, n) \in Record
BY DEF SealNext, Item, Record, NoLink

\* The constant records have the type of a record.
LEMMA ConstantRecords ==
  Genesis \in Record /\ NoRecord \in Record
BY ConstantsAssumption, EmptySeq DEF Genesis, NoRecord, Record, RecordType, NoLink

\* What a program passes to append_many is a non-empty list of items.
LEMMA ItemsType ==
  /\ \A n \in Nat \ {0} : Entries(n) \in Seq(Item) /\ Entries(n) # <<>>
  /\ <<Rotation>> \in Seq(Item)
<1>1. Entry \in Item /\ Rotation \in Item
  BY EmptySeq DEF Entry, Rotation, Item, RecordType
<1>2. ASSUME NEW n \in Nat \ {0}
      PROVE  Entries(n) \in Seq(Item) /\ Entries(n) # <<>>
  BY <1>1, <1>2 DEF Entries
<1> QED BY <1>1, <1>2

\* An item put at the head of a queue, as the cadence does with a checkpoint.
LEMMA ItemAtHead ==
  ASSUME NEW c \in Item, NEW queue \in Seq(Item)
  PROVE  /\ <<c>> \o queue \in Seq(Item) /\ <<c>> \o queue # <<>>
         /\ Len(<<c>> \o queue) = Len(queue) + 1
         /\ (<<c>> \o queue)[1] = c
         /\ \A i \in 1 .. Len(queue) : (<<c>> \o queue)[i + 1] = queue[i]
         /\ Head(<<c>> \o queue) = c /\ Tail(<<c>> \o queue) = queue
<1> DEFINE one == <<c>>
           all == one \o queue
<1>1. one \in Seq(Item) /\ Len(one) = 1 /\ one[1] = c /\ Len(queue) \in Nat
  BY LenProperties
<1> HIDE DEF one
<1>2. /\ all \in Seq(Item) /\ Len(all) = Len(one) + Len(queue)
      /\ \A i \in 1 .. Len(one) + Len(queue) :
           all[i] = IF i <= Len(one) THEN one[i] ELSE queue[i - Len(one)]
  BY <1>1, ConcatProperties
<1> HIDE DEF all
<1>3. /\ Len(all) = Len(queue) + 1 /\ all # <<>> /\ all[1] = c
      /\ \A i \in 1 .. Len(queue) : all[i + 1] = queue[i]
  BY <1>1, <1>2, EmptySeq
<1>4. Head(all) = c /\ Tail(all) = queue
  <2>1. /\ Head(all) = all[1] /\ Tail(all) \in Seq(Item)
        /\ Len(Tail(all)) = Len(all) - 1
        /\ \A i \in 1 .. Len(Tail(all)) : Tail(all)[i] = all[i + 1]
    BY <1>2, <1>3, HeadTailProperties
  <2>2. \A i \in 1 .. Len(queue) : Tail(all)[i] = queue[i]
    BY <1>1, <1>3, <2>1
  <2> QED BY <1>1, <1>3, <2>1, <2>2, SeqEqual
<1> QED BY <1>2, <1>3, <1>4 DEF all, one
-----------------------------------------------------------------------------
\* Type correctness.

\* The ledger has its genesis record, what is synced is within it, a call has
\* something to append, and so has a transaction about to commit.
NonEmpty ==
  /\ Len(records) >= 1
  /\ synced \in 1 .. Len(records)
  /\ \A t \in Thread : pc[t] \in {"append", "checkpoint"} => call[t].items # <<>>
  /\ (writer # Nobody /\ tx.queue = <<>>) => tx.new # <<>>

TypeInv == TypeOK /\ NonEmpty

\* A thread with no call, and no transaction, have their types.
LEMMA NoCallNoTx ==
  /\ NoCall \in [items : Seq(Item), key : Key \cup {NoKey},
                 rotateTo : Key \cup {NoKey}]
  /\ NoTx \in [new : Seq(Record), queue : Seq(Item), prev : Record,
               link : Nat, key : Key \cup {NoKey}, rotateTo : Key \cup {NoKey}]
BY ConstantRecords, EmptySeq DEF NoCall, NoTx, NoLink

\* The last row of a ledger is a record.
LEMMA TipType ==
  ASSUME NEW rows \in Seq(Record), Len(rows) >= 1
  PROVE  Tip(rows) \in Record
<1>1. Len(rows) \in 1 .. Len(rows)
  BY LenProperties
<1> QED BY <1>1, ElementOfSeq DEF Tip

\* The initial state has its types.
LEMMA TypeInit == Init => TypeInv
<1> SUFFICES ASSUME Init PROVE TypeInv
  OBVIOUS
<1>1. <<Genesis>> \in Seq(Record) /\ Len(<<Genesis>>) = 1
  BY ConstantRecords
<1>2. TypeOK
  BY <1>1, NoCallNoTx, ConstantRecords, ConstantsAssumption
  DEF Init, TypeOK, NoLink
<1>3. NonEmpty
  BY <1>1 DEF Init, NonEmpty
<1> QED BY <1>2, <1>3 DEF TypeInv

\* The steps of a process.
LEMMA TypeProcStep ==
  ASSUME TypeInv, NEW p \in Proc, ProcStep(p)
  PROVE  TypeInv'
<1> USE DEF TypeInv, TypeOK, NonEmpty, fileVars, handleVars, flushVars, threadVars
<1>1. CASE Open(p)
  BY <1>1, CurrentKeyType, TipType DEF Open, NoLink
<1>2. CASE ReadTip(p)
  BY <1>2, TipType DEF ReadTip, NoLink
<1>3. CASE Close(p)
  BY <1>3, ConstantRecords DEF Close, Gone, NoLink
<1>4. CASE Crash(p)
  BY <1>4, ConstantRecords, NoCallNoTx DEF Crash, Gone, NoLink
<1>5. CASE FlusherTake(p)
  BY <1>5 DEF FlusherTake
<1>6. CASE FlusherSync(p)
  <2>1. flusher'[p] \in [phase : {"idle", "syncing", "synced"}, pending : Nat]
    BY ZenonT(60), <1>6 DEF FlusherSync
  <2>2. flusher' = [flusher EXCEPT ![p] = flusher'[p]]
    BY <1>6 DEF FlusherSync
  <2> QED BY <1>6, <2>1, <2>2, LenProperties DEF FlusherSync
<1>7. CASE FlusherFails(p)
  BY <1>7 DEF FlusherFails
<1>8. CASE FlusherAccount(p)
  BY <1>8 DEF FlusherAccount, Subtract
<1> QED BY <1>1, <1>2, <1>3, <1>4, <1>5, <1>6, <1>7, <1>8 DEF ProcStep

\* One turn of append_many's loop.
LEMMA TypeInsert ==
  ASSUME TypeInv, NEW t \in Thread, Insert(t)
  PROVE  TypeInv'
<1> DEFINE item == Head(tx.queue)
           new  == IF item.type = "key_rotation" THEN tx.rotateTo ELSE NoKey
           r    == SealNext(item, tx.prev, tx.link, tx.key, new, nonce + 1)
           rows == Append(tx.new, r)
           all  == records \o rows
           rest == IF CheckpointDue(item, Len(all))
                     THEN <<CheckpointOf(all)>> \o Tail(tx.queue)
                     ELSE Tail(tx.queue)
<1>1. /\ tx.queue \in Seq(Item) /\ tx.queue # <<>>
      /\ tx.new \in Seq(Record) /\ tx.prev \in Record /\ tx.link \in Nat
      /\ tx.key \in Key \cup {NoKey} /\ tx.rotateTo \in Key \cup {NoKey}
      /\ records \in Seq(Record) /\ nonce \in Nat
  BY DEF Insert, TypeInv, TypeOK
<1>2. item \in Item /\ Tail(tx.queue) \in Seq(Item)
  BY <1>1, HeadTailProperties
<1>3. r \in Record
  <2>1. new \in Key \cup {NoKey} /\ nonce + 1 \in Nat
    BY <1>1
  <2> HIDE DEF new, item
  <2> QED BY <1>1, <1>2, <2>1, SealNextType
<1>4. rows \in Seq(Record) /\ rows # <<>>
  BY <1>1, <1>3, AppendProperties
<1>5. all \in Seq(Record)
  BY <1>1, <1>4, ConcatProperties
<1>6. rest \in Seq(Item)
  <2>1. CheckpointOf(all) \in Item
    BY <1>5, CheckpointType
  <2>2. <<CheckpointOf(all)>> \o Tail(tx.queue) \in Seq(Item)
    BY <1>2, <2>1, ConcatProperties
  <2> QED BY <1>2, <2>2
<1>7. r.nonce \in Nat
  BY <1>3 DEF Record
<1>8. KeyAfter(item, tx.key, tx.rotateTo) \in Key \cup {NoKey}
  BY <1>1 DEF KeyAfter
<1>9. /\ tx' = [tx EXCEPT !.new = rows, !.queue = rest, !.prev = r,
                          !.link = r.nonce,
                          !.key = KeyAfter(item, tx.key, tx.rotateTo)]
      /\ nonce' = nonce + 1
      /\ UNCHANGED <<records, synced, handleVars, flushVars, pc, call, writer>>
  BY DEF Insert
<1> HIDE DEF item, rows, rest, r
<1>10. TypeOK'
  <2>1. tx' \in [new : Seq(Record), queue : Seq(Item), prev : Record, link : Nat,
                 key : Key \cup {NoKey}, rotateTo : Key \cup {NoKey}]
    <3>1. tx \in [new : Seq(Record), queue : Seq(Item), prev : Record, link : Nat,
                  key : Key \cup {NoKey}, rotateTo : Key \cup {NoKey}]
      BY DEF TypeInv, TypeOK
    <3> QED BY <3>1, <1>3, <1>4, <1>6, <1>7, <1>8, <1>9
  <2>2. nonce' \in Nat
    BY <1>1, <1>9
  <2> QED BY <1>9, <2>1, <2>2 DEF TypeInv, TypeOK, handleVars, flushVars
<1>11. NonEmpty'
  BY <1>4, <1>9 DEF TypeInv, TypeOK, NonEmpty
<1> QED BY <1>10, <1>11 DEF TypeInv

\* The end of append_many.
LEMMA TypeCommit ==
  ASSUME TypeInv, NEW t \in Thread, Commit(t)
  PROVE  TypeInv'
<1> DEFINE rows == [tx.new EXCEPT ![Len(tx.new)].last = TRUE]
<1>1. /\ tx.new \in Seq(Record) /\ tx.new # <<>>
      /\ records \in Seq(Record) /\ Len(records) >= 1
      /\ tx.link \in Nat /\ tx.key \in Key \cup {NoKey}
      /\ Host[t] \in Proc
  BY ConstantsAssumption DEF Commit, TypeInv, TypeOK, NonEmpty
<1>2. Len(tx.new) \in 1 .. Len(tx.new)
  BY <1>1, EmptySeq, LenProperties
<1>3. [tx.new[Len(tx.new)] EXCEPT !.last = TRUE] \in Record
  <2>1. tx.new[Len(tx.new)] \in Record
    BY <1>1, <1>2, ElementOfSeq
  <2> QED BY <2>1 DEF Record
<1>4. rows \in Seq(Record) /\ Len(rows) = Len(tx.new)
  BY <1>1, <1>2, <1>3, ExceptSeq
<1>5. Tip(rows) \in Record
  BY <1>2, <1>4, TipType
<1>6. /\ records \o rows \in Seq(Record)
      /\ Len(records \o rows) = Len(records) + Len(rows)
  BY <1>1, <1>4, ConcatProperties
<1> HIDE DEF rows
<1>7. TypeOK'
  <2>1. /\ records' = records \o rows
        /\ synced' = IF GroupCommit THEN synced ELSE Len(records')
        /\ tip' = [tip EXCEPT ![Host[t]] = Tip(rows)]
        /\ tipLink' = [tipLink EXCEPT ![Host[t]] = tx.link]
        /\ activeKey' = [activeKey EXCEPT ![Host[t]] = tx.key]
        /\ unflushed' = IF GroupCommit
                          THEN [unflushed EXCEPT ![Host[t]] = @ + Len(rows)]
                          ELSE unflushed
        /\ committed' = [committed EXCEPT ![Host[t]] = Len(records')]
    BY DEF Commit, rows
  <2>2. /\ pc' = [pc EXCEPT ![t] = IF tx.rotateTo # NoKey THEN "flush" ELSE "idle"]
        /\ call' = [call EXCEPT ![t] = NoCall]
        /\ writer' = Nobody
        /\ tx' = NoTx
        /\ UNCHANGED <<nonce, open, flushError, flusher>>
    BY DEF Commit
  <2>3. Len(records') \in Nat /\ Len(rows) \in Nat
    BY <1>4, <1>6, <2>1, LenProperties
  <2>4. records' \in Seq(Record) /\ synced' \in Nat
    BY <1>6, <2>1, <2>3 DEF TypeInv, TypeOK
  <2>5. tip' \in [Proc -> Record] /\ tipLink' \in [Proc -> Nat]
    BY <1>1, <1>5, <2>1 DEF TypeInv, TypeOK
  <2>6. /\ activeKey' \in [Proc -> Key \cup {NoKey}]
        /\ committed' \in [Proc -> Nat]
    BY <1>1, <2>1, <2>3 DEF TypeInv, TypeOK
  <2>7. unflushed' \in [Proc -> Nat]
    <3>1. unflushed \in [Proc -> Nat]
      BY DEF TypeInv, TypeOK
    <3> QED BY <1>1, <2>1, <2>3, <3>1
  <2> QED BY <2>2, <2>4, <2>5, <2>6, <2>7, NoCallNoTx DEF TypeInv, TypeOK
<1>8. NonEmpty'
  <2>1. /\ records' = records \o rows
        /\ synced' = IF GroupCommit THEN synced ELSE Len(records')
        /\ pc' = [pc EXCEPT ![t] = IF tx.rotateTo # NoKey THEN "flush" ELSE "idle"]
        /\ call' = [call EXCEPT ![t] = NoCall]
        /\ writer' = Nobody
    BY DEF Commit, rows
  <2>2. Len(records') >= Len(records) /\ Len(records') \in Nat
    BY <1>2, <1>4, <1>6, <2>1, <1>1, LenProperties
  <2> QED BY <1>1, <2>1, <2>2 DEF TypeInv, TypeOK, NonEmpty
<1> QED BY <1>7, <1>8 DEF TypeInv

\* The steps of a thread.
LEMMA TypeThreadStep ==
  ASSUME TypeInv, NEW t \in Thread, ThreadStep(t)
  PROVE  TypeInv'
<1>0. Host[t] \in Proc /\ MaxBatch \in Nat
  BY ConstantsAssumption
<1> USE DEF TypeInv, TypeOK, NonEmpty, fileVars, handleVars, flushVars
<1>1. CASE Call(t)
  <2>1. PICK n \in 1 .. MaxBatch :
          call' = [call EXCEPT ![t] = [items |-> Entries(n), rotateTo |-> NoKey,
                                       key |-> activeKey[Host[t]]]]
    BY <1>1 DEF Call
  <2>2. Entries(n) \in Seq(Item) /\ Entries(n) # <<>>
    <3>1. n \in Nat \ {0}
      BY <1>0
    <3> QED BY <3>1, ItemsType, Zenon
  <2> QED BY <1>0, <1>1, <2>1, <2>2 DEF Call
<1>2. CASE CallRotate(t)
  BY <1>0, <1>2, ItemsType DEF CallRotate
<1>3. CASE CallCheckpoint(t)
  BY SMTT(30), <1>0, <1>3, CheckpointType DEF CallCheckpoint
<1>4. CASE Refuse(t)
  BY <1>4, NoCallNoTx DEF Refuse
<1>5. CASE Begin(t)
  <2>1. PrevOf(Host[t]) \in Record /\ LinkOf(Host[t]) \in Nat
    BY <1>0, TipType DEF PrevOf, LinkOf, NoLink
  <2>2. pc[t] \in {"append", "checkpoint"}
    BY <1>5 DEF Begin, HasLock
  <2> QED BY <1>5, <2>1, <2>2, EmptySeq DEF Begin
<1>6. CASE Insert(t)
  BY <1>6, TypeInsert
<1>7. CASE Commit(t)
  BY <1>7, TypeCommit
<1>8. CASE Rollback(t)
  BY <1>8, NoCallNoTx DEF Rollback
<1>9. CASE Flush(t)
  BY <1>0, <1>9, LenProperties DEF Flush
<1>10. CASE FlushFails(t)
  BY <1>10 DEF FlushFails
<1> QED BY <1>1, <1>2, <1>3, <1>4, <1>5, <1>6, <1>7, <1>8, <1>9, <1>10
        DEF ThreadStep

\* A power failure.
LEMMA TypePowerLoss ==
  ASSUME TypeInv, PowerLoss
  PROVE  TypeInv'
<1> USE DEF TypeInv, TypeOK, NonEmpty
<1>1. PICK n \in synced .. Len(records) :
        records' = SubSeq(records, 1, n) /\ synced' = n
  BY DEF PowerLoss
<1>2. n \in 1 .. Len(records)
  OBVIOUS
<1>3. records' \in Seq(Record) /\ Len(records') = n
  BY <1>1, <1>2, SubSeqProperties, ElementOfSeq
<1> QED BY <1>1, <1>2, <1>3, NoCallNoTx, ConstantRecords DEF PowerLoss, NoLink

\* Every state of a behaviour has its types.
THEOREM TypeCorrect == Spec => []TypeOK
<1>1. TypeInv /\ [Next]_vars => TypeInv'
  <2> SUFFICES ASSUME TypeInv, [Next]_vars
               PROVE  TypeInv'
    OBVIOUS
  <2>1. CASE Next
    BY <2>1, TypeThreadStep, TypeProcStep, TypePowerLoss DEF Next
  <2>2. CASE UNCHANGED vars
    BY <2>2 DEF TypeInv, TypeOK, NonEmpty, vars, fileVars, handleVars,
                flushVars, threadVars
  <2> QED BY <2>1, <2>2
<1>2. TypeInv => TypeOK
  BY DEF TypeInv
<1> QED BY TypeInit, <1>1, <1>2, PTL DEF Spec

-----------------------------------------------------------------------------
\* The chain.

\* The rows as the transaction sees them: the committed ones and its own.
Rows == records \o tx.new

\* A handle's cached tip is some row of the ledger, not always the last: other
\* processes append too.  The cached link is that row's, or none.
CachesSound ==
  \A p \in Proc : open[p] =>
    \E i \in 1 .. Len(records) :
      tip[p] = records[i] /\ tipLink[p] \in {NoLink, tip[p].nonce}

\* The transaction belongs to a thread inside append_many whose handle is open,
\* and it follows the last row it sees.
WriterSound ==
  /\ writer = Nobody => tx.new = <<>>
  /\ writer # Nobody =>
       /\ pc[writer] = "writing"
       /\ open[Host[writer]]
       /\ tx.prev = Tip(Rows)
       /\ tx.link \in {NoLink, tx.prev.nonce}

ChainInv == TypeInv /\ Linked(Rows) /\ CachesSound /\ WriterSound

\* A record that names the last one extends a linked ledger.
LEMMA LinkedAppend ==
  ASSUME NEW rows \in Seq(Record), Len(rows) >= 1, Linked(rows),
         NEW r \in Record, r.seq = Tip(rows).seq + 1, r.prev = Tip(rows).nonce
  PROVE  Linked(Append(rows, r))
<1>1. /\ Len(Append(rows, r)) = Len(rows) + 1
      /\ Append(rows, r)[Len(rows) + 1] = r
      /\ \A i \in 1 .. Len(rows) : Append(rows, r)[i] = rows[i]
      /\ Len(rows) \in Nat
  BY AppendProperties, LenProperties
<1>2. Tip(rows).seq = Len(rows) - 1
  BY <1>1 DEF Linked, Tip
<1> QED BY <1>1, <1>2 DEF Linked, Tip

\* A prefix of a linked ledger is linked.
LEMMA LinkedPrefix ==
  ASSUME NEW rows \in Seq(Record), Linked(rows),
         NEW prefix \in Seq(Record), Len(prefix) <= Len(rows),
         \A i \in 1 .. Len(prefix) : prefix[i] = rows[i]
  PROVE  Linked(prefix)
<1> SUFFICES ASSUME NEW i \in 1 .. Len(prefix)
             PROVE  /\ prefix[i].seq = i - 1
                    /\ prefix[i].prev = IF i = 1 THEN NoLink
                                                 ELSE prefix[i - 1].nonce
  BY DEF Linked
<1>1. Len(prefix) \in Nat /\ Len(rows) \in Nat
  BY LenProperties
<1>2. i \in 1 .. Len(rows)
  BY <1>1
<1>3. /\ rows[i].seq = i - 1
      /\ rows[i].prev = IF i = 1 THEN NoLink ELSE rows[i - 1].nonce
  BY <1>2 DEF Linked
<1>4. i # 1 => i - 1 \in 1 .. Len(prefix)
  BY <1>1
<1> QED BY <1>3, <1>4

\* Linked depends on positions, links and nonces only.
LEMMA LinkedSame ==
  ASSUME NEW rows \in Seq(Record), Linked(rows),
         NEW marked \in Seq(Record), Len(marked) = Len(rows),
         \A i \in 1 .. Len(rows) : /\ marked[i].seq = rows[i].seq
                                   /\ marked[i].prev = rows[i].prev
                                   /\ marked[i].nonce = rows[i].nonce
  PROVE  Linked(marked)
BY LenProperties DEF Linked

\* Where the rows of two lists are in their concatenation.
LEMMA ConcatRows ==
  ASSUME NEW a \in Seq(Record), NEW b \in Seq(Record)
  PROVE  /\ a \o b \in Seq(Record)
         /\ Len(a \o b) = Len(a) + Len(b)
         /\ \A i \in 1 .. Len(a) : (a \o b)[i] = a[i]
         /\ \A i \in Len(a) + 1 .. Len(a) + Len(b) : (a \o b)[i] = b[i - Len(a)]
BY ConcatProperties, LenProperties

\* Appending to the second of two lists appends to their concatenation.
LEMMA ConcatAppend ==
  ASSUME NEW a \in Seq(Record), NEW b \in Seq(Record), NEW r \in Record
  PROVE  a \o Append(b, r) = Append(a \o b, r)
<1> DEFINE one == <<r>>
<1>1. one \in Seq(Record)
  OBVIOUS
<1>2. Append(b, r) = b \o one
  BY AppendIsConcat, Zenon
<1>3. Append(a \o b, r) = (a \o b) \o one
  <2>1. a \o b \in Seq(Record)
    BY ConcatProperties, Zenon
  <2> QED BY <2>1, AppendIsConcat, Zenon
<1> HIDE DEF one
<1>4. (a \o b) \o one = a \o (b \o one)
  BY <1>1, ConcatAssociative
<1> QED BY <1>2, <1>3, <1>4, Zenon

\* The rows a transaction sees: the committed ones, then its own.
LEMMA RowsShape ==
  ASSUME TypeInv
  PROVE  /\ Rows \in Seq(Record) /\ Len(Rows) \in Nat /\ Len(records) \in Nat
         /\ Len(Rows) = Len(records) + Len(tx.new) /\ Len(tx.new) \in Nat
         /\ Len(records) >= 1
         /\ \A i \in 1 .. Len(Rows) : Rows[i] \in Record
         /\ \A i \in 1 .. Len(records) : Rows[i] = records[i]
         /\ \A i \in Len(records) + 1 .. Len(Rows) : Rows[i] = tx.new[i - Len(records)]
<1>1. records \in Seq(Record) /\ tx.new \in Seq(Record) /\ Len(records) >= 1
  BY DEF TypeInv, TypeOK, NonEmpty
<1>2. Len(records) \in Nat /\ Len(tx.new) \in Nat
  BY <1>1, LenProperties
<1>3. /\ Rows \in Seq(Record) /\ Len(Rows) = Len(records) + Len(tx.new)
      /\ \A i \in 1 .. Len(records) : Rows[i] = records[i]
      /\ \A i \in Len(records) + 1 .. Len(records) + Len(tx.new) :
           Rows[i] = tx.new[i - Len(records)]
  BY <1>1, ConcatRows, Zenon DEF Rows
<1>4. \A i \in 1 .. Len(Rows) : Rows[i] \in Record
  BY <1>3, ElementOfSeq
<1> QED BY <1>1, <1>2, <1>3, <1>4

\* The committed rows are a prefix of what the transaction sees.
LEMMA RecordsLinked ==
  ASSUME TypeInv, Linked(Rows)
  PROVE  Linked(records)
<1>1. records \in Seq(Record)
  BY DEF TypeInv, TypeOK
<1>2. Len(records) <= Len(Rows)
  BY RowsShape
<1> QED BY <1>1, <1>2, RowsShape, LinkedPrefix

\* The initial ledger is linked and no handle is open.
LEMMA ChainInit == Init => ChainInv
<1> SUFFICES ASSUME Init PROVE ChainInv
  OBVIOUS
<1>1. TypeInv
  BY TypeInit
<1>2. Rows = <<Genesis>>
  BY ConstantRecords, ConcatEmptySeq DEF Init, Rows, NoTx
<1>3. Linked(Rows)
  BY <1>2 DEF Linked, Genesis
<1> QED BY <1>1, <1>3, ConstantsAssumption
        DEF Init, ChainInv, CachesSound, WriterSound, NoTx

\* A step that adds no rows and refreshes at most the cache of p, from the last
\* row, keeps the caches sound.
LEMMA CachesKept ==
  ASSUME ChainInv, NEW p \in Proc, records' = records,
         \A q \in Proc \ {p} : open'[q] =>
           open[q] /\ tip'[q] = tip[q] /\ tipLink'[q] = tipLink[q],
         open'[p] =>
           \/ open[p] /\ tip'[p] = tip[p] /\ tipLink'[p] = tipLink[p]
           \/ tip'[p] = Tip(records) /\ tipLink'[p] = NoLink
  PROVE  CachesSound'
<1>1. Len(records) \in 1 .. Len(records) /\ Tip(records) = records[Len(records)]
  BY LenProperties DEF ChainInv, TypeInv, TypeOK, NonEmpty, Tip
<1> QED BY <1>1 DEF ChainInv, CachesSound

\* A step that leaves the transaction alone and closes no writer's handle
\* keeps it sound.
LEMMA WriterKept ==
  ASSUME ChainInv, UNCHANGED <<records, writer, tx>>,
         writer # Nobody => pc'[writer] = pc[writer] /\ open'[Host[writer]]
  PROVE  WriterSound' /\ Linked(Rows)'
<1>1. Rows' = Rows
  BY DEF Rows
<1> QED BY <1>1 DEF ChainInv, WriterSound, Linked, Tip

\* A transaction that is over leaves the committed rows, which are linked.
LEMMA WriterGone ==
  ASSUME ChainInv, records' = records, writer' = Nobody, tx' = NoTx
  PROVE  WriterSound' /\ Linked(Rows)'
<1>1. Rows' = records
  BY ConcatEmptySeq DEF Rows, NoTx, ChainInv, TypeInv, TypeOK
<1>2. Linked(records)
  BY RecordsLinked DEF ChainInv
<1> QED BY <1>1, <1>2 DEF WriterSound, NoTx, Linked

\* The steps of a process keep the chain: none of them writes rows.
LEMMA ChainProcStep ==
  ASSUME ChainInv, NEW p \in Proc, ProcStep(p)
  PROVE  ChainInv'
<1>1. TypeInv'
  BY TypeProcStep DEF ChainInv
<1>2. /\ open \in [Proc -> BOOLEAN] /\ tip \in [Proc -> Record]
      /\ tipLink \in [Proc -> Nat] /\ Host \in [Thread -> Proc]
      /\ Nobody \notin Thread /\ writer \in Thread \cup {Nobody}
      /\ writer # Nobody => pc[writer] = "writing" /\ open[Host[writer]]
  BY ConstantsAssumption DEF ChainInv, TypeInv, TypeOK, WriterSound
<1> USE DEF fileVars, handleVars, flushVars, threadVars
<1>3. CASE Open(p)
  <2>1. CachesSound'
    BY <1>2, <1>3, CachesKept DEF Open
  <2>2. WriterSound' /\ Linked(Rows)'
    BY <1>2, <1>3, WriterKept DEF Open
  <2> QED BY <1>1, <2>1, <2>2 DEF ChainInv
<1>4. CASE ReadTip(p)
  <2>1. CachesSound'
    BY <1>2, <1>4, CachesKept DEF ReadTip
  <2>2. WriterSound' /\ Linked(Rows)'
    BY <1>2, <1>4, WriterKept DEF ReadTip
  <2> QED BY <1>1, <2>1, <2>2 DEF ChainInv
<1>5. CASE Close(p)
  <2>1. CachesSound'
    BY <1>2, <1>5, CachesKept DEF Close, Gone
  <2>2. writer # Nobody => Host[writer] # p
    BY <1>2, <1>5 DEF Close, Locked
  <2>3. WriterSound' /\ Linked(Rows)'
    BY <1>2, <1>5, <2>2, WriterKept DEF Close, Gone
  <2> QED BY <1>1, <2>1, <2>3 DEF ChainInv
<1>6. CASE Crash(p)
  <2>1. CachesSound'
    BY <1>2, <1>6, CachesKept DEF Crash, Gone
  <2>2. WriterSound' /\ Linked(Rows)'
    <3>1. CASE \E t \in Thread : writer = t /\ Host[t] = p
      BY <1>6, <3>1, WriterGone DEF Crash
    <3>2. CASE ~ \E t \in Thread : writer = t /\ Host[t] = p
      <4>1. writer # Nobody => Host[writer] # p
        BY <1>2, <3>2
      <4>2. UNCHANGED <<records, writer, tx>>
        BY <1>6, <3>2 DEF Crash
      <4>3. writer # Nobody => pc'[writer] = pc[writer] /\ open'[Host[writer]]
        BY <1>2, <1>6, <4>1 DEF Crash, Gone
      <4> QED BY <4>2, <4>3, WriterKept
    <3> QED BY <3>1, <3>2
  <2> QED BY <1>1, <2>1, <2>2 DEF ChainInv
<1>7. CASE FlusherTake(p) \/ FlusherSync(p) \/ FlusherFails(p) \/ FlusherAccount(p)
  <2>1. UNCHANGED <<records, open, tip, tipLink, pc, writer, tx>>
    BY <1>7 DEF FlusherTake, FlusherSync, FlusherFails, FlusherAccount
  <2>2. CachesSound'
    BY <1>2, <2>1, CachesKept
  <2>3. WriterSound' /\ Linked(Rows)'
    BY <1>2, <2>1, WriterKept
  <2> QED BY <1>1, <2>2, <2>3 DEF ChainInv
<1> QED BY <1>3, <1>4, <1>5, <1>6, <1>7 DEF ProcStep

\* What one turn of the loop adds to the rows the transaction sees.
LEMMA InsertRows ==
  ASSUME ChainInv, NEW t \in Thread, Insert(t)
  PROVE  LET item == Head(tx.queue)
             new  == IF item.type = "key_rotation" THEN tx.rotateTo ELSE NoKey
             r    == SealNext(item, Tip(Rows), tx.link, tx.key, new, nonce + 1)
         IN  /\ r \in Record /\ item \in Item /\ tx.queue # <<>>
             /\ Rows' = Append(Rows, r) /\ tx'.new = Append(tx.new, r)
             /\ tx.link \in {NoLink, Tip(Rows).nonce}
             /\ tx'.queue = IF CheckpointDue(item, Len(Rows) + 1)
                              THEN <<CheckpointOf(Rows')>> \o Tail(tx.queue)
                              ELSE Tail(tx.queue)
             /\ tx'.prev = r /\ tx'.link = r.nonce
             /\ tx'.key = KeyAfter(item, tx.key, tx.rotateTo)
             /\ tx'.rotateTo = tx.rotateTo
             /\ writer = t /\ writer # Nobody
<1> DEFINE item == Head(tx.queue)
           new  == IF item.type = "key_rotation" THEN tx.rotateTo ELSE NoKey
           r    == SealNext(item, tx.prev, tx.link, tx.key, new, nonce + 1)
           all  == records \o Append(tx.new, r)
<1>1. TypeInv' /\ TypeInv
  BY TypeInsert DEF ChainInv
<1>2. /\ records \in Seq(Record) /\ tx.new \in Seq(Record)
      /\ tx'.prev \in Record /\ tx.queue \in Seq(Item) /\ tx.queue # <<>>
  BY <1>1 DEF TypeInv, TypeOK, Insert
<1>3. /\ tx' = [tx EXCEPT
                  !.new   = Append(@, r),
                  !.queue = IF CheckpointDue(item, Len(all))
                              THEN <<CheckpointOf(all)>> \o Tail(@)
                              ELSE Tail(@),
                  !.prev  = r,
                  !.link  = r.nonce,
                  !.key   = KeyAfter(item, @, tx.rotateTo)]
      /\ records' = records /\ writer = t /\ writer # Nobody
  BY ConstantsAssumption DEF Insert
<1> HIDE DEF r, all, item
<1>4. /\ tx'.new = Append(tx.new, r) /\ tx'.prev = r /\ tx'.link = r.nonce
      /\ tx'.queue = IF CheckpointDue(item, Len(all))
                       THEN <<CheckpointOf(all)>> \o Tail(tx.queue)
                       ELSE Tail(tx.queue)
      /\ tx'.key = KeyAfter(item, tx.key, tx.rotateTo)
      /\ tx'.rotateTo = tx.rotateTo
  BY <1>1, <1>3 DEF TypeInv, TypeOK
<1>5. r \in Record /\ item \in Item
  <2>1. r \in Record
    BY <1>2, <1>4
  <2>2. item \in Item
    BY <1>2, HeadTailProperties DEF item
  <2> QED BY <2>1, <2>2
<1>6. Rows' = Append(Rows, r) /\ Rows' = all
  <2>1. records \o Append(tx.new, r) = Append(records \o tx.new, r)
    BY <1>2, <1>5, ConcatAppend
  <2> QED BY <1>3, <1>4, <2>1 DEF Rows, all
<1>7. Len(all) = Len(Rows) + 1
  <2>1. Rows \in Seq(Record)
    BY <1>1, RowsShape
  <2>2. Len(Append(Rows, r)) = Len(Rows) + 1
    BY <1>5, <2>1, AppendProperties
  <2> QED BY <1>6, <2>2
<1>8. tx.prev = Tip(Rows) /\ tx.link \in {NoLink, Tip(Rows).nonce}
  BY <1>3 DEF ChainInv, WriterSound
<1>9. r = SealNext(item, Tip(Rows), tx.link, tx.key, new, nonce + 1)
  BY <1>8 DEF r
<1> HIDE DEF new
<1> QED BY <1>2, <1>3, <1>4, <1>5, <1>6, <1>7, <1>8, <1>9 DEF item, new

\* One turn of the loop extends the chain by the record it seals.
LEMMA ChainInsert ==
  ASSUME ChainInv, NEW t \in Thread, Insert(t)
  PROVE  ChainInv'
<1>1. TypeInv' /\ TypeInv
  BY TypeInsert DEF ChainInv
<1>2. PICK r \in Record :
        /\ r.seq = Tip(Rows).seq + 1 /\ r.prev = Tip(Rows).nonce
        /\ Rows' = Append(Rows, r) /\ tx'.prev = r /\ tx'.link = r.nonce
  BY InsertRows, Zenon DEF SealNext
<1>3. UNCHANGED <<records, open, tip, tipLink, pc, writer>> /\ writer # Nobody
  BY ConstantsAssumption DEF Insert, handleVars
<1>4. Rows \in Seq(Record) /\ Len(Rows) >= 1
  BY <1>1, RowsShape
<1>5. Linked(Rows)'
  <2>1. Linked(Append(Rows, r))
    BY <1>2, <1>4, LinkedAppend DEF ChainInv
  <2> QED BY <1>2, <2>1 DEF Linked
<1>6. Tip(Rows)' = r
  BY <1>2, <1>4, AppendProperties, LenProperties DEF Tip
<1>7. WriterSound'
  BY <1>2, <1>3, <1>6 DEF ChainInv, WriterSound
<1>8. CachesSound'
  BY <1>3 DEF ChainInv, CachesSound
<1> QED BY <1>1, <1>5, <1>7, <1>8 DEF ChainInv

\* COMMIT makes the rows the transaction sees the ledger, and marks the last.
LEMMA CommitRows ==
  ASSUME ChainInv, NEW t \in Thread, Commit(t)
  PROVE  LET n == Len(Rows)
         IN  /\ Rows' = records' /\ records' \in Seq(Record) /\ Len(records') = n
             /\ n > Len(records)
             /\ \A i \in 1 .. n - 1 : records'[i] = Rows[i]
             /\ records'[n] = [Rows[n] EXCEPT !.last = TRUE]
<1> DEFINE m    == Len(tx.new)
           rows == [tx.new EXCEPT ![m].last = TRUE]
<1>1. TypeInv' /\ TypeInv
  BY TypeCommit DEF ChainInv
<1>2. /\ records \in Seq(Record) /\ tx.new \in Seq(Record) /\ tx.new # <<>>
      /\ records' = records \o rows /\ records' \in Seq(Record)
      /\ tx' = NoTx
  BY <1>1, ConstantsAssumption DEF Commit, TypeInv, TypeOK, NonEmpty
<1>3. m \in 1 .. m /\ m \in Nat /\ \A i \in 1 .. m : tx.new[i] \in Record
  BY <1>2, EmptySeq, LenProperties, ElementOfSeq
<1>4. [tx.new[m] EXCEPT !.last = TRUE] \in Record
  BY <1>3 DEF Record
<1>5. /\ rows \in Seq(Record) /\ Len(rows) = m
      /\ rows[m] = [tx.new[m] EXCEPT !.last = TRUE]
      /\ \A i \in 1 .. m : i # m => rows[i] = tx.new[i]
  BY <1>2, <1>3, <1>4, ExceptSeq
<1> HIDE DEF rows
<1>6. /\ Len(records') = Len(records) + m
      /\ \A i \in 1 .. Len(records) : records'[i] = records[i]
      /\ \A i \in Len(records) + 1 .. Len(records) + m :
           records'[i] = rows[i - Len(records)]
  <2>1. /\ Len(records \o rows) = Len(records) + Len(rows)
        /\ \A i \in 1 .. Len(records) : (records \o rows)[i] = records[i]
        /\ \A i \in Len(records) + 1 .. Len(records) + Len(rows) :
             (records \o rows)[i] = rows[i - Len(records)]
    BY <1>2, <1>5, ConcatRows, Zenon
  <2> QED BY <1>2, <1>5, <2>1
<1>7. Rows' = records'
  BY <1>2, ConcatEmptySeq DEF Rows, NoTx
<1>8. /\ Len(Rows) = Len(records) + m /\ Len(records) \in Nat
      /\ \A i \in 1 .. Len(records) : Rows[i] = records[i]
      /\ \A i \in Len(records) + 1 .. Len(Rows) : Rows[i] = tx.new[i - Len(records)]
  BY <1>1, RowsShape
<1>9. ASSUME NEW i \in 1 .. Len(Rows) - 1
      PROVE  records'[i] = Rows[i]
  <2>1. CASE i \in 1 .. Len(records)
    BY <1>6, <1>8, <2>1
  <2>2. CASE i \in Len(records) + 1 .. Len(Rows)
    <3>1. i - Len(records) \in 1 .. m /\ i - Len(records) # m
      BY <1>3, <1>8, <2>2
    <3> QED BY <1>5, <1>6, <1>8, <2>2, <3>1
  <2> QED BY <1>3, <1>8, <2>1, <2>2
<1>10. records'[Len(Rows)] = [Rows[Len(Rows)] EXCEPT !.last = TRUE]
  <2>1. Len(Rows) \in Len(records) + 1 .. Len(Rows) /\ Len(Rows) - Len(records) = m
    BY <1>3, <1>8
  <2> QED BY <1>5, <1>6, <1>8, <2>1
<1> QED BY <1>2, <1>3, <1>6, <1>7, <1>8, <1>9, <1>10

\* COMMIT adds the transaction's rows to the ledger, and the handle caches the
\* last of them.
LEMMA ChainCommit ==
  ASSUME ChainInv, NEW t \in Thread, Commit(t)
  PROVE  ChainInv' /\ Linked(records')
<1> DEFINE n    == Len(tx.new)
           rows == [tx.new EXCEPT ![n].last = TRUE]
<1>1. TypeInv' /\ TypeInv
  BY TypeCommit DEF ChainInv
<1>2. /\ tip' = [tip EXCEPT ![Host[t]] = Tip(rows)]
      /\ tipLink' = [tipLink EXCEPT ![Host[t]] = tx.link]
      /\ open' = open /\ writer' = Nobody /\ tx' = NoTx /\ writer = t
      /\ Host[t] \in Proc /\ writer # Nobody
      /\ tip \in [Proc -> Record] /\ tipLink \in [Proc -> Nat]
      /\ tx.new \in Seq(Record) /\ tx.new # <<>> /\ records \in Seq(Record)
      /\ records' = records \o rows
  BY <1>1, ConstantsAssumption DEF Commit, TypeInv, TypeOK, NonEmpty
<1>3. /\ Rows' = records' /\ records' \in Seq(Record)
      /\ Len(records') = Len(Rows) /\ Len(Rows) > Len(records)
      /\ \A i \in 1 .. Len(Rows) - 1 : records'[i] = Rows[i]
      /\ records'[Len(Rows)] = [Rows[Len(Rows)] EXCEPT !.last = TRUE]
  BY CommitRows
<1>4. /\ Rows \in Seq(Record) /\ Len(Rows) \in Nat /\ Len(records) \in Nat
      /\ Len(records) >= 1 /\ Len(Rows) = Len(records) + n
      /\ \A i \in 1 .. Len(Rows) : Rows[i] \in Record
      /\ \A i \in 1 .. Len(records) : Rows[i] = records[i]
  BY <1>1, RowsShape
<1>5. Linked(records')
  <2>1. ASSUME NEW i \in 1 .. Len(Rows)
        PROVE  /\ records'[i].seq = Rows[i].seq
               /\ records'[i].prev = Rows[i].prev
               /\ records'[i].nonce = Rows[i].nonce
    <3>1. CASE i = Len(Rows)
      <4>1. Rows[i] \in Record /\ records'[i] = [Rows[i] EXCEPT !.last = TRUE]
        BY <1>3, <1>4, <3>1
      <4> QED BY <4>1 DEF Record
    <3>2. CASE i # Len(Rows)
      BY <1>3, <1>4, <3>2
    <3> QED BY <3>1, <3>2
  <2> QED BY <1>3, <1>4, <2>1, LinkedSame DEF ChainInv
<1>6. Linked(Rows)'
  BY <1>3, <1>5 DEF Linked
<1>7. /\ Tip(rows) = records'[Len(Rows)]
      /\ tx.link \in {NoLink, Tip(rows).nonce}
  <2>1. n \in 1 .. n /\ tx.new[n] \in Record
    BY <1>2, EmptySeq, LenProperties, ElementOfSeq
  <2>2. [tx.new[n] EXCEPT !.last = TRUE] \in Record
    BY <2>1 DEF Record
  <2>3. rows \in Seq(Record) /\ Len(rows) = n /\ rows[n] = [tx.new[n] EXCEPT !.last = TRUE]
    <3>1. tx.new \in Seq(Record) /\ n \in 1 .. Len(tx.new)
      BY <1>2, <2>1
    <3> QED BY <2>2, <3>1, ExceptSeq
  <2>4. Rows[Len(Rows)] = tx.new[n]
    <3>1. Len(Rows) \in Len(records) + 1 .. Len(Rows) /\ Len(Rows) - Len(records) = n
      BY <1>3, <1>4, <2>1
    <3> QED BY <1>1, <3>1, RowsShape
  <2>5. Tip(rows) = [Rows[Len(Rows)] EXCEPT !.last = TRUE]
    BY <2>3, <2>4 DEF Tip
  <2>6. tx.link \in {NoLink, Rows[Len(Rows)].nonce}
    BY <1>2 DEF ChainInv, WriterSound, Tip
  <2>7. [Rows[Len(Rows)] EXCEPT !.last = TRUE].nonce = Rows[Len(Rows)].nonce
    BY <2>1, <2>4 DEF Record
  <2> QED BY <1>3, <2>5, <2>6, <2>7
<1> HIDE DEF rows
<1>8. CachesSound'
  <2> SUFFICES ASSUME NEW p \in Proc, open'[p]
               PROVE  \E i \in 1 .. Len(records') :
                        /\ tip'[p] = records'[i]
                        /\ tipLink'[p] \in {NoLink, tip'[p].nonce}
    BY DEF CachesSound
  <2>1. CASE p = Host[t]
    <3>1. Len(Rows) \in 1 .. Len(records')
      BY <1>3, <1>4
    <3> QED BY <1>2, <1>7, <2>1, <3>1
  <2>2. CASE p # Host[t]
    <3>1. PICK i \in 1 .. Len(records) :
            tip[p] = records[i] /\ tipLink[p] \in {NoLink, tip[p].nonce}
      BY <1>2 DEF ChainInv, CachesSound
    <3>2. tip'[p] = tip[p] /\ tipLink'[p] = tipLink[p]
      BY <1>2, <2>2
    <3>3. i \in 1 .. Len(records') /\ records'[i] = records[i]
      BY <1>3, <1>4
    <3> QED BY <3>1, <3>2, <3>3
  <2> QED BY <2>1, <2>2
<1>9. WriterSound'
  BY <1>2 DEF WriterSound, NoTx
<1> QED BY <1>1, <1>5, <1>6, <1>8, <1>9 DEF ChainInv

\* The steps of a thread keep the chain.
LEMMA ChainThreadStep ==
  ASSUME ChainInv, NEW t \in Thread, ThreadStep(t)
  PROVE  ChainInv'
<1>1. TypeInv'
  BY TypeThreadStep DEF ChainInv
<1>2. /\ open \in [Proc -> BOOLEAN] /\ tip \in [Proc -> Record]
      /\ tipLink \in [Proc -> Nat] /\ Host \in [Thread -> Proc] /\ Host[t] \in Proc
      /\ Nobody \notin Thread /\ writer \in Thread \cup {Nobody}
      /\ pc \in [Thread -> {"idle", "append", "checkpoint", "writing", "flush"}]
      /\ writer # Nobody => pc[writer] = "writing" /\ open[Host[writer]]
  BY ConstantsAssumption DEF ChainInv, TypeInv, TypeOK, WriterSound
<1> USE DEF fileVars, handleVars, flushVars, threadVars
<1>3. CASE \/ Call(t) \/ CallRotate(t) \/ CallCheckpoint(t) \/ Refuse(t)
           \/ Flush(t) \/ FlushFails(t)
  <2>1. /\ UNCHANGED <<records, open, tip, tipLink, writer, tx>>
        /\ pc[t] # "writing"
        /\ \A u \in Thread \ {t} : pc'[u] = pc[u]
    BY <1>2, <1>3 DEF Call, CallRotate, CallCheckpoint, Refuse, HasLock, Flush,
                      FlushFails
  <2>2. CachesSound'
    BY <1>2, <2>1, CachesKept
  <2>3. WriterSound' /\ Linked(Rows)'
    BY <1>2, <2>1, WriterKept
  <2> QED BY <1>1, <2>2, <2>3 DEF ChainInv
<1>4. CASE Begin(t)
  <2>1. /\ UNCHANGED <<records, open, tip, tipLink>> /\ writer = Nobody /\ writer' = t
        /\ tx'.new = <<>> /\ tx'.prev = PrevOf(Host[t]) /\ tx'.link = LinkOf(Host[t])
        /\ pc'[t] = "writing" /\ open[Host[t]]
    BY <1>2, <1>4 DEF Begin
  <2>2. Rows = records /\ Rows' = records /\ Linked(records)
    <3>1. tx.new = <<>>
      BY <2>1 DEF ChainInv, WriterSound
    <3> QED BY <2>1, <3>1, ConcatEmptySeq
            DEF ChainInv, TypeInv, TypeOK, Rows
  <2>3. PICK i \in 1 .. Len(records) :
          tip[Host[t]] = records[i]
          /\ tipLink[Host[t]] \in {NoLink, tip[Host[t]].nonce}
    BY <1>2, <2>1 DEF ChainInv, CachesSound
  <2>4. /\ PrevOf(Host[t]) = Tip(records)
        /\ LinkOf(Host[t]) \in {NoLink, Tip(records).nonce}
    <3>1. CASE CacheFresh(Host[t])
      <4>1. /\ Len(records) \in 1 .. Len(records)
            /\ Tip(records) = records[Len(records)]
        BY LenProperties DEF ChainInv, TypeInv, TypeOK, NonEmpty, Tip
      <4>2. records[i].seq = i - 1 /\ records[Len(records)].seq = Len(records) - 1
        BY <2>2, <4>1 DEF Linked
      <4>3. i = Len(records)
        BY <2>3, <3>1, <4>1, <4>2 DEF CacheFresh
      <4> QED BY <2>3, <3>1, <4>1, <4>3 DEF PrevOf, LinkOf
    <3>2. CASE ~CacheFresh(Host[t])
      BY <3>2 DEF PrevOf, LinkOf
    <3> QED BY <3>1, <3>2
  <2>5. CachesSound'
    BY <1>2, <2>1, CachesKept
  <2>6. WriterSound' /\ Linked(Rows)'
    BY <1>2, <2>1, <2>2, <2>4 DEF WriterSound, Linked, Tip
  <2> QED BY <1>1, <2>5, <2>6 DEF ChainInv
<1>5. CASE Rollback(t)
  <2>1. UNCHANGED <<records, open, tip, tipLink>> /\ writer' = Nobody /\ tx' = NoTx
    BY <1>5 DEF Rollback
  <2>2. CachesSound'
    BY <1>2, <2>1, CachesKept
  <2>3. WriterSound' /\ Linked(Rows)'
    BY <2>1, WriterGone
  <2> QED BY <1>1, <2>2, <2>3 DEF ChainInv
<1> QED BY <1>3, <1>4, <1>5, ChainInsert, ChainCommit DEF ThreadStep

\* A power failure leaves a prefix of the chain and no handle.
LEMMA ChainPowerLoss ==
  ASSUME ChainInv, PowerLoss
  PROVE  ChainInv'
<1>1. TypeInv'
  BY TypePowerLoss DEF ChainInv
<1>2. PICK n \in synced .. Len(records) : records' = SubSeq(records, 1, n)
  BY DEF PowerLoss
<1>3. /\ records \in Seq(Record) /\ records' \in Seq(Record)
      /\ Len(records') = n /\ n <= Len(records)
      /\ \A i \in 1 .. n : records'[i] = records[i]
  <2>1. records \in Seq(Record) /\ n \in 1 .. Len(records)
    BY DEF ChainInv, TypeInv, TypeOK, NonEmpty
  <2> QED BY <1>2, <2>1, SubSeqProperties, ElementOfSeq
<1>4. Linked(records)
  BY RecordsLinked DEF ChainInv
<1>5. Linked(records')
  BY <1>3, <1>4, LinkedPrefix
<1>6. writer' = Nobody /\ tx' = NoTx /\ open' = [p \in Proc |-> FALSE]
  BY DEF PowerLoss
<1>7. Rows' = records'
  BY <1>3, <1>6, ConcatEmptySeq DEF Rows, NoTx
<1>8. Linked(Rows)'
  BY <1>5, <1>7 DEF Linked
<1> QED BY <1>1, <1>6, <1>8 DEF ChainInv, CachesSound, WriterSound, NoTx

\* Every step, whichever thread or process takes it, keeps the chain sound.
LEMMA ChainStep == ChainInv /\ [Next]_vars => ChainInv'
<1> SUFFICES ASSUME ChainInv, [Next]_vars
             PROVE  ChainInv'
  OBVIOUS
<1>1. CASE Next
  BY <1>1, ChainThreadStep, ChainProcStep, ChainPowerLoss DEF Next
<1>2. CASE UNCHANGED vars
  BY ZenonT(60), <1>2 DEF ChainInv, CachesSound, WriterSound, Rows, Linked, Tip, TypeInv, TypeOK,
     NonEmpty, vars, fileVars, handleVars, flushVars, threadVars
<1> QED BY <1>1, <1>2

\* However many processes and threads append, with whatever cached tips, the
\* records form one chain.
THEOREM AlwaysLinked == Spec => []ChainLinked
<1>1. ChainInv => ChainLinked
  BY RecordsLinked DEF ChainInv, ChainLinked
<1> QED BY ChainInit, ChainStep, <1>1, PTL DEF Spec

-----------------------------------------------------------------------------
\* Refinement: every step is a step of AppendOnlyLog or leaves the log alone.

\* A ledger that grows by linked records takes the abstract Commit step.
LEMMA GrowImplements ==
  ASSUME ChainInv, NEW rows \in Seq(Record), rows # <<>>,
         records' = records \o rows, Linked(records'),
         synced' \in {synced, Len(records')}
  PROVE  Log!Commit
<1>1. /\ records \in Seq(Record) /\ Len(records) \in Nat /\ Len(rows) \in Nat
      /\ Len(rows) > 0 /\ Len(records) >= 1 /\ synced \in 1 .. Len(records)
  BY EmptySeq, LenProperties DEF ChainInv, TypeInv, TypeOK, NonEmpty
<1>2. /\ Len(records \o rows) = Len(records) + Len(rows)
      /\ \A i \in 1 .. Len(records) : (records \o rows)[i] = records[i]
      /\ records \o rows \in Seq(Record)
  BY <1>1, ConcatRows, Zenon
<1>3. SubSeq(records', 1, Len(records)) = records
  <2>1. SubSeq(records \o rows, 1, Len(records)) = SubSeq(records, 1, Len(records))
    BY <1>1, SubSeqOfConcat1
  <2> QED BY <1>1, <2>1, SubSeqFull
<1>4. \A i \in Len(records) + 1 .. Len(records') : Log!LinkedAt(records', i)
  <2> SUFFICES ASSUME NEW i \in Len(records) + 1 .. Len(records')
               PROVE  records'[i].prev = records'[i - 1].nonce
    BY DEF Log!LinkedAt
  <2>1. i \in 1 .. Len(records') /\ i # 1
    BY <1>1, <1>2
  <2> QED BY <2>1 DEF Linked
<1> QED BY <1>1, <1>2, <1>3, <1>4 DEF Log!Commit

\* A step that writes no rows and fsyncs what there is, or nothing, is the
\* abstract Sync or a stutter.
LEMMA SyncImplements ==
  ASSUME ChainInv, records' = records, synced' \in {synced, Len(records)}
  PROVE  Log!Sync
BY LenProperties DEF ChainInv, TypeInv, TypeOK, NonEmpty, Log!Sync

\* Every step of the ledger is a step of the log it promises, or changes
\* neither the log nor what is durable of it.
LEMMA StepImplements == ChainInv /\ [Next]_vars => [Log!Next]_(Log!vars)
<1> SUFFICES ASSUME ChainInv, [Next]_vars
             PROVE  [Log!Next]_(Log!vars)
  OBVIOUS
<1> USE DEF fileVars, Log!Next
<1>1. ASSUME NEW t \in Thread, ThreadStep(t)
      PROVE  Log!Next
  <2>1. CASE Commit(t)
    <3> DEFINE n    == Len(tx.new)
               rows == [tx.new EXCEPT ![n].last = TRUE]
    <3>1. /\ tx.new \in Seq(Record) /\ tx.new # <<>>
          /\ records' = records \o rows /\ synced' \in {synced, Len(records')}
      BY <2>1, ConstantsAssumption DEF Commit, ChainInv, TypeInv, TypeOK, NonEmpty
    <3>2. n \in 1 .. n /\ [tx.new[n] EXCEPT !.last = TRUE] \in Record
      <4>1. n \in 1 .. n
        BY <3>1, EmptySeq, LenProperties
      <4>2. tx.new[n] \in Record
        BY <3>1, <4>1, ElementOfSeq
      <4> QED BY <4>1, <4>2 DEF Record
    <3>3. rows \in Seq(Record) /\ Len(rows) = n
      BY <3>1, <3>2, ExceptSeq
    <3>4. rows # <<>>
      BY <3>2, <3>3
    <3>5. Linked(records')
      BY <2>1, ChainCommit
    <3> HIDE DEF rows
    <3> QED BY <3>1, <3>3, <3>4, <3>5, GrowImplements
  <2>2. CASE ~Commit(t)
    <3>1. records' = records /\ synced' \in {synced, Len(records)}
      BY <1>1, <2>2 DEF ThreadStep, Call, CallRotate, CallCheckpoint, Refuse, Begin,
         Insert, Rollback, Flush, FlushFails
    <3> QED BY <3>1, SyncImplements
  <2> QED BY <2>1, <2>2
<1>2. ASSUME NEW p \in Proc, ProcStep(p)
      PROVE  Log!Next
  <2>1. records' = records /\ synced' \in {synced, Len(records)}
    BY <1>2 DEF ProcStep, Open, ReadTip, Close, Crash, FlusherTake, FlusherSync,
       FlusherFails, FlusherAccount
  <2> QED BY <2>1, SyncImplements
<1>3. CASE PowerLoss
  <2>1. PICK n \in synced .. Len(records) :
          records' = SubSeq(records, 1, n) /\ synced' = n
    BY <1>3 DEF PowerLoss
  <2>2. records \in Seq(Record) /\ n \in 1 .. Len(records)
    BY DEF ChainInv, TypeInv, TypeOK, NonEmpty
  <2>3. Len(records') = n
    BY <2>1, <2>2, SubSeqProperties, ElementOfSeq
  <2> QED BY <2>1, <2>3 DEF Log!Lose
<1>4. CASE UNCHANGED vars
  BY <1>4 DEF vars, Log!vars
<1> QED BY <1>1, <1>2, <1>3, <1>4 DEF Next

\* The ledger, with its processes, threads, caches, flushers and failures, is an
\* append-only log that loses nothing it made durable.
THEOREM LedgerImplementsLog == Spec => ImplementsLog
<1>1. Init => Log!Init
  BY DEF Init, Log!Init
<1> QED BY ChainInit, ChainStep, StepImplements, <1>1, PTL
        DEF Spec, ImplementsLog, Log!Spec

-----------------------------------------------------------------------------
\* The handles: the key each one signs with and what it reports as durable.

\* A program that rotates the key is one thread, and no other thread appends.
\* With a second thread the key it read may be retired before it signs.
LoneRotator == \A t \in Rotators : Thread = {t}

SignedRows(rows) ==
  \A i \in 2 .. Len(rows) : rows[i].key = NextKey(rows[i - 1])

\* The key that must sign the next row of these.
Owed(rows) == NextKey(Tip(rows))

NoRotation(items) == \A i \in 1 .. Len(items) : items[i].type # "key_rotation"

\* Only a rotator's call and transaction hold a rotation.
RotationsByRotators ==
  /\ \A t \in Thread \ Rotators :
       pc[t] \in {"append", "checkpoint"} => NoRotation(call[t].items)
  /\ writer \notin Rotators => NoRotation(tx.queue) /\ Owed(Rows) = Owed(records)

\* Every copy of the key a thread will sign with - in its handle, in the call
\* it is making, in its transaction - is the key owed to the next row.
KeysCurrent ==
  /\ \A t \in Thread : open[Host[t]] =>
       /\ activeKey[Host[t]] = Owed(records)
       /\ pc[t] \in {"append", "checkpoint"} => call[t].key = Owed(records)
  /\ writer # Nobody => tx.key = Owed(Rows)

SignedInv ==
  ChainInv /\ SignedRows(Rows) /\ RotationsByRotators /\ KeysCurrent


\* Row for row, what was signed and by which key.
LEMMA SignedAppend ==
  ASSUME NEW rows \in Seq(Record), Len(rows) >= 1, SignedRows(rows),
         NEW r \in Record, r.key = Owed(rows)
  PROVE  SignedRows(Append(rows, r)) /\ Owed(Append(rows, r)) = NextKey(r)
<1>1. /\ Len(Append(rows, r)) = Len(rows) + 1
      /\ Append(rows, r)[Len(rows) + 1] = r
      /\ \A i \in 1 .. Len(rows) : Append(rows, r)[i] = rows[i]
      /\ Len(rows) \in Nat
  BY AppendProperties, LenProperties
<1>2. SignedRows(Append(rows, r))
  <2> SUFFICES ASSUME NEW i \in 2 .. Len(rows) + 1
               PROVE  Append(rows, r)[i].key = NextKey(Append(rows, r)[i - 1])
    BY <1>1 DEF SignedRows
  <2>1. i - 1 \in 1 .. Len(rows)
    BY <1>1
  <2>2. CASE i = Len(rows) + 1
    BY <1>1, <2>1, <2>2 DEF Owed, Tip
  <2>3. CASE i \in 2 .. Len(rows)
    BY <1>1, <2>1, <2>3 DEF SignedRows
  <2> QED BY <1>1, <2>2, <2>3
<1> QED BY <1>1, <1>2 DEF Owed, Tip

\* Signatures depend on types and keys only, row by row.
LEMMA SignedSame ==
  ASSUME NEW rows \in Seq(Record), SignedRows(rows),
         NEW others \in Seq(Record), Len(others) <= Len(rows),
         \A i \in 1 .. Len(others) : /\ others[i].key = rows[i].key
                                     /\ others[i].type = rows[i].type
                                     /\ others[i].newKey = rows[i].newKey
  PROVE  SignedRows(others)
<1> SUFFICES ASSUME NEW i \in 2 .. Len(others)
             PROVE  others[i].key = NextKey(others[i - 1])
  BY DEF SignedRows
<1>1. Len(others) \in Nat /\ Len(rows) \in Nat
  BY LenProperties
<1>2. i \in 1 .. Len(others) /\ i - 1 \in 1 .. Len(others) /\ i \in 2 .. Len(rows)
  BY <1>1
<1>3. rows[i].key = NextKey(rows[i - 1])
  BY <1>2 DEF SignedRows
<1> QED BY <1>2, <1>3 DEF NextKey

\* Where every row is signed by the key owed to it, the key _current_key_id
\* finds by looking for the last rotation is the one owed to the next row.
LEMMA CurrentKeyOwed ==
  ASSUME NEW rows \in Seq(Record), Len(rows) >= 1, SignedRows(rows)
  PROVE  CurrentKey(rows) = Owed(rows)
<1> DEFINE rotations == {i \in 1 .. Len(rows) : rows[i].type = "key_rotation"}
           latest == CHOOSE i \in rotations : \A j \in rotations : j <= i
<1>1. Len(rows) \in Nat
  BY LenProperties
<1>2. PICK start \in 1 .. Len(rows) :
        /\ NextKey(rows[start]) = CurrentKey(rows)
        /\ \A j \in start + 1 .. Len(rows) : rows[j].type # "key_rotation"
  <2>1. CASE rotations = {}
    <3>1. CurrentKey(rows) = rows[1].key
      BY <2>1 DEF CurrentKey
    <3>2. \A j \in 1 .. Len(rows) : rows[j].type # "key_rotation"
      BY <2>1
    <3> QED BY <1>1, <3>1, <3>2 DEF NextKey
  <2>2. CASE rotations # {}
    <3>1. \E i \in rotations : \A j \in rotations : j <= i
      <4> rotations \in SUBSET (1 .. Len(rows))
        OBVIOUS
      <4> HIDE DEF rotations
      <4> QED BY <1>1, <2>2, LastPosition
    <3>2. latest \in rotations /\ \A j \in rotations : j <= latest
      BY <3>1
    <3>3. CurrentKey(rows) = rows[latest].newKey
      BY <2>2 DEF CurrentKey
    <3> HIDE DEF latest
    <3>4. \A j \in latest + 1 .. Len(rows) : rows[j].type # "key_rotation"
      BY <1>1, <3>2
    <3> QED BY <3>2, <3>3, <3>4 DEF NextKey
  <2> QED BY <2>1, <2>2
<1> DEFINE Strays == {i \in 1 .. Len(rows) :
                        i >= start /\ NextKey(rows[i]) # CurrentKey(rows)}
<1>3. Strays = {}
  <2> SUFFICES ASSUME Strays # {} PROVE FALSE
    OBVIOUS
  <2> DEFINE Distances == {d \in Nat : d \in Strays}
  <2>1. PICK i \in Strays : \A j \in Strays : ~ (j < i)
    <3>1. Strays \subseteq Nat
      BY <1>1
    <3>2. PICK i \in Strays : \A j \in Strays : ~ (<<j, i>> \in OpToRel(<, Nat))
      <4> HIDE DEF Strays
      <4> QED BY <3>1, WFMin, NatLessThanWellFounded, Zenon
    <3>3. \A j \in Strays : ~ (j < i)
      BY <3>1, <3>2, Zenon DEF OpToRel
    <3> QED BY <3>2, <3>3
  <2>2. i \in start + 1 .. Len(rows) /\ NextKey(rows[i]) # CurrentKey(rows)
    BY <1>1, <1>2, <2>1
  <2>3. i - 1 \notin Strays /\ i - 1 \in 1 .. Len(rows) /\ i - 1 >= start
    BY <1>1, <2>1, <2>2
  <2>4. NextKey(rows[i - 1]) = CurrentKey(rows)
    BY <2>3
  <2>5. rows[i].key = NextKey(rows[i - 1])
    BY <1>1, <2>2, <2>3 DEF SignedRows
  <2>6. NextKey(rows[i]) = rows[i].key
    BY <1>2, <2>2 DEF NextKey
  <2> QED BY <2>2, <2>4, <2>5, <2>6
<1>4. Len(rows) \in 1 .. Len(rows) /\ Len(rows) >= start
  BY <1>1, <1>2
<1> QED BY <1>3, <1>4 DEF Owed, Tip

\* The committed rows are signed by the keys owed to them.
LEMMA RecordsSigned ==
  ASSUME SignedInv
  PROVE  SignedRows(records) /\ CurrentKey(records) = Owed(records)
<1>1. records \in Seq(Record) /\ Len(records) >= 1
  BY DEF SignedInv, ChainInv, TypeInv, TypeOK, NonEmpty
<1>2. /\ Rows \in Seq(Record) /\ Len(records) <= Len(Rows)
      /\ \A i \in 1 .. Len(records) : Rows[i] = records[i]
  BY RowsShape DEF SignedInv, ChainInv
<1>3. SignedRows(records)
  BY <1>1, <1>2, SignedSame DEF SignedInv
<1> QED BY <1>1, <1>3, CurrentKeyOwed

\* At first there is the genesis record, no handle and no call.
LEMMA SignedInit == Init => SignedInv
<1> SUFFICES ASSUME Init PROVE SignedInv
  OBVIOUS
<1>1. ChainInv
  BY ChainInit
<1>2. Rows = <<Genesis>> /\ records = <<Genesis>>
  BY ConstantRecords, ConcatEmptySeq DEF Init, Rows, NoTx
<1>3. SignedRows(Rows)
  BY <1>2 DEF SignedRows
<1> QED BY <1>1, <1>2, <1>3, ConstantsAssumption
        DEF Init, SignedInv, RotationsByRotators, KeysCurrent, NoTx, NoRotation

\* A step that leaves the rows alone, or drops the transaction, keeps the keys
\* right if each handle it opens and each call it makes takes the key owed.
LEMMA SignedKept ==
  ASSUME SignedInv, ChainInv', records' = records,
         UNCHANGED <<writer, tx>> \/ (writer' = Nobody /\ tx' = NoTx),
         \A u \in Thread : open'[Host[u]] => activeKey'[Host[u]] = Owed(records),
         \A u \in Thread : pc'[u] \in {"append", "checkpoint"} =>
           /\ u \notin Rotators => NoRotation(call'[u].items)
           /\ open'[Host[u]] => call'[u].key = Owed(records)
  PROVE  SignedInv'
<1>1. KeysCurrent' /\ RotationsByRotators' /\ SignedRows(Rows)'
  <2>1. CASE UNCHANGED <<writer, tx>>
    <3>1. Rows' = Rows
      BY <2>1 DEF Rows
    <3> QED BY <2>1, <3>1 DEF SignedInv, KeysCurrent, RotationsByRotators, Owed,
                              SignedRows
  <2>2. CASE writer' = Nobody /\ tx' = NoTx
    <3>1. Rows' = records
      BY <2>2, ConcatEmptySeq DEF Rows, NoTx, SignedInv, ChainInv, TypeInv, TypeOK
    <3>2. SignedRows(records)
      BY RecordsSigned
    <3> QED BY <2>2, <3>1, <3>2 DEF SignedInv, KeysCurrent, RotationsByRotators, Owed,
                                    SignedRows, NoTx, NoRotation
  <2> QED BY <2>1, <2>2
<1> QED BY <1>1 DEF SignedInv

\* open() takes the key the ledger owes; nothing else a process does changes a
\* key that is in use.
LEMMA SignedProcStep ==
  ASSUME SignedInv, NEW p \in Proc, ProcStep(p)
  PROVE  SignedInv'
<1>1. ChainInv /\ ChainInv'
  BY ChainProcStep DEF SignedInv
<1>2. /\ open \in [Proc -> BOOLEAN] /\ activeKey \in [Proc -> Key \cup {NoKey}]
      /\ pc \in [Thread -> {"idle", "append", "checkpoint", "writing", "flush"}]
      /\ Host \in [Thread -> Proc]
  BY <1>1, ConstantsAssumption DEF ChainInv, TypeInv, TypeOK
<1>3. CurrentKey(records) = Owed(records)
  BY RecordsSigned
<1>4. /\ records' = records
      /\ UNCHANGED <<writer, tx>> \/ (writer' = Nobody /\ tx' = NoTx)
  BY DEF ProcStep, Open, ReadTip, Close, Crash, FlusherTake, FlusherSync,
         FlusherFails, FlusherAccount, fileVars, threadVars
<1>5. ASSUME NEW u \in Thread, open'[Host[u]]
      PROVE  activeKey'[Host[u]] = Owed(records)
  <2>1. \/ open[Host[u]] /\ activeKey'[Host[u]] = activeKey[Host[u]]
        \/ activeKey'[Host[u]] = CurrentKey(records)
    BY <1>2, <1>5 DEF ProcStep, Open, ReadTip, Close, Crash, Gone, FlusherTake,
       FlusherSync, FlusherFails, FlusherAccount, handleVars
  <2> QED BY <1>3, <2>1 DEF SignedInv, KeysCurrent
<1>6. ASSUME NEW u \in Thread, pc'[u] \in {"append", "checkpoint"}
      PROVE  /\ u \notin Rotators => NoRotation(call'[u].items)
             /\ open'[Host[u]] => call'[u].key = Owed(records)
  <2>1. /\ pc'[u] = pc[u] /\ call'[u] = call[u]
        /\ open'[Host[u]] => open[Host[u]]
    BY <1>2, <1>6 DEF ProcStep, Open, ReadTip, Close, Crash, Gone, FlusherTake,
       FlusherSync, FlusherFails, FlusherAccount, handleVars, threadVars
  <2> QED BY <1>6, <2>1 DEF SignedInv, KeysCurrent, RotationsByRotators
<1> QED BY <1>1, <1>4, <1>5, <1>6, SignedKept

\* One turn of the loop signs with the key owed and takes over the key a
\* rotation names.
LEMMA SignedInsert ==
  ASSUME SignedInv, NEW t \in Thread, Insert(t)
  PROVE  SignedInv'
<1>1. ChainInv' /\ ChainInv /\ TypeInv /\ TypeInv'
  BY ChainInsert DEF SignedInv, ChainInv
<1> DEFINE item == Head(tx.queue)
           new  == IF item.type = "key_rotation" THEN tx.rotateTo ELSE NoKey
           r    == SealNext(item, Tip(Rows), tx.link, tx.key, new, nonce + 1)
<1>2. /\ r \in Record /\ item \in Item /\ tx.queue # <<>> /\ tx.queue \in Seq(Item)
      /\ Rows' = Append(Rows, r)
      /\ tx'.queue = IF CheckpointDue(item, Len(Rows) + 1)
                       THEN <<CheckpointOf(Rows')>> \o Tail(tx.queue)
                       ELSE Tail(tx.queue)
      /\ tx'.key = KeyAfter(item, tx.key, tx.rotateTo)
      /\ writer = t /\ writer # Nobody
  BY <1>1, InsertRows DEF TypeInv, TypeOK
<1>3. /\ r.key = tx.key /\ r.type = item.type /\ r.newKey = new
      /\ NextKey(r) = KeyAfter(item, tx.key, tx.rotateTo)
      /\ item.type # "key_rotation" => NextKey(r) = tx.key
  BY DEF SealNext, NextKey, KeyAfter
<1> HIDE DEF r
<1>4. UNCHANGED <<records, open, activeKey, pc, call, writer>>
  BY DEF Insert, handleVars
<1>5. Rows \in Seq(Record) /\ Len(Rows) >= 1
  BY <1>1, RowsShape
<1>6. SignedRows(Rows) /\ tx.key = Owed(Rows)
  BY <1>2 DEF SignedInv, KeysCurrent
<1>7. SignedRows(Rows') /\ Owed(Rows') = NextKey(r)
  BY <1>2, <1>3, <1>5, <1>6, SignedAppend
<1>8. ASSUME t \notin Rotators
      PROVE  NoRotation(tx'.queue) /\ Owed(Rows') = Owed(records)
  <2>1. NoRotation(tx.queue) /\ Owed(Rows) = Owed(records)
    BY <1>2, <1>8 DEF SignedInv, RotationsByRotators
  <2>2. /\ item = tx.queue[1] /\ Len(tx.queue) \in Nat /\ Len(tx.queue) >= 1
        /\ Tail(tx.queue) \in Seq(Item) /\ Len(Tail(tx.queue)) = Len(tx.queue) - 1
        /\ \A i \in 1 .. Len(tx.queue) - 1 : Tail(tx.queue)[i] = tx.queue[i + 1]
    BY <1>2, HeadTailProperties, LenProperties, EmptySeq
  <2>3. item.type # "key_rotation"
    BY <2>1, <2>2 DEF NoRotation
  <2>4. NoRotation(Tail(tx.queue))
    <3> SUFFICES ASSUME NEW i \in 1 .. Len(tx.queue) - 1
                 PROVE  Tail(tx.queue)[i].type # "key_rotation"
      BY <2>2 DEF NoRotation
    <3>1. i + 1 \in 1 .. Len(tx.queue)
      BY <2>2
    <3> QED BY <2>1, <2>2, <3>1 DEF NoRotation
  <2>5. NoRotation(<<CheckpointOf(Rows')>> \o Tail(tx.queue))
    <3> DEFINE c == CheckpointOf(Rows')
    <3>1. c \in Item /\ c.type # "key_rotation"
      <4>1. Rows' \in Seq(Record)
        BY <1>2, <1>5, AppendProperties
      <4> QED BY <4>1, CheckpointType DEF CheckpointOf
    <3> HIDE DEF c
    <3>2. /\ Len(<<c>> \o Tail(tx.queue)) = Len(tx.queue)
          /\ (<<c>> \o Tail(tx.queue))[1] = c
          /\ \A i \in 1 .. Len(tx.queue) - 1 :
               (<<c>> \o Tail(tx.queue))[i + 1] = Tail(tx.queue)[i]
      BY <2>2, <3>1, ItemAtHead
    <3> SUFFICES ASSUME NEW i \in 1 .. Len(tx.queue)
                 PROVE  (<<c>> \o Tail(tx.queue))[i].type # "key_rotation"
      BY <3>2 DEF NoRotation, c
    <3>3. CASE i = 1
      BY <3>1, <3>2, <3>3
    <3>4. CASE i # 1
      <4>1. i - 1 \in 1 .. Len(Tail(tx.queue)) /\ i - 1 \in 1 .. Len(tx.queue) - 1
        BY <2>2, <3>4
      <4>2. (<<c>> \o Tail(tx.queue))[(i - 1) + 1] = Tail(tx.queue)[i - 1]
        BY <3>2, <4>1
      <4> QED BY <2>4, <4>1, <4>2 DEF NoRotation
    <3> QED BY <3>3, <3>4
  <2>6. NoRotation(tx'.queue)
    BY <1>2, <2>4, <2>5
  <2>7. Owed(Rows') = Owed(Rows)
    BY <1>3, <1>6, <1>7, <2>3
  <2> QED BY <2>1, <2>6, <2>7
<1>9. SignedRows(Rows)' /\ Owed(Rows)' = NextKey(r)
  BY <1>7 DEF SignedRows, Owed, Tip
<1>10. RotationsByRotators'
  BY <1>2, <1>4, <1>8 DEF SignedInv, RotationsByRotators, Owed, Tip
<1>11. KeysCurrent'
  BY <1>2, <1>3, <1>4, <1>9 DEF SignedInv, KeysCurrent, Owed
<1> QED BY <1>1, <1>9, <1>10, <1>11 DEF SignedInv

\* COMMIT hands the handle the key owed to the next row.  The other handles
\* still hold the right one: the thread is alone, or has rotated nothing.
LEMMA SignedCommit ==
  ASSUME LoneRotator, SignedInv, NEW t \in Thread, Commit(t)
  PROVE  SignedInv'
<1>1. ChainInv' /\ ChainInv /\ TypeInv /\ TypeInv'
  BY ChainCommit DEF SignedInv, ChainInv
<1>2. /\ Rows' = records' /\ records' \in Seq(Record) /\ Len(records') = Len(Rows)
      /\ \A i \in 1 .. Len(Rows) - 1 : records'[i] = Rows[i]
      /\ records'[Len(Rows)] = [Rows[Len(Rows)] EXCEPT !.last = TRUE]
  BY <1>1, CommitRows
<1>3. /\ Rows \in Seq(Record) /\ Len(Rows) \in Nat /\ Len(Rows) >= 1
      /\ \A i \in 1 .. Len(Rows) : Rows[i] \in Record
  BY <1>1, RowsShape
<1>4. ASSUME NEW i \in 1 .. Len(Rows)
      PROVE  /\ records'[i].key = Rows[i].key
             /\ records'[i].type = Rows[i].type
             /\ records'[i].newKey = Rows[i].newKey
  <2>1. CASE i = Len(Rows)
    <3>1. Rows[i] \in Record /\ records'[i] = [Rows[i] EXCEPT !.last = TRUE]
      BY <1>2, <1>3, <2>1
    <3> QED BY <3>1 DEF Record
  <2>2. CASE i # Len(Rows)
    BY <1>2, <1>3, <2>2
  <2> QED BY <2>1, <2>2
<1>5. SignedRows(records')
  BY <1>2, <1>3, <1>4, SignedSame DEF SignedInv
<1>6. Owed(records') = Owed(Rows)
  <2>1. Len(Rows) \in 1 .. Len(Rows)
    BY <1>3
  <2> QED BY <1>2, <1>4, <2>1 DEF Owed, Tip, NextKey
<1>7. /\ writer = t /\ writer # Nobody /\ tx.key = Owed(Rows)
      /\ open' = open /\ activeKey' = [activeKey EXCEPT ![Host[t]] = tx.key]
      /\ pc' = [pc EXCEPT ![t] = IF tx.rotateTo # NoKey THEN "flush" ELSE "idle"]
      /\ call' = [call EXCEPT ![t] = NoCall]
      /\ writer' = Nobody /\ tx' = NoTx
  BY ConstantsAssumption DEF Commit, SignedInv, KeysCurrent
<1>8. /\ Host \in [Thread -> Proc] /\ activeKey \in [Proc -> Key \cup {NoKey}]
      /\ pc \in [Thread -> {"idle", "append", "checkpoint", "writing", "flush"}]
      /\ Rotators \subseteq Thread /\ Nobody \notin Thread
      /\ call \in [Thread -> [items : Seq(Item), key : Key \cup {NoKey},
                              rotateTo : Key \cup {NoKey}]]
  BY <1>1, ConstantsAssumption DEF TypeInv, TypeOK
<1>9. Thread = {t} \/ Owed(records') = Owed(records)
  <2>1. CASE t \in Rotators
    BY <2>1 DEF LoneRotator
  <2>2. CASE t \notin Rotators
    BY <1>6, <1>7, <2>2 DEF SignedInv, RotationsByRotators
  <2> QED BY <2>1, <2>2
<1>10. ASSUME NEW u \in Thread, open'[Host[u]]
       PROVE  /\ activeKey'[Host[u]] = Owed(records')
              /\ pc'[u] \in {"append", "checkpoint"} => call'[u].key = Owed(records')
  <2>1. CASE u = t
    BY <1>6, <1>7, <1>8, <2>1
  <2>2. CASE u # t
    <3>1. Owed(records') = Owed(records)
      BY <1>9, <2>2
    <3>2. activeKey[Host[u]] = Owed(records)
      BY <1>7, <1>10 DEF SignedInv, KeysCurrent
    <3>3. pc[u] \in {"append", "checkpoint"} => call[u].key = Owed(records)
      BY <1>7, <1>10 DEF SignedInv, KeysCurrent
    <3>4. pc'[u] = pc[u] /\ call'[u] = call[u]
      BY <1>7, <1>8, <2>2
    <3>5. activeKey'[Host[u]] \in {activeKey[Host[u]], tx.key}
      BY <1>7, <1>8
    <3> QED BY <1>6, <1>7, <3>1, <3>2, <3>3, <3>4, <3>5
  <2> QED BY <2>1, <2>2
<1>11. KeysCurrent'
  BY <1>7, <1>10 DEF KeysCurrent, Owed, Tip
<1>12. RotationsByRotators'
  <2>1. \A u \in Thread \ Rotators :
          pc'[u] \in {"append", "checkpoint"} => NoRotation(call'[u].items)
    BY <1>7, <1>8 DEF SignedInv, RotationsByRotators
  <2>2. NoRotation(tx'.queue) /\ Owed(Rows)' = Owed(records)'
    BY <1>2, <1>7 DEF NoTx, NoRotation, Owed
  <2> QED BY <2>1, <2>2 DEF RotationsByRotators
<1>13. SignedRows(Rows)'
  BY <1>2, <1>5 DEF SignedRows
<1> QED BY <1>1, <1>11, <1>12, <1>13 DEF SignedInv

\* A call takes the key of its handle, a transaction the key of its call.
LEMMA SignedThreadStep ==
  ASSUME LoneRotator, SignedInv, NEW t \in Thread, ThreadStep(t)
  PROVE  SignedInv'
<1>1. ChainInv' /\ ChainInv /\ TypeInv /\ TypeInv'
  BY ChainThreadStep DEF SignedInv, ChainInv
<1>2. /\ open \in [Proc -> BOOLEAN] /\ activeKey \in [Proc -> Key \cup {NoKey}]
      /\ pc \in [Thread -> {"idle", "append", "checkpoint", "writing", "flush"}]
      /\ call \in [Thread -> [items : Seq(Item), key : Key \cup {NoKey},
                              rotateTo : Key \cup {NoKey}]]
      /\ Host \in [Thread -> Proc] /\ Rotators \subseteq Thread
      /\ Nobody \notin Thread
  BY <1>1, ConstantsAssumption DEF TypeInv, TypeOK
<1>3. CASE \/ Call(t) \/ CallRotate(t) \/ CallCheckpoint(t) \/ Refuse(t)
           \/ Rollback(t) \/ Flush(t) \/ FlushFails(t)
  <2>1. /\ records' = records /\ open' = open /\ activeKey' = activeKey
        /\ UNCHANGED <<writer, tx>> \/ (writer' = Nobody /\ tx' = NoTx)
    BY <1>3 DEF Call, CallRotate, CallCheckpoint, Refuse, Rollback, Flush, FlushFails,
       fileVars, handleVars
  <2>2. ASSUME NEW u \in Thread \ {t}
        PROVE  pc'[u] = pc[u] /\ call'[u] = call[u]
    BY <1>2, <1>3 DEF Call, CallRotate, CallCheckpoint, Refuse, Rollback, Flush,
       FlushFails
  <2>3. ASSUME pc'[t] \in {"append", "checkpoint"}
        PROVE  /\ open[Host[t]] /\ call'[t].key = activeKey[Host[t]]
               /\ t \notin Rotators => NoRotation(call'[t].items)
    <3>1. CASE Call(t)
      <4>1. PICK n \in 1 .. MaxBatch :
              call' = [call EXCEPT ![t] = [items |-> Entries(n), rotateTo |-> NoKey,
                                           key |-> activeKey[Host[t]]]]
        BY <3>1 DEF Call
      <4>2. call'[t] = [items |-> Entries(n), rotateTo |-> NoKey,
                        key |-> activeKey[Host[t]]]
        BY <1>2, <4>1
      <4>3. NoRotation(Entries(n))
        BY ConstantsAssumption DEF NoRotation, Entries, Entry
      <4> QED BY <3>1, <4>2, <4>3 DEF Call
    <3>2. CASE CallRotate(t)
      BY <1>2, <3>2 DEF CallRotate
    <3>3. CASE CallCheckpoint(t)
      <4>1. call'[t] = [items |-> <<CheckpointOf(records)>>, rotateTo |-> NoKey,
                        key |-> activeKey[Host[t]]]
        BY <1>2, <3>3 DEF CallCheckpoint
      <4>2. NoRotation(<<CheckpointOf(records)>>)
        BY DEF NoRotation, CheckpointOf
      <4> QED BY <3>3, <4>1, <4>2 DEF CallCheckpoint
    <3>4. CASE Refuse(t) \/ Rollback(t) \/ Flush(t) \/ FlushFails(t)
      BY <1>2, <2>3, <3>4 DEF Refuse, Rollback, Flush, FlushFails
    <3> QED BY <1>3, <3>1, <3>2, <3>3, <3>4
  <2>4. \A u \in Thread : open'[Host[u]] => activeKey'[Host[u]] = Owed(records)
    BY <2>1 DEF SignedInv, KeysCurrent
  <2>5. ASSUME NEW u \in Thread, pc'[u] \in {"append", "checkpoint"}
        PROVE  /\ u \notin Rotators => NoRotation(call'[u].items)
               /\ open'[Host[u]] => call'[u].key = Owed(records)
    <3>1. CASE u = t
      BY <2>1, <2>3, <2>5, <3>1 DEF SignedInv, KeysCurrent
    <3>2. CASE u # t
      BY <2>1, <2>2, <2>5, <3>2 DEF SignedInv, KeysCurrent, RotationsByRotators
    <3> QED BY <3>1, <3>2
  <2> QED BY <1>1, <2>1, <2>4, <2>5, SignedKept
<1>4. CASE Begin(t)
  <2>1. /\ UNCHANGED <<records, open, activeKey, call>> /\ writer = Nobody
        /\ writer' = t /\ tx'.new = <<>> /\ tx'.queue = call[t].items
        /\ tx'.key = call[t].key /\ pc' = [pc EXCEPT ![t] = "writing"]
        /\ open[Host[t]] /\ pc[t] \in {"append", "checkpoint"}
    BY <1>4 DEF Begin, HasLock, fileVars, handleVars
  <2>2. Rows' = records /\ Rows = records
    <3>1. tx.new = <<>>
      BY <1>1, <2>1 DEF ChainInv, WriterSound
    <3> QED BY <1>1, <2>1, <3>1, ConcatEmptySeq DEF TypeInv, TypeOK, Rows
  <2>3. SignedRows(Rows)' /\ Owed(Rows)' = Owed(records)
    BY <2>2 DEF SignedInv, SignedRows, Owed
  <2>4. tx'.key = Owed(records)
    BY <2>1 DEF SignedInv, KeysCurrent
  <2>5. t \notin Rotators => NoRotation(tx'.queue)
    BY <2>1 DEF SignedInv, RotationsByRotators
  <2>6. \A u \in Thread : pc'[u] \in {"append", "checkpoint"} => pc'[u] = pc[u]
    BY <1>2, <2>1
  <2>7. KeysCurrent'
    BY <2>1, <2>3, <2>4, <2>6 DEF SignedInv, KeysCurrent, Owed
  <2>8. RotationsByRotators'
    BY <2>1, <2>3, <2>5, <2>6 DEF SignedInv, RotationsByRotators, Owed
  <2> QED BY <1>1, <2>3, <2>7, <2>8 DEF SignedInv
<1> QED BY <1>3, <1>4, SignedInsert, SignedCommit DEF ThreadStep

\* A power failure leaves a prefix of what was signed, and no handle.
LEMMA SignedPowerLoss ==
  ASSUME SignedInv, PowerLoss
  PROVE  SignedInv'
<1>1. ChainInv' /\ ChainInv
  BY ChainPowerLoss DEF SignedInv
<1>2. PICK n \in synced .. Len(records) : records' = SubSeq(records, 1, n)
  BY DEF PowerLoss
<1>3. /\ records \in Seq(Record) /\ records' \in Seq(Record)
      /\ Len(records') = n /\ n <= Len(records)
      /\ \A i \in 1 .. n : records'[i] = records[i]
  <2>1. records \in Seq(Record) /\ n \in 1 .. Len(records)
    BY <1>1 DEF ChainInv, TypeInv, TypeOK, NonEmpty
  <2> QED BY <1>2, <2>1, SubSeqProperties, ElementOfSeq
<1>4. SignedRows(records')
  BY <1>3, RecordsSigned, SignedSame
<1>5. /\ writer' = Nobody /\ tx' = NoTx /\ open' = [p \in Proc |-> FALSE]
      /\ pc' = [t \in Thread |-> "idle"]
  BY DEF PowerLoss
<1>6. Rows' = records'
  BY <1>3, <1>5, ConcatEmptySeq DEF Rows, NoTx
<1>7. SignedRows(Rows)' /\ Owed(Rows)' = Owed(records)'
  BY <1>4, <1>6 DEF SignedRows, Owed
<1>8. KeysCurrent' /\ RotationsByRotators'
  BY <1>5, <1>7, ConstantsAssumption
  DEF KeysCurrent, RotationsByRotators, NoTx, NoRotation
<1> QED BY <1>1, <1>7, <1>8 DEF SignedInv

\* Every record is signed by the key active before it, as long as a program
\* that rotates the key has the ledger to one thread.
THEOREM AlwaysWellSigned == LoneRotator => (Spec => []WellSigned)
<1> SUFFICES ASSUME LoneRotator PROVE Spec => []WellSigned
  OBVIOUS
<1>1. SignedInv /\ [Next]_vars => SignedInv'
  <2> SUFFICES ASSUME SignedInv, [Next]_vars PROVE SignedInv'
    OBVIOUS
  <2>1. CASE UNCHANGED vars
    <3>1. ChainInv'
      BY <2>1, ChainStep DEF SignedInv
    <3>2. Rows' = Rows
      BY <2>1 DEF vars, fileVars, threadVars, Rows
    <3> QED BY <2>1, <3>1, <3>2 DEF SignedInv, SignedRows, RotationsByRotators,
            KeysCurrent, Owed, vars, fileVars, handleVars, flushVars, threadVars
  <2> QED BY <2>1, SignedThreadStep, SignedProcStep, SignedPowerLoss DEF Next
<1>2. SignedInv => WellSigned
  BY RecordsSigned DEF SignedRows, WellSigned
<1> QED BY SignedInit, <1>1, <1>2, PTL DEF Spec

-----------------------------------------------------------------------------
\* Under group commit no thread calls flush(), itself or at the end of
\* rotate_key: flush() and the flusher can subtract the same records.
FlusherAlone == GroupCommit => Flushers = {} /\ Rotators = {}

\* What a handle has committed beyond what the flusher counted is still in
\* _unflushed, and while the count is not settled it is not zero.
Accounted(p) ==
  LET f == flusher[p] IN
  /\ committed[p] <= Len(records)
  /\ ~GroupCommit => committed[p] <= synced
  /\ GroupCommit =>
       /\ unflushed[p] >= f.pending
       /\ f.phase = "idle" => f.pending = 0
       /\ f.phase = "syncing" => f.pending > 0
       /\ f.phase # "syncing" /\ unflushed[p] = f.pending => committed[p] <= synced

NoFlush ==
  GroupCommit =>
    /\ \A t \in Thread : pc[t] # "flush" /\ call[t].rotateTo = NoKey
    /\ tx.rotateTo = NoKey

DurableInv ==
  TypeInv /\ NoFlush /\ \A p \in Proc : open[p] => Accounted(p)

\* At first no handle is open.
LEMMA DurableInit == FlusherAlone /\ Init => DurableInv
<1> SUFFICES ASSUME FlusherAlone, Init PROVE DurableInv
  OBVIOUS
<1>1. TypeInv
  BY TypeInit
<1> QED BY <1>1, ConstantsAssumption DEF Init, DurableInv, NoFlush, NoCall, NoTx

\* What the type invariant says of the counters.
LEMMA Counters ==
  ASSUME TypeInv
  PROVE  /\ synced \in Nat /\ Len(records) \in Nat /\ synced <= Len(records)
         /\ unflushed \in [Proc -> Nat] /\ committed \in [Proc -> Nat]
         /\ flusher \in
              [Proc -> [phase : {"idle", "syncing", "synced"}, pending : Nat]]
         /\ open \in [Proc -> BOOLEAN]
<1>1. records \in Seq(Record) /\ synced \in 1 .. Len(records)
  BY DEF TypeInv, TypeOK, NonEmpty
<1>2. Len(records) \in Nat
  BY <1>1, LenProperties
<1> QED BY <1>1, <1>2 DEF TypeInv, TypeOK

\* The account of a handle is settled or not by its own counters alone; it
\* does not fall short when the others sync or append.
LEMMA AccountKept ==
  ASSUME TypeInv, TypeInv', NEW p \in Proc, Accounted(p),
         synced' >= synced, Len(records') >= Len(records),
         committed'[p] = committed[p], unflushed'[p] = unflushed[p],
         flusher'[p] = flusher[p]
  PROVE  Accounted(p)'
<1>1. /\ synced \in Nat /\ Len(records) \in Nat /\ synced' \in Nat
      /\ Len(records') \in Nat /\ committed[p] \in Nat
  <2>1. records' \in Seq(Record) /\ synced' \in Nat
    BY DEF TypeInv, TypeOK
  <2> QED BY <2>1, Counters, LenProperties
<1> QED BY <1>1 DEF Accounted

\* A handle as open() makes it has nothing to account for.
LEMMA AccountEmpty ==
  ASSUME TypeInv', NEW p \in Proc,
         committed'[p] = 0, unflushed'[p] = 0,
         flusher'[p] = [phase |-> "idle", pending |-> 0]
  PROVE  Accounted(p)'
<1>1. flusher'[p].phase = "idle" /\ flusher'[p].pending = 0
  OBVIOUS
<1>2. Len(records') \in Nat /\ synced' \in Nat
  BY LenProperties DEF TypeInv, TypeOK
<1> QED BY <1>1, <1>2 DEF Accounted

\* The flusher syncs what is committed and subtracts what it counted: whatever
\* was committed meanwhile stays in the count.
LEMMA DurableProcStep ==
  ASSUME DurableInv, NEW p \in Proc, ProcStep(p)
  PROVE  DurableInv'
<1>1. TypeInv /\ TypeInv'
  BY TypeProcStep DEF DurableInv
<1>2. NoFlush'
  BY SMTT(30) DEF DurableInv, NoFlush, TypeInv, TypeOK, ProcStep, Open, ReadTip, Close,
     Crash, FlusherTake, FlusherSync, FlusherFails, FlusherAccount, threadVars,
     NoCall, NoTx
<1>3. records' = records /\ synced' \in {synced, Len(records)}
  BY DEF ProcStep, Open, ReadTip, Close, Crash, FlusherTake, FlusherSync,
         FlusherFails, FlusherAccount, fileVars
<1>4. /\ synced \in Nat /\ Len(records) \in Nat /\ synced <= Len(records)
      /\ records' = records /\ synced' \in {synced, Len(records)}
      /\ open \in [Proc -> BOOLEAN]
      /\ flusher \in [Proc -> [phase : {"idle", "syncing", "synced"}, pending : Nat]]
      /\ unflushed \in [Proc -> Nat] /\ committed \in [Proc -> Nat]
  BY <1>3, <1>1, Counters
<1>5. ASSUME NEW q \in Proc \ {p}, open'[q]
      PROVE  Accounted(q)'
  <2>1. /\ open[q] /\ committed'[q] = committed[q] /\ unflushed'[q] = unflushed[q]
        /\ flusher'[q] = flusher[q]
    BY <1>4, <1>5
    DEF ProcStep, Open, ReadTip, Close, Crash, Gone, FlusherTake, FlusherSync,
        FlusherFails, FlusherAccount, handleVars, flushVars
  <2> QED BY <1>1, <1>4, <2>1, AccountKept DEF DurableInv
<1>6. ASSUME open'[p]
      PROVE  Accounted(p)'
  <2>1. CASE Open(p)
    BY <1>1, <1>4, <2>1, AccountEmpty DEF Open
  <2>2. CASE ReadTip(p)
    <3>1. open[p] /\ UNCHANGED <<flushVars, synced, records>>
      BY <2>2 DEF ReadTip, fileVars
    <3> QED BY <1>1, <1>4, <3>1, AccountKept DEF DurableInv, flushVars
  <2>3. CASE Close(p) \/ Crash(p)
    BY <1>4, <1>6, <2>3 DEF Close, Crash, Gone
  <2>4. CASE FlusherTake(p)
    <3>1. /\ open[p] /\ unflushed[p] > 0 /\ Accounted(p)
          /\ flusher'[p] = [phase |-> "syncing", pending |-> unflushed[p]]
          /\ UNCHANGED <<records, synced, unflushed, committed>>
      BY <1>4, <2>4 DEF FlusherTake, DurableInv, fileVars
    <3> QED BY <1>4, <3>1 DEF Accounted
  <2>5. CASE FlusherSync(p)
    <3>1. /\ open[p] /\ Accounted(p) /\ synced' = Len(records)
          /\ flusher'[p].phase = "synced" /\ flusher'[p].pending = flusher[p].pending
          /\ UNCHANGED <<records, unflushed, committed>>
      BY <1>4, <1>6, <2>5 DEF FlusherSync, DurableInv, handleVars
    <3> QED BY <1>4, <3>1 DEF Accounted
  <2>6. CASE FlusherFails(p)
    <3>1. /\ open[p] /\ Accounted(p) /\ flusher[p].phase = "syncing"
          /\ flusher'[p] = [phase |-> "idle", pending |-> 0]
          /\ UNCHANGED <<records, synced, unflushed, committed>>
      BY <1>4, <1>6, <2>6 DEF FlusherFails, DurableInv, handleVars, fileVars
    <3>2. GroupCommit => unflushed[p] > 0
      BY <1>4, <3>1 DEF Accounted
    <3> QED BY <1>4, <3>1, <3>2 DEF Accounted
  <2>7. CASE FlusherAccount(p)
    <3>1. /\ open[p] /\ Accounted(p) /\ flusher[p].phase = "synced"
          /\ flusher'[p] = [phase |-> "idle", pending |-> 0]
          /\ unflushed'[p] = Subtract(unflushed[p], flusher[p].pending)
          /\ UNCHANGED <<records, synced, committed>>
      BY <1>4, <1>6, <2>7 DEF FlusherAccount, DurableInv, handleVars, fileVars
    <3>2. GroupCommit => Subtract(unflushed[p], flusher[p].pending)
                         = unflushed[p] - flusher[p].pending
      BY <1>4, <3>1 DEF Accounted, Subtract
    <3>3. flusher[p].pending \in Nat /\ unflushed[p] \in Nat
      BY <1>4
    <3>4. /\ GroupCommit => unflushed'[p] >= 0
          /\ GroupCommit /\ unflushed'[p] = 0 => committed[p] <= synced
      BY <3>1, <3>2, <3>3 DEF Accounted
    <3> QED BY <1>4, <3>1, <3>4 DEF Accounted
  <2> QED BY <2>1, <2>2, <2>3, <2>4, <2>5, <2>6, <2>7 DEF ProcStep
<1> QED BY <1>1, <1>2, <1>5, <1>6 DEF DurableInv

\* A commit is counted before anything else can happen to its handle.
LEMMA DurableThreadStep ==
  ASSUME FlusherAlone, DurableInv, NEW t \in Thread, ThreadStep(t)
  PROVE  DurableInv'
<1>1. TypeInv /\ TypeInv'
  BY TypeThreadStep DEF DurableInv
<1>2. /\ synced \in Nat /\ Len(records) \in Nat /\ synced <= Len(records)
      /\ open \in [Proc -> BOOLEAN] /\ Host[t] \in Proc
      /\ flusher \in [Proc -> [phase : {"idle", "syncing", "synced"}, pending : Nat]]
      /\ unflushed \in [Proc -> Nat] /\ committed \in [Proc -> Nat]
      /\ pc \in [Thread -> {"idle", "append", "checkpoint", "writing", "flush"}]
      /\ call \in [Thread -> [items : Seq(Item), key : Key \cup {NoKey},
                              rotateTo : Key \cup {NoKey}]]
      /\ tx \in [new : Seq(Record), queue : Seq(Item), prev : Record, link : Nat,
                 key : Key \cup {NoKey}, rotateTo : Key \cup {NoKey}]
      /\ open' = open
  <2>1. open' = open
    BY DEF ThreadStep, Call, CallRotate, CallCheckpoint, Refuse, Begin, Insert,
           Commit, Rollback, Flush, FlushFails, handleVars
  <2>2. /\ pc \in [Thread -> {"idle", "append", "checkpoint", "writing", "flush"}]
        /\ call \in [Thread -> [items : Seq(Item), key : Key \cup {NoKey},
                                rotateTo : Key \cup {NoKey}]]
        /\ tx \in [new : Seq(Record), queue : Seq(Item), prev : Record, link : Nat,
                   key : Key \cup {NoKey}, rotateTo : Key \cup {NoKey}]
    BY <1>1 DEF TypeInv, TypeOK
  <2> QED BY <1>1, <2>1, <2>2, Counters, ConstantsAssumption
<1>3. NoFlush'
  <2> SUFFICES ASSUME GroupCommit
               PROVE  /\ \A u \in Thread : pc'[u] # "flush" /\ call'[u].rotateTo = NoKey
                      /\ tx'.rotateTo = NoKey
    BY DEF NoFlush
  <2>1. /\ Flushers = {} /\ Rotators = {} /\ tx.rotateTo = NoKey
        /\ \A u \in Thread : pc[u] # "flush" /\ call[u].rotateTo = NoKey
    BY DEF FlusherAlone, DurableInv, NoFlush
  <2>2. ~CallRotate(t)
    BY <2>1 DEF CallRotate
  <2>3. CASE Call(t)
    <3>1. PICK n \in 1 .. MaxBatch :
            call' = [call EXCEPT ![t] = [items |-> Entries(n), rotateTo |-> NoKey,
                                         key |-> activeKey[Host[t]]]]
      BY <2>3 DEF Call
    <3> QED BY <1>2, <2>1, <2>3, <3>1 DEF Call
  <2>4. CASE Insert(t)
    BY <1>2, <2>1, <2>4 DEF Insert
  <2>5. CASE CallCheckpoint(t)
    BY <1>2, <2>1, <2>5 DEF CallCheckpoint
  <2>6. CASE Refuse(t)
    BY <1>2, <2>1, <2>6 DEF Refuse, NoCall
  <2>7. CASE Begin(t)
    BY <1>2, <2>1, <2>7 DEF Begin
  <2>8. CASE Commit(t)
    BY <1>2, <2>1, <2>8 DEF Commit, NoCall, NoTx
  <2>9. CASE Rollback(t)
    BY <1>2, <2>1, <2>9 DEF Rollback, NoCall, NoTx
  <2>10. CASE Flush(t) \/ FlushFails(t)
    BY <1>2, <2>1, <2>10 DEF Flush, FlushFails
  <2> QED BY <2>2, <2>3, <2>4, <2>5, <2>7, <2>8, <2>9, <2>6, <2>10
          DEF ThreadStep
<1>4. CASE Commit(t)
  <2> DEFINE rows == [tx.new EXCEPT ![Len(tx.new)].last = TRUE]
  <2>1. /\ tx.new \in Seq(Record) /\ tx.new # <<>> /\ records \in Seq(Record)
        /\ writer # Nobody
    BY <1>1, <1>4, ConstantsAssumption DEF Commit, TypeInv, TypeOK, NonEmpty
  <2>2. Len(rows) \in Nat /\ Len(rows) >= 1 /\ Len(records') = Len(records) + Len(rows)
    <3>1. Len(tx.new) \in 1 .. Len(tx.new) /\ tx.new[Len(tx.new)] \in Record
      BY <2>1, EmptySeq, LenProperties, ElementOfSeq
    <3>2. [tx.new[Len(tx.new)] EXCEPT !.last = TRUE] \in Record
      BY <3>1 DEF Record
    <3>3. rows \in Seq(Record) /\ Len(rows) = Len(tx.new)
      BY <2>1, <3>1, <3>2, ExceptSeq
    <3>4. Len(records \o rows) = Len(records) + Len(rows)
      BY <2>1, <3>3, ConcatProperties
    <3> QED BY <1>4, <3>1, <3>3, <3>4 DEF Commit
  <2>3. /\ synced' = IF GroupCommit THEN synced ELSE Len(records')
        /\ unflushed' = IF GroupCommit
                          THEN [unflushed EXCEPT ![Host[t]] = @ + Len(rows)]
                          ELSE unflushed
        /\ committed' = [committed EXCEPT ![Host[t]] = Len(records')]
        /\ flusher' = flusher
    BY <1>4 DEF Commit
  <2> HIDE DEF rows
  <2>4. synced' >= synced /\ Len(records') >= Len(records)
    BY <1>2, <2>2, <2>3
  <2>5. ASSUME NEW p \in Proc, open'[p]
        PROVE  Accounted(p)'
    <3>1. Accounted(p)
      BY <1>2, <2>5 DEF DurableInv
    <3>2. CASE p # Host[t]
      BY <1>1, <1>2, <2>3, <2>4, <3>1, <3>2, AccountKept
    <3>3. CASE p = Host[t]
      <4>1. /\ committed'[p] = Len(records') /\ flusher'[p] = flusher[p]
            /\ unflushed'[p] = IF GroupCommit THEN unflushed[p] + Len(rows)
                                              ELSE unflushed[p]
        BY <1>2, <2>3, <3>3
      <4>2. unflushed[p] \in Nat /\ flusher[p].pending \in Nat
        BY <1>2
      <4> QED BY SMTT(30), <1>2, <2>2, <2>3, <3>1, <4>1, <4>2 DEF Accounted
    <3> QED BY <3>2, <3>3
  <2> QED BY <1>1, <1>3, <2>5 DEF DurableInv
<1>5. CASE ~Commit(t)
  <2>1. ~GroupCommit \/ ~Flush(t)
    BY DEF FlusherAlone, DurableInv, NoFlush, Flush
  <2>2. /\ records' = records /\ synced' \in {synced, Len(records)}
        /\ UNCHANGED <<flusher, committed>>
        /\ GroupCommit => unflushed' = unflushed
    BY <1>5, <2>1
    DEF ThreadStep, Call, CallRotate, CallCheckpoint, Refuse, Begin, Insert, Rollback,
        Flush, FlushFails, fileVars, flushVars
  <2>3. ASSUME NEW p \in Proc, open'[p]
        PROVE  Accounted(p)'
    <3>1. Accounted(p) /\ synced' >= synced
      BY <1>2, <2>2, <2>3 DEF DurableInv
    <3>2. unflushed'[p] \in Nat /\ committed[p] \in Nat
      BY <1>1, <1>2 DEF TypeInv, TypeOK
    <3> QED BY <1>1, <1>2, <2>2, <3>1, <3>2 DEF Accounted, TypeInv, TypeOK
  <2> QED BY <1>1, <1>3, <2>3 DEF DurableInv
<1> QED BY <1>4, <1>5

\* What a handle reports as durable an fsync has covered, as long as the
\* flusher alone settles its account.
THEOREM AlwaysDurable == FlusherAlone => (Spec => []DurableMeansSynced)
<1> SUFFICES ASSUME FlusherAlone PROVE Spec => []DurableMeansSynced
  OBVIOUS
<1>1. Init => DurableInv
  BY DurableInit
<1>2. DurableInv /\ [Next]_vars => DurableInv'
  <2> SUFFICES ASSUME DurableInv, [Next]_vars PROVE DurableInv'
    OBVIOUS
  <2>1. CASE PowerLoss
    <3>1. TypeInv'
      BY <2>1, TypePowerLoss DEF DurableInv
    <3> QED BY <2>1, <3>1 DEF PowerLoss, DurableInv, NoFlush, NoCall, NoTx
  <2>2. CASE UNCHANGED vars
    BY <2>2 DEF DurableInv, NoFlush, Accounted, TypeInv, TypeOK, NonEmpty, vars,
       fileVars, handleVars, flushVars, threadVars
  <2> QED BY <2>1, <2>2, DurableThreadStep, DurableProcStep DEF Next
<1>3. DurableInv => DurableMeansSynced
  <2> SUFFICES ASSUME DurableInv, NEW p \in Proc, open[p], Durable(p)
               PROVE  committed[p] <= synced
    BY DEF DurableMeansSynced
  <2>1. /\ flusher[p] \in [phase : {"idle", "syncing", "synced"}, pending : Nat]
        /\ unflushed[p] \in Nat /\ Accounted(p)
    BY DEF DurableInv, TypeInv, TypeOK
  <2> QED BY <2>1 DEF Accounted, Durable
<1> QED BY <1>1, <1>2, <1>3, PTL DEF Spec

-----------------------------------------------------------------------------
\* The checkpoints: they come when the cadence asks for one, and state what
\* they cover.

\* A queue of append_many: what the caller passed, none of it a checkpoint.
Plain(items) ==
  \A i \in 1 .. Len(items) : items[i].type \in {"entry", "key_rotation"}

\* A checkpoint is next in the queue.
CheckpointNext(items) == items # <<>> /\ Head(items).type = "checkpoint"

\* A queue holds at most one checkpoint, at its head.
QueueForm(items) ==
  Plain(items) \/ (CheckpointNext(items) /\ Plain(Tail(items)))

\* What the threads pass to append_many, and what is left of it.
QueuesSound ==
  /\ \A t \in Thread :
       /\ pc[t] = "append" => Plain(call[t].items)
       /\ pc[t] = "checkpoint" => CheckpointNext(call[t].items)
                                  /\ Plain(Tail(call[t].items))
  /\ QueueForm(tx.queue)

\* The checkpoint that row i asks for is row i itself, or the next.
Met(rows, i) ==
  \/ rows[i].type = "checkpoint"
  \/ i < Len(rows) /\ rows[i + 1].type = "checkpoint"

\* Up to the checkpoint at the head of the queue the cadence is kept, and no
\* transaction ends at a row whose checkpoint is still to come.
CadenceKept ==
  /\ CheckpointCadence
  /\ \A i \in 2 .. Len(records) :
       i % CheckpointEvery = 0 /\ records[i].last => records[i].type = "checkpoint"
  /\ \A i \in 1 .. Len(tx.new) : ~tx.new[i].last
  /\ \A i \in Len(records) + 1 .. Len(Rows) :
       i % CheckpointEvery = 0 =>
         Met(Rows, i) \/ (i = Len(Rows) /\ CheckpointNext(tx.queue))

CadenceInv == ChainInv /\ QueuesSound /\ CadenceKept


\* What callers pass has the form of a queue; the program appends no genesis.
LEMMA PlainItems ==
  /\ \A n \in Nat \ {0} : Plain(Entries(n))
  /\ Plain(<<Rotation>>) /\ Plain(<<>>)
  /\ \A rows \in Seq(Record) :
       LET c == <<CheckpointOf(rows)>>
       IN  CheckpointNext(c) /\ Plain(Tail(c)) /\ Head(c) = CheckpointOf(rows)
<1>1. Plain(<<>>) /\ Plain(<<Rotation>>) /\ \A n \in Nat \ {0} : Plain(Entries(n))
  BY DEF Plain, Entries, Entry, Rotation
<1>2. ASSUME NEW rows \in Seq(Record)
      PROVE  LET c == <<CheckpointOf(rows)>>
             IN  CheckpointNext(c) /\ Plain(Tail(c)) /\ Head(c) = CheckpointOf(rows)
  <2>1. CheckpointOf(rows) \in Item /\ CheckpointOf(rows).type = "checkpoint"
    BY CheckpointType DEF CheckpointOf
  <2> HIDE DEF CheckpointOf
  <2> DEFINE c == <<CheckpointOf(rows)>>
  <2>2. c \in Seq(Item) /\ c # <<>> /\ Head(c) = CheckpointOf(rows) /\ Tail(c) = <<>>
    BY <2>1
  <2> QED BY <1>1, <2>1, <2>2 DEF CheckpointNext
<1> QED BY <1>1, <1>2

\* What one turn of the loop leaves in the queue.
LEMMA QueueAfterInsert ==
  ASSUME ChainInv, QueueForm(tx.queue), NEW t \in Thread, Insert(t)
  PROVE  LET item == Head(tx.queue)
         IN  /\ item.type \in {"entry", "key_rotation", "checkpoint"}
             /\ IF item.type # "checkpoint" /\ (Len(Rows) + 1) % CheckpointEvery = 0
                  THEN /\ CheckpointNext(tx'.queue)
                       /\ Head(tx'.queue) = CheckpointOf(Rows')
                       /\ Plain(Tail(tx'.queue))
                  ELSE Plain(tx'.queue)
<1> DEFINE item == Head(tx.queue)
<1>1. /\ item \in Item /\ tx.queue # <<>> /\ tx.queue \in Seq(Item)
      /\ tx'.queue = IF CheckpointDue(item, Len(Rows) + 1)
                       THEN <<CheckpointOf(Rows')>> \o Tail(tx.queue)
                       ELSE Tail(tx.queue)
      /\ Rows' \in Seq(Record)
  <2>1. TypeInv /\ TypeInv'
    BY TypeInsert DEF ChainInv
  <2>2. Rows' \in Seq(Record) /\ tx.queue \in Seq(Item)
    <3>1. records' \in Seq(Record) /\ tx'.new \in Seq(Record)
      BY <2>1 DEF TypeInv, TypeOK
    <3>2. records' \o tx'.new \in Seq(Record)
      BY <3>1, ConcatProperties
    <3> QED BY <2>1, <3>2 DEF TypeInv, TypeOK, Rows
  <2> QED BY <2>2, InsertRows
<1>2. /\ item = tx.queue[1] /\ Len(tx.queue) \in Nat /\ Len(tx.queue) >= 1
      /\ Tail(tx.queue) \in Seq(Item) /\ Len(Tail(tx.queue)) = Len(tx.queue) - 1
      /\ \A i \in 1 .. Len(tx.queue) - 1 : Tail(tx.queue)[i] = tx.queue[i + 1]
  BY <1>1, HeadTailProperties, LenProperties, EmptySeq
<1>3. /\ item.type \in {"entry", "key_rotation", "checkpoint"}
      /\ Plain(Tail(tx.queue))
  <2>1. CASE Plain(tx.queue)
    <3>1. ASSUME NEW i \in 1 .. Len(tx.queue) - 1
          PROVE  Tail(tx.queue)[i].type \in {"entry", "key_rotation"}
      <4>1. i + 1 \in 1 .. Len(tx.queue)
        BY <1>2
      <4> QED BY <1>2, <2>1, <4>1 DEF Plain
    <3>2. item.type \in {"entry", "key_rotation"}
      BY <1>2, <2>1 DEF Plain
    <3> QED BY <1>2, <3>1, <3>2 DEF Plain
  <2>2. CASE CheckpointNext(tx.queue) /\ Plain(Tail(tx.queue))
    BY <2>2 DEF CheckpointNext
  <2> QED BY <2>1, <2>2 DEF QueueForm
<1>4. CheckpointDue(item, Len(Rows) + 1)
        <=> item.type # "checkpoint" /\ (Len(Rows) + 1) % CheckpointEvery = 0
  BY <1>3 DEF CheckpointDue
<1> HIDE DEF item
<1>5. CASE CheckpointDue(item, Len(Rows) + 1)
  <2>1. CheckpointOf(Rows') \in Item /\ CheckpointOf(Rows').type = "checkpoint"
    BY <1>1, CheckpointType DEF CheckpointOf
  <2>2. /\ tx'.queue # <<>> /\ Head(tx'.queue) = CheckpointOf(Rows')
        /\ Tail(tx'.queue) = Tail(tx.queue)
    <3> DEFINE c == CheckpointOf(Rows')
    <3>1. c \in Item
      BY <2>1
    <3> HIDE DEF c
    <3>2. /\ <<c>> \o Tail(tx.queue) # <<>> /\ Head(<<c>> \o Tail(tx.queue)) = c
          /\ Tail(<<c>> \o Tail(tx.queue)) = Tail(tx.queue)
      BY <1>2, <3>1, ItemAtHead
    <3>3. tx'.queue = <<c>> \o Tail(tx.queue)
      BY <1>1, <1>5 DEF c
    <3> QED BY <3>2, <3>3 DEF c
  <2> QED BY <1>3, <1>4, <1>5, <2>1, <2>2 DEF CheckpointNext, item
<1>6. CASE ~CheckpointDue(item, Len(Rows) + 1)
  BY <1>1, <1>3, <1>4, <1>6 DEF item
<1> QED BY <1>5, <1>6

\* The form of the queues is kept by every step.
LEMMA QueuesStep ==
  ASSUME ChainInv, QueuesSound, [Next]_vars
  PROVE  QueuesSound'
<1>1. TypeInv /\ TypeInv'
  BY ChainStep DEF ChainInv
<1>2. /\ pc \in [Thread -> {"idle", "append", "checkpoint", "writing", "flush"}]
      /\ call \in [Thread -> [items : Seq(Item), key : Key \cup {NoKey},
                              rotateTo : Key \cup {NoKey}]]
      /\ MaxBatch \in Nat /\ records \in Seq(Record)
  BY <1>1, ConstantsAssumption DEF TypeInv, TypeOK
<1>3. QueueForm(NoTx.queue)
  BY PlainItems DEF QueueForm, NoTx
<1>4. ASSUME tx' \in {tx, NoTx},
             \A t \in Thread :
               \/ pc'[t] = pc[t] /\ call'[t] = call[t]
               \/ pc'[t] \notin {"append", "checkpoint"}
      PROVE  QueuesSound'
  BY <1>3, <1>4 DEF QueuesSound
<1>5. ASSUME NEW t \in Thread, ThreadStep(t)
      PROVE  QueuesSound'
  <2>1. CASE Call(t)
    <3>1. PICK n \in 1 .. MaxBatch :
            call' = [call EXCEPT ![t] = [items |-> Entries(n), rotateTo |-> NoKey,
                                         key |-> activeKey[Host[t]]]]
      BY <2>1 DEF Call
    <3>2. n \in Nat \ {0}
      BY <1>2
    <3>3. Plain(call'[t].items)
      BY <1>2, <3>1, <3>2, PlainItems
    <3> QED BY <1>2, <2>1, <3>1, <3>3 DEF Call, QueuesSound
  <2>2. CASE CallRotate(t)
    BY <1>2, <2>2, PlainItems DEF CallRotate, QueuesSound
  <2>3. CASE CallCheckpoint(t)
    <3>1. call'[t].items = <<CheckpointOf(records)>>
      BY <1>2, <2>3 DEF CallCheckpoint
    <3>2. CheckpointNext(call'[t].items) /\ Plain(Tail(call'[t].items))
      BY <1>2, <3>1, PlainItems
    <3> QED BY <1>2, <2>3, <3>2 DEF CallCheckpoint, QueuesSound
  <2>4. CASE Refuse(t) \/ Commit(t) \/ Rollback(t) \/ Flush(t) \/ FlushFails(t)
    BY <1>2, <1>4, <2>4 DEF Refuse, Commit, Rollback, Flush, FlushFails
  <2>5. CASE Begin(t)
    <3>1. /\ tx'.queue = call[t].items /\ pc[t] \in {"append", "checkpoint"}
          /\ call' = call /\ pc' = [pc EXCEPT ![t] = "writing"]
      BY <2>5 DEF Begin, HasLock
    <3> QED BY <1>2, <3>1 DEF QueuesSound, QueueForm
  <2>6. CASE Insert(t)
    <3>1. QueueForm(tx'.queue)
      BY <2>6, QueueAfterInsert DEF QueuesSound, QueueForm
    <3>2. pc' = pc /\ call' = call
      BY <2>6 DEF Insert
    <3> QED BY <3>1, <3>2 DEF QueuesSound
  <2> QED BY <1>5, <2>1, <2>2, <2>3, <2>4, <2>5, <2>6 DEF ThreadStep
<1>6. ASSUME NEW p \in Proc, ProcStep(p)
      PROVE  QueuesSound'
  <2>1. tx' \in {tx, NoTx}
    BY <1>6 DEF ProcStep, Open, ReadTip, Close, Crash, FlusherTake, FlusherSync,
       FlusherFails, FlusherAccount, threadVars
  <2>2. \A t \in Thread : \/ pc'[t] = pc[t] /\ call'[t] = call[t]
                          \/ pc'[t] \notin {"append", "checkpoint"}
    BY <1>6 DEF ProcStep, Open, ReadTip, Close, Crash, FlusherTake, FlusherSync,
       FlusherFails, FlusherAccount, threadVars
  <2> QED BY <1>4, <2>1, <2>2
<1>7. CASE PowerLoss
  BY <1>4, <1>7 DEF PowerLoss
<1>8. CASE UNCHANGED vars
  BY <1>4, <1>8 DEF vars, threadVars
<1> QED BY <1>5, <1>6, <1>7, <1>8 DEF Next

-----------------------------------------------------------------------------
\* The cadence.

\* At first there is the genesis record.
LEMMA CadenceInit == Init => CadenceInv
<1> SUFFICES ASSUME Init PROVE CadenceInv
  OBVIOUS
<1>1. ChainInv
  BY ChainInit
<1>2. Rows = <<Genesis>> /\ records = <<Genesis>> /\ tx.new = <<>>
  BY ConstantRecords, ConcatEmptySeq DEF Init, Rows, NoTx
<1>3. CadenceKept
  BY <1>2 DEF CadenceKept, CheckpointCadence
<1>4. QueuesSound
  BY PlainItems DEF Init, QueuesSound, QueueForm, NoTx
<1> QED BY <1>1, <1>3, <1>4 DEF CadenceInv

\* A step that adds no row, or drops the transaction, keeps the cadence.
LEMMA CadenceDropped ==
  ASSUME CadenceInv, records' = records, tx'.new = <<>>
  PROVE  CadenceKept'
<1>1. Rows' = records
  BY ConcatEmptySeq DEF Rows, CadenceInv, ChainInv, TypeInv, TypeOK
<1>2. Len(records) \in Nat
  BY LenProperties DEF CadenceInv, ChainInv, TypeInv, TypeOK
<1>3. Len(records') + 1 .. Len(Rows') = {} /\ 1 .. Len(tx'.new) = {}
  BY <1>1, <1>2
<1> QED BY <1>3 DEF CadenceInv, CadenceKept, CheckpointCadence

\* One turn of the loop: the row it adds asks for a checkpoint only if that
\* checkpoint is now at the head of the queue.
LEMMA CadenceInsert ==
  ASSUME CadenceInv, NEW t \in Thread, Insert(t)
  PROVE  CadenceKept'
<1>1. ChainInv /\ TypeInv /\ QueueForm(tx.queue) /\ CadenceKept
  BY DEF CadenceInv, ChainInv, QueuesSound
<1>2. PICK r \in Record :
        /\ r.type = Head(tx.queue).type /\ ~r.last
        /\ Rows' = Append(Rows, r) /\ tx'.new = Append(tx.new, r)
  BY <1>1, InsertRows, Zenon DEF SealNext
<1>3. /\ Rows \in Seq(Record) /\ Len(Rows) \in Nat /\ Len(records) \in Nat
      /\ Len(Rows) >= Len(records) /\ Len(records) >= 1 /\ Len(tx.new) \in Nat
      /\ \A i \in 1 .. Len(records) : Rows[i] = records[i]
  BY <1>1, RowsShape
<1>4. /\ Len(Rows') = Len(Rows) + 1 /\ Rows'[Len(Rows) + 1] = r
      /\ \A i \in 1 .. Len(Rows) : Rows'[i] = Rows[i]
  BY <1>2, <1>3, AppendProperties
<1>5. \A i \in 1 .. Len(tx'.new) : ~tx'.new[i].last
  <2>1. tx.new \in Seq(Record)
    BY <1>1 DEF TypeInv, TypeOK
  <2>2. /\ Len(tx'.new) = Len(tx.new) + 1 /\ tx'.new[Len(tx.new) + 1] = r
        /\ \A i \in 1 .. Len(tx.new) : tx'.new[i] = tx.new[i]
    BY <1>2, <2>1, AppendProperties
  <2> QED BY <1>1, <1>2, <1>3, <2>2 DEF CadenceKept
<1>6. records' = records
  BY DEF Insert
<1>7. ASSUME NEW i \in Len(records) + 1 .. Len(Rows) + 1, i % CheckpointEvery = 0
      PROVE  Met(Rows', i) \/ (i = Len(Rows) + 1 /\ CheckpointNext(tx'.queue))
  <2>1. CASE i = Len(Rows) + 1
    <3>1. r.type = "checkpoint" \/ CheckpointNext(tx'.queue)
      BY <1>1, <1>2, <1>7, <2>1, QueueAfterInsert
    <3> QED BY <1>4, <2>1, <3>1 DEF Met
  <2>2. CASE i \in Len(records) + 1 .. Len(Rows)
    <3>1. Met(Rows, i) \/ (i = Len(Rows) /\ CheckpointNext(tx.queue))
      BY <1>1, <1>7, <2>2 DEF CadenceKept
    <3>2. i \in 1 .. Len(Rows) /\ i < Len(Rows')
      BY <1>3, <1>4, <2>2
    <3>3. CASE Met(Rows, i)
      <4>1. i < Len(Rows) => i + 1 \in 1 .. Len(Rows)
        BY <1>3, <3>2
      <4> QED BY <1>4, <3>2, <3>3, <4>1 DEF Met
    <3>4. CASE i = Len(Rows) /\ CheckpointNext(tx.queue)
      BY <1>2, <1>4, <3>2, <3>4 DEF Met, CheckpointNext
    <3> QED BY <3>1, <3>3, <3>4
  <2> QED BY <1>3, <2>1, <2>2
<1> QED BY <1>1, <1>4, <1>5, <1>6, <1>7 DEF CadenceKept, CheckpointCadence

\* COMMIT ends the transaction with an empty queue: no checkpoint is owed.
LEMMA CadenceCommit ==
  ASSUME CadenceInv, NEW t \in Thread, Commit(t)
  PROVE  CadenceKept'
<1>1. ChainInv /\ TypeInv /\ CadenceKept /\ tx.queue = <<>> /\ tx'.new = <<>>
  BY DEF CadenceInv, ChainInv, Commit, NoTx
<1>2. /\ Rows' = records' /\ records' \in Seq(Record) /\ Len(records') = Len(Rows)
      /\ Len(Rows) > Len(records)
      /\ \A i \in 1 .. Len(Rows) - 1 : records'[i] = Rows[i]
      /\ records'[Len(Rows)] = [Rows[Len(Rows)] EXCEPT !.last = TRUE]
  BY <1>1, CommitRows
<1>3. /\ Len(Rows) \in Nat /\ Len(records) \in Nat /\ Len(records) >= 1
      /\ Len(Rows) = Len(records) + Len(tx.new)
      /\ \A i \in 1 .. Len(Rows) : Rows[i] \in Record
      /\ \A i \in 1 .. Len(records) : Rows[i] = records[i]
      /\ \A i \in Len(records) + 1 .. Len(Rows) : Rows[i] = tx.new[i - Len(records)]
  BY <1>1, RowsShape
<1>4. ASSUME NEW i \in 1 .. Len(Rows)
      PROVE  records'[i].type = Rows[i].type
  <2>1. CASE i = Len(Rows)
    <3>1. Rows[i] \in Record /\ records'[i] = [Rows[i] EXCEPT !.last = TRUE]
      BY <1>2, <1>3, <2>1
    <3> QED BY <3>1 DEF Record
  <2>2. CASE i # Len(Rows)
    BY <1>2, <1>3, <2>2
  <2> QED BY <2>1, <2>2
<1>5. ASSUME NEW i \in 2 .. Len(Rows), i % CheckpointEvery = 0
      PROVE  Met(records', i)
  <2>1. Met(Rows, i)
    <3>1. CASE i \in 2 .. Len(records)
      <4>1. Met(records, i)
        BY <1>1, <1>5, <3>1 DEF CadenceKept, CheckpointCadence, Met
      <4>2. i < Len(records) => i + 1 \in 1 .. Len(records)
        BY <1>3, <3>1
      <4> QED BY <1>2, <1>3, <3>1, <4>1, <4>2 DEF Met
    <3>2. CASE i \in Len(records) + 1 .. Len(Rows)
      BY <1>1, <1>5, <3>2 DEF CadenceKept, CheckpointNext
    <3> QED BY <1>3, <3>1, <3>2
  <2>2. i \in 1 .. Len(Rows) /\ (i < Len(Rows) => i + 1 \in 1 .. Len(Rows))
    BY <1>3
  <2> QED BY <1>2, <1>4, <2>1, <2>2 DEF Met
<1>6. ASSUME NEW i \in 2 .. Len(Rows), i % CheckpointEvery = 0, records'[i].last
      PROVE  records'[i].type = "checkpoint"
  <2>1. CASE i = Len(Rows)
    BY <1>2, <1>5, <1>6, <2>1 DEF Met
  <2>2. CASE i \in 2 .. Len(records)
    <3>1. records'[i] = records[i]
      BY <1>2, <1>3, <2>2
    <3> QED BY <1>1, <1>6, <2>2, <3>1 DEF CadenceKept
  <2>3. CASE i \in Len(records) + 1 .. Len(Rows) - 1
    <3>1. records'[i] = tx.new[i - Len(records)] /\ i - Len(records) \in 1 .. Len(tx.new)
      BY <1>2, <1>3, <2>3
    <3> QED BY <1>1, <1>6, <3>1 DEF CadenceKept
  <2> QED BY <1>3, <2>1, <2>2, <2>3
<1>7. CheckpointCadence'
  BY <1>2, <1>5 DEF CheckpointCadence, Met
<1>8. \A i \in 2 .. Len(records') :
        i % CheckpointEvery = 0 /\ records'[i].last => records'[i].type = "checkpoint"
  BY <1>2, <1>6
<1>9. Len(records') + 1 .. Len(Rows') = {} /\ 1 .. Len(tx'.new) = {}
  BY <1>1, <1>2, <1>3
<1> QED BY <1>7, <1>8, <1>9 DEF CadenceKept

\* A power failure cuts the ledger after whole transactions.
LEMMA CadencePowerLoss ==
  ASSUME CadenceInv, PowerLoss
  PROVE  CadenceKept'
<1>1. PICK n \in synced .. Len(records) :
        records[n].last /\ records' = SubSeq(records, 1, n)
  BY DEF PowerLoss
<1>2. /\ records \in Seq(Record) /\ n \in 1 .. Len(records) /\ Len(records) \in Nat
      /\ CadenceKept
  BY LenProperties DEF CadenceInv, ChainInv, TypeInv, TypeOK, NonEmpty
<1>3. /\ records' \in Seq(Record) /\ Len(records') = n
      /\ \A i \in 1 .. n : records'[i] = records[i]
  BY <1>1, <1>2, SubSeqProperties, ElementOfSeq
<1>4. ASSUME NEW i \in 2 .. n, i % CheckpointEvery = 0
      PROVE  Met(records', i)
  <2>1. Met(records, i)
    BY <1>2, <1>4 DEF CadenceKept, CheckpointCadence, Met
  <2>2. CASE i = n
    <3>1. records[i].type = "checkpoint"
      BY <1>1, <1>2, <1>4, <2>2 DEF CadenceKept
    <3> QED BY <1>3, <2>2, <3>1 DEF Met
  <2>3. CASE i < n
    <3>1. i \in 1 .. n /\ i + 1 \in 1 .. n
      BY <1>2, <2>3
    <3> QED BY <1>3, <2>1, <2>3, <3>1 DEF Met
  <2> QED BY <1>2, <2>2, <2>3
<1>5. \A i \in 2 .. n :
        i % CheckpointEvery = 0 /\ records'[i].last => records'[i].type = "checkpoint"
  BY <1>2, <1>3 DEF CadenceKept
<1>6. tx'.new = <<>> /\ Rows' = records'
  <2>1. tx'.new = <<>>
    BY DEF PowerLoss, NoTx
  <2> QED BY <1>3, <2>1, ConcatEmptySeq DEF Rows
<1>7. Len(records') + 1 .. Len(Rows') = {} /\ 1 .. Len(tx'.new) = {}
  BY <1>2, <1>3, <1>6
<1> QED BY <1>3, <1>4, <1>5, <1>7 DEF CadenceKept, CheckpointCadence, Met

\* Every step keeps the cadence.
LEMMA CadenceStep == CadenceInv /\ [Next]_vars => CadenceInv'
<1> SUFFICES ASSUME CadenceInv, [Next]_vars
             PROVE  CadenceInv'
  OBVIOUS
<1>1. ChainInv /\ ChainInv' /\ QueuesSound'
  BY ChainStep, QueuesStep DEF CadenceInv
<1>2. ASSUME UNCHANGED <<records, tx>>
      PROVE  CadenceKept'
  BY <1>2 DEF CadenceInv, CadenceKept, CheckpointCadence, Rows, Met
<1>3. ASSUME NEW t \in Thread, ThreadStep(t)
      PROVE  CadenceKept'
  <2>1. CASE \/ Call(t) \/ CallRotate(t) \/ CallCheckpoint(t) \/ Refuse(t)
             \/ Flush(t) \/ FlushFails(t)
    <3>1. UNCHANGED <<records, tx>>
      BY <2>1 DEF Call, CallRotate, CallCheckpoint, Refuse, Flush, FlushFails, fileVars
    <3> QED BY <1>2, <3>1
  <2>2. CASE Begin(t) \/ Rollback(t)
    <3>1. records' = records /\ tx'.new = <<>>
      BY <2>2 DEF Begin, Rollback, fileVars, NoTx
    <3> QED BY <3>1, CadenceDropped
  <2> QED BY <1>3, <2>1, <2>2, CadenceInsert, CadenceCommit DEF ThreadStep
<1>4. ASSUME NEW p \in Proc, ProcStep(p)
      PROVE  CadenceKept'
  <2>1. records' = records /\ (tx' = tx \/ tx'.new = <<>>)
    BY <1>4 DEF ProcStep, Open, ReadTip, Close, Crash, FlusherTake, FlusherSync,
       FlusherFails, FlusherAccount, fileVars, threadVars, NoTx
  <2> QED BY <1>2, <2>1, CadenceDropped
<1>5. ASSUME UNCHANGED vars
      PROVE  CadenceKept'
  <2>1. UNCHANGED <<records, tx>>
    BY <1>5 DEF vars, fileVars, threadVars
  <2> QED BY <1>2, <2>1
<1>6. ASSUME Next
      PROVE  CadenceKept'
  BY <1>3, <1>4, <1>6, CadencePowerLoss DEF Next
<1> QED BY <1>1, <1>5, <1>6 DEF CadenceInv

\* A ledger that reaches a multiple of checkpoint_every has a checkpoint there,
\* whichever threads and processes wrote it and wherever power failed.
THEOREM AlwaysOnCadence == Spec => []CheckpointCadence
<1>1. CadenceInv => CheckpointCadence
  BY DEF CadenceInv, CadenceKept
<1> QED BY CadenceInit, CadenceStep, <1>1, PTL DEF Spec

-----------------------------------------------------------------------------
\* What a checkpoint states.

\* Whoever calls checkpoint_now has the ledger to its own process: no other
\* process appends between the root it reads and its transaction.
LoneCheckpointers ==
  \A t \in Checkpointers : \A u \in Thread : Host[u] = Host[t]

\* The lock of a handle: one thread at a time is in checkpoint_now or inside
\* the transaction, and the transaction is that of the thread inside it.
LockExclusive ==
  /\ \A t, u \in Thread :
       /\ Host[t] = Host[u]
       /\ pc[t] \in {"checkpoint", "writing"}
       /\ pc[u] \in {"checkpoint", "writing"}
       => t = u
  /\ \A t \in Thread : pc[t] = "checkpoint" => t \in Checkpointers

\* Row i, if it is a checkpoint, states what comes before it.
ExactAt(rows, i) ==
  rows[i].type = "checkpoint" =>
    rows[i].size = i - 1 /\ rows[i].root = Root(rows, i - 1)

Exact(rows) == \A i \in 1 .. Len(rows) : ExactAt(rows, i)

\* A checkpoint about to be sealed, by a caller or by the loop, is that of the
\* rows it will follow.
ExactInv ==
  /\ CadenceInv
  /\ LockExclusive
  /\ Exact(Rows)
  /\ CheckpointNext(tx.queue) => Head(tx.queue) = CheckpointOf(Rows)
  /\ \A t \in Thread :
       pc[t] = "checkpoint" => Head(call[t].items) = CheckpointOf(records)

\* A ledger whose rows agree on type, size, root and nonce has the same
\* checkpoints.
LEMMA ExactSame ==
  ASSUME NEW rows \in Seq(Record), Exact(rows),
         NEW others \in Seq(Record), Len(others) <= Len(rows),
         \A i \in 1 .. Len(others) : /\ others[i].type = rows[i].type
                                     /\ others[i].size = rows[i].size
                                     /\ others[i].root = rows[i].root
                                     /\ others[i].nonce = rows[i].nonce
  PROVE  Exact(others)
<1>1. Len(others) \in Nat /\ Len(rows) \in Nat
  BY LenProperties
<1> SUFFICES ASSUME NEW i \in 1 .. Len(others), others[i].type = "checkpoint"
             PROVE  others[i].size = i - 1 /\ others[i].root = Root(others, i - 1)
  BY DEF Exact, ExactAt
<1>2. i \in 1 .. Len(rows) /\ \A j \in 1 .. i - 1 : j \in 1 .. Len(others)
  BY <1>1
<1>3. rows[i].size = i - 1 /\ rows[i].root = Root(rows, i - 1)
  BY <1>2 DEF Exact, ExactAt
<1>4. Root(others, i - 1) = Root(rows, i - 1)
  BY <1>2 DEF Root
<1> QED BY <1>3, <1>4

\* A row that is no checkpoint, or the checkpoint of the rows before it, may
\* follow.
LEMMA ExactAppend ==
  ASSUME NEW rows \in Seq(Record), Exact(rows), NEW r \in Record,
         r.type = "checkpoint" =>
           /\ r.size = CheckpointOf(rows).size
           /\ r.root = CheckpointOf(rows).root
  PROVE  Exact(Append(rows, r))
<1>1. /\ Len(Append(rows, r)) = Len(rows) + 1
      /\ Append(rows, r)[Len(rows) + 1] = r
      /\ \A i \in 1 .. Len(rows) : Append(rows, r)[i] = rows[i]
      /\ Len(rows) \in Nat
  BY AppendProperties, LenProperties
<1>2. ASSUME NEW n \in 0 .. Len(rows)
      PROVE  Root(Append(rows, r), n) = Root(rows, n)
  <2>1. \A i \in 1 .. n : i \in 1 .. Len(rows)
    BY <1>1
  <2> QED BY <1>1, <2>1 DEF Root
<1> SUFFICES ASSUME NEW i \in 1 .. Len(rows) + 1
             PROVE  ExactAt(Append(rows, r), i)
  BY <1>1 DEF Exact
<1>3. i - 1 \in 0 .. Len(rows)
  BY <1>1
<1>4. CASE i = Len(rows) + 1
  BY <1>1, <1>2, <1>3, <1>4 DEF ExactAt, CheckpointOf
<1>5. CASE i \in 1 .. Len(rows)
  BY <1>1, <1>2, <1>3, <1>5 DEF ExactAt, Exact
<1> QED BY <1>1, <1>4, <1>5

\* The committed rows are exact.
LEMMA RecordsExact ==
  ASSUME ExactInv
  PROVE  Exact(records)
<1>1. records \in Seq(Record)
  BY DEF ExactInv, CadenceInv, ChainInv, TypeInv, TypeOK
<1>2. /\ Rows \in Seq(Record) /\ Len(records) <= Len(Rows)
      /\ \A i \in 1 .. Len(records) : Rows[i] = records[i]
  BY RowsShape DEF ExactInv, CadenceInv, ChainInv
<1> QED BY <1>1, <1>2, ExactSame DEF ExactInv

\* One thread at a time is behind the lock of a handle.
LEMMA LockStep ==
  ASSUME ChainInv, LockExclusive, [Next]_vars
  PROVE  LockExclusive'
<1>1. /\ pc \in [Thread -> {"idle", "append", "checkpoint", "writing", "flush"}]
      /\ Host \in [Thread -> Proc]
  BY ConstantsAssumption DEF ChainInv, TypeInv, TypeOK
<1>2. ASSUME \A t \in Thread : pc'[t] = pc[t] \/ pc'[t] \notin {"checkpoint", "writing"}
      PROVE  LockExclusive'
  BY <1>2 DEF LockExclusive
<1>3. ASSUME NEW t \in Thread, ThreadStep(t)
      PROVE  LockExclusive'
  <2>1. CASE CallCheckpoint(t)
    <3>1. /\ pc' = [pc EXCEPT ![t] = "checkpoint"] /\ t \in Checkpointers
          /\ \A u \in Thread : Host[u] = Host[t] => pc[u] \notin {"checkpoint", "writing"}
      BY <2>1 DEF CallCheckpoint, Locked
    <3> QED BY <1>1, <3>1 DEF LockExclusive
  <2>2. CASE Begin(t)
    <3>1. /\ pc' = [pc EXCEPT ![t] = "writing"]
          /\ pc[t] = "checkpoint" \/ \A u \in Thread : Host[u] = Host[t] =>
                                       pc[u] \notin {"checkpoint", "writing"}
      BY <2>2 DEF Begin, HasLock, Locked
    <3> QED BY <1>1, <3>1 DEF LockExclusive
  <2>3. CASE ~CallCheckpoint(t) /\ ~Begin(t)
    <3>1. \A u \in Thread : pc'[u] = pc[u] \/ pc'[u] \notin {"checkpoint", "writing"}
      BY <1>1, <1>3, <2>3 DEF ThreadStep, Call, CallRotate, Refuse, Insert, Commit,
         Rollback, Flush, FlushFails
    <3> QED BY <1>2, <3>1
  <2> QED BY <2>1, <2>2, <2>3
<1>4. ASSUME NEW p \in Proc, ProcStep(p)
      PROVE  LockExclusive'
  <2>1. \A u \in Thread : pc'[u] = pc[u] \/ pc'[u] \notin {"checkpoint", "writing"}
    BY <1>1, <1>4 DEF ProcStep, Open, ReadTip, Close, Crash, FlusherTake, FlusherSync,
       FlusherFails, FlusherAccount, threadVars
  <2> QED BY <1>2, <2>1
<1>5. CASE PowerLoss
  <2>1. \A u \in Thread : pc'[u] \notin {"checkpoint", "writing"}
    BY <1>5 DEF PowerLoss
  <2> QED BY <1>2, <2>1
<1>6. CASE UNCHANGED vars
  <2>1. pc' = pc
    BY <1>6 DEF vars, threadVars
  <2> QED BY <1>2, <2>1
<1>7. CASE Next
  BY <1>3, <1>4, <1>5, <1>7 DEF Next
<1> QED BY <1>6, <1>7

\* While a thread that has the ledger to its process is in checkpoint_now, no
\* transaction is open: what it read stays the ledger.
LEMMA CheckpointAlone ==
  ASSUME LoneCheckpointers, ExactInv, NEW t \in Thread, pc[t] = "checkpoint"
  PROVE  writer = Nobody
<1>1. ChainInv /\ LockExclusive
  BY DEF ExactInv, CadenceInv
<1>2. SUFFICES ASSUME writer # Nobody PROVE FALSE
  OBVIOUS
<1>3. writer \in Thread /\ pc[writer] = "writing"
  BY <1>1, <1>2 DEF ChainInv, WriterSound, TypeInv, TypeOK
<1>4. Host[writer] = Host[t]
  BY <1>1, <1>3 DEF LockExclusive, LoneCheckpointers
<1>5. writer = t
  BY <1>1, <1>3, <1>4 DEF LockExclusive
<1> QED BY <1>3, <1>5

\* At first there is no checkpoint and no call.
LEMMA ExactInit == Init => ExactInv
<1> SUFFICES ASSUME Init PROVE ExactInv
  OBVIOUS
<1>1. CadenceInv
  BY CadenceInit
<1>2. Rows = <<Genesis>> /\ tx.queue = <<>>
  BY ConstantRecords, ConcatEmptySeq DEF Init, Rows, NoTx
<1>3. Exact(Rows)
  BY <1>2 DEF Exact, ExactAt, Genesis
<1> QED BY <1>1, <1>2, <1>3 DEF Init, ExactInv, LockExclusive, CheckpointNext

\* A step that leaves the rows alone, or drops the transaction, keeps the
\* checkpoints exact if a checkpoint that is called for is that of the ledger.
LEMMA ExactKept ==
  ASSUME ExactInv, CadenceInv', LockExclusive', records' = records,
         tx' = tx \/ tx' = NoTx,
         \A t \in Thread : pc'[t] = "checkpoint" =>
           Head(call'[t].items) = CheckpointOf(records)
  PROVE  ExactInv'
<1>1. CASE tx' = tx
  <2>1. Rows' = Rows
    BY <1>1 DEF Rows
  <2>2. Exact(Rows)' /\ (CheckpointNext(tx.queue) => Head(tx.queue) = CheckpointOf(Rows))'
    BY <1>1, <2>1 DEF ExactInv, Exact, CheckpointNext
  <2> QED BY <2>2 DEF ExactInv
<1>2. CASE tx' = NoTx
  <2>1. Rows' = records
    BY <1>2, ConcatEmptySeq
    DEF Rows, NoTx, ExactInv, CadenceInv, ChainInv, TypeInv, TypeOK
  <2>2. Exact(Rows)'
    BY <2>1, RecordsExact DEF Exact
  <2>3. ~CheckpointNext(tx'.queue)
    BY <1>2 DEF NoTx, CheckpointNext
  <2> QED BY <2>2, <2>3 DEF ExactInv, CheckpointNext
<1> QED BY <1>1, <1>2

\* One turn of the loop seals the checkpoint of the rows before it.
LEMMA ExactInsert ==
  ASSUME ExactInv, CadenceInv', LockExclusive', NEW t \in Thread, Insert(t)
  PROVE  ExactInv'
<1>1. ChainInv /\ TypeInv /\ QueueForm(tx.queue) /\ tx.queue # <<>>
  BY DEF ExactInv, CadenceInv, ChainInv, QueuesSound, Insert
<1>2. PICK r \in Record :
        /\ r.type = Head(tx.queue).type /\ r.size = Head(tx.queue).size
        /\ r.root = Head(tx.queue).root
        /\ Rows' = Append(Rows, r)
  BY <1>1, InsertRows, Zenon DEF SealNext
<1>3. Rows \in Seq(Record) /\ Len(Rows) \in Nat
  BY <1>1, RowsShape
<1>4. Exact(Rows')
  <2>1. r.type = "checkpoint" => Head(tx.queue) = CheckpointOf(Rows)
    BY <1>1, <1>2 DEF ExactInv, CheckpointNext
  <2> QED BY <1>2, <1>3, <2>1, ExactAppend DEF ExactInv
<1>5. CheckpointNext(tx'.queue) => Head(tx'.queue) = CheckpointOf(Rows')
  <2> SUFFICES ASSUME CheckpointNext(tx'.queue), Plain(tx'.queue)
               PROVE  FALSE
    BY <1>1, QueueAfterInsert
  <2>1. tx'.queue \in Seq(Item)
    BY DEF CadenceInv, ChainInv, TypeInv, TypeOK
  <2>2. Head(tx'.queue) = tx'.queue[1] /\ 1 \in 1 .. Len(tx'.queue)
    BY <2>1, HeadTailProperties, LenProperties, EmptySeq DEF CheckpointNext
  <2> QED BY <2>2 DEF CheckpointNext, Plain
<1>6. UNCHANGED <<records, pc, call>>
  BY DEF Insert
<1>7. Exact(Rows)' /\ (CheckpointNext(tx.queue) => Head(tx.queue) = CheckpointOf(Rows))'
  BY <1>4, <1>5 DEF Exact, CheckpointNext
<1> QED BY <1>6, <1>7 DEF ExactInv

\* COMMIT keeps what the rows state, and finds no thread in checkpoint_now.
LEMMA ExactCommit ==
  ASSUME LoneCheckpointers, ExactInv, CadenceInv', LockExclusive',
         NEW t \in Thread, Commit(t)
  PROVE  ExactInv'
<1>1. ChainInv /\ TypeInv /\ writer # Nobody /\ tx'.queue = <<>>
  BY ConstantsAssumption DEF ExactInv, CadenceInv, ChainInv, Commit, NoTx
<1>2. /\ Rows' = records' /\ records' \in Seq(Record) /\ Len(records') = Len(Rows)
      /\ \A i \in 1 .. Len(Rows) - 1 : records'[i] = Rows[i]
      /\ records'[Len(Rows)] = [Rows[Len(Rows)] EXCEPT !.last = TRUE]
  BY <1>1, CommitRows
<1>3. /\ Rows \in Seq(Record) /\ Len(Rows) \in Nat
      /\ \A i \in 1 .. Len(Rows) : Rows[i] \in Record
  BY <1>1, RowsShape
<1>4. ASSUME NEW i \in 1 .. Len(Rows)
      PROVE  /\ records'[i].type = Rows[i].type /\ records'[i].size = Rows[i].size
             /\ records'[i].root = Rows[i].root /\ records'[i].nonce = Rows[i].nonce
  <2>1. CASE i = Len(Rows)
    <3>1. Rows[i] \in Record /\ records'[i] = [Rows[i] EXCEPT !.last = TRUE]
      BY <1>2, <1>3, <2>1
    <3> QED BY <3>1 DEF Record
  <2>2. CASE i # Len(Rows)
    BY <1>2, <1>3, <2>2
  <2> QED BY <2>1, <2>2
<1>5. Exact(Rows')
  BY SMTT(30), <1>2, <1>3, <1>4, ExactSame DEF ExactInv
<1>6. \A u \in Thread : pc'[u] # "checkpoint"
  <2>1. pc \in [Thread -> {"idle", "append", "checkpoint", "writing", "flush"}]
    BY <1>1 DEF TypeInv, TypeOK
  <2>2. \A u \in Thread : pc[u] # "checkpoint"
    BY <1>1, CheckpointAlone
  <2> QED BY <2>1, <2>2 DEF Commit
<1>7. Exact(Rows)' /\ ~CheckpointNext(tx'.queue)
  BY <1>1, <1>5 DEF Exact, CheckpointNext
<1> QED BY <1>6, <1>7 DEF ExactInv, CheckpointNext

\* The steps of a thread.
LEMMA ExactThreadStep ==
  ASSUME LoneCheckpointers, ExactInv, CadenceInv', LockExclusive',
         NEW t \in Thread, ThreadStep(t)
  PROVE  ExactInv'
<1>1. ChainInv /\ TypeInv /\ QueuesSound
  BY DEF ExactInv, CadenceInv, ChainInv
<1>2. /\ pc \in [Thread -> {"idle", "append", "checkpoint", "writing", "flush"}]
      /\ call \in [Thread -> [items : Seq(Item), key : Key \cup {NoKey},
                              rotateTo : Key \cup {NoKey}]]
      /\ records \in Seq(Record)
  BY <1>1 DEF TypeInv, TypeOK
<1>3. CASE Call(t) \/ CallRotate(t) \/ Refuse(t) \/ Rollback(t) \/ Flush(t)
           \/ FlushFails(t)
  <2>1. /\ records' = records /\ (tx' = tx \/ tx' = NoTx)
        /\ \A u \in Thread : pc'[u] = "checkpoint" => pc[u] = "checkpoint"
                                                      /\ call'[u] = call[u]
    BY <1>2, <1>3 DEF Call, CallRotate, Refuse, Rollback, Flush, FlushFails, fileVars
  <2> QED BY <2>1, ExactKept DEF ExactInv
<1>4. CASE CallCheckpoint(t)
  <2>1. /\ records' = records /\ tx' = tx
        /\ call'[t].items = <<CheckpointOf(records)>>
        /\ \A u \in Thread \ {t} : pc'[u] = pc[u] /\ call'[u] = call[u]
    BY <1>2, <1>4 DEF CallCheckpoint, fileVars
  <2>2. Head(call'[t].items) = CheckpointOf(records)
    BY <1>2, <2>1, PlainItems
  <2> QED BY <2>1, <2>2, ExactKept DEF ExactInv
<1>5. CASE Begin(t)
  <2>1. /\ records' = records /\ tx'.new = <<>> /\ tx'.queue = call[t].items
        /\ pc[t] \in {"append", "checkpoint"} /\ call' = call
        /\ pc' = [pc EXCEPT ![t] = "writing"]
    BY <1>5 DEF Begin, HasLock, fileVars
  <2>2. Rows' = records
    BY <1>2, <2>1, ConcatEmptySeq DEF Rows
  <2>3. Exact(Rows)'
    BY <2>2, RecordsExact DEF Exact
  <2>4. CheckpointNext(tx'.queue) => Head(tx'.queue) = CheckpointOf(Rows')
    <3>1. CASE pc[t] = "checkpoint"
      BY <2>1, <2>2, <3>1 DEF ExactInv
    <3>2. CASE pc[t] = "append"
      <4>1. tx'.queue \in Seq(Item) /\ Plain(tx'.queue)
        BY <1>1, <1>2, <2>1, <3>2 DEF QueuesSound
      <4>2. CheckpointNext(tx'.queue) =>
              Head(tx'.queue) = tx'.queue[1] /\ 1 \in 1 .. Len(tx'.queue)
        BY <4>1, HeadTailProperties, LenProperties, EmptySeq DEF CheckpointNext
      <4> QED BY <4>1, <4>2 DEF CheckpointNext, Plain
    <3> QED BY <2>1, <3>1, <3>2
  <2>5. \A u \in Thread : pc'[u] = "checkpoint" => pc[u] = "checkpoint"
    BY <1>2, <2>1
  <2>6. (CheckpointNext(tx.queue) => Head(tx.queue) = CheckpointOf(Rows))'
    BY <2>4 DEF CheckpointNext
  <2> QED BY <2>1, <2>3, <2>5, <2>6 DEF ExactInv
<1> QED BY <1>3, <1>4, <1>5, ExactInsert, ExactCommit DEF ThreadStep

\* Every step keeps the checkpoints exact.
LEMMA ExactStep == LoneCheckpointers /\ ExactInv /\ [Next]_vars => ExactInv'
<1> SUFFICES ASSUME LoneCheckpointers, ExactInv, [Next]_vars
             PROVE  ExactInv'
  OBVIOUS
<1>1. CadenceInv' /\ LockExclusive'
  BY CadenceStep, LockStep DEF ExactInv, CadenceInv
<1>2. ASSUME NEW p \in Proc, ProcStep(p)
      PROVE  ExactInv'
  <2>1. /\ records' = records /\ (tx' = tx \/ tx' = NoTx)
    BY <1>2 DEF ProcStep, Open, ReadTip, Close, Crash, FlusherTake, FlusherSync,
       FlusherFails, FlusherAccount, fileVars, threadVars
  <2>2. \A t \in Thread : pc'[t] = "checkpoint" => pc[t] = "checkpoint"
                                                  /\ call'[t] = call[t]
    BY <1>2 DEF ProcStep, Open, ReadTip, Close, Crash, FlusherTake, FlusherSync,
       FlusherFails, FlusherAccount, threadVars
  <2> QED BY <1>1, <2>1, <2>2, ExactKept DEF ExactInv
<1>3. CASE PowerLoss
  <2>1. PICK n \in synced .. Len(records) : records' = SubSeq(records, 1, n)
    BY <1>3 DEF PowerLoss
  <2>2. /\ records \in Seq(Record) /\ records' \in Seq(Record)
        /\ Len(records') = n /\ n <= Len(records)
        /\ \A i \in 1 .. n : records'[i] = records[i]
    <3>1. records \in Seq(Record) /\ n \in 1 .. Len(records)
      BY DEF ExactInv, CadenceInv, ChainInv, TypeInv, TypeOK, NonEmpty
    <3> QED BY <2>1, <3>1, SubSeqProperties, ElementOfSeq
  <2>3. Exact(records')
    BY <2>2, RecordsExact, ExactSame
  <2>4. tx'.new = <<>> /\ tx'.queue = <<>> /\ \A t \in Thread : pc'[t] = "idle"
    BY <1>3 DEF PowerLoss, NoTx
  <2>5. Rows' = records'
    BY <2>2, <2>4, ConcatEmptySeq DEF Rows
  <2>6. Exact(Rows)' /\ ~CheckpointNext(tx'.queue)
    BY <2>3, <2>4, <2>5 DEF Exact, CheckpointNext
  <2> QED BY <1>1, <2>4, <2>6 DEF ExactInv, CheckpointNext
<1>4. CASE UNCHANGED vars
  <2>1. UNCHANGED <<records, tx, pc, call>>
    BY <1>4 DEF vars, fileVars, threadVars
  <2> QED BY <1>1, <2>1, ExactKept DEF ExactInv
<1>5. CASE Next
  BY <1>1, <1>2, <1>3, <1>5, ExactThreadStep DEF Next
<1> QED BY <1>4, <1>5

\* Every checkpoint states how many records come before it and their root,
\* those of the cadence without condition, those of checkpoint_now as long as
\* no other process appends to the ledger.
THEOREM AlwaysExact == LoneCheckpointers => (Spec => []CheckpointsExact)
<1> SUFFICES ASSUME LoneCheckpointers PROVE Spec => []CheckpointsExact
  OBVIOUS
<1>1. ExactInv /\ [Next]_vars => ExactInv'
  BY ExactStep
<1>2. ExactInv => CheckpointsExact
  BY RecordsExact DEF Exact, ExactAt, CheckpointsExact
<1> QED BY ExactInit, <1>1, <1>2, PTL DEF Spec
===============================================================================
