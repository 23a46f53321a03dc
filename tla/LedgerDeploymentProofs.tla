------------------------ MODULE LedgerDeploymentProofs ------------------------
(***************************************************************************)
(* Proofs about LedgerDeployment, for any history of any length.           *)
(*                                                                         *)
(* Shape, inductive with power failures too, gives the types and that      *)
(* written anchor files stay. Field, inductive when the power does not     *)
(* fail, says that the rows are as they were appended, the node cache a    *)
(* tree over a prefix of them, and anchors and logbook copies of what they *)
(* held: from it follow that an untouched ledger raises no alarm and that  *)
(* the cache answers as the records do.                                    *)
(***************************************************************************)
EXTENDS LedgerDeployment, VerifierProofs, FiniteSetTheorems

\* A bounded set of numbers that is not empty has a greatest one.
LEMMA Greatest ==
  ASSUME NEW n \in Nat, NEW S \in SUBSET (0 .. n), S # {}
  PROVE  \E i \in S : \A j \in S : j <= i
<1> DEFINE T == {n - i : i \in S}
<1>1. T \in SUBSET Nat /\ T # {}
  <2>1. PICK i \in S : TRUE
    OBVIOUS
  <2>2. n - i \in T
    OBVIOUS
  <2> QED BY <2>2
<1>2. PICK t \in T : \A u \in T : t <= u
  <2> HIDE DEF T
  <2> QED BY <1>1, Pow2Rec!Least
<1>3. PICK i \in S : t = n - i
  OBVIOUS
<1>4. ASSUME NEW j \in S PROVE j <= i
  <2>1. n - j \in T
    OBVIOUS
  <2>2. t <= n - j
    BY <1>2, <2>1
  <2> QED BY <1>3, <2>2
<1> QED BY <1>3, <1>4

\* The key active at a position is the first one or the last rotated to.
Rotations(rs, p) == {q \in 1 .. p - 1 : rs[q + 1].type = "key_rotation"}

LEMMA ActiveIs ==
  ASSUME NEW rs, NEW p \in Nat
  PROVE  IF Rotations(rs, p) = {} THEN ActiveAt(rs, p) = rs[1].key
         ELSE \E q \in Rotations(rs, p) : /\ \A r \in Rotations(rs, p) : r <= q
                                          /\ ActiveAt(rs, p) = rs[q + 1].body.new
<1> DEFINE R == Rotations(rs, p)
           top == CHOOSE q \in R : \A r \in R : r <= q
<1>1. ActiveAt(rs, p) = IF R = {} THEN rs[1].key ELSE rs[top + 1].body.new
  BY DEF ActiveAt, Rotations
<1>2. R # {} => top \in R /\ \A r \in R : r <= top
  <2>1. R \in SUBSET (0 .. p)
    BY DEF Rotations
  <2> HIDE DEF R
  <2> QED BY <2>1, Greatest
<1> HIDE DEF top
<1> QED BY <1>1, <1>2

\* It depends on the rows before the position, and on the first.
LEMMA ActiveStays ==
  ASSUME NEW rs, NEW ts, NEW p \in Nat, rs[1] = ts[1], \A i \in 1 .. p : rs[i] = ts[i]
  PROVE  ActiveAt(rs, p) = ActiveAt(ts, p)
<1>1. Rotations(rs, p) = Rotations(ts, p)
  BY DEF Rotations
<1>2. CASE Rotations(rs, p) = {}
  BY <1>1, <1>2, ActiveIs
<1>3. CASE Rotations(rs, p) # {}
  <2>1. PICK q \in Rotations(rs, p) : /\ \A r \in Rotations(rs, p) : r <= q
                                      /\ ActiveAt(rs, p) = rs[q + 1].body.new
    BY <1>3, ActiveIs
  <2>2. PICK o \in Rotations(ts, p) : /\ \A r \in Rotations(ts, p) : r <= o
                                      /\ ActiveAt(ts, p) = ts[o + 1].body.new
    BY <1>1, <1>3, ActiveIs
  <2>3. q \in 1 .. p - 1 /\ o \in 1 .. p - 1 /\ q <= o /\ o <= q
    BY <1>1, <2>1, <2>2 DEF Rotations
  <2>4. q = o /\ q + 1 \in 1 .. p
    BY <2>3
  <2> QED BY <2>1, <2>2, <2>4
<1> QED BY <1>2, <1>3

\* One row further, a rotation there changes it.
LEMMA ActiveNext ==
  ASSUME NEW rs, NEW p \in Nat
  PROVE  ActiveAt(rs, p + 1) = IF p > 0 /\ rs[p + 1].type = "key_rotation" THEN rs[p + 1].body.new
                               ELSE ActiveAt(rs, p)
<1>1. Rotations(rs, p + 1) = IF p > 0 /\ rs[p + 1].type = "key_rotation" THEN Rotations(rs, p) \cup {p}
                             ELSE Rotations(rs, p)
  BY DEF Rotations
<1>2. CASE p > 0 /\ rs[p + 1].type = "key_rotation"
  <2>1. PICK q \in Rotations(rs, p + 1) : /\ \A r \in Rotations(rs, p + 1) : r <= q
                                          /\ ActiveAt(rs, p + 1) = rs[q + 1].body.new
    <3>1. Rotations(rs, p + 1) # {} /\ p + 1 \in Nat
      BY <1>1, <1>2
    <3> QED BY <3>1, ActiveIs
  <2>2. q \in 1 .. p /\ p <= q
    BY <1>1, <1>2, <2>1 DEF Rotations
  <2> QED BY <1>2, <2>1, <2>2
<1>3. CASE ~ (p > 0 /\ rs[p + 1].type = "key_rotation")
  <2>1. Rotations(rs, p + 1) = Rotations(rs, p) /\ p + 1 \in Nat
    BY <1>1, <1>3
  <2>2. CASE Rotations(rs, p) = {}
    BY <1>3, <2>1, <2>2, ActiveIs
  <2>3. CASE Rotations(rs, p) # {}
    <3>1. PICK q \in Rotations(rs, p) : /\ \A r \in Rotations(rs, p) : r <= q
                                        /\ ActiveAt(rs, p) = rs[q + 1].body.new
      BY <2>3, ActiveIs
    <3>2. PICK o \in Rotations(rs, p) : /\ \A r \in Rotations(rs, p) : r <= o
                                        /\ ActiveAt(rs, p + 1) = rs[o + 1].body.new
      BY <2>1, <2>3, ActiveIs
    <3>3. q \in Nat /\ o \in Nat /\ q <= o /\ o <= q
      BY <3>1, <3>2 DEF Rotations
    <3>4. q = o
      BY <3>3
    <3> QED BY <1>3, <3>1, <3>2, <3>4
  <2> QED BY <2>2, <2>3
<1> QED BY <1>2, <1>3

-----------------------------------------------------------------------------
\* What seal_next appends.

LEMMA SealedFields ==
  ASSUME NEW rs, IsSeq(rs), NEW key, NEW type, NEW body
  PROVE  LET s == Sealed(rs, key, type, body)
             n == Len(rs)
             r == s[n + 1] IN
         /\ IsSeq(s) /\ n \in Nat /\ Len(s) = n + 1 /\ DOMAIN s = 1 .. n + 1 /\ DOMAIN rs = 1 .. n
         /\ \A i \in 1 .. n : s[i] = rs[i]
         /\ r.form = "ok" /\ r.seq = n /\ r.type = type /\ r.key = key /\ r.at = clock /\ r.body = body
         /\ r.prev = IF n = 0 THEN Unit ELSE Link(rs[n])
         /\ r.nonce = Fresh(n) /\ r.c = Fresh(n) /\ SignedBy(r, key)
         /\ r.cols = Columns(r) /\ DOMAIN r = RowFields
<1> DEFINE n == Len(rs)
           row == [form |-> "ok", seq |-> n, type |-> type, key |-> key,
                   prev |-> IF n = 0 THEN Unit ELSE Link(rs[n]), at |-> clock, nonce |-> Fresh(n), body |-> body,
                   c |-> Fresh(n), sig |-> [by |-> key, c |-> Fresh(n)], cols |-> NoColumns]
           s == Append(rs, Recol(row))
<1>1. s = Sealed(rs, key, type, body)
  BY DEF Sealed
<1>2. /\ row.form = "ok" /\ row.seq = n /\ row.type = type /\ row.key = key /\ row.at = clock /\ row.body = body
      /\ row.prev = IF n = 0 THEN Unit ELSE Link(rs[n])
      /\ row.nonce = Fresh(n) /\ row.c = Fresh(n) /\ row.sig = [by |-> key, c |-> Fresh(n)]
      /\ DOMAIN row = RowFields
  BY DEF RowFields
<1> HIDE DEF row, n
<1> DEFINE r == Recol(row)
<1>3. /\ r.form = row.form /\ r.seq = row.seq /\ r.type = row.type /\ r.key = row.key /\ r.at = row.at
      /\ r.body = row.body /\ r.prev = row.prev /\ r.nonce = row.nonce /\ r.c = row.c /\ r.sig = row.sig
      /\ r.cols = Columns(row) /\ DOMAIN r = RowFields
  BY <1>2 DEF Recol, RowFields
<1> HIDE DEF r
<1>4. r.cols = Columns(r)
  BY <1>3 DEF Columns
<1>5. s[n + 1] = r
  BY AppendSeq DEF n, r
<1>6. IsSeq(s) /\ n \in Nat /\ Len(s) = n + 1 /\ DOMAIN s = 1 .. n + 1 /\ DOMAIN rs = 1 .. n
      /\ \A i \in 1 .. n : s[i] = rs[i]
  BY AppendSeq DEF n
<1>7. SignedBy(r, key)
  BY <1>2, <1>3 DEF SignedBy
<1> HIDE DEF s
<1> QED BY <1>1, <1>2, <1>3, <1>4, <1>5, <1>6, <1>7 DEF n

LEMMA SealedLength ==
  ASSUME NEW rs, IsSeq(rs), NEW key, NEW type, NEW body
  PROVE  Len(Sealed(rs, key, type, body)) = Len(rs) + 1
BY SealedFields

\* What append_many makes of the rows: one record, and the checkpoint due.
LEMMA AfterIs ==
  ASSUME NEW type, NEW body
  PROVE  LET first == Sealed(rows, Active, type, body)
             store == AddLeaf(nodes, Len(first) - 1, LeafOf(first[Len(first)]))
             key   == IF type = "key_rotation" THEN body.new ELSE Active
             both  == Sealed(first, key, "checkpoint", [size |-> Len(first), root |-> StoreRoot(store, Len(first))]) IN
         /\ Due(type)  => After(type, body).rows = both
                          /\ After(type, body).nodes = AddLeaf(store, Len(both) - 1, LeafOf(both[Len(both)]))
         /\ ~Due(type) => After(type, body).rows = first /\ After(type, body).nodes = store
         /\ WithRecord(type, body).nodes = store
<1> DEFINE first == Sealed(rows, Active, type, body)
           store == AddLeaf(nodes, Len(first) - 1, LeafOf(first[Len(first)]))
           key   == IF type = "key_rotation" THEN body.new ELSE Active
           both  == Sealed(first, key, "checkpoint", [size |-> Len(first), root |-> StoreRoot(store, Len(first))])
           one   == Grown(first, nodes)
<1>1. one.rows = first /\ one.nodes = store
  BY DEF Grown
<1>2. Checkpointed(one, key).rows = both
      /\ Checkpointed(one, key).nodes = AddLeaf(store, Len(both) - 1, LeafOf(both[Len(both)]))
  <2> HIDE DEF one, first, store
  <2> QED BY <1>1 DEF Checkpointed, Grown
<1>3. After(type, body) = (IF Due(type) THEN Checkpointed(one, key) ELSE one) /\ WithRecord(type, body) = one
  BY DEF After, WithRecord
<1> HIDE DEF one, both, store, first, key
<1>4. Due(type)  => After(type, body).rows = both
                    /\ After(type, body).nodes = AddLeaf(store, Len(both) - 1, LeafOf(both[Len(both)]))
  BY <1>2, <1>3
<1>5. ~Due(type) => After(type, body).rows = first /\ After(type, body).nodes = store
  BY <1>1, <1>3
<1>6. WithRecord(type, body).nodes = store
  BY <1>1, <1>3
<1> QED BY <1>4, <1>5, <1>6 DEF both, store, first, key

-----------------------------------------------------------------------------
\* Type correctness, and anchors that stay: with power failures or without.

Shaped(rs) ==
  /\ IsSeq(rs)
  /\ \A i \in 1 .. Len(rs) : /\ rs[i].seq = i - 1 /\ rs[i].key \in LedgerKeys
                             /\ rs[i].type = "key_rotation" => rs[i].body.new \in LedgerKeys

Exporting ==
  /\ export.stage \in {"none", "prepared", "created", "written"}
  /\ export.stage # "none" => export.anchor.kind = "file"
  /\ export.stage = "created" => export.path \in DOMAIN files /\ files[export.path] = Partial

Shape ==
  /\ file \in {"absent", "created", "ledger"}
  /\ (file = "ledger") = (rows # <<>>)
  /\ Shaped(rows)
  /\ synced \in 0 .. Len(rows)
  /\ rows # <<>> => synced > 0
  /\ DOMAIN files \subseteq Paths
  /\ Exporting
  /\ events \in 0 .. MaxEvents

LEMMA ShapeIsType == Shape => TypeOK
<1> SUFFICES ASSUME Shape PROVE TypeOK
  OBVIOUS
<1>1. DOMAIN rows = 1 .. Len(rows)
  BY AppendSeq DEF Shape, Shaped
<1> QED BY <1>1 DEF Shape, Shaped, TypeOK, Exporting

LEMMA ActiveIsKey ==
  ASSUME NEW rs, Shaped(rs), NEW p \in Nat, p <= Len(rs), Len(rs) > 0
  PROVE  ActiveAt(rs, p) \in LedgerKeys
<1>1. Len(rs) \in Nat
  BY AppendSeq DEF Shaped
<1>2. CASE Rotations(rs, p) = {}
  <2>1. 1 \in 1 .. Len(rs)
    BY <1>1
  <2> QED BY <1>2, <2>1, ActiveIs DEF Shaped
<1>3. CASE Rotations(rs, p) # {}
  <2>1. PICK q \in Rotations(rs, p) : ActiveAt(rs, p) = rs[q + 1].body.new
    BY <1>3, ActiveIs
  <2>2. q + 1 \in 1 .. Len(rs) /\ rs[q + 1].type = "key_rotation"
    BY <1>1 DEF Rotations
  <2> QED BY <2>1, <2>2 DEF Shaped
<1> QED BY <1>2, <1>3

LEMMA RotationIsKey ==
  ASSUME Active \in LedgerKeys, Active # Keys[Len(Keys)], NEW n
  PROVE  RotationBody(n).new \in LedgerKeys
<1> DEFINE i == CHOOSE i \in DOMAIN Keys : Keys[i] = Active
<1>1. i \in DOMAIN Keys /\ Keys[i] = Active
  BY DEF LedgerKeys
<1>2. RotationBody(n).new = Keys[i + 1]
  BY DEF RotationBody
<1> HIDE DEF i
<1>3. DOMAIN Keys = 1 .. Len(Keys) /\ Len(Keys) \in Nat
  BY DeploymentAssumption
<1>4. i # Len(Keys)
  BY <1>1
<1>5. i + 1 \in DOMAIN Keys
  BY <1>1, <1>3, <1>4
<1> QED BY <1>2, <1>5 DEF LedgerKeys

LEMMA SealedShape ==
  ASSUME NEW rs, Shaped(rs), NEW key \in LedgerKeys, NEW type, NEW body,
         type = "key_rotation" => body.new \in LedgerKeys
  PROVE  Shaped(Sealed(rs, key, type, body))
<1> DEFINE s == Sealed(rs, key, type, body)
           n == Len(rs)
<1>1. /\ IsSeq(s) /\ n \in Nat /\ Len(s) = n + 1 /\ \A i \in 1 .. n : s[i] = rs[i]
      /\ s[n + 1].seq = n /\ s[n + 1].type = type /\ s[n + 1].key = key /\ s[n + 1].body = body
  BY SealedFields DEF Shaped
<1> HIDE DEF s, n
<1> QED BY <1>1 DEF Shaped, s, n

\* What an append leaves of the shape.
LEMMA AfterShape ==
  ASSUME Shaped(rows), Len(rows) > 0, NEW type, NEW body,
         type = "key_rotation" => body.new \in LedgerKeys
  PROVE  LET after == After(type, body).rows IN
         /\ Shaped(after) /\ Len(after) \in Nat /\ Len(rows) \in Nat /\ Len(after) > Len(rows)
         /\ \A i \in 1 .. Len(rows) : after[i] = rows[i]
<1> DEFINE first == Sealed(rows, Active, type, body)
           store == AddLeaf(nodes, Len(first) - 1, LeafOf(first[Len(first)]))
           key   == IF type = "key_rotation" THEN body.new ELSE Active
           what  == [size |-> Len(first), root |-> StoreRoot(store, Len(first))]
           both  == Sealed(first, key, "checkpoint", what)
<1>1. Len(rows) \in Nat
  BY AppendSeq DEF Shaped
<1>2. Active \in LedgerKeys
  <2>1. ActiveAt(rows, Len(rows)) \in LedgerKeys
    BY <1>1, ActiveIsKey
  <2> QED BY <2>1 DEF Active
<1>3. key \in LedgerKeys
  BY <1>2
<1>4. Shaped(first) /\ Len(first) = Len(rows) + 1 /\ \A i \in 1 .. Len(rows) : first[i] = rows[i]
  BY <1>2, SealedShape, SealedFields DEF Shaped
<1> HIDE DEF first, key, what
<1>5. Shaped(both) /\ Len(both) = Len(first) + 1 /\ \A i \in 1 .. Len(first) : both[i] = first[i]
  <2>1. "checkpoint" # "key_rotation"
    OBVIOUS
  <2>2. Shaped(both)
    BY <1>3, <1>4, <2>1, SealedShape
  <2>3. IsSeq(first)
    BY <1>4 DEF Shaped
  <2> QED BY <2>2, <2>3, SealedFields
<1>6. After(type, body).rows \in {first, both}
  BY AfterIs DEF first, key, what
<1> HIDE DEF both
<1> QED BY <1>1, <1>4, <1>5, <1>6

-----------------------------------------------------------------------------
\* The steps of the ledger's life keep its shape.

LEMMA InitShape == Init => Shape
<1> SUFFICES ASSUME Init PROVE Shape
  OBVIOUS
<1>1. IsSeq(rows) /\ Len(rows) = 0
  BY NoRowsSeq DEF Init
<1>2. Shaped(rows)
  BY <1>1 DEF Shaped
<1>3. DOMAIN files = {}
  BY DEF Init
<1>4. Exporting
  BY DEF Init, Exporting, Idle
<1>5. events \in 0 .. MaxEvents
  BY DeploymentAssumption DEF Init
<1> QED BY <1>1, <1>2, <1>3, <1>4, <1>5 DEF Init, Shape

\* An append of one record and what it makes due.
LEMMA AppendShape ==
  ASSUME Shape, NEW type, NEW body, NEW durably \in BOOLEAN,
         AppendTyped(type, body, durably), type = "key_rotation" => body.new \in LedgerKeys
  PROVE  /\ Shaped(rows') /\ rows' # <<>> /\ synced' \in 0 .. Len(rows') /\ synced' > 0
         /\ Len(rows) > 0 /\ Len(rows') > Len(rows) /\ \A i \in 1 .. Len(rows) : rows'[i] = rows[i]
<1> DEFINE after == After(type, body)
<1>1. /\ rows' = after.rows
      /\ synced' = IF durably \/ ~GroupCommit THEN Len(after.rows) ELSE synced
      /\ file = "ledger"
  BY DEF AppendTyped
<1>2. Shaped(rows) /\ rows # <<>> /\ synced \in 0 .. Len(rows) /\ synced > 0
  BY <1>1 DEF Shape
<1>3. Len(rows) > 0
  BY <1>2, OnlyEmpty DEF Shaped
<1>4. /\ Shaped(after.rows) /\ Len(after.rows) \in Nat /\ Len(rows) \in Nat /\ Len(after.rows) > Len(rows)
      /\ \A i \in 1 .. Len(rows) : after.rows[i] = rows[i]
  BY <1>2, <1>3, AfterShape
<1> HIDE DEF after
<1>5. rows' # <<>>
  BY <1>1, <1>3, <1>4, NoRowsSeq
<1>6. synced' \in 0 .. Len(after.rows) /\ synced' > 0
  BY <1>1, <1>2, <1>4
<1> QED BY <1>1, <1>3, <1>4, <1>5, <1>6

LEMMA GenesisShape ==
  ASSUME Shape, WriteGenesis
  PROVE  Shaped(rows') /\ rows' # <<>> /\ synced' \in 0 .. Len(rows') /\ synced' > 0
<1>1. PICK none : none = <<>>
  OBVIOUS
<1>2. Shaped(none) /\ Len(none) = 0 /\ IsSeq(none)
  BY <1>1, NoRowsSeq DEF Shaped
<1>3. Keys[1] \in LedgerKeys
  <2>1. 1 \in DOMAIN Keys
    BY DeploymentAssumption
  <2> QED BY <2>1 DEF LedgerKeys
<1> DEFINE s == Sealed(none, Keys[1], "genesis", Unit)
<1>4. Shaped(s)
  BY <1>2, <1>3, SealedShape
<1>5. Len(s) = 1
  <2>1. Len(s) = Len(none) + 1
    BY <1>2, SealedLength
  <2> QED BY <1>2, <2>1
<1>6. rows' = s /\ synced' = 1
  BY <1>1 DEF WriteGenesis
<1> HIDE DEF s
<1> QED BY <1>4, <1>5, <1>6, NoRowsSeq

LEMMA PrefixOf ==
  ASSUME NEW rs, IsSeq(rs), NEW n \in 0 .. Len(rs)
  PROVE  LET p == SubSeq(rs, 1, n) IN
         IsSeq(p) /\ Len(p) = n /\ \A i \in 1 .. n : p[i] = rs[i]
<1> DEFINE S == {rs[i] : i \in DOMAIN rs}
           p == SubSeq(rs, 1, n)
<1>1. rs \in Seq(S)
  BY DEF IsSeq
<1> HIDE DEF S
<1>2. p \in Seq(S) /\ Len(p) = n /\ \A i \in 1 .. n : p[i] = rs[i]
  BY <1>1
<1>3. IsSeq(p)
  BY <1>2, SeqOfItsOwn
<1> QED BY <1>2, <1>3

LEMMA PowerShape ==
  ASSUME Shape, PowerFails
  PROVE  Shaped(rows') /\ rows' # <<>> /\ synced' \in 0 .. Len(rows') /\ synced' > 0 /\ rows # <<>>
<1>1. Len(rows) \in Nat /\ IsSeq(rows) /\ synced \in 0 .. Len(rows) /\ synced < Len(rows)
  BY AppendSeq DEF Shape, Shaped, PowerFails
<1>2. rows # <<>>
  BY <1>1, NoRowsSeq
<1>3. synced > 0
  BY <1>2 DEF Shape
<1> DEFINE p == SubSeq(rows, 1, synced)
<1>4. IsSeq(p) /\ Len(p) = synced /\ \A i \in 1 .. synced : p[i] = rows[i]
  BY <1>1, PrefixOf
<1>5. rows' = p /\ synced' = synced
  BY DEF PowerFails
<1> HIDE DEF p
<1>6. Shaped(p)
  BY <1>1, <1>4 DEF Shape, Shaped
<1>7. p # <<>>
  BY <1>3, <1>4, NoRowsSeq
<1> QED BY <1>1, <1>2, <1>3, <1>4, <1>5, <1>6, <1>7

\* The files: a path is created for the export under way, and only it writes there.
FileSteps ==
  \/ UNCHANGED <<files, export>>
  \/ /\ UNCHANGED files /\ export' = Idle
  \/ /\ UNCHANGED files /\ export'.stage = "prepared" /\ export'.anchor.kind = "file"
  \/ \E p \in Paths : CreateAnchor(p)
  \/ WriteAnchor

LEMMA FilesShape ==
  ASSUME Exporting, DOMAIN files \subseteq Paths, FileSteps
  PROVE  /\ Exporting' /\ (DOMAIN files \subseteq Paths)'
         /\ \A p \in DOMAIN files : files[p] # Partial => p \in DOMAIN files' /\ files'[p] = files[p]
<1>1. CASE UNCHANGED <<files, export>>
  BY <1>1 DEF Exporting
<1>2. CASE UNCHANGED files /\ export' = Idle
  BY <1>2 DEF Exporting, Idle
<1>3. CASE UNCHANGED files /\ export'.stage = "prepared" /\ export'.anchor.kind = "file"
  BY <1>3 DEF Exporting
<1>4. CASE \E p \in Paths : CreateAnchor(p)
  <2>1. PICK p \in Paths : CreateAnchor(p)
    BY <1>4
  <2>2. /\ p \notin DOMAIN files /\ export.stage = "prepared"
        /\ export' = [stage |-> "created", anchor |-> export.anchor, path |-> p]
        /\ files' = [q \in DOMAIN files \cup {p} |-> IF q = p THEN Partial ELSE files[q]]
    BY <2>1 DEF CreateAnchor, CreateAnywhere
  <2>3. DOMAIN files' = DOMAIN files \cup {p} /\ files'[p] = Partial
        /\ \A q \in DOMAIN files : q # p => files'[q] = files[q]
    BY <2>2
  <2>4. export'.stage = "created" /\ export'.anchor = export.anchor /\ export'.path = p
    BY <2>2
  <2> QED BY <2>2, <2>3, <2>4 DEF Exporting
<1>5. CASE WriteAnchor
  <2>1. /\ export.stage = "created"
        /\ files' = [files EXCEPT ![export.path] = export.anchor]
        /\ export' = [stage |-> "written", anchor |-> export.anchor]
    BY <1>5 DEF WriteAnchor
  <2>2. DOMAIN files' = DOMAIN files /\ \A q \in DOMAIN files : q # export.path => files'[q] = files[q]
    BY <2>1
  <2>3. export'.stage = "written" /\ export'.anchor = export.anchor
    BY <2>1
  <2> QED BY <2>1, <2>2, <2>3 DEF Exporting
<1> QED BY <1>1, <1>2, <1>3, <1>4, <1>5 DEF FileSteps

\* The part of the shape that the rows make.
Rowed ==
  /\ file \in {"absent", "created", "ledger"}
  /\ (file = "ledger") = (rows # <<>>)
  /\ Shaped(rows)
  /\ synced \in 0 .. Len(rows)
  /\ rows # <<>> => synced > 0
  /\ events \in 0 .. MaxEvents

LEMMA ShapeParts == Shape <=> Rowed /\ Exporting /\ DOMAIN files \subseteq Paths
BY DEF Shape, Rowed

LEMMA EventBound ==
  ASSUME events \in 0 .. MaxEvents, Event
  PROVE  events' \in 0 .. MaxEvents
BY DeploymentAssumption DEF Event

LEMMA StillRowed ==
  ASSUME Shape, UNCHANGED <<rows, synced>>, file' \in {"absent", "created", "ledger"},
         (file' = "ledger") = (file = "ledger"), events' = events \/ Event
  PROVE  Rowed'
<1>1. events' \in 0 .. MaxEvents
  BY EventBound DEF Shape
<1> QED BY <1>1 DEF Shape, Rowed, Shaped

LEMMA AppendedRowed ==
  ASSUME Shape, NEW type, NEW body, NEW durably \in BOOLEAN,
         AppendTyped(type, body, durably), type = "key_rotation" => body.new \in LedgerKeys,
         file' = file, events' = events \/ Event
  PROVE  Rowed'
<1>1. Shaped(rows') /\ rows' # <<>> /\ synced' \in 0 .. Len(rows') /\ synced' > 0
  BY AppendShape
<1>2. events' \in 0 .. MaxEvents
  BY EventBound DEF Shape
<1>3. file' = "ledger"
  BY DEF AppendTyped
<1> QED BY <1>1, <1>2, <1>3 DEF Rowed, Shaped

LEMMA StepShape ==
  ASSUME Shape, Next \/ PowerFails
  PROVE  Rowed' /\ FileSteps
<1>1. CASE Create
  <2>1. UNCHANGED <<rows, synced, files, export, events>> /\ file = "absent" /\ file' = "created"
    BY <1>1 DEF Create
  <2> QED BY <2>1, StillRowed DEF FileSteps
<1>2. CASE WriteGenesis
  <2>1. Shaped(rows') /\ rows' # <<>> /\ synced' \in 0 .. Len(rows') /\ synced' > 0
    BY <1>2, GenesisShape
  <2>2. UNCHANGED <<files, export, events>> /\ file' = "ledger"
    BY <1>2 DEF WriteGenesis
  <2> QED BY <2>1, <2>2 DEF Shape, Rowed, FileSteps, Shaped
<1>3. CASE \E w \in Weights : Register(w)
  <2>1. PICK w \in Weights : Register(w)
    BY <1>3
  <2>2. /\ AppendTyped("model_registration", [model |-> Model(w)], TRUE)
        /\ file' = file /\ UNCHANGED <<files, export>> /\ (events' = events \/ Event)
    BY <2>1 DEF Register, Aside, NoEvent
  <2>3. "model_registration" # "key_rotation" /\ TRUE \in BOOLEAN
    OBVIOUS
  <2>4. Rowed'
    BY <2>2, <2>3, AppendedRowed
  <2> QED BY <2>2, <2>4 DEF FileSteps
<1>4. CASE Infer
  <2>1. PICK body : AppendTyped("inference", body, FALSE)
    BY <1>4 DEF Infer
  <2>2. file' = file /\ UNCHANGED <<files, export>> /\ events' = events
    BY <1>4 DEF Infer, Aside, NoEvent
  <2>3. "inference" # "key_rotation" /\ FALSE \in BOOLEAN
    OBVIOUS
  <2>4. Rowed'
    BY <2>1, <2>2, <2>3, AppendedRowed
  <2> QED BY <2>2, <2>4 DEF FileSteps
<1>5. CASE Mark
  <2>1. /\ AppendTyped("degraded_marker", <<>>, FALSE)
        /\ file' = file /\ UNCHANGED <<files, export>> /\ Event
    BY <1>5 DEF Mark, Aside
  <2>2. "degraded_marker" # "key_rotation" /\ FALSE \in BOOLEAN
    OBVIOUS
  <2>3. Rowed'
    BY <2>1, <2>2, AppendedRowed
  <2> QED BY <2>1, <2>3 DEF FileSteps
<1>6. CASE Rotate
  <2>1. /\ AppendTyped("key_rotation", RotationBody(Len(rows)), TRUE)
        /\ file = "ledger" /\ Active # Keys[Len(Keys)]
        /\ file' = file /\ UNCHANGED <<files, export>> /\ Event
    BY <1>6 DEF Rotate, Aside
  <2>2. Shaped(rows) /\ Len(rows) > 0 /\ Len(rows) \in Nat
    BY <2>1, OnlyEmpty, AppendSeq DEF Shape, Shaped
  <2>3. Active \in LedgerKeys
    <3>1. ActiveAt(rows, Len(rows)) \in LedgerKeys
      BY <2>2, ActiveIsKey
    <3> QED BY <3>1 DEF Active
  <2>4. RotationBody(Len(rows)).new \in LedgerKeys
    BY <2>1, <2>3, RotationIsKey
  <2>5. TRUE \in BOOLEAN
    OBVIOUS
  <2>6. Rowed'
    BY <2>1, <2>4, <2>5, AppendedRowed
  <2> QED BY <2>1, <2>6 DEF FileSteps
<1>7. CASE ClockBack
  <2>1. UNCHANGED <<file, rows, synced, files, export>> /\ Event
    BY <1>7 DEF ClockBack
  <2>2. Rowed'
    BY <2>1, StillRowed DEF Shape
  <2> QED BY <2>1, <2>2 DEF FileSteps
<1>8. CASE PrepareAnchor
  <2>1. file' = file /\ UNCHANGED files /\ Event
    BY <1>8 DEF PrepareAnchor, Aside
  <2>2. CASE Reusable
    <3>1. UNCHANGED <<rows, nodes, synced>> /\ export' = [stage |-> "prepared", anchor |-> BuildAnchor(rows[Latest])]
      BY <1>8, <2>2 DEF PrepareAnchor
    <3>2. export'.stage = "prepared" /\ export'.anchor.kind = "file"
      BY <3>1 DEF BuildAnchor
    <3>3. Rowed'
      BY <2>1, <3>1, StillRowed DEF Shape
    <3> QED BY <2>1, <3>2, <3>3 DEF FileSteps
  <2>3. CASE ~Reusable
    <3>1. PICK body : AppendTyped("checkpoint", body, TRUE)
      BY <1>8, <2>3 DEF PrepareAnchor
    <3>2. export' = [stage |-> "prepared", anchor |-> BuildAnchor(rows'[Len(rows')])]
      BY <1>8, <2>3 DEF PrepareAnchor
    <3>3. export'.stage = "prepared" /\ export'.anchor.kind = "file"
      BY <3>2 DEF BuildAnchor
    <3>4. "checkpoint" # "key_rotation" /\ TRUE \in BOOLEAN
      OBVIOUS
    <3>5. Rowed'
      BY <2>1, <3>1, <3>4, AppendedRowed
    <3> QED BY <2>1, <3>3, <3>5 DEF FileSteps
  <2> QED BY <2>2, <2>3
<1>9. CASE WriteAnchor
  <2>1. UNCHANGED <<file, rows, synced, events>>
    BY <1>9 DEF WriteAnchor
  <2>2. Rowed'
    BY <2>1, StillRowed DEF Shape
  <2> QED BY <1>9, <2>2 DEF FileSteps
<1>10. CASE RecordAnchor
  <2>1. PICK body : AppendTyped("anchor_event", body, TRUE)
    BY <1>10 DEF RecordAnchor
  <2>2. file' = file /\ UNCHANGED files /\ export' = Idle /\ events' = events
    BY <1>10 DEF RecordAnchor, NoEvent, Aside
  <2>3. "anchor_event" # "key_rotation" /\ TRUE \in BOOLEAN
    OBVIOUS
  <2>4. Rowed'
    BY <2>1, <2>2, <2>3, AppendedRowed
  <2> QED BY <2>2, <2>4 DEF FileSteps
<1>11. CASE \E p \in Paths : CreateAnchor(p)
  <2>1. UNCHANGED <<file, rows, synced, events>>
    BY <1>11 DEF CreateAnchor, CreateAnywhere
  <2>2. Rowed'
    BY <2>1, StillRowed DEF Shape
  <2> QED BY <1>11, <2>2 DEF FileSteps
<1>12. CASE (\E p \in Paths : RefuseAnchor(p)) \/ Crash
  <2>1. UNCHANGED <<file, rows, synced, files, events>> /\ export' = Idle
    BY <1>12 DEF RefuseAnchor, Crash
  <2>2. Rowed'
    BY <2>1, StillRowed DEF Shape
  <2> QED BY <2>1, <2>2 DEF FileSteps
<1>13. CASE RebuildRead \/ RebuildWrite
  <2>1. UNCHANGED <<file, rows, synced, files, export>> /\ (events' = events \/ Event)
    BY <1>13 DEF RebuildRead, RebuildWrite
  <2>2. Rowed'
    BY <2>1, StillRowed DEF Shape
  <2> QED BY <2>1, <2>2 DEF FileSteps
<1>14. CASE \E k \in Positions : Examine(k) \/ ExamineRecompute(k)
  <2>1. UNCHANGED <<file, rows, synced, files, export, events>>
    BY <1>14 DEF Examine, ExamineRecompute
  <2>2. Rowed'
    BY <2>1, StillRowed DEF Shape
  <2> QED BY <2>1, <2>2 DEF FileSteps
<1>15. CASE PowerFails
  <2>1. Shaped(rows') /\ rows' # <<>> /\ synced' \in 0 .. Len(rows') /\ synced' > 0 /\ rows # <<>>
    BY <1>15, PowerShape
  <2>2. UNCHANGED <<file, files>> /\ export' = Idle /\ Event
    BY <1>15 DEF PowerFails
  <2>3. events' \in 0 .. MaxEvents
    BY <2>2, EventBound DEF Shape
  <2> QED BY <2>1, <2>2, <2>3 DEF Shape, Rowed, FileSteps, Shaped
<1>16. Next <=> \/ Create \/ WriteGenesis
                \/ \E w \in Weights : Register(w)
                \/ Infer \/ Mark \/ Rotate \/ ClockBack
                \/ PrepareAnchor \/ WriteAnchor \/ RecordAnchor
                \/ \E p \in Paths : CreateAnchor(p) \/ RefuseAnchor(p)
                \/ RebuildRead \/ RebuildWrite \/ Crash
                \/ \E k \in Positions : Examine(k) \/ ExamineRecompute(k)
  BY DEF Next
<1>17. (\E p \in Paths : CreateAnchor(p) \/ RefuseAnchor(p))
         <=> (\E p \in Paths : CreateAnchor(p)) \/ (\E p \in Paths : RefuseAnchor(p))
  OBVIOUS
<1> QED BY <1>1, <1>2, <1>3, <1>4, <1>5, <1>6, <1>7, <1>8, <1>9, <1>10, <1>11, <1>12, <1>13, <1>14,
           <1>15, <1>16, <1>17

LEMMA EveryShape ==
  ASSUME Shape, [Next \/ PowerFails]_vars
  PROVE  /\ Shape'
         /\ \A p \in DOMAIN files : files[p] # Partial => p \in DOMAIN files' /\ files'[p] = files[p]
<1>1. CASE Next \/ PowerFails
  <2>1. Rowed' /\ FileSteps
    BY <1>1, StepShape
  <2>2. Exporting' /\ (DOMAIN files \subseteq Paths)'
        /\ \A p \in DOMAIN files : files[p] # Partial => p \in DOMAIN files' /\ files'[p] = files[p]
    BY <2>1, FilesShape DEF Shape
  <2> QED BY <2>1, <2>2 DEF Shape, Rowed
<1>2. CASE UNCHANGED vars
  <2>1. UNCHANGED <<file, rows, synced, files, export, events>>
    BY <1>2 DEF vars
  <2> QED BY <2>1 DEF Shape, Shaped, Exporting
<1> QED BY <1>1, <1>2

\* Shape holds of every ledger, power failures and group commit included.
THEOREM PowerShapely == PowerSpec => []Shape
<1>1. Init => Shape
  BY InitShape
<1>2. Shape /\ [Next \/ PowerFails]_vars => Shape'
  BY EveryShape
<1> QED BY <1>1, <1>2, PTL DEF PowerSpec

\* What happens without power failures happens with them, to nobody's surprise.
LEMMA LessPower == Spec => PowerSpec
<1>1. [Next]_vars => [Next \/ PowerFails]_vars
  OBVIOUS
<1> QED BY <1>1, PTL DEF Spec, PowerSpec

\* In every life of a ledger, power failures and group commit included, its
\* records are numbered by their places and signed by keys of the deployment,
\* what a power failure leaves is a prefix, and a file written by an export
\* is one of the paths given (store.py, chain.py, anchor.py).
THEOREM DeploymentTypes == PowerSpec => []TypeOK
BY PowerShapely, ShapeIsType, PTL

\* And so in a life without power failures.
THEOREM LedgerTypes == Spec => []TypeOK
BY LessPower, DeploymentTypes, PTL

\* No step of the ledger's life, not even a power failure or a second export
\* to the same path, changes an anchor that was written (anchor.py write_anchor).
THEOREM WrittenAnchorsStay == PowerSpec => AnchorsStay
<1>1. Shape /\ [Next \/ PowerFails]_vars
        => [\A p \in DOMAIN files : files[p] # Partial => p \in DOMAIN files' /\ files'[p] = files[p]]_vars
  BY EveryShape
<1> QED BY <1>1, PowerShapely, PTL DEF PowerSpec, AnchorsStay

-----------------------------------------------------------------------------
\* A ledger nobody changed is quiet.

\* A ledger nobody changed, row by row.

\* Row j is the last registration among the first n.
LastAt(rs, n, j) ==
  /\ j \in 1 .. n /\ rs[j].type = "model_registration"
  /\ \A k \in j + 1 .. n : rs[k].type # "model_registration"

\* What a record that follows n others may say.
Fits(rs, n, type, key, body) ==
  /\ (type = "genesis") = (n = 0)
  /\ type = "checkpoint" => body = [size |-> n, root |-> RangeOf(Leaves(rs), 0, n)]
  /\ type = "anchor_event" =>
       \E j \in 1 .. n : /\ rs[j].type = "checkpoint" /\ body.cpSeq = j - 1
                         /\ body.size = rs[j].body.size /\ body.root = rs[j].body.root
  /\ type = "key_rotation" => body.pop = RotationProof(body.new, n + 1, key)
  /\ type = "model_registration" => body.model.id = ModelId
  /\ type = "inference" =>
       /\ \E j \in 1 .. n : LastAt(rs, n, j) /\ body.model = rs[j].body.model
       /\ body.output.ref = body.output.decision /\ body.output.raw = body.output.decision

Placed(rs, n) ==
  LET row == rs[n + 1] IN
  /\ DOMAIN row = RowFields
  /\ row.form = "ok" /\ row.seq = n /\ row.nonce = n /\ row.c \in Int /\ row.at \in Nat
  /\ row.cols \in {NoColumns, Columns(row)}
  /\ row.prev = IF n = 0 THEN Unit ELSE Link(rs[n])
  /\ row.key = IF n = 0 THEN Keys[1] ELSE ActiveAt(rs, n)
  /\ SignedBy(row, row.key)
  /\ Fits(rs, n, row.type, row.key, row.body)

Honest(rs) == IsSeq(rs) /\ \A n \in 0 .. Len(rs) - 1 : Placed(rs, n)

LEMMA LeavesAre ==
  ASSUME NEW rs, IsSeq(rs)
  PROVE  /\ IsSeq(Leaves(rs)) /\ Len(Leaves(rs)) = Len(rs) /\ DOMAIN Leaves(rs) = 1 .. Len(rs)
         /\ \A i \in 1 .. Len(rs) : Leaves(rs)[i] = LeafOf(rs[i])
<1>1. Len(rs) \in Nat /\ DOMAIN rs = 1 .. Len(rs)
  BY AppendSeq
<1> DEFINE S == {LeafOf(rs[i]) : i \in DOMAIN rs}
           f == [i \in DOMAIN rs |-> LeafOf(rs[i])]
<1>2. f \in [DOMAIN rs -> S]
  OBVIOUS
<1>3. f \in Seq(S) /\ Len(f) = Len(rs)
  <2> HIDE DEF S, f
  <2> QED BY <1>1, <1>2
<1>4. IsSeq(f)
  <2> HIDE DEF S, f
  <2> QED BY <1>3, SeqOfItsOwn
<1>5. \A i \in 1 .. Len(rs) : f[i] = LeafOf(rs[i])
  BY <1>1
<1>6. DOMAIN f = 1 .. Len(rs)
  BY <1>1
<1>7. f = Leaves(rs)
  BY DEF Leaves
<1> HIDE DEF f
<1> QED BY <1>3, <1>4, <1>5, <1>6, <1>7

\* What depends on the first n rows alone.
Agree(rs, ts, n) == \A i \in 1 .. n : rs[i] = ts[i]

LEMMA SameRange ==
  ASSUME NEW rs, NEW ts, IsSeq(rs), IsSeq(ts), NEW n \in Nat, n <= Len(rs), n <= Len(ts), Agree(rs, ts, n)
  PROVE  \A size \in 1 .. n : \A from \in 0 .. n - size :
           RangeOf(Leaves(rs), from, size) = RangeOf(Leaves(ts), from, size)
<1>1. Len(rs) \in Nat /\ Len(ts) \in Nat
  BY AppendSeq
<1>2. \A i \in 1 .. n : Leaves(rs)[i] = Leaves(ts)[i]
  <2> SUFFICES ASSUME NEW i \in 1 .. n PROVE Leaves(rs)[i] = Leaves(ts)[i]
    OBVIOUS
  <2>1. i \in 1 .. Len(rs) /\ i \in 1 .. Len(ts)
    BY <1>1
  <2>2. rs[i] = ts[i]
    BY DEF Agree
  <2> QED BY <2>1, <2>2, LeavesAre
<1> QED BY <1>2, RangePrefix

LEMMA FitsStays ==
  ASSUME NEW rs, NEW ts, IsSeq(rs), IsSeq(ts), NEW n \in Nat, n <= Len(rs), n <= Len(ts), Agree(rs, ts, n),
         NEW type, NEW key, NEW body, Fits(rs, n, type, key, body)
  PROVE  Fits(ts, n, type, key, body)
<1>1. type = "checkpoint" => body = [size |-> n, root |-> RangeOf(Leaves(ts), 0, n)]
  <2> SUFFICES ASSUME type = "checkpoint" PROVE body = [size |-> n, root |-> RangeOf(Leaves(ts), 0, n)]
    OBVIOUS
  <2>1. n # 0
    BY DEF Fits
  <2>2. n \in 1 .. n /\ 0 \in 0 .. n - n
    BY <2>1
  <2>3. RangeOf(Leaves(rs), 0, n) = RangeOf(Leaves(ts), 0, n)
    BY <2>2, SameRange
  <2> QED BY <2>3 DEF Fits
<1>2. type = "anchor_event" =>
       \E j \in 1 .. n : /\ ts[j].type = "checkpoint" /\ body.cpSeq = j - 1
                         /\ body.size = ts[j].body.size /\ body.root = ts[j].body.root
  BY DEF Fits, Agree
<1>3. \A j : LastAt(rs, n, j) => LastAt(ts, n, j)
  BY DEF LastAt, Agree
<1>4. type = "inference" => \E j \in 1 .. n : LastAt(ts, n, j) /\ body.model = ts[j].body.model
  BY <1>3 DEF Fits, Agree
<1> QED BY <1>1, <1>2, <1>4 DEF Fits

LEMMA PlacedStays ==
  ASSUME NEW rs, NEW ts, IsSeq(rs), IsSeq(ts), NEW n \in Nat, n < Len(rs), n < Len(ts), Agree(rs, ts, n + 1),
         Placed(rs, n)
  PROVE  Placed(ts, n)
<1>1. Len(rs) \in Nat /\ Len(ts) \in Nat
  BY AppendSeq
<1>2. rs[n + 1] = ts[n + 1] /\ Agree(rs, ts, n) /\ rs[1] = ts[1] /\ (n # 0 => rs[n] = ts[n])
  BY DEF Agree
<1>3. ActiveAt(rs, n) = ActiveAt(ts, n)
  <2>1. \A i \in 1 .. n : rs[i] = ts[i]
    BY <1>2 DEF Agree
  <2> QED BY <1>2, <2>1, ActiveStays
<1> DEFINE row == rs[n + 1]
<1>4. Fits(ts, n, row.type, row.key, row.body)
  <2>1. Fits(rs, n, row.type, row.key, row.body)
    BY DEF Placed
  <2> HIDE DEF row
  <2> QED BY <1>1, <1>2, <2>1, FitsStays
<1> QED BY <1>2, <1>3, <1>4 DEF Placed

\* Sealing what fits keeps a ledger honest.
LEMMA HonestGrows ==
  ASSUME NEW rs, Honest(rs), boot = 0, clock \in Nat, NEW type, NEW key, NEW body,
         key = (IF Len(rs) = 0 THEN Keys[1] ELSE ActiveAt(rs, Len(rs))),
         Fits(rs, Len(rs), type, key, body)
  PROVE  LET s == Sealed(rs, key, type, body) IN
         Honest(s) /\ Len(s) = Len(rs) + 1 /\ Len(rs) \in Nat /\ Agree(rs, s, Len(rs))
<1> DEFINE s == Sealed(rs, key, type, body)
           n == Len(rs)
           r == s[n + 1]
<1>1. IsSeq(rs)
  BY DEF Honest
<1>2. /\ IsSeq(s) /\ n \in Nat /\ Len(s) = n + 1
      /\ \A i \in 1 .. n : s[i] = rs[i]
      /\ r.form = "ok" /\ r.seq = n /\ r.type = type /\ r.key = key /\ r.body = body
      /\ r.prev = IF n = 0 THEN Unit ELSE Link(rs[n])
      /\ r.nonce = Fresh(n) /\ r.c = Fresh(n) /\ SignedBy(r, key)
      /\ r.cols = Columns(r) /\ DOMAIN r = RowFields /\ r.at = clock
  BY <1>1, SealedFields
<1>3. Fresh(n) = n
  BY <1>2, DeploymentAssumption DEF Fresh
<1> HIDE DEF s
<1>4. Agree(rs, s, n)
  BY <1>2 DEF Agree
<1>5. Placed(s, n)
  <2>1. Fits(s, n, type, key, body)
    <3>1. n <= Len(rs) /\ n <= Len(s)
      BY <1>2
    <3> QED BY <1>1, <1>2, <1>4, <3>1, FitsStays
  <2>2. n # 0 => ActiveAt(s, n) = ActiveAt(rs, n)
    <3> SUFFICES ASSUME n # 0 PROVE ActiveAt(s, n) = ActiveAt(rs, n)
      OBVIOUS
    <3>1. rs[1] = s[1] /\ \A i \in 1 .. n : rs[i] = s[i]
      BY <1>2
    <3> HIDE DEF n
    <3> QED BY <1>2, <3>1, ActiveStays
  <2>3. n # 0 => s[n] = rs[n]
    BY <1>2
  <2> HIDE DEF n
  <2> QED BY <1>2, <1>3, <2>1, <2>2, <2>3 DEF Placed, n
<1>6. ASSUME NEW i \in 0 .. Len(s) - 1 PROVE Placed(s, i)
  <2>1. CASE i = n
    BY <1>5, <2>1
  <2>2. CASE i # n
    <3>1. i \in 0 .. Len(rs) - 1 /\ i \in Nat /\ i < Len(rs) /\ i < Len(s)
      BY <1>2, <2>2
    <3>2. Agree(rs, s, i + 1)
      BY <1>2, <3>1 DEF Agree
    <3> QED BY <1>1, <1>2, <3>1, <3>2, PlacedStays DEF Honest
  <2> QED BY <2>1, <2>2
<1>7. Honest(s) /\ Len(s) = Len(rs) + 1 /\ Len(rs) \in Nat /\ Agree(rs, s, Len(rs))
  BY <1>2, <1>4, <1>6 DEF Honest
<1> QED BY <1>7 DEF s

-----------------------------------------------------------------------------
\* The cache of an honest ledger, and an append with it.

\* What is there of the cache of n rows is right.
Partly(store, hs, n) == DOMAIN store \subseteq TreeNodes(n) /\ Holds(store, hs)

LEMMA SameStore ==
  ASSUME NEW rs, NEW ts, IsSeq(rs), IsSeq(ts), NEW n \in Nat, n <= Len(rs), n <= Len(ts), Agree(rs, ts, n),
         NEW store, Partly(store, Leaves(rs), n)
  PROVE  Partly(store, Leaves(ts), n)
<1> SUFFICES ASSUME NEW at \in TreeNodes(n)
             PROVE  RangeOf(Leaves(rs), at[2] * Pow2[at[1]], Pow2[at[1]])
                      = RangeOf(Leaves(ts), at[2] * Pow2[at[1]], Pow2[at[1]])
  BY DEF Partly, Holds
<1> DEFINE l == at[1]
           i == at[2]
           p == Pow2[l]
<1>1. l \in Nat /\ i \in Nat /\ i < Shr(n, l)
  BY DEF TreeNodes
<1>2. p \in Nat /\ p > 0
  BY <1>1, Pow2Positive
<1>3. Shr(n, l) \in Nat /\ Shr(n, l) * p <= n
  BY <1>1, ShrRange
<1>4. p \in 1 .. n /\ i * p \in 0 .. n - p
  <2> HIDE DEF p, i
  <2>1. i + 1 <= Shr(n, l) /\ i * p \in Nat /\ (i + 1) * p = i * p + p
    BY <1>1, <1>2, <1>3
  <2>2. (i + 1) * p <= Shr(n, l) * p
    BY <1>1, <1>2, <1>3, <2>1
  <2>3. Shr(n, l) * p \in Nat /\ (i + 1) * p \in Nat
    BY <1>1, <1>2, <1>3
  <2> QED BY <1>2, <1>3, <2>1, <2>2, <2>3
<1> HIDE DEF p, i, l
<1>5. RangeOf(Leaves(rs), i * p, p) = RangeOf(Leaves(ts), i * p, p)
  BY <1>4, SameRange
<1> QED BY <1>5 DEF p, i, l

LEMMA PartlyGrows ==
  ASSUME NEW store, NEW hs, NEW n \in Nat, NEW leaf,
         Partly(store, hs, n), CanAdd(store, n), leaf = hs[n + 1]
  PROVE  Partly(AddLeaf(store, n, leaf), hs, n + 1)
<1>1. Holds(AddLeaf(store, n, leaf), hs)
      /\ DOMAIN AddLeaf(store, n, leaf) = DOMAIN store \cup Completed(n)
  BY AddLeafHolds DEF Partly
<1>2. TreeNodes(n + 1) = TreeNodes(n) \cup Completed(n)
  BY TreeGrows DEF Completed
<1> QED BY <1>1, <1>2 DEF Partly

\* What the next leaf needs, the root needs too.
LEMMA RootAdds ==
  ASSUME NEW store, NEW n \in Nat, HasRoot(store, n)
  PROVE  CanAdd(store, n)
<1>1. ASSUME NEW k \in 0 .. n, Completes(n, k + 1) PROVE Shr(n, k) % 2 = 1
  BY <1>1 DEF Completes
<1>2. Siblings(n) \subseteq Peaks(n)
  BY <1>1 DEF Siblings, Peaks
<1> QED BY <1>2 DEF HasRoot, CanAdd

\* An honest ledger and its cache.
Backed(rs, store) == Honest(rs) /\ Partly(store, Leaves(rs), Len(rs))

LEMMA BackedGrows ==
  ASSUME NEW rs, NEW store, Backed(rs, store), CanAdd(store, Len(rs)), boot = 0, clock \in Nat,
         NEW type, NEW key, NEW body,
         key = (IF Len(rs) = 0 THEN Keys[1] ELSE ActiveAt(rs, Len(rs))),
         Fits(rs, Len(rs), type, key, body)
  PROVE  LET s == Sealed(rs, key, type, body) IN
         /\ Backed(s, AddLeaf(store, Len(s) - 1, LeafOf(s[Len(s)])))
         /\ Len(s) = Len(rs) + 1 /\ Len(rs) \in Nat /\ Agree(rs, s, Len(rs))
<1> DEFINE s == Sealed(rs, key, type, body)
           n == Len(rs)
<1>1. Honest(s) /\ Len(s) = n + 1 /\ n \in Nat /\ Agree(rs, s, n)
  BY HonestGrows DEF Backed
<1> HIDE DEF s
<1>2. IsSeq(rs) /\ IsSeq(s)
  BY <1>1 DEF Backed, Honest
<1>3. Partly(store, Leaves(s), n)
  <2>1. n <= Len(rs) /\ n <= Len(s) /\ Partly(store, Leaves(rs), n)
    BY <1>1 DEF Backed
  <2> HIDE DEF n
  <2> QED BY <1>1, <1>2, <2>1, SameStore
<1>4. LeafOf(s[n + 1]) = Leaves(s)[n + 1]
  <2>1. n + 1 \in 1 .. Len(s)
    BY <1>1
  <2> QED BY <1>2, <2>1, LeavesAre
<1>5. Partly(AddLeaf(store, n, LeafOf(s[n + 1])), Leaves(s), n + 1)
  <2>1. CanAdd(store, n)
    OBVIOUS
  <2> HIDE DEF n
  <2> QED BY <1>1, <1>3, <1>4, <2>1, PartlyGrows
<1>6. Len(s) - 1 = n
  BY <1>1
<1>7. Backed(s, AddLeaf(store, Len(s) - 1, LeafOf(s[Len(s)])))
  <2> HIDE DEF n
  <2> QED BY <1>1, <1>5, <1>6 DEF Backed
<1> QED BY <1>1, <1>7 DEF s

\* append_many: the record and the checkpoint due.
LEMMA BackedAppends ==
  ASSUME Backed(rows, nodes), Len(rows) > 0, boot = 0, clock \in Nat, NEW type, NEW body,
         Appendable(type, body), Fits(rows, Len(rows), type, Active, body)
  PROVE  LET after == After(type, body) IN
         /\ Backed(after.rows, after.nodes) /\ Len(after.rows) > Len(rows) /\ Len(rows) \in Nat
         /\ Agree(rows, after.rows, Len(rows))
         /\ after.rows[Len(rows) + 1].type = type /\ after.rows[Len(rows) + 1].body = body
<1> DEFINE first == Sealed(rows, Active, type, body)
           store == AddLeaf(nodes, Len(first) - 1, LeafOf(first[Len(first)]))
           key   == IF type = "key_rotation" THEN body.new ELSE Active
           what  == [size |-> Len(first), root |-> StoreRoot(store, Len(first))]
           both  == Sealed(first, key, "checkpoint", what)
           grown == AddLeaf(store, Len(both) - 1, LeafOf(both[Len(both)]))
           n     == Len(rows)
           after == After(type, body)
<1>1. IsSeq(rows) /\ n \in Nat
  BY AppendSeq DEF Backed, Honest
<1>2. Active = IF n = 0 THEN Keys[1] ELSE ActiveAt(rows, n)
  BY <1>1 DEF Active
<1>3. Backed(first, store) /\ Len(first) = n + 1 /\ Agree(rows, first, n)
  <2>1. CanAdd(nodes, n)
    BY DEF Appendable
  <2> HIDE DEF n
  <2> QED BY <1>2, <2>1, BackedGrows DEF n
<1>4. first[n + 1].type = type /\ first[n + 1].body = body
  BY <1>1, SealedFields
<1>5. key = ActiveAt(first, n + 1)
  <2>1. ActiveAt(first, n + 1) = IF n > 0 /\ first[n + 1].type = "key_rotation" THEN first[n + 1].body.new
                                 ELSE ActiveAt(first, n)
    <3> HIDE DEF first, n
    <3> QED BY <1>1, ActiveNext
  <2>2. ActiveAt(first, n) = Active
    <3>1. rows[1] = first[1] /\ \A i \in 1 .. n : rows[i] = first[i]
      <4> HIDE DEF first
      <4>1. 1 \in 1 .. n
        BY <1>1
      <4> QED BY <1>3, <4>1 DEF Agree
    <3> HIDE DEF first, n
    <3>2. ActiveAt(rows, n) = ActiveAt(first, n)
      BY <1>1, <3>1, ActiveStays
    <3> QED BY <3>2 DEF Active, n
  <2> HIDE DEF first
  <2> QED BY <1>4, <2>1, <2>2
<1>6. /\ Due(type)  => after.rows = both /\ after.nodes = grown
      /\ ~Due(type) => after.rows = first /\ after.nodes = store
      /\ WithRecord(type, body).nodes = store
  BY AfterIs
<1> HIDE DEF after, first, store, key
<1>7. CASE Due(type)
  <2>1. HasRoot(store, n + 1) /\ CanAdd(store, n + 1)
    <3>1. HasRoot(store, n + 1)
      BY <1>6, <1>7 DEF Appendable
    <3>2. n + 1 \in Nat
      BY <1>1
    <3> HIDE DEF n
    <3> QED BY <3>1, <3>2, RootAdds
  <2>2. Fits(first, n + 1, "checkpoint", key, what)
    <3>1. StoreRoot(store, n + 1) = RangeOf(Leaves(first), 0, n + 1)
      <4>1. n + 1 \in Nat /\ n + 1 # 0 /\ Holds(store, Leaves(first))
        BY <1>1, <1>3 DEF Backed, Partly
      <4> HIDE DEF n
      <4> QED BY <2>1, <4>1, PeaksAnswer
    <3>2. what = [size |-> n + 1, root |-> RangeOf(Leaves(first), 0, n + 1)]
      BY <1>3, <3>1
    <3>3. n + 1 # 0
      BY <1>1
    <3> HIDE DEF what, n
    <3> QED BY <3>2, <3>3 DEF Fits
  <2> DEFINE cp == "checkpoint"
             made == Sealed(first, key, cp, what)
  <2>3. key = IF Len(first) = 0 THEN Keys[1] ELSE ActiveAt(first, Len(first))
    BY <1>1, <1>3, <1>5
  <2>4. Fits(first, Len(first), cp, key, what) /\ CanAdd(store, Len(first))
    BY <1>3, <2>1, <2>2
  <2> HIDE DEF cp, what
  <2>5. Backed(made, AddLeaf(store, Len(made) - 1, LeafOf(made[Len(made)])))
        /\ Len(made) = Len(first) + 1 /\ Agree(first, made, Len(first))
    <3>1. Backed(first, store)
      BY <1>3
    <3> QED BY <2>3, <2>4, <3>1, BackedGrows
  <2>6. made = both
    BY DEF cp
  <2> HIDE DEF made, both, n
  <2>7. Len(first) + 1 = n + 2 /\ Len(first) = n + 1 /\ n \in Nat
    BY <1>1, <1>3
  <2>8. Backed(both, grown) /\ Len(both) = n + 2 /\ Agree(first, both, n + 1)
    BY <2>5, <2>6, <2>7
  <2>9. Agree(rows, both, n) /\ both[n + 1] = first[n + 1]
    BY <1>3, <2>7, <2>8 DEF Agree
  <2> HIDE DEF grown
  <2>10. after.rows = both /\ after.nodes = grown
    BY <1>6, <1>7
  <2>11. Len(both) > n
    BY <2>7, <2>8
  <2> QED BY <1>4, <2>7, <2>8, <2>9, <2>10, <2>11 DEF after, n
<1>8. CASE ~Due(type)
  <2>1. after.rows = first /\ after.nodes = store
    BY <1>6, <1>8
  <2> QED BY <1>1, <1>3, <1>4, <2>1 DEF after
<1> QED BY <1>7, <1>8

-----------------------------------------------------------------------------
\* The walk over an honest ledger: what the verifier knows after n rows.

\* Findings that accuse nobody.
Mildly == {<<"model_swap", "info">>, <<"clock_regression", "info">>, <<"degraded_gap", "low">>}

Milds  == {[class |-> c[1], position |-> p, severity |-> c[2], folded |-> 0] : c \in Mildly, p \in Nat}

Trusted(key, v) == key = Keys[1] \/ key \in v.rotatedIn

\* What holds before a row's own rules as well as after them.
Kept(v, rs, n) ==
  /\ DOMAIN v = Fields
  /\ v.findings \in Seq(Milds)
  /\ v.last = 0 /\ v.taint = 0 /\ v.shift = 0 /\ v.rejected = <<>>
  /\ \A key : Trusted(key, v) => key \in v.keys
  /\ \A j \in 1 .. n : Trusted(rs[j].key, v)
  /\ \A j \in 1 .. n : rs[j].type = "checkpoint" =>
                         j - 1 \in DOMAIN v.checkpoints /\ v.checkpoints[j - 1] = rs[j].body
  /\ \A j : LastAt(rs, n, j) => ModelId \in DOMAIN v.registrations /\ v.registrations[ModelId] = rs[j].body.model

Known(v, rs, n) ==
  /\ Kept(v, rs, n)
  /\ v.nonces \subseteq 0 .. n - 1
  /\ v.active = IF n = 0 THEN None ELSE ActiveAt(rs, n)
  /\ n # 0 => Trusted(v.active, v)

Walked(v, rs, n) ==
  /\ Known(v, rs, n)
  /\ n # 0 => v.prevLink = Link(rs[n])
  /\ IsStack(v.stack, Leaves(rs), n)

\* The state in which the type rules of row n + 1 meet the verifier.
Held(w, rs, n) ==
  /\ Kept(w, rs, n)
  /\ w.nonces \subseteq 0 .. n /\ w.sigOk = TRUE
  /\ w.active = rs[n + 1].key /\ Trusted(w.active, w)
  /\ IsStack(w.stack, Leaves(rs), n)

\* A row's rules left everything in place but what they name.
Unmoved(x, w, S) == DOMAIN x = Fields /\ \A f \in Fields \ S : x[f] = w[f]

LEMMA StartWalked ==
  ASSUME NEW rs, NEW given, given.trust = Trust
  PROVE  Walked(Start(given), rs, 0)
<1> DEFINE v == Start(given)
<1>1. /\ DOMAIN v = Fields /\ v.findings = <<>> /\ v.last = 0 /\ v.taint = 0 /\ v.shift = 0
      /\ v.rejected = <<>> /\ v.keys = TrustedKeys(Trust) /\ v.rotatedIn = {} /\ v.nonces = {}
      /\ v.active = None /\ v.stack = <<>>
  BY DEF Start, Fields
<1> HIDE DEF v
<1>2. Keys[1] \in v.keys
  BY <1>1 DEF TrustedKeys, Trust
<1>3. \A j : ~ LastAt(rs, 0, j)
  BY DEF LastAt
<1>4. v.findings \in Seq(Milds)
  BY <1>1
<1>5. Kept(v, rs, 0)
  BY <1>1, <1>2, <1>3, <1>4 DEF Kept, Trusted
<1>6. IsStack(v.stack, Leaves(rs), 0)
  BY <1>1, EmptyStack
<1>7. Known(v, rs, 0)
  BY <1>1, <1>5 DEF Known
<1>8. Walked(v, rs, 0)
  BY <1>6, <1>7 DEF Walked
<1> QED BY <1>8 DEF v

\* A note that accuses nobody changes nothing else.
LEMMA NoteMild ==
  ASSUME NEW v, DOMAIN v = Fields, v.findings \in Seq(Milds), NEW class, NEW p \in Nat, NEW severity,
         <<class, severity>> \in Mildly
  PROVE  LET w == Note(v, class, p, severity) IN
         /\ DOMAIN w = Fields /\ w.findings \in Seq(Milds)
         /\ \A f \in Fields \ {"findings"} : w[f] = v[f]
<1> DEFINE x == Finding(class, p, severity)
           w == [v EXCEPT !.findings = Append(@, x)]
<1>1. x \in Milds
  <2>1. x = [class |-> class, position |-> p, severity |-> severity, folded |-> 0]
    BY DEF Finding
  <2> DEFINE c == <<class, severity>>
  <2>2. c \in Mildly /\ c[1] = class /\ c[2] = severity
    OBVIOUS
  <2> HIDE DEF c
  <2> QED BY <2>1, <2>2 DEF Milds
<1> HIDE DEF x
<1>2. w = Note(v, class, p, severity)
  BY DEF Note, x
<1>3. "findings" \in Fields
  BY DEF Fields
<1>4. DOMAIN w = Fields /\ w.findings = Append(v.findings, x) /\ \A f \in Fields \ {"findings"} : w[f] = v[f]
  BY <1>3
<1>5. Append(v.findings, x) \in Seq(Milds)
  BY <1>1
<1> HIDE DEF w
<1> QED BY <1>2, <1>4, <1>5

\* 2 to 6: an honest row passes, and the verifier knows that its key signed it.
LEMMA PlacedPasses ==
  ASSUME NEW rs, Honest(rs), NEW n \in Nat, n < Len(rs), NEW v, Walked(v, rs, n),
         v.sigOk = FALSE, v.copy = FALSE
  PROVE  LET w == CheckLink(CheckKey(CheckFirst(CheckSeq(CheckColumns(v, rs, n), rs, n), rs, n), rs, n, Trust),
                            rs, n, Trust) IN
         Unmoved(w, v, {"sigOk", "active"}) /\ w.sigOk = TRUE /\ w.active = rs[n + 1].key
<1> DEFINE row == rs[n + 1]
<1>1. Placed(rs, n)
  <2>1. Len(rs) \in Nat
    BY AppendSeq DEF Honest
  <2> QED BY <2>1 DEF Honest
<1>2. CheckColumns(v, rs, n) = v
  BY <1>1 DEF CheckColumns, Placed
<1>3. DOMAIN v = Fields /\ v.last = 0 /\ v.shift = 0 /\ v.rejected = <<>>
      /\ (v.active = IF n = 0 THEN None ELSE ActiveAt(rs, n)) /\ (n # 0 => Trusted(v.active, v))
      /\ (n # 0 => v.prevLink = Link(rs[n])) /\ \A key : Trusted(key, v) => key \in v.keys
  BY DEF Walked, Known, Kept
<1>4. CheckSeq(v, rs, n) = v
  <2>1. row.seq = n + v.shift
    BY <1>1, <1>3 DEF Placed
  <2> DEFINE seq  == row.seq
             left == [m \in DOMAIN v.pending \ {seq} |-> v.pending[m]]
             B == [Cascade(v, v.pending[seq]) EXCEPT
                     !.pending = left, !.last = v.pending[seq], !.lastPos = n, !.suppressLink = TRUE,
                     !.shift = IF left = <<>> THEN v.shiftBefore ELSE @]
  <2>2. CheckSeq(v, rs, n) =
          CASE seq = n + v.shift -> v
            [] seq # n + v.shift /\ seq \in DOMAIN v.pending -> B
            [] seq > n + v.shift /\ seq \notin DOMAIN v.pending -> SeqAhead(v, rs, n)
            [] seq < n + v.shift /\ seq \notin DOMAIN v.pending -> SeqBehind(v, rs, n)
    BY DEF CheckSeq
  <2>3. seq = n + v.shift /\ ~ (seq > n + v.shift) /\ ~ (seq < n + v.shift)
    BY <1>1, <1>3 DEF Placed
  <2> HIDE DEF B, seq
  <2> QED BY <2>2, <2>3
<1>5. CheckFirst(v, rs, n) = v
  BY <1>1 DEF CheckFirst, Placed, Fits
<1> DEFINE u == IF n = 0 THEN [v EXCEPT !.active = row.key] ELSE v
           w == [u EXCEPT !.sigOk = TRUE]
<1>6. /\ DOMAIN u = Fields /\ u.active = row.key /\ u.rejected = <<>> /\ u.keys = v.keys
      /\ \A f \in Fields \ {"active"} : u[f] = v[f]
  <2>1. "active" \in Fields /\ "rejected" \in Fields /\ "keys" \in Fields
    BY DEF Fields
  <2>2. CASE n = 0
    BY <1>3, <2>1, <2>2
  <2>3. CASE n # 0
    BY <1>1, <1>3, <2>3 DEF Placed
  <2> QED BY <2>2, <2>3
<1>7. row.key \in v.keys /\ SignedBy(row, row.key)
  BY <1>1, <1>3 DEF Placed, Trusted
<1>8. CheckKey(v, rs, n, Trust) = w
  <2>1. ~ (n = 0 /\ row.key \notin Trust.ledger)
    BY <1>1 DEF Placed, Trust
  <2>2. u = IF n = 0 /\ v.active = None THEN [v EXCEPT !.active = row.key] ELSE v
    BY <1>3
  <2> HIDE DEF u
  <2>3. row.key \notin DOMAIN u.rejected
    BY <1>6
  <2>4. CheckSignature(u, row, n) = [u EXCEPT !.sigOk = TRUE]
    BY <1>6, <1>7 DEF CheckSignature
  <2>5. row.key = u.active
    BY <1>6
  <2> DEFINE o == IF n = 0 /\ v.active = None THEN [v EXCEPT !.active = row.key] ELSE v
  <2>6. CheckKey(v, rs, n, Trust) =
          IF n = 0 /\ row.key \notin Trust.ledger THEN Emit(o, "key_unauthorised", n)
          ELSE IF row.key \in DOMAIN o.rejected
            THEN [Cascade(o, o.rejected[row.key]) EXCEPT !.last = o.rejected[row.key], !.lastPos = n]
          ELSE IF row.key = o.active THEN CheckSignature(o, row, n)
          ELSE IF row.key \in o.keys /\ ~SignedBy(row, row.key) THEN Emit(o, "record_edit", n)
          ELSE RejectTarget(Emit(o, "key_unauthorised", n), row)
    BY Zenon DEF CheckKey
  <2>7. o = u
    BY <2>2
  <2> HIDE DEF row, o
  <2> QED BY <2>1, <2>3, <2>4, <2>5, <2>6, <2>7
<1>9. DOMAIN w = Fields /\ w.sigOk = TRUE /\ w.active = row.key
      /\ \A f \in Fields \ {"sigOk", "active"} : w[f] = v[f]
  <2>1. "active" \in Fields /\ "sigOk" \in Fields
    BY DEF Fields
  <2> HIDE DEF u
  <2> QED BY <1>6, <2>1
<1> HIDE DEF w
<1>10. CheckLink(w, rs, n, Trust) = w
  <2>1. CASE n = 0
    BY <1>1, <2>1 DEF CheckLink, Placed, Trust
  <2>2. CASE n # 0
    <3>1. w.prevLink = v.prevLink
      <4>1. "prevLink" \in Fields \ {"sigOk", "active"}
        BY DEF Fields
      <4> QED BY <1>9, <4>1
    <3> QED BY <1>1, <1>3, <2>2, <3>1 DEF CheckLink, Placed
  <2> QED BY <2>1, <2>2
<1> DEFINE result == CheckLink(CheckKey(CheckFirst(CheckSeq(CheckColumns(v, rs, n), rs, n), rs, n), rs, n, Trust), rs, n, Trust)
<1>11. result = w
  BY <1>2, <1>4, <1>5, <1>8, <1>10
<1> HIDE DEF result
<1>12. Unmoved(result, v, {"sigOk", "active"}) /\ result.sigOk = TRUE /\ result.active = row.key
  BY <1>9, <1>11 DEF Unmoved
<1> QED BY <1>12 DEF result

\* 7: its nonce is new.
LEMMA NewNonce ==
  ASSUME NEW rs, Honest(rs), NEW n \in Nat, n < Len(rs), NEW v, Walked(v, rs, n),
         NEW w, Unmoved(w, v, {"sigOk", "active"}), w.sigOk = TRUE, w.active = rs[n + 1].key
  PROVE  Held(CheckNonce(w, rs[n + 1], n), rs, n)
<1> DEFINE row == rs[n + 1]
           x == [w EXCEPT !.nonces = @ \cup {row.nonce}, !.sealedOk = @ \cup {n}]
<1>1. Placed(rs, n)
  <2>1. Len(rs) \in Nat
    BY AppendSeq DEF Honest
  <2> QED BY <2>1 DEF Honest
<1>2. /\ w.findings = v.findings /\ w.last = v.last /\ w.taint = v.taint /\ w.shift = v.shift
      /\ w.rejected = v.rejected /\ w.keys = v.keys /\ w.rotatedIn = v.rotatedIn /\ w.checkpoints = v.checkpoints
      /\ w.registrations = v.registrations /\ w.nonces = v.nonces /\ w.stack = v.stack /\ w.copy = v.copy
      /\ DOMAIN w = Fields
  BY DEF Fields, Unmoved
<1>3. row.nonce = n /\ v.nonces \subseteq 0 .. n - 1
  BY <1>1 DEF Walked, Known, Placed
<1>4. CheckNonce(w, row, n) = x
  <2>1. row.nonce \notin w.nonces
    BY <1>2, <1>3
  <2> HIDE DEF row
  <2> QED BY <2>1 DEF CheckNonce
<1>5. /\ DOMAIN x = Fields /\ x.nonces = w.nonces \cup {n}
      /\ x.findings = v.findings /\ x.last = v.last /\ x.taint = v.taint /\ x.shift = v.shift
      /\ x.rejected = v.rejected /\ x.keys = v.keys /\ x.rotatedIn = v.rotatedIn /\ x.checkpoints = v.checkpoints
      /\ x.registrations = v.registrations /\ x.stack = v.stack /\ x.sigOk = TRUE /\ x.active = row.key
  <2> HIDE DEF row
  <2> QED BY <1>2, <1>3 DEF Fields, row
<1> HIDE DEF x
<1>6. \A key : Trusted(key, x) <=> Trusted(key, v)
  BY <1>5 DEF Trusted
<1>7. Kept(x, rs, n)
  <2>1. Kept(v, rs, n)
    BY DEF Walked, Known
  <2> QED BY <1>5, <1>6, <2>1 DEF Kept
<1>8. Trusted(row.key, x)
  <2>1. CASE n = 0
    BY <1>1, <2>1 DEF Placed, Trusted
  <2>2. CASE n # 0
    <3>1. row.key = v.active /\ Trusted(v.active, v)
      BY <1>1, <2>2 DEF Placed, Walked, Known
    <3> QED BY <1>6, <3>1
  <2> QED BY <2>1, <2>2
<1>9. x.nonces \subseteq 0 .. n
  BY <1>2, <1>3, <1>5
<1>10. IsStack(x.stack, Leaves(rs), n)
  BY <1>5 DEF Walked
<1> QED BY <1>4, <1>5, <1>7, <1>8, <1>9, <1>10 DEF Held

LEMMA AssignAt ==
  ASSUME NEW f, NEW at, NEW x
  PROVE  at \in DOMAIN Assign(f, at, x) /\ Assign(f, at, x)[at] = x
BY DEF Assign, Over

LEMMA AssignElse ==
  ASSUME NEW f, NEW at, NEW x, NEW i \in DOMAIN f, i # at
  PROVE  i \in DOMAIN Assign(f, at, x) /\ Assign(f, at, x)[i] = f[i]
BY DEF Assign, Over

LEMMA NextKept ==
  ASSUME NEW rs, NEW n \in Nat, NEW w, NEW x, Kept(w, rs, n), Trusted(rs[n + 1].key, w),
         DOMAIN x = Fields, x.findings \in Seq(Milds),
         x.last = 0, x.taint = 0, x.shift = 0, x.rejected = <<>>,
         \/ x.keys = w.keys /\ x.rotatedIn = w.rotatedIn
         \/ \E key : x.keys = w.keys \cup {key} /\ x.rotatedIn = w.rotatedIn \cup {key},
         x.checkpoints = IF rs[n + 1].type = "checkpoint" THEN Assign(w.checkpoints, n, rs[n + 1].body)
                         ELSE w.checkpoints,
         IF rs[n + 1].type = "model_registration"
           THEN ModelId \in DOMAIN x.registrations /\ x.registrations[ModelId] = rs[n + 1].body.model
           ELSE x.registrations = w.registrations
  PROVE  Kept(x, rs, n + 1)
<1>1. \A key : Trusted(key, w) => Trusted(key, x)
  BY DEF Trusted
<1>2. \A key : Trusted(key, x) => key \in x.keys
  BY DEF Kept, Trusted
<1>3. ASSUME NEW j \in 1 .. n + 1 PROVE Trusted(rs[j].key, x)
  BY <1>1 DEF Kept
<1>4. ASSUME NEW j \in 1 .. n + 1, rs[j].type = "checkpoint"
      PROVE  j - 1 \in DOMAIN x.checkpoints /\ x.checkpoints[j - 1] = rs[j].body
  <2>1. CASE j = n + 1
    <3>1. j - 1 = n /\ x.checkpoints = Assign(w.checkpoints, n, rs[n + 1].body)
      BY <1>4, <2>1
    <3> DEFINE f == w.checkpoints
               b == rs[n + 1].body
    <3> HIDE DEF f, b
    <3>2. n \in DOMAIN Assign(f, n, b) /\ Assign(f, n, b)[n] = b
      BY AssignAt
    <3> QED BY <2>1, <3>1, <3>2 DEF f, b
  <2>2. CASE j # n + 1
    <3>1. j \in 1 .. n /\ j - 1 # n
      BY <2>2
    <3>2. j - 1 \in DOMAIN w.checkpoints /\ w.checkpoints[j - 1] = rs[j].body
      BY <1>4, <3>1 DEF Kept
    <3>3. CASE rs[n + 1].type = "checkpoint"
      <4> DEFINE f == w.checkpoints
                 b == rs[n + 1].body
      <4>1. j - 1 \in DOMAIN f /\ f[j - 1] = rs[j].body
        BY <3>2
      <4> HIDE DEF f, b
      <4>2. j - 1 \in DOMAIN Assign(f, n, b) /\ Assign(f, n, b)[j - 1] = f[j - 1]
        BY <3>1, <4>1, AssignElse
      <4> QED BY <3>3, <4>1, <4>2 DEF f, b
    <3>4. CASE rs[n + 1].type # "checkpoint"
      BY <3>2, <3>4
    <3> QED BY <3>3, <3>4
  <2> QED BY <2>1, <2>2
<1>5. ASSUME NEW j, LastAt(rs, n + 1, j)
      PROVE  ModelId \in DOMAIN x.registrations /\ x.registrations[ModelId] = rs[j].body.model
  <2>1. CASE rs[n + 1].type = "model_registration"
    <3>1. j = n + 1
      BY <1>5, <2>1 DEF LastAt
    <3> QED BY <2>1, <3>1
  <2>2. CASE rs[n + 1].type # "model_registration"
    <3>1. LastAt(rs, n, j)
      BY <1>5, <2>2 DEF LastAt
    <3> QED BY <2>2, <3>1 DEF Kept
  <2> QED BY <2>1, <2>2
<1> QED BY <1>2, <1>3, <1>4, <1>5 DEF Kept

\* What is active after row n + 1.
LEMMA NextActive ==
  ASSUME NEW rs, Honest(rs), NEW n \in Nat, n < Len(rs)
  PROVE  ActiveAt(rs, n + 1) = IF rs[n + 1].type = "key_rotation" THEN rs[n + 1].body.new ELSE rs[n + 1].key
<1>1. Placed(rs, n) /\ Placed(rs, 0)
  <2>1. Len(rs) \in Nat
    BY AppendSeq DEF Honest
  <2> QED BY <2>1 DEF Honest
<1>2. ActiveAt(rs, n + 1) = IF n > 0 /\ rs[n + 1].type = "key_rotation" THEN rs[n + 1].body.new
                            ELSE ActiveAt(rs, n)
  BY ActiveNext
<1>3. CASE n = 0
  <2>1. rs[1].type = "genesis"
    BY <1>1 DEF Placed, Fits
  <2>2. Rotations(rs, 0) = {}
    BY DEF Rotations
  <2>3. ActiveAt(rs, 0) = rs[1].key
    BY <2>2, ActiveIs
  <2> QED BY <1>2, <1>3, <2>1, <2>3
<1>4. CASE n # 0
  BY <1>1, <1>2, <1>4 DEF Placed
<1> QED BY <1>3, <1>4

\* 8: the rules of an honest row's type accuse nobody.
LEMMA CheckpointPasses ==
  ASSUME NEW rs, Honest(rs), NEW n \in Nat, n < Len(rs), NEW w, Held(w, rs, n), rs[n + 1].type = "checkpoint"
  PROVE  LET x == CheckCheckpoint(w, rs[n + 1], n) IN
         Unmoved(x, w, {"checkpoints"}) /\ x.checkpoints = Assign(w.checkpoints, n, rs[n + 1].body)
<1> DEFINE row == rs[n + 1]
<1>1. Placed(rs, n)
  <2>1. Len(rs) \in Nat
    BY AppendSeq DEF Honest
  <2> QED BY <2>1 DEF Honest
<1>2. n # 0 /\ row.seq = n /\ row.body = [size |-> n, root |-> RangeOf(Leaves(rs), 0, n)]
  BY <1>1 DEF Placed, Fits
<1>3. RootOf(w.stack) = RangeOf(Leaves(rs), 0, n)
  BY <1>2, RootIsRange DEF Held
<1> HIDE DEF row
<1>4. CheckCheckpoint(w, row, n) = [w EXCEPT !.checkpoints = Assign(@, n, row.body)]
  BY <1>2, <1>3 DEF CheckCheckpoint
<1>5. DOMAIN w = Fields /\ "checkpoints" \in Fields
  BY DEF Held, Kept, Fields
<1> QED BY <1>4, <1>5 DEF Unmoved, row

LEMMA AnchorEventPasses ==
  ASSUME NEW rs, Honest(rs), NEW n \in Nat, n < Len(rs), NEW w, Held(w, rs, n), rs[n + 1].type = "anchor_event"
  PROVE  LET x == CheckAnchorEvent(w, rs[n + 1], n) IN
         Unmoved(x, w, {"lastAnchorSeq", "nonces"}) /\ x.nonces = {n}
<1> DEFINE row == rs[n + 1]
<1>1. Len(rs) \in Nat
  BY AppendSeq DEF Honest
<1>2. Placed(rs, n)
  BY <1>1 DEF Honest
<1>3. PICK j \in 1 .. n : /\ rs[j].type = "checkpoint" /\ row.body.cpSeq = j - 1
                          /\ row.body.size = rs[j].body.size /\ row.body.root = rs[j].body.root
  BY <1>2 DEF Placed, Fits
<1>4. row.seq = n /\ row.nonce = n
  BY <1>2 DEF Placed
<1>5. rs[j].body = [size |-> row.body.size, root |-> row.body.root]
  <2>1. Placed(rs, j - 1) /\ j - 1 + 1 = j
    BY <1>1 DEF Honest
  <2>2. rs[j].body = [size |-> j - 1, root |-> RangeOf(Leaves(rs), 0, j - 1)]
    BY <1>3, <2>1 DEF Placed, Fits
  <2> QED BY <1>3, <2>2
<1>6. row.body.cpSeq \in DOMAIN w.checkpoints
      /\ w.checkpoints[row.body.cpSeq] = [size |-> row.body.size, root |-> row.body.root]
  BY <1>3, <1>5 DEF Held, Kept
<1> HIDE DEF row
<1>7. CheckAnchorEvent(w, row, n) = [w EXCEPT !.lastAnchorSeq = n, !.nonces = {n}]
  BY <1>4, <1>6 DEF CheckAnchorEvent
<1>8. DOMAIN w = Fields /\ "lastAnchorSeq" \in Fields /\ "nonces" \in Fields
  BY DEF Held, Kept, Fields
<1> QED BY <1>7, <1>8 DEF Unmoved, row

LEMMA RotationPasses ==
  ASSUME NEW rs, Honest(rs), NEW n \in Nat, n < Len(rs), NEW w, Held(w, rs, n), rs[n + 1].type = "key_rotation"
  PROVE  LET x == CheckRotation(w, rs[n + 1], n)
             new == rs[n + 1].body.new IN
         /\ Unmoved(x, w, {"keys", "rotatedIn", "active"})
         /\ x.keys = w.keys \cup {new} /\ x.rotatedIn = w.rotatedIn \cup {new} /\ x.active = new
<1> DEFINE row == rs[n + 1]
<1>1. Placed(rs, n)
  <2>1. Len(rs) \in Nat
    BY AppendSeq DEF Honest
  <2> QED BY <2>1 DEF Honest
<1>2. PopValid(row)
  BY <1>1 DEF Placed, Fits, PopValid
<1> HIDE DEF row
<1>3. CheckRotation(w, row, n) = [w EXCEPT !.keys = @ \cup {row.body.new}, !.rotatedIn = @ \cup {row.body.new},
                                          !.active = row.body.new]
  BY <1>2 DEF CheckRotation
<1>4. DOMAIN w = Fields /\ "keys" \in Fields /\ "rotatedIn" \in Fields /\ "active" \in Fields
  BY DEF Held, Kept, Fields
<1> QED BY <1>3, <1>4 DEF Unmoved, row

LEMMA RegistrationPasses ==
  ASSUME NEW rs, Honest(rs), NEW n \in Nat, n < Len(rs), NEW w, Held(w, rs, n), rs[n + 1].type = "model_registration"
  PROVE  LET x == CheckRegistration(w, rs[n + 1], n, <<>>) IN
         /\ Unmoved(x, w, {"findings", "registrations"}) /\ x.findings \in Seq(Milds)
         /\ ModelId \in DOMAIN x.registrations /\ x.registrations[ModelId] = rs[n + 1].body.model
<1> DEFINE row == rs[n + 1]
           m   == row.body.model
           was == m.id \in DOMAIN w.registrations /\ w.registrations[m.id] # m
           y   == [w EXCEPT !.registrations = Assign(@, m.id, m)]
           noted == Note(y, "model_swap", n, "info")
           x   == CheckRegistration(w, row, n, <<>>)
<1>1. Placed(rs, n)
  <2>1. Len(rs) \in Nat
    BY AppendSeq DEF Honest
  <2> QED BY <2>1 DEF Honest
<1>2. m.id = ModelId
  BY <1>1 DEF Placed, Fits
<1>3. x = IF was THEN noted ELSE y
  BY DEF CheckRegistration
<1> HIDE DEF m, x
<1>4. DOMAIN w = Fields /\ w.findings \in Seq(Milds) /\ "registrations" \in Fields /\ "findings" \in Fields
  BY DEF Held, Kept, Fields
<1>5. /\ DOMAIN y = Fields /\ y.findings \in Seq(Milds) /\ y.registrations = Assign(w.registrations, m.id, m)
      /\ \A f \in Fields \ {"findings", "registrations"} : y[f] = w[f]
  BY <1>4
<1> HIDE DEF y
<1>6. ModelId \in DOMAIN y.registrations /\ y.registrations[ModelId] = m
  <2> DEFINE f == w.registrations
  <2> HIDE DEF f
  <2>1. ModelId \in DOMAIN Assign(f, ModelId, m) /\ Assign(f, ModelId, m)[ModelId] = m
    BY AssignAt
  <2> QED BY <1>2, <1>5, <2>1 DEF f
<1>7. /\ DOMAIN noted = Fields /\ noted.findings \in Seq(Milds)
      /\ \A f \in Fields \ {"findings"} : noted[f] = y[f]
  <2>1. <<"model_swap", "info">> \in Mildly
    BY DEF Mildly
  <2> QED BY <1>5, <2>1, NoteMild
<1> HIDE DEF noted
<1>8. noted.registrations = y.registrations
  BY <1>4, <1>7
<1>9. /\ Unmoved(x, w, {"findings", "registrations"}) /\ x.findings \in Seq(Milds)
      /\ x.registrations = y.registrations
  <2>1. CASE was
    BY <1>3, <1>5, <1>7, <1>8, <2>1 DEF Unmoved
  <2>2. CASE ~was
    BY <1>3, <1>5, <2>2 DEF Unmoved
  <2> QED BY <2>1, <2>2
<1> QED BY <1>6, <1>9 DEF x, m

LEMMA InferencePasses ==
  ASSUME NEW rs, Honest(rs), NEW n \in Nat, n < Len(rs), NEW w, Held(w, rs, n), rs[n + 1].type = "inference"
  PROVE  CheckInferenceModel(w, rs[n + 1], n) = w
<1> DEFINE row == rs[n + 1]
<1>1. Len(rs) \in Nat
  BY AppendSeq DEF Honest
<1>2. Placed(rs, n)
  BY <1>1 DEF Honest
<1>3. PICK j \in 1 .. n : LastAt(rs, n, j) /\ row.body.model = rs[j].body.model
  BY <1>2 DEF Placed, Fits
<1>4. rs[j].body.model.id = ModelId
  <2>1. Placed(rs, j - 1) /\ j - 1 + 1 = j /\ rs[j].type = "model_registration"
    BY <1>1, <1>3 DEF Honest, LastAt
  <2> QED BY <2>1 DEF Placed, Fits
<1>5. ModelId \in DOMAIN w.registrations /\ w.registrations[ModelId] = rs[j].body.model
  BY <1>3 DEF Held, Kept
<1> QED BY <1>3, <1>4, <1>5 DEF CheckInferenceModel

\* What a type's rules name, and what they leave.
LEMMA NextKnown ==
  ASSUME NEW rs, Honest(rs), NEW n \in Nat, n < Len(rs), NEW w, Held(w, rs, n), NEW x, NEW S,
         Unmoved(x, w, S),
         S \subseteq {"findings", "nonces", "lastAnchorSeq", "keys", "rotatedIn", "active", "checkpoints", "registrations"},
         x.findings \in Seq(Milds), x.nonces \subseteq 0 .. n,
         IF rs[n + 1].type = "key_rotation"
           THEN LET new == rs[n + 1].body.new IN
                x.keys = w.keys \cup {new} /\ x.rotatedIn = w.rotatedIn \cup {new} /\ x.active = new
           ELSE x.keys = w.keys /\ x.rotatedIn = w.rotatedIn /\ x.active = w.active,
         x.checkpoints = IF rs[n + 1].type = "checkpoint" THEN Assign(w.checkpoints, n, rs[n + 1].body)
                         ELSE w.checkpoints,
         IF rs[n + 1].type = "model_registration"
           THEN ModelId \in DOMAIN x.registrations /\ x.registrations[ModelId] = rs[n + 1].body.model
           ELSE x.registrations = w.registrations
  PROVE  Known(x, rs, n + 1) /\ IsStack(x.stack, Leaves(rs), n)
<1>1. /\ DOMAIN x = Fields /\ x.last = w.last /\ x.taint = w.taint /\ x.shift = w.shift
      /\ x.rejected = w.rejected /\ x.stack = w.stack
  BY DEF Unmoved, Fields
<1>2. Kept(w, rs, n) /\ w.active = rs[n + 1].key /\ Trusted(w.active, w) /\ IsStack(w.stack, Leaves(rs), n)
  BY DEF Held
<1>3. w.last = 0 /\ w.taint = 0 /\ w.shift = 0 /\ w.rejected = <<>>
  BY <1>2 DEF Kept
<1>4. \/ x.keys = w.keys /\ x.rotatedIn = w.rotatedIn
      \/ \E key : x.keys = w.keys \cup {key} /\ x.rotatedIn = w.rotatedIn \cup {key}
  OBVIOUS
<1>5. Kept(x, rs, n + 1)
  BY <1>1, <1>2, <1>3, <1>4, NextKept
<1>6. ActiveAt(rs, n + 1) = IF rs[n + 1].type = "key_rotation" THEN rs[n + 1].body.new ELSE rs[n + 1].key
  BY NextActive
<1>7. x.active = ActiveAt(rs, n + 1) /\ Trusted(x.active, x)
  BY <1>2, <1>6 DEF Trusted
<1>8. n + 1 # 0 /\ (n + 1) - 1 = n
  OBVIOUS
<1> QED BY <1>1, <1>2, <1>5, <1>7, <1>8 DEF Known

LEMMA TypePasses ==
  ASSUME NEW rs, Honest(rs), NEW n \in Nat, n < Len(rs), NEW w, Held(w, rs, n)
  PROVE  LET x == CheckType(w, rs[n + 1], n, <<>>) IN
         Known(x, rs, n + 1) /\ IsStack(x.stack, Leaves(rs), n)
<1> DEFINE row == rs[n + 1]
           x == CheckType(w, row, n, <<>>)
<1>1. DOMAIN w = Fields /\ w.findings \in Seq(Milds) /\ w.nonces \subseteq 0 .. n
  BY DEF Held, Kept
<1>2. CASE row.type = "checkpoint"
  <2> DEFINE S == {"checkpoints"}
  <2>1. x = CheckCheckpoint(w, row, n)
    BY <1>2 DEF CheckType
  <2>2. Unmoved(x, w, S) /\ x.checkpoints = Assign(w.checkpoints, n, row.body)
    BY <1>2, <2>1, CheckpointPasses
  <2> HIDE DEF x
  <2>3. /\ x.findings = w.findings /\ x.nonces = w.nonces /\ x.keys = w.keys /\ x.rotatedIn = w.rotatedIn
        /\ x.active = w.active /\ x.registrations = w.registrations
    BY <2>2 DEF Unmoved, Fields
  <2>4. S \subseteq {"findings", "nonces", "lastAnchorSeq", "keys", "rotatedIn", "active", "checkpoints", "registrations"}
    OBVIOUS
  <2> HIDE DEF S
  <2>5. Known(x, rs, n + 1) /\ IsStack(x.stack, Leaves(rs), n)
    BY <1>1, <1>2, <2>2, <2>3, <2>4, NextKnown
  <2> QED BY <2>5 DEF x
<1>3. CASE row.type = "anchor_event"
  <2> DEFINE S == {"lastAnchorSeq", "nonces"}
  <2>1. x = CheckAnchorEvent(w, row, n)
    BY <1>3 DEF CheckType
  <2> DEFINE y == CheckAnchorEvent(w, row, n)
  <2>2. Unmoved(x, w, S) /\ x.nonces \subseteq 0 .. n
    <3>1. Unmoved(y, w, {"lastAnchorSeq", "nonces"}) /\ y.nonces = {n}
      BY <1>3, AnchorEventPasses
    <3>2. {n} \subseteq 0 .. n
      OBVIOUS
    <3> HIDE DEF x, y
    <3> QED BY <2>1, <3>1, <3>2 DEF y
  <2> HIDE DEF x
  <2>3. /\ x.findings = w.findings /\ x.keys = w.keys /\ x.rotatedIn = w.rotatedIn
        /\ x.active = w.active /\ x.registrations = w.registrations /\ x.checkpoints = w.checkpoints
    BY <2>2 DEF Unmoved, Fields
  <2>4. S \subseteq {"findings", "nonces", "lastAnchorSeq", "keys", "rotatedIn", "active", "checkpoints", "registrations"}
    OBVIOUS
  <2> HIDE DEF S
  <2>5. Known(x, rs, n + 1) /\ IsStack(x.stack, Leaves(rs), n)
    BY <1>1, <1>3, <2>2, <2>3, <2>4, NextKnown
  <2> QED BY <2>5 DEF x
<1>4. CASE row.type = "degraded_marker"
  <2> DEFINE S == {"findings"}
             low == "low"
             gap == "degraded_gap"
  <2>1. x = Note(w, gap, n, low)
    BY <1>4 DEF CheckType
  <2>2. <<gap, low>> \in Mildly
    BY DEF Mildly
  <2> HIDE DEF low, gap
  <2>3. Unmoved(x, w, S) /\ x.findings \in Seq(Milds)
    BY <1>1, <2>1, <2>2, NoteMild DEF Unmoved
  <2> HIDE DEF x
  <2>4. /\ x.nonces = w.nonces /\ x.keys = w.keys /\ x.rotatedIn = w.rotatedIn
        /\ x.active = w.active /\ x.registrations = w.registrations /\ x.checkpoints = w.checkpoints
    BY <2>3 DEF Unmoved, Fields
  <2>5. S \subseteq {"findings", "nonces", "lastAnchorSeq", "keys", "rotatedIn", "active", "checkpoints", "registrations"}
    OBVIOUS
  <2> HIDE DEF S
  <2>6. Known(x, rs, n + 1) /\ IsStack(x.stack, Leaves(rs), n)
    BY <1>1, <1>4, <2>3, <2>4, <2>5, NextKnown
  <2> QED BY <2>6 DEF x
<1>5. CASE row.type = "model_registration"
  <2> DEFINE S == {"findings", "registrations"}
  <2>1. x = CheckRegistration(w, row, n, <<>>)
    BY <1>5 DEF CheckType
  <2>2. /\ Unmoved(x, w, S) /\ x.findings \in Seq(Milds)
        /\ ModelId \in DOMAIN x.registrations /\ x.registrations[ModelId] = row.body.model
    BY <1>5, <2>1, RegistrationPasses
  <2> HIDE DEF x
  <2>3. /\ x.nonces = w.nonces /\ x.keys = w.keys /\ x.rotatedIn = w.rotatedIn
        /\ x.active = w.active /\ x.checkpoints = w.checkpoints
    BY <2>2 DEF Unmoved, Fields
  <2>4. S \subseteq {"findings", "nonces", "lastAnchorSeq", "keys", "rotatedIn", "active", "checkpoints", "registrations"}
    OBVIOUS
  <2> HIDE DEF S
  <2>5. Known(x, rs, n + 1) /\ IsStack(x.stack, Leaves(rs), n)
    BY <1>1, <1>5, <2>2, <2>3, <2>4, NextKnown
  <2> QED BY <2>5 DEF x
<1>6. CASE row.type = "key_rotation"
  <2> DEFINE S == {"keys", "rotatedIn", "active"}
             new == row.body.new
  <2>1. x = CheckRotation(w, row, n)
    BY <1>6 DEF CheckType
  <2>2. /\ Unmoved(x, w, S)
        /\ x.keys = w.keys \cup {new} /\ x.rotatedIn = w.rotatedIn \cup {new} /\ x.active = new
    BY <1>6, <2>1, RotationPasses
  <2> HIDE DEF x
  <2>3. /\ x.nonces = w.nonces /\ x.findings = w.findings /\ x.checkpoints = w.checkpoints
        /\ x.registrations = w.registrations
    BY <2>2 DEF Unmoved, Fields
  <2>4. S \subseteq {"findings", "nonces", "lastAnchorSeq", "keys", "rotatedIn", "active", "checkpoints", "registrations"}
    OBVIOUS
  <2> HIDE DEF S
  <2>5. Known(x, rs, n + 1) /\ IsStack(x.stack, Leaves(rs), n)
    BY <1>1, <1>6, <2>2, <2>3, <2>4, NextKnown
  <2> QED BY <2>5 DEF x
<1>7. CASE row.type \notin {"checkpoint", "anchor_event", "degraded_marker", "model_registration", "key_rotation"}
  <2>1. x = w
    <3>1. CASE row.type = "inference"
      <4>1. x = CheckInferenceModel(w, row, n)
        BY <3>1 DEF CheckType
      <4> QED BY <3>1, <4>1, InferencePasses
    <3>2. CASE row.type # "inference"
      BY <1>7, <3>2 DEF CheckType
    <3> QED BY <3>1, <3>2
  <2> HIDE DEF x
  <2>2. Unmoved(x, w, {})
    BY <1>1, <2>1 DEF Unmoved
  <2>3. Known(x, rs, n + 1) /\ IsStack(x.stack, Leaves(rs), n)
    BY <1>1, <1>7, <2>1, <2>2, NextKnown
  <2> QED BY <2>3 DEF x
<1> QED BY <1>2, <1>3, <1>4, <1>5, <1>6, <1>7

\* What the verifier knows does not rest on the fields a row begins or ends with.
LEMMA KnownStill ==
  ASSUME NEW rs, NEW n, NEW v, NEW w, Known(v, rs, n), DOMAIN w = Fields, w.findings \in Seq(Milds),
         \A f \in {"last", "taint", "shift", "rejected", "keys", "rotatedIn", "checkpoints", "registrations",
                   "nonces", "active"} : w[f] = v[f]
  PROVE  Known(w, rs, n)
<1>1. /\ w.last = v.last /\ w.taint = v.taint /\ w.shift = v.shift /\ w.rejected = v.rejected
      /\ w.keys = v.keys /\ w.rotatedIn = v.rotatedIn /\ w.checkpoints = v.checkpoints
      /\ w.registrations = v.registrations /\ w.nonces = v.nonces /\ w.active = v.active
  OBVIOUS
<1>2. \A key : Trusted(key, w) <=> Trusted(key, v)
  BY <1>1 DEF Trusted
<1>3. Kept(w, rs, n)
  BY <1>1, <1>2 DEF Known, Kept
<1> QED BY <1>1, <1>2, <1>3 DEF Known

\* 9: a clock that was set back is noted.
LEMMA TimePasses ==
  ASSUME NEW rs, NEW n \in Nat, NEW v, Known(v, rs, n + 1), IsStack(v.stack, Leaves(rs), n)
  PROVE  LET w == CheckTime(v, rs[n + 1], n) IN
         /\ Known(w, rs, n + 1) /\ IsStack(w.stack, Leaves(rs), n)
         /\ w.prevLink = Link(rs[n + 1])
<1> DEFINE row == rs[n + 1]
           back == "clock_regression"
           info == "info"
           u == IF row.at < v.lastAt THEN Note(v, back, n, info) ELSE v
           w == [u EXCEPT !.lastAt = row.at, !.prevLink = Link(row)]
<1>1. CheckTime(v, row, n) = w
  BY DEF CheckTime
<1>2. DOMAIN v = Fields /\ v.findings \in Seq(Milds)
  BY DEF Known, Kept
<1>3. <<back, info>> \in Mildly
  BY DEF Mildly
<1> HIDE DEF back, info
<1>4. DOMAIN u = Fields /\ u.findings \in Seq(Milds) /\ \A f \in Fields \ {"findings"} : u[f] = v[f]
  <2>1. CASE row.at < v.lastAt
    <3>1. u = Note(v, back, n, info)
      BY <2>1
    <3> HIDE DEF u
    <3> QED BY <1>2, <1>3, <3>1, NoteMild
  <2>2. CASE ~ (row.at < v.lastAt)
    <3>1. u = v
      BY <2>2
    <3> HIDE DEF u
    <3> QED BY <1>2, <3>1
  <2> QED BY <2>1, <2>2
<1> HIDE DEF u, row
<1>5. /\ DOMAIN w = Fields /\ w.prevLink = Link(row) /\ w.findings = u.findings
      /\ \A f \in Fields \ {"lastAt", "prevLink"} : w[f] = u[f]
  <2>1. "lastAt" \in Fields /\ "prevLink" \in Fields /\ "findings" \in Fields
    BY DEF Fields
  <2> QED BY <1>4, <2>1
<1> HIDE DEF w
<1>6. \A f \in {"last", "taint", "shift", "rejected", "keys", "rotatedIn", "checkpoints", "registrations",
                "nonces", "active", "stack"} : w[f] = v[f]
  <2> SUFFICES ASSUME NEW f \in {"last", "taint", "shift", "rejected", "keys", "rotatedIn", "checkpoints",
                                 "registrations", "nonces", "active", "stack"}
               PROVE  w[f] = v[f]
    OBVIOUS
  <2>1. f \in Fields \ {"lastAt", "prevLink"} /\ f \in Fields \ {"findings"}
    BY DEF Fields
  <2> QED BY <1>4, <1>5, <2>1
<1>7. Known(w, rs, n + 1)
  BY <1>4, <1>5, <1>6, KnownStill
<1>8. IsStack(w.stack, Leaves(rs), n)
  BY <1>6
<1> QED BY <1>1, <1>5, <1>7, <1>8 DEF row

LEMMA StepPasses ==
  ASSUME NEW rs, Honest(rs), NEW n \in Nat, n < Len(rs), NEW v, Walked(v, rs, n),
         NEW given, given.trust = Trust, given.manifest = <<>>
  PROVE  Walked(Step(v, rs, n, given), rs, n + 1)
<1> DEFINE row == rs[n + 1]
           u == [v EXCEPT !.suppressLink = FALSE, !.copy = FALSE, !.sigOk = FALSE]
<1>1. Len(rs) \in Nat /\ IsSeq(rs)
  BY AppendSeq DEF Honest
<1>2. row.form = "ok"
  BY <1>1 DEF Honest, Placed
<1>3. Known(v, rs, n) /\ DOMAIN v = Fields /\ v.findings \in Seq(Milds)
  BY DEF Walked, Known, Kept
<1>4. /\ DOMAIN u = Fields /\ u.copy = FALSE /\ u.sigOk = FALSE
      /\ \A f \in Fields \ {"suppressLink", "copy", "sigOk"} : u[f] = v[f]
  <2>1. "suppressLink" \in Fields /\ "copy" \in Fields /\ "sigOk" \in Fields
    BY DEF Fields
  <2> QED BY <1>3, <2>1
<1> HIDE DEF u
<1>5. /\ u.findings = v.findings /\ u.prevLink = v.prevLink /\ u.stack = v.stack
      /\ \A f \in {"last", "taint", "shift", "rejected", "keys", "rotatedIn", "checkpoints", "registrations",
                   "nonces", "active"} : u[f] = v[f]
  <2>1. {"findings", "prevLink", "stack", "last", "taint", "shift", "rejected", "keys", "rotatedIn", "checkpoints",
         "registrations", "nonces", "active"} \subseteq Fields \ {"suppressLink", "copy", "sigOk"}
    BY DEF Fields
  <2> QED BY <1>4, <2>1
<1>6. Walked(u, rs, n)
  <2>1. Known(u, rs, n)
    BY <1>3, <1>4, <1>5, KnownStill
  <2> QED BY <1>5, <2>1 DEF Walked
<1> DEFINE placed == CheckFirst(CheckSeq(CheckColumns(u, rs, n), rs, n), rs, n)
           linked == CheckLink(CheckKey(placed, rs, n, Trust), rs, n, Trust)
           w == CheckNonce(linked, row, n)
           x == CheckType(w, row, n, <<>>)
           y == CheckTime(x, row, n)
           z == [y EXCEPT !.stack = Push(@, LeafOf(row))]
<1>7. Unmoved(linked, u, {"sigOk", "active"}) /\ linked.sigOk = TRUE /\ linked.active = rs[n + 1].key
  BY <1>4, <1>6, PlacedPasses
<1>8. Step(v, rs, n, given) = z
  <2>1. Step(v, rs, n, given) = [CheckRow(u, rs, n, given) EXCEPT !.stack = Push(@, LeafOf(row))]
    BY <1>2 DEF Step, u
  <2>2. CheckRow(u, rs, n, given) = CheckTime(CheckSigned(linked, row, n, <<>>), row, n)
    BY DEF CheckRow
  <2> HIDE DEF linked, row
  <2>3. CheckSigned(linked, row, n, <<>>) = x
    BY <1>7 DEF CheckSigned
  <2> QED BY <2>1, <2>2, <2>3
<1> HIDE DEF linked
<1>9. Held(w, rs, n)
  BY <1>6, <1>7, NewNonce
<1> HIDE DEF w
<1>10. Known(x, rs, n + 1) /\ IsStack(x.stack, Leaves(rs), n)
  BY <1>9, TypePasses
<1> HIDE DEF x
<1>11. Known(y, rs, n + 1) /\ IsStack(y.stack, Leaves(rs), n) /\ y.prevLink = Link(row)
  BY <1>10, TimePasses
<1> HIDE DEF y
<1>12. DOMAIN y = Fields /\ y.findings \in Seq(Milds)
  BY <1>11 DEF Known, Kept
<1>13. LeafOf(row) = Leaves(rs)[n + 1]
  <2>1. n + 1 \in 1 .. Len(rs)
    BY <1>1
  <2> QED BY <1>1, <2>1, LeavesAre
<1> DEFINE leaf == LeafOf(row)
<1> HIDE DEF leaf
<1>14. /\ DOMAIN z = Fields /\ z.findings = y.findings /\ z.prevLink = y.prevLink /\ z.stack = Push(y.stack, leaf)
       /\ \A f \in {"last", "taint", "shift", "rejected", "keys", "rotatedIn", "checkpoints", "registrations",
                    "nonces", "active"} : z[f] = y[f]
  <2>1. z = [y EXCEPT !.stack = Push(@, leaf)]
    BY DEF leaf
  <2> HIDE DEF z
  <2> QED BY <1>12, <2>1 DEF Fields
<1> HIDE DEF z
<1>15. Known(z, rs, n + 1)
  BY <1>11, <1>12, <1>14, KnownStill
<1>16. IsStack(z.stack, Leaves(rs), n + 1)
  BY <1>11, <1>13, <1>14, PushKeeps DEF leaf
<1>17. Walked(z, rs, n + 1)
  BY <1>11, <1>14, <1>15, <1>16 DEF Walked
<1> QED BY <1>8, <1>17

LEMMA WalkPasses ==
  ASSUME NEW rs, Honest(rs), NEW given, given.trust = Trust, given.manifest = <<>>
  PROVE  Walked(Walk(rs, given), rs, Len(rs))
<1>1. Len(rs) \in Nat
  BY AppendSeq DEF Honest
<1>2. PICK after : /\ after[0] = Start(given)
                   /\ \A n \in 1 .. Len(rs) : after[n] = Step(after[n - 1], rs, n - 1, given)
                   /\ Walk(rs, given) = after[Len(rs)]
  BY <1>1, WalkUnfolds
<1> DEFINE J == {n \in Nat : n <= Len(rs) => Walked(after[n], rs, n)}
<1>3. 0 \in J
  BY <1>2, StartWalked
<1>4. ASSUME NEW n \in Nat, n \in J PROVE n + 1 \in J
  <2> SUFFICES ASSUME n + 1 <= Len(rs) PROVE Walked(after[n + 1], rs, n + 1)
    OBVIOUS
  <2>1. n + 1 \in 1 .. Len(rs) /\ (n + 1) - 1 = n /\ n < Len(rs)
    BY <1>1
  <2>2. after[n + 1] = Step(after[n], rs, n, given)
    BY <1>2, <2>1
  <2>3. Walked(after[n], rs, n)
    BY <1>4, <2>1
  <2> QED BY <2>1, <2>2, <2>3, StepPasses
<1>5. \A n \in Nat : n \in J
  <2>1. \A n \in Nat : n \in J => n + 1 \in J
    BY <1>4
  <2> HIDE DEF J
  <2> QED BY <1>3, <2>1, Induct
<1> QED BY <1>1, <1>2, <1>5

-----------------------------------------------------------------------------
\* Anchors of an honest ledger, and the rest of the verifier.

FileAnchor(cp) == Attest(Cosign(BuildAnchor(cp), Witness), Boundary)

AnchorOf(a, rs) ==
  \E i \in 1 .. Len(rs) : /\ rs[i].type = "checkpoint"
                          /\ a = FileAnchor(rs[i]) \/ a = LogbookAnchor(BuildAnchor(rs[i]))

LEMMA FileAnchorIs ==
  ASSUME NEW cp
  PROVE  LET a == FileAnchor(cp) IN
         /\ a.kind = "file" /\ a.size = cp.body.size /\ a.root = cp.body.root /\ a.cp = cp
         /\ \A s \in a.cosignatures : s.by = Witness /\ s.of = Bytes(cp)
         /\ \A s \in a.attestations : s.by = Boundary /\ s.size = cp.body.size /\ s.root = cp.body.root
<1> DEFINE b == BuildAnchor(cp)
           c == Cosign(b, Witness)
           a == Attest(c, Boundary)
<1>1. /\ b.kind = "file" /\ b.size = cp.body.size /\ b.root = cp.body.root /\ b.cp = cp
      /\ b.cosignatures = {} /\ b.attestations = {}
      /\ DOMAIN b = {"kind", "size", "root", "cp", "cosignatures", "attestations"}
  BY DEF BuildAnchor
<1> HIDE DEF b
<1> DEFINE wit == [by |-> Witness, of |-> Bytes(cp)]
<1>2. /\ c.kind = "file" /\ c.size = cp.body.size /\ c.root = cp.body.root /\ c.cp = cp
      /\ c.cosignatures = {wit} /\ c.attestations = {}
      /\ DOMAIN c = {"kind", "size", "root", "cp", "cosignatures", "attestations"}
  <2> HIDE DEF wit
  <2>1. c = [b EXCEPT !.cosignatures = {s \in @ : s.by # Witness} \cup {wit}]
    BY <1>1 DEF Cosign, wit
  <2>2. {s \in b.cosignatures : s.by # Witness} \cup {wit} = {wit}
    BY <1>1
  <2> HIDE DEF c
  <2> QED BY <1>1, <2>1, <2>2
<1> HIDE DEF c
<1> DEFINE att == [by |-> Boundary, size |-> cp.body.size, root |-> cp.body.root]
<1>3. /\ a.kind = "file" /\ a.size = cp.body.size /\ a.root = cp.body.root /\ a.cp = cp
      /\ a.cosignatures = {wit} /\ a.attestations = {att}
  <2> HIDE DEF wit, att
  <2>1. a = [c EXCEPT !.attestations = {s \in @ : s.by # Boundary} \cup {att}]
    BY <1>2 DEF Attest, att
  <2>2. {s \in c.attestations : s.by # Boundary} \cup {att} = {att}
    BY <1>2
  <2> HIDE DEF a
  <2> QED BY <1>2, <2>1, <2>2
<1>4. a = FileAnchor(cp)
  BY DEF FileAnchor, c, b
<1>5. \A s \in {wit} : s.by = Witness /\ s.of = Bytes(cp)
  OBVIOUS
<1>6. \A s \in {att} : s.by = Boundary /\ s.size = cp.body.size /\ s.root = cp.body.root
  OBVIOUS
<1> HIDE DEF a, wit, att
<1> QED BY <1>3, <1>4, <1>5, <1>6

\* The hash of the first rows, as the verifier computes it.
LEMMA PrefixRoot ==
  ASSUME NEW rs, IsSeq(rs), NEW size \in Nat, size # 0, size <= Len(rs)
  PROVE  RootOf(Accumulate([i \in 1 .. size |-> LeafOf(rs[i])])) = RangeOf(Leaves(rs), 0, size)
<1> DEFINE ls == [i \in 1 .. size |-> LeafOf(rs[i])]
           S == {LeafOf(rs[i]) : i \in 1 .. size}
<1>1. ls \in [1 .. size -> S]
  OBVIOUS
<1>2. Len(ls) = size
  <2>1. ls \in Seq(S) /\ DOMAIN ls = 1 .. size
    <3> HIDE DEF ls, S
    <3> QED BY <1>1
  <2> HIDE DEF ls, S
  <2> QED BY <2>1
<1>3. Len(rs) \in Nat
  BY AppendSeq
<1>4. \A i \in 1 .. size : ls[i] = Leaves(rs)[i]
  <2> SUFFICES ASSUME NEW i \in 1 .. size PROVE ls[i] = Leaves(rs)[i]
    OBVIOUS
  <2>1. i \in 1 .. Len(rs)
    BY <1>3
  <2> QED BY <2>1, LeavesAre
<1> HIDE DEF ls
<1>5. RootOf(Accumulate(ls)) = RangeOf(ls, 0, size)
  BY <1>2, AccumulatedRoot
<1>6. RangeOf(ls, 0, size) = RangeOf(Leaves(rs), 0, size)
  <2>1. \A k \in 1 .. size : \A from \in 0 .. size - k : RangeOf(ls, from, k) = RangeOf(Leaves(rs), from, k)
    BY <1>4, RangePrefix
  <2>2. size \in 1 .. size /\ 0 \in 0 .. size - size
    OBVIOUS
  <2> QED BY <2>1, <2>2
<1> QED BY <1>5, <1>6 DEF ls

\* The same hash by the RFC's definition.
LEMMA FirstRoot ==
  ASSUME NEW rs, IsSeq(rs), NEW size \in Nat, size # 0, size <= Len(rs)
  PROVE  MTH(Leaves(SubSeq(rs, 1, size))) = RangeOf(Leaves(rs), 0, size)
<1> DEFINE part == SubSeq(rs, 1, size)
           ls == Leaves(part)
<1>1. IsSeq(part) /\ Len(part) = size /\ \A i \in 1 .. size : part[i] = rs[i]
  <2>1. size \in 0 .. Len(rs)
    BY AppendSeq
  <2> QED BY <2>1, PrefixOf
<1> HIDE DEF part
<1>2. Len(ls) = size /\ DOMAIN ls = 1 .. size
  BY <1>1, LeavesAre
<1>3. \A i \in 1 .. size : ls[i] = Leaves(rs)[i]
  <2> SUFFICES ASSUME NEW i \in 1 .. size PROVE ls[i] = Leaves(rs)[i]
    OBVIOUS
  <2>1. Len(rs) \in Nat
    BY AppendSeq
  <2>2. i \in 1 .. Len(rs) /\ i \in 1 .. Len(part)
    BY <1>1, <2>1
  <2> QED BY <1>1, <2>2, LeavesAre
<1> HIDE DEF ls
<1>4. MTH(ls) = RangeOf(ls, 0, size)
  BY <1>2, MthIsRange
<1>5. RangeOf(ls, 0, size) = RangeOf(Leaves(rs), 0, size)
  <2>1. \A k \in 1 .. size : \A from \in 0 .. size - k : RangeOf(ls, from, k) = RangeOf(Leaves(rs), from, k)
    BY <1>3, RangePrefix
  <2>2. size \in 1 .. size /\ 0 \in 0 .. size - size
    OBVIOUS
  <2> QED BY <2>1, <2>2
<1>6. MTH(ls) = RangeOf(Leaves(rs), 0, size)
  BY <1>4, <1>5
<1> QED BY <1>6, Zenon DEF ls, part

LEMMA AnchorPasses ==
  ASSUME NEW rs, Honest(rs), NEW v, Walked(v, rs, Len(rs)), NEW given, given.trust = Trust,
         NEW a, AnchorOf(a, rs)
  PROVE  CheckAnchor(v, a, rs, given) = v
<1>1. Len(rs) \in Nat /\ IsSeq(rs)
  BY AppendSeq DEF Honest
<1>2. PICK i \in 1 .. Len(rs) : /\ rs[i].type = "checkpoint"
                                /\ a = FileAnchor(rs[i]) \/ a = LogbookAnchor(BuildAnchor(rs[i]))
  BY DEF AnchorOf
<1> DEFINE n == i - 1
           cp == rs[i]
<1>3. Placed(rs, n) /\ n + 1 = i
  BY <1>1 DEF Honest
<1>4. n \in Nat /\ n # 0 /\ n < Len(rs) /\ cp.form = "ok" /\ cp.seq = n /\ SignedBy(cp, cp.key)
      /\ cp.body = [size |-> n, root |-> RangeOf(Leaves(rs), 0, n)]
  BY <1>1, <1>2, <1>3 DEF Placed, Fits
<1>5. cp.key = Keys[1] \/ cp.key \in v.rotatedIn
  BY <1>2 DEF Walked, Known, Kept, Trusted
<1> HIDE DEF n
<1>6. cp.body.size = n /\ cp.body.root = RangeOf(Leaves(rs), 0, n)
  BY <1>4
<1>7. a.size = n /\ a.root = RangeOf(Leaves(rs), 0, n) /\ (a.kind = "logbook" \/ (a.kind = "file" /\ a.cp = cp))
      /\ (a.kind = "file" => a = FileAnchor(cp))
  <2>1. CASE a = FileAnchor(cp)
    <3>1. a.kind = "file" /\ a.size = cp.body.size /\ a.root = cp.body.root /\ a.cp = cp
      BY <2>1, FileAnchorIs
    <3> QED BY <1>6, <2>1, <3>1
  <2>2. CASE a = LogbookAnchor(BuildAnchor(cp))
    BY <1>6, <2>2 DEF LogbookAnchor, BuildAnchor
  <2> QED BY <1>2, <2>1, <2>2
<1> HIDE DEF cp
<1>8. AnchorValid(a, given.trust, v.rotatedIn)
  <2>1. CASE a.kind = "logbook"
    BY <2>1 DEF AnchorValid
  <2>2. CASE a.kind = "file"
    <3>1. /\ a.cp = cp
          /\ \A s \in a.cosignatures : s.by = Witness /\ s.of = Bytes(cp)
          /\ \A s \in a.attestations : s.by = Boundary /\ s.size = cp.body.size /\ s.root = cp.body.root
      BY <1>7, <2>2, FileAnchorIs
    <3>2. cp.key \in Trust.ledger \cup v.rotatedIn /\ Witness \in Trust.witness /\ Boundary \in Trust.boundary
      BY <1>5 DEF Trust
    <3>3. cp.type = "checkpoint" /\ cp.body = [size |-> a.size, root |-> a.root] /\ cp.seq = a.size
      BY <1>2, <1>4, <1>7 DEF cp
    <3> QED BY <1>4, <1>6, <1>7, <3>1, <3>2, <3>3 DEF AnchorValid
  <2> QED BY <1>7, <2>1, <2>2
<1>9. ~ (Len(rs) < Covered(a))
  BY <1>1, <1>4, <1>7 DEF Covered
<1>10. a.root = RootOf(Accumulate([k \in 1 .. a.size |-> LeafOf(rs[k])]))
  BY <1>1, <1>4, <1>7, PrefixRoot
<1>11. a.kind = "file" => Bytes(rs[a.size + 1]) = Bytes(a.cp)
  BY <1>3, <1>7 DEF cp
<1> QED BY <1>8, <1>9, <1>10, <1>11 DEF CheckAnchor

LEMMA AnchorsPass ==
  ASSUME NEW rs, Honest(rs), NEW v, Walked(v, rs, Len(rs)), NEW given, given.trust = Trust,
         Len(given.anchors) \in Nat, \A i \in 1 .. Len(given.anchors) : AnchorOf(given.anchors[i], rs)
  PROVE  CheckAnchors(v, rs, given) = v
<1> DEFINE len == Len(given.anchors)
<1>1. PICK after : /\ after[0] = v
                   /\ \A n \in 1 .. len : after[n] = CheckAnchor(after[n - 1], given.anchors[n], rs, given)
                   /\ CheckAnchors(v, rs, given) = after[len]
  BY AnchorsUnfold
<1> DEFINE J == {n \in Nat : n <= len => after[n] = v}
<1>2. 0 \in J
  BY <1>1
<1>3. ASSUME NEW n \in Nat, n \in J PROVE n + 1 \in J
  <2> SUFFICES ASSUME n + 1 <= len PROVE after[n + 1] = v
    OBVIOUS
  <2>1. n + 1 \in 1 .. len /\ (n + 1) - 1 = n
    OBVIOUS
  <2>2. after[n + 1] = CheckAnchor(v, given.anchors[n + 1], rs, given)
    BY <1>1, <1>3, <2>1
  <2>3. AnchorOf(given.anchors[n + 1], rs)
    BY <2>1
  <2> QED BY <2>2, <2>3, AnchorPasses
<1>4. \A n \in Nat : n \in J
  <2>1. \A n \in Nat : n \in J => n + 1 \in J
    BY <1>3
  <2> HIDE DEF J
  <2> QED BY <1>2, <2>1, Induct
<1> QED BY <1>1, <1>4

\* Inputs and payloads that were not given, and outputs that name themselves.
LEMMA InferenceKept ==
  ASSUME NEW rs, Honest(rs), NEW n \in Nat, n < Len(rs), NEW v, NEW given,
         given.inputs = <<>>, given.payloads = <<>>
  PROVE  CheckInference(v, rs, n, given) = v
<1> DEFINE row == rs[n + 1]
<1>1. Placed(rs, n)
  <2>1. Len(rs) \in Nat
    BY AppendSeq DEF Honest
  <2> QED BY <2>1 DEF Honest
<1>2. CASE ~ (n \in v.sealedOk /\ row.type = "inference")
  BY <1>2 DEF CheckInference
<1>3. CASE n \in v.sealedOk /\ row.type = "inference"
  <2>1. row.body.output.ref = row.body.output.decision /\ row.body.output.raw = row.body.output.decision
    BY <1>1, <1>3 DEF Placed, Fits
  <2> HIDE DEF row
  <2>2. DOMAIN <<>> = {}
    OBVIOUS
  <2>3. CheckInput(v, row, n, <<>>) = v
    BY <2>2 DEF CheckInput
  <2>4. CheckPayloads(v, row, n, <<>>) = v
    BY <2>1, <2>2 DEF CheckPayloads
  <2>5. CheckInference(v, rs, n, given) = CheckPayloads(CheckInput(v, row, n, given.inputs), row, n, given.payloads)
    BY <1>3 DEF CheckInference, row
  <2> QED BY <2>3, <2>4, <2>5
<1> QED BY <1>2, <1>3

\* What the verifier is given of a ledger nobody changed.
Fair(given, rs) ==
  /\ given.trust = Trust /\ given.manifest = <<>> /\ given.expected = <<>>
  /\ given.inputs = <<>> /\ given.payloads = <<>>
  /\ Len(given.anchors) \in Nat
  /\ \A i \in 1 .. Len(given.anchors) : AnchorOf(given.anchors[i], rs)

LEMMA VerifiedMild ==
  ASSUME NEW rs, Honest(rs), Len(rs) > 0, NEW given, Fair(given, rs)
  PROVE  Verified(rs, given).findings \in Seq(Milds)
<1> DEFINE v == Walk(rs, given)
<1>1. Len(rs) \in Nat /\ rs # <<>>
  <2>1. Len(rs) \in Nat
    BY AppendSeq DEF Honest
  <2> QED BY <2>1, NoRowsSeq
<1>2. Walked(v, rs, Len(rs))
  BY WalkPasses DEF Fair
<1> HIDE DEF v
<1>3. CheckAnchors(v, rs, given) = v
  BY <1>2, AnchorsPass DEF Fair
<1>4. CheckCount(v, rs, given.expected) = v
  BY DEF CheckCount, Fair
<1>5. PICK after : /\ after[0] = CheckCount(CheckAnchors(v, rs, given), rs, given.expected)
                   /\ \A n \in 1 .. Len(rs) : after[n] = CheckInference(after[n - 1], rs, n - 1, given)
                   /\ Finish(v, rs, given) = after[Len(rs)]
  BY <1>1, FinishUnfolds
<1> DEFINE J == {n \in Nat : n <= Len(rs) => after[n] = v}
<1>6. 0 \in J
  BY <1>3, <1>4, <1>5
<1>7. ASSUME NEW n \in Nat, n \in J PROVE n + 1 \in J
  <2> SUFFICES ASSUME n + 1 <= Len(rs) PROVE after[n + 1] = v
    OBVIOUS
  <2>1. n + 1 \in 1 .. Len(rs) /\ (n + 1) - 1 = n /\ n < Len(rs)
    BY <1>1
  <2>2. after[n + 1] = CheckInference(v, rs, n, given)
    BY <1>5, <1>7, <2>1
  <2> QED BY <2>1, <2>2, InferenceKept DEF Fair
<1>8. \A n \in Nat : n \in J
  <2>1. \A n \in Nat : n \in J => n + 1 \in J
    BY <1>7
  <2> HIDE DEF J
  <2> QED BY <1>6, <2>1, Induct
<1>9. Finish(v, rs, given) = v
  BY <1>1, <1>5, <1>8
<1>10. Verified(rs, given) = v
  BY <1>1, <1>9 DEF Verified, v
<1> QED BY <1>2, <1>10 DEF Walked, Known, Kept

\* Findings that accuse nobody raise no alarm, and quarantine nothing.
LEMMA MildIsQuiet ==
  ASSUME NEW fs, fs \in Seq(Milds)
  PROVE  /\ ~Alarm(fs)
         /\ \A f \in Range(ScanFindings(fs, <<>>)) : f.disposition # "QUARANTINE"
<1>1. DOMAIN fs = 1 .. Len(fs) /\ Len(fs) \in Nat /\ \A i \in 1 .. Len(fs) : fs[i] \in Milds
  OBVIOUS
<1>2. ASSUME NEW f \in Milds
      PROVE  (f.severity = "info" /\ f.class \in {"model_swap", "clock_regression"})
             \/ (f.severity = "low" /\ f.class = "degraded_gap")
  <2>1. PICK c \in Mildly : \E p \in Nat : f = [class |-> c[1], position |-> p, severity |-> c[2], folded |-> 0]
    BY DEF Milds
  <2>2. f.class = c[1] /\ f.severity = c[2]
    BY <2>1
  <2> QED BY <2>2 DEF Mildly
<1>3. ~Alarm(fs)
  BY <1>1, <1>2 DEF Alarm, Alarming
<1> DEFINE ms == [i \in DOMAIN fs |-> Mapped(fs[i])]
           S == {Mapped(fs[i]) : i \in DOMAIN fs}
           last == Summary(<<>>)
<1>4. ms \in Seq(S) /\ Len(ms) = Len(fs)
  <2>1. ms \in [1 .. Len(fs) -> S]
    BY <1>1
  <2> HIDE DEF ms, S
  <2> QED BY <1>1, <2>1
<1>5. Range(Append(ms, last)) \subseteq S \cup {last}
  <2>1. Append(ms, last) \in Seq(S \cup {last})
    <3>1. ms \in Seq(S \cup {last})
      <4> HIDE DEF ms, S, last
      <4> QED BY <1>4
    <3> HIDE DEF ms, S, last
    <3> QED BY <3>1
  <2> DEFINE all == Append(ms, last)
             T == S \cup {last}
  <2> HIDE DEF all, T
  <2>2. all \in Seq(T)
    BY <2>1 DEF all, T
  <2>3. \A i \in DOMAIN all : all[i] \in T
    BY <2>2
  <2>4. Range(all) \subseteq T
    BY <2>3 DEF Range
  <2> QED BY <2>4 DEF all, T
<1>6. last.disposition = "ACCEPT"
  BY DEF Summary
<1>7. ASSUME NEW f \in S PROVE f.disposition # "QUARANTINE"
  <2>1. PICK i \in DOMAIN fs : f = Mapped(fs[i])
    OBVIOUS
  <2>2. f.disposition = Provisional(fs[i].severity)
    BY <2>1 DEF Mapped
  <2>3. fs[i].severity \in {"info", "low"}
    BY <1>1, <1>2
  <2> QED BY <2>2, <2>3 DEF Provisional
<1>8. ScanFindings(fs, <<>>) = Append(ms, last)
  BY DEF ScanFindings
<1> HIDE DEF ms, S, last
<1> QED BY <1>3, <1>5, <1>6, <1>7, <1>8

LEMMA HonestChain ==
  ASSUME NEW rs, Honest(rs), Len(rs) > 0
  PROVE  ChainOk(rs, Trust.ledger)
<1>1. Len(rs) \in Nat /\ rs # <<>>
  <2>1. Len(rs) \in Nat
    BY AppendSeq DEF Honest
  <2> QED BY <2>1, NoRowsSeq
<1>2. ASSUME NEW n \in 0 .. Len(rs) - 1 PROVE CheckRecord(rs, n, Trust.ledger)
  <2> DEFINE row == rs[n + 1]
  <2>1. Placed(rs, n) /\ n \in Nat
    BY <1>1 DEF Honest
  <2>2. row.key = ActiveAt(rs, n)
    <3>1. CASE n = 0
      <4>1. Rotations(rs, 0) = {}
        BY DEF Rotations
      <4>2. ActiveAt(rs, 0) = rs[1].key
        BY <4>1, ActiveIs
      <4> QED BY <3>1, <4>2
    <3>2. CASE n # 0
      BY <2>1, <3>2 DEF Placed
    <3> QED BY <3>1, <3>2
  <2>3. n = 0 => row.key \in Trust.ledger
    BY <2>1 DEF Placed, Trust
  <2>4. row.type = "key_rotation" => PopValid(row)
    BY <2>1 DEF Placed, Fits, PopValid
  <2>5. /\ row.form = "ok" /\ row.seq = n /\ (row.type = "genesis") = (n = 0) /\ SignedBy(row, row.key)
        /\ n > 0 => row.prev = Link(rs[n])
    BY <2>1 DEF Placed, Fits
  <2> QED BY <2>2, <2>3, <2>4, <2>5 DEF CheckRecord
<1> QED BY <1>1, <1>2 DEF ChainOk

-----------------------------------------------------------------------------
\* The life of the ledger: honest rows, a cache that has some of their nodes,
\* anchors of their checkpoints.

OfCheckpoint(a, rs) == \E i \in 1 .. Len(rs) : rs[i].type = "checkpoint" /\ a = BuildAnchor(rs[i])

Prefixed(ls, rs) ==
  IsSeq(ls) /\ Len(ls) <= Len(rs) /\ \A i \in 1 .. Len(ls) : ls[i] = LeafOf(rs[i])

Cached == Partly(nodes, Leaves(rows), Len(rows))

Anchoring ==
  /\ IsFiniteSet(DOMAIN files)
  /\ \A p \in DOMAIN files : files[p] # Partial => OfCheckpoint(files[p], rows)
  /\ export.stage # "none" => OfCheckpoint(export.anchor, rows)

CleanReport ==
  report.scenario = "clean" => report.findings \in Seq(Milds) /\ report.chainOk

Field ==
  /\ boot = 0 /\ clock \in Nat
  /\ (file = "ledger") = (rows # <<>>)
  /\ Honest(rows)
  /\ Cached
  /\ leaves # None => Prefixed(leaves, rows)
  /\ Anchoring
  /\ CleanReport

LEMMA FieldIsClean == Field => HonestIsClean
BY MildIsQuiet DEF Field, CleanReport, HonestIsClean

-----------------------------------------------------------------------------
\* Every ledger in the field is one that nobody changed.

\* A larger tree has more nodes, so that their number tells its size.
LEMMA TreesNest ==
  ASSUME NEW m \in Nat, NEW n \in Nat, m <= n
  PROVE  TreeNodes(m) \subseteq TreeNodes(n)
<1> SUFFICES ASSUME NEW at \in TreeNodes(m) PROVE at \in TreeNodes(n)
  OBVIOUS
<1> DEFINE l == at[1]
           i == at[2]
<1>1. l \in 0 .. m /\ i \in 0 .. m /\ i < Shr(m, l) /\ at = <<l, i>>
  BY DEF TreeNodes
<1>2. l \in Nat /\ i \in Nat /\ l \in 0 .. n /\ i \in 0 .. n
  BY <1>1
<1> HIDE DEF l, i
<1>3. (i + 1) * Pow2[l] <= m
  BY <1>1, <1>2, ShrBelow
<1>4. (i + 1) * Pow2[l] <= n
  <2> DEFINE x == (i + 1) * Pow2[l]
  <2>1. x \in Nat
    <3>1. Pow2[l] \in Nat
      BY <1>2, Pow2Positive
    <3> QED BY <1>2, <3>1
  <2> HIDE DEF x
  <2>2. x <= m
    BY <1>3 DEF x
  <2>3. x <= n
    BY <2>1, <2>2
  <2> QED BY <2>3 DEF x
<1>5. i < Shr(n, l)
  BY <1>2, <1>4, ShrBelow
<1>6. at[1] = l /\ at[2] = i /\ at \in (0 .. n) \X (0 .. n)
  BY <1>1, <1>2
<1> QED BY <1>5, <1>6 DEF TreeNodes

LEMMA PeaksWithin ==
  ASSUME NEW n \in Nat
  PROVE  Peaks(n) \subseteq TreeNodes(n)
<1> SUFFICES ASSUME NEW k \in 0 .. n, Shr(n, k) % 2 = 1 PROVE <<k, Shr(n, k) - 1>> \in TreeNodes(n)
  BY DEF Peaks
<1> DEFINE a == Shr(n, k)
           p == Pow2[k]
<1>0. k \in Nat /\ a % 2 = 1
  OBVIOUS
<1>1. a \in Nat /\ a * p <= n /\ p \in Nat /\ p > k
  <2>1. a \in Nat /\ a * p <= n
    BY <1>0, ShrRange, Zenon
  <2>2. p \in Nat /\ p > k
    BY <1>0, Pow2Positive, Zenon
  <2> QED BY <2>1, <2>2
<1> HIDE DEF a, p
<1>2. a % 2 = 1
  BY <1>0
<1>3. a - 1 \in Nat /\ a - 1 < a
  BY <1>1, <1>2
<1>4. a <= a * p /\ a * p \in Nat
  BY <1>1
<1>5. a - 1 \in 0 .. n
  BY <1>1, <1>3, <1>4
<1> QED BY <1>3, <1>5 DEF TreeNodes, a

LEMMA TreeFinite ==
  ASSUME NEW n \in Nat
  PROVE  IsFiniteSet(TreeNodes(n)) /\ NodeCount(n) \in Nat
<1>1. IsFiniteSet(0 .. n)
  BY FS_Interval
<1>2. IsFiniteSet((0 .. n) \X (0 .. n))
  BY <1>1, FS_Product
<1>3. TreeNodes(n) \in SUBSET ((0 .. n) \X (0 .. n))
  BY DEF TreeNodes
<1>4. IsFiniteSet(TreeNodes(n))
  BY <1>2, <1>3, FS_Subset
<1> QED BY <1>4, FS_CardinalityType DEF NodeCount

-----------------------------------------------------------------------------
\* What grows with the rows.

\* A cache with as many nodes as the rows make has them all.
LEMMA CachedWhole ==
  ASSUME Honest(rows), Cached, CountsUp
  PROVE  IsStore(nodes, Leaves(rows), Len(rows))
<1> DEFINE n == Len(rows)
<1>1. n \in Nat
  BY AppendSeq DEF Honest
<1>2. IsFiniteSet(TreeNodes(n))
  <2> HIDE DEF n
  <2> QED BY <1>1, TreeFinite
<1>3. DOMAIN nodes \in SUBSET TreeNodes(n) /\ Cardinality(DOMAIN nodes) = Cardinality(TreeNodes(n))
  BY DEF Cached, Partly, CountsUp, NodeCount
<1>4. DOMAIN nodes = TreeNodes(n)
  <2> HIDE DEF n
  <2> QED BY <1>2, <1>3, FS_Subset
<1> QED BY <1>4 DEF Cached, Partly, Holds, IsStore

LEMMA FieldAppends ==
  ASSUME Shape, Field, NEW type, NEW body, NEW durably, AppendTyped(type, body, durably),
         Fits(rows, Len(rows), type, Active, body)
  PROVE  /\ Backed(rows', nodes') /\ Len(rows) \in Nat /\ Len(rows) > 0 /\ Len(rows') > Len(rows)
         /\ Agree(rows, rows', Len(rows))
         /\ rows'[Len(rows) + 1].type = type /\ rows'[Len(rows) + 1].body = body
<1>1. rows # <<>> /\ boot = 0 /\ clock \in Nat /\ Appendable(type, body)
  BY DEF AppendTyped, Shape, Field
<1>2. Len(rows) > 0
  BY <1>1, OnlyEmpty DEF Shape, Shaped
<1>3. Backed(rows, nodes)
  BY DEF Field, Cached, Backed
<1> DEFINE after == After(type, body)
<1>4. /\ Backed(after.rows, after.nodes) /\ Len(after.rows) > Len(rows) /\ Len(rows) \in Nat
      /\ Agree(rows, after.rows, Len(rows))
      /\ after.rows[Len(rows) + 1].type = type /\ after.rows[Len(rows) + 1].body = body
  BY <1>1, <1>2, <1>3, BackedAppends
<1>5. rows' = after.rows /\ nodes' = after.nodes
  BY DEF AppendTyped
<1> HIDE DEF after
<1> QED BY <1>2, <1>4, <1>5

LEMMA CheckpointStays ==
  ASSUME NEW rs, NEW ts, NEW a, OfCheckpoint(a, rs), Len(rs) \in Nat, Len(ts) \in Nat,
         Len(rs) <= Len(ts), Agree(rs, ts, Len(rs))
  PROVE  OfCheckpoint(a, ts)
<1>1. PICK i \in 1 .. Len(rs) : rs[i].type = "checkpoint" /\ a = BuildAnchor(rs[i])
  BY DEF OfCheckpoint
<1>2. i \in 1 .. Len(ts) /\ ts[i] = rs[i]
  BY DEF Agree
<1> QED BY <1>1, <1>2 DEF OfCheckpoint

LEMMA PrefixStays ==
  ASSUME NEW rs, NEW ts, NEW ls, Prefixed(ls, rs), Len(rs) \in Nat, Len(ts) \in Nat,
         Len(rs) <= Len(ts), Agree(rs, ts, Len(rs))
  PROVE  Prefixed(ls, ts)
<1>1. IsSeq(ls) /\ Len(ls) \in Nat /\ Len(ls) <= Len(rs) /\ \A i \in 1 .. Len(ls) : ls[i] = LeafOf(rs[i])
  BY AppendSeq DEF Prefixed
<1>2. ASSUME NEW i \in 1 .. Len(ls) PROVE ls[i] = LeafOf(ts[i])
  <2>1. i \in 1 .. Len(rs)
    BY <1>1
  <2> QED BY <1>1, <2>1 DEF Agree
<1> QED BY <1>1, <1>2 DEF Prefixed

\* The parts of Field that the rows make.
Rows == Honest(rows) /\ Cached /\ boot = 0 /\ clock \in Nat /\ (file = "ledger") = (rows # <<>>)

Taken == leaves # None => Prefixed(leaves, rows)

LEMMA FieldParts == Field <=> Rows /\ Taken /\ Anchoring /\ CleanReport
BY DEF Field, Rows, Taken

\* An append of what fits, the rest unchanged.
LEMMA AppendField ==
  ASSUME Shape, Field, NEW type, NEW body, NEW durably, AppendTyped(type, body, durably), Aside,
         Fits(rows, Len(rows), type, Active, body)
  PROVE  /\ Rows' /\ Taken' /\ CleanReport'
         /\ Honest(rows') /\ Len(rows') > Len(rows) /\ Len(rows) \in Nat /\ Len(rows') \in Nat
         /\ Agree(rows, rows', Len(rows))
<1>1. /\ Backed(rows', nodes') /\ Len(rows) \in Nat /\ Len(rows) > 0 /\ Len(rows') > Len(rows)
      /\ Agree(rows, rows', Len(rows))
  BY FieldAppends
<1>2. Honest(rows') /\ IsSeq(rows') /\ Len(rows') \in Nat /\ Partly(nodes', Leaves(rows'), Len(rows'))
  BY <1>1, AppendSeq DEF Backed, Honest
<1>3. Cached'
  <2>1. Leaves(rows)' = Leaves(rows')
    BY DEF Leaves
  <2> QED BY <1>2, <2>1 DEF Cached, Partly, Holds
<1>4. rows' # <<>>
  BY <1>1, <1>2, NoRowsSeq
<1>5. Rows'
  <2>1. file' = "ledger" /\ boot' = 0 /\ clock' \in Nat
    BY DEF AppendTyped, Aside, Field
  <2>2. Honest(rows)'
    BY <1>2 DEF Honest, Placed, Fits, LastAt
  <2> QED BY <1>3, <1>4, <2>1, <2>2 DEF Rows
<1>6. Taken'
  <2>1. leaves' = leaves
    BY DEF Aside
  <2>2. leaves # None => Prefixed(leaves, rows')
    BY <1>1, <1>2, PrefixStays DEF Field
  <2>3. Prefixed(leaves, rows)' = Prefixed(leaves', rows')
    BY DEF Prefixed
  <2> QED BY <2>1, <2>2, <2>3 DEF Taken
<1>7. CleanReport'
  BY DEF Aside, Field, CleanReport
<1> QED BY <1>1, <1>2, <1>5, <1>6, <1>7

-----------------------------------------------------------------------------
\* Each append says what fits.

LEMMA Numbered ==
  ASSUME Shape, file = "ledger"
  PROVE  /\ Len(rows) \in Nat /\ Len(rows) > 0 /\ DOMAIN rows = 1 .. Len(rows)
         /\ \A i \in 1 .. Len(rows) : rows[i].seq = i - 1
BY OnlyEmpty, AppendSeq DEF Shape, Shaped

LEMMA RegisterFits ==
  ASSUME Shape, file = "ledger", NEW w
  PROVE  Fits(rows, Len(rows), "model_registration", Active, [model |-> Model(w)])
BY Numbered DEF Fits, Model

LEMMA MarkFits ==
  ASSUME Shape, file = "ledger", NEW body
  PROVE  Fits(rows, Len(rows), "degraded_marker", Active, body)
BY Numbered DEF Fits

LEMMA RotateFits ==
  ASSUME Shape, file = "ledger"
  PROVE  Fits(rows, Len(rows), "key_rotation", Active, RotationBody(Len(rows)))
<1> DEFINE new == Keys[(CHOOSE i \in DOMAIN Keys : Keys[i] = Active) + 1]
<1>1. RotationBody(Len(rows)) = [new |-> new, pop |-> RotationProof(new, Len(rows) + 1, Active)]
  BY DEF RotationBody
<1> HIDE DEF new
<1>2. RotationBody(Len(rows)).pop = RotationProof(RotationBody(Len(rows)).new, Len(rows) + 1, Active)
  BY <1>1
<1> QED BY <1>2, Numbered DEF Fits

LEMMA LastModelIs ==
  ASSUME Shape, file = "ledger", Registrations # {}
  PROVE  \E j \in 1 .. Len(rows) : LastAt(rows, Len(rows), j) /\ LastModel = rows[j].body.model
<1> DEFINE j == CHOOSE i \in Registrations : \A k \in Registrations : k <= i
<1>1. Len(rows) \in Nat /\ DOMAIN rows = 1 .. Len(rows)
  BY Numbered
<1>2. Registrations \in SUBSET (0 .. Len(rows))
  BY <1>1 DEF Registrations
<1>3. j \in Registrations /\ \A k \in Registrations : k <= j
  BY <1>1, <1>2, Greatest
<1>4. LastModel = rows[j].body.model
  BY DEF LastModel
<1> HIDE DEF j
<1>5. ASSUME NEW k \in j + 1 .. Len(rows) PROVE rows[k].type # "model_registration"
  <2>1. j \in Nat /\ k \in 1 .. Len(rows) /\ ~ (k <= j)
    BY <1>1, <1>2, <1>3
  <2> QED BY <1>1, <1>3, <2>1 DEF Registrations
<1>6. j \in 1 .. Len(rows) /\ rows[j].type = "model_registration"
  BY <1>1, <1>3 DEF Registrations
<1> QED BY <1>4, <1>5, <1>6 DEF LastAt

LEMMA InferFits ==
  ASSUME Shape, file = "ledger", Registrations # {}, NEW out, NEW input
  PROVE  Fits(rows, Len(rows), "inference", Active,
              [model |-> LastModel, input |-> input, output |-> [decision |-> out, raw |-> out, ref |-> out]])
<1> DEFINE body == [model |-> LastModel, input |-> input, output |-> [decision |-> out, raw |-> out, ref |-> out]]
<1>1. /\ body.model = LastModel
      /\ body.output.ref = body.output.decision /\ body.output.raw = body.output.decision
  OBVIOUS
<1> HIDE DEF body
<1>2. \E j \in 1 .. Len(rows) : LastAt(rows, Len(rows), j) /\ body.model = rows[j].body.model
  BY <1>1, LastModelIs
<1>3. Fits(rows, Len(rows), "inference", Active, body)
  BY <1>1, <1>2, Numbered DEF Fits
<1> QED BY <1>3 DEF body

LEMMA PrepareFits ==
  ASSUME Shape, file = "ledger", Backed(rows, nodes), HasRoot(nodes, Len(rows))
  PROVE  Fits(rows, Len(rows), "checkpoint", Active, [size |-> Len(rows), root |-> StoreRoot(nodes, Len(rows))])
<1>1. StoreRoot(nodes, Len(rows)) = RangeOf(Leaves(rows), 0, Len(rows))
  <2> DEFINE n == Len(rows)
  <2>1. n \in Nat /\ n # 0 /\ Holds(nodes, Leaves(rows)) /\ HasRoot(nodes, n)
    BY Numbered DEF Backed, Partly
  <2> HIDE DEF n
  <2>2. StoreRoot(nodes, n) = RangeOf(Leaves(rows), 0, n)
    BY <2>1, PeaksAnswer
  <2> QED BY <2>2 DEF n
<1> QED BY <1>1, Numbered DEF Fits

LEMMA RecordFits ==
  ASSUME Shape, file = "ledger", NEW a, OfCheckpoint(a, rows)
  PROVE  Fits(rows, Len(rows), "anchor_event", Active, [cpSeq |-> a.cp.seq, size |-> a.size, root |-> a.root])
<1>1. PICK j \in 1 .. Len(rows) : rows[j].type = "checkpoint" /\ a = BuildAnchor(rows[j])
  BY DEF OfCheckpoint
<1>2. a.cp.seq = j - 1 /\ a.size = rows[j].body.size /\ a.root = rows[j].body.root
  BY <1>1, Numbered DEF BuildAnchor
<1> DEFINE body == [cpSeq |-> a.cp.seq, size |-> a.size, root |-> a.root]
<1>3. body.cpSeq = j - 1 /\ body.size = rows[j].body.size /\ body.root = rows[j].body.root
  BY <1>2
<1> HIDE DEF body
<1>4. Fits(rows, Len(rows), "anchor_event", Active, body)
  BY <1>1, <1>3, Numbered DEF Fits
<1> QED BY <1>4 DEF body

\* The newest checkpoint, which an export may use again.
LEMMA LatestIs ==
  ASSUME Shape, file = "ledger", Reusable
  PROVE  OfCheckpoint(BuildAnchor(rows[Latest]), rows)
<1>1. Len(rows) \in Nat /\ DOMAIN rows = 1 .. Len(rows)
  BY Numbered
<1>2. Checkpoints \in SUBSET (0 .. Len(rows)) /\ Checkpoints # {}
  BY <1>1 DEF Checkpoints, Reusable
<1>3. Latest \in Checkpoints
  BY <1>1, <1>2, Greatest DEF Latest
<1> QED BY <1>1, <1>3 DEF Checkpoints, OfCheckpoint

-----------------------------------------------------------------------------
\* The cache from nothing.

LEMMA NoNodes == TreeNodes(0) = {} /\ \A tree : IsStore(<<>>, tree, 0)
<1>1. ASSUME NEW at \in TreeNodes(0) PROVE FALSE
  <2> DEFINE l == at[1]
             i == at[2]
  <2>1. l \in Nat /\ i \in Nat /\ i < Shr(0, l)
    BY <1>1 DEF TreeNodes
  <2> HIDE DEF l, i
  <2>2. (i + 1) * Pow2[l] <= 0
    BY <2>1, ShrBelow
  <2>3. Pow2[l] \in Nat /\ Pow2[l] > 0
    BY <2>1, Pow2Positive
  <2>4. (i + 1) * Pow2[l] >= Pow2[l] /\ (i + 1) * Pow2[l] \in Nat
    BY <2>1, <2>3
  <2> QED BY <2>2, <2>3, <2>4
<1>2. DOMAIN <<>> = {}
  OBVIOUS
<1>3. TreeNodes(0) = {}
  BY <1>1
<1> QED BY <1>2, <1>3 DEF IsStore

RebuiltTurn(ls, f, n) == IF n = 0 THEN <<>> ELSE AddLeaf(f[n - 1], n - 1, ls[n])

RebuiltRec == INSTANCE Recursion WITH Turn <- RebuiltTurn

LEMMA RebuiltUnfolds ==
  ASSUME NEW ls, Len(ls) \in Nat
  PROVE  \E store : /\ store[0] = <<>>
                    /\ \A n \in 1 .. Len(ls) : store[n] = AddLeaf(store[n - 1], n - 1, ls[n])
                    /\ Rebuilt(ls) = store[Len(ls)]
<1> DEFINE len == Len(ls)
           turn(f, n) == IF n = 0 THEN <<>> ELSE AddLeaf(f[n - 1], n - 1, ls[n])
           store == CHOOSE f : f = [n \in 0 .. len |-> IF n = 0 THEN <<>> ELSE AddLeaf(f[n - 1], n - 1, ls[n])]
<1>1. \E f : f = [n \in 0 .. len |-> turn(f, n)]
  <2>1. RebuiltRec!Local(ls, Nat)
    BY DEF RebuiltRec!Local, RebuiltTurn
  <2>2. \E f : RebuiltRec!Solves(f, ls, 0 .. len)
    <3> HIDE DEF len
    <3> QED BY <2>1, RebuiltRec!Prefixes DEF len
  <2> QED BY <2>2 DEF RebuiltRec!Solves, RebuiltTurn
<1>2. store = [n \in 0 .. len |-> turn(store, n)]
  BY <1>1
<1>3. Rebuilt(ls) = store[len]
  BY DEF Rebuilt
<1> HIDE DEF store
<1>4. \A n \in 0 .. len : store[n] = turn(store, n)
  <2> HIDE DEF turn
  <2> QED BY <1>2
<1>5. store[0] = <<>>
  <2>1. 0 \in 0 .. len
    OBVIOUS
  <2> QED BY <1>4, <2>1
<1>6. \A n \in 1 .. len : store[n] = AddLeaf(store[n - 1], n - 1, ls[n])
  <2>1. \A n \in 1 .. len : n \in 0 .. len /\ n # 0
    OBVIOUS
  <2> HIDE DEF len
  <2> QED BY <1>4, <2>1
<1> QED BY <1>3, <1>5, <1>6

\* rebuild_merkle_cache over leaves read before others were appended makes the
\* cache of those it read.
LEMMA RebuiltIs ==
  ASSUME NEW rs, IsSeq(rs), NEW ls, Prefixed(ls, rs)
  PROVE  Len(ls) \in 0 .. Len(rs) /\ IsStore(Rebuilt(ls), Leaves(rs), Len(ls))
<1> DEFINE len == Len(ls)
<1>1. len \in Nat /\ Len(rs) \in Nat /\ len <= Len(rs)
  BY AppendSeq DEF Prefixed
<1>2. PICK store : /\ store[0] = <<>>
                   /\ \A n \in 1 .. len : store[n] = AddLeaf(store[n - 1], n - 1, ls[n])
                   /\ Rebuilt(ls) = store[len]
  BY <1>1, RebuiltUnfolds
<1> DEFINE J == {n \in Nat : n <= len => IsStore(store[n], Leaves(rs), n)}
<1>3. 0 \in J
  BY <1>2, NoNodes
<1>4. ASSUME NEW n \in Nat, n \in J PROVE n + 1 \in J
  <2> SUFFICES ASSUME n + 1 <= len PROVE IsStore(store[n + 1], Leaves(rs), n + 1)
    OBVIOUS
  <2>1. n + 1 \in 1 .. len /\ (n + 1) - 1 = n /\ n + 1 \in 1 .. Len(rs)
    BY <1>1
  <2>2. store[n + 1] = AddLeaf(store[n], n, ls[n + 1])
    BY <1>2, <2>1
  <2>3. ls[n + 1] = Leaves(rs)[n + 1]
    BY <2>1, LeavesAre DEF Prefixed
  <2>4. IsStore(store[n], Leaves(rs), n)
    BY <1>4, <2>1
  <2> QED BY <2>2, <2>3, <2>4, AddLeafGrows
<1>5. \A n \in Nat : n \in J
  <2>1. \A n \in Nat : n \in J => n + 1 \in J
    BY <1>4
  <2> HIDE DEF J
  <2> QED BY <1>3, <2>1, Induct
<1> QED BY <1>1, <1>2, <1>5

-----------------------------------------------------------------------------
\* The steps.

LEMMA InitField == Init => Field
<1> SUFFICES ASSUME Init PROVE Field
  OBVIOUS
<1>1. rows = <<>> /\ nodes = <<>> /\ IsSeq(rows) /\ Len(rows) = 0
  BY NoRowsSeq DEF Init
<1>2. Honest(rows)
  BY <1>1 DEF Honest
<1>3. Cached
  BY <1>1, NoNodes DEF Cached, Partly, Holds, IsStore
<1>4. DOMAIN files = {} /\ IsFiniteSet({})
  BY FS_EmptySet DEF Init
<1>5. Anchoring
  BY <1>4 DEF Init, Anchoring, Idle
<1>6. CleanReport
  BY DEF Init, NoReport, CleanReport
<1> QED BY <1>1, <1>2, <1>3, <1>5, <1>6 DEF Init, Field

LEMMA GenesisField ==
  ASSUME Shape, Field, WriteGenesis
  PROVE  Field'
<1>1. rows = <<>> /\ file = "created" /\ file' = "ledger"
      /\ UNCHANGED <<boot, clock, files, export, leaves, report>>
  BY DEF Shape, WriteGenesis
<1>2. IsSeq(rows) /\ Len(rows) = 0
  BY <1>1, NoRowsSeq
<1>3. Backed(rows, nodes) /\ CanAdd(nodes, Len(rows))
  <2>1. Siblings(0) = {}
    <3>1. ASSUME NEW k \in 0 .. 0, Completes(0, k + 1) PROVE FALSE
      <4>1. 0 \in 0 .. (k + 1) - 1 /\ 0 % 2 = 0
        OBVIOUS
      <4>2. Shr(0, 0) = 0
        BY ShrUnfolds
      <4> QED BY <3>1, <4>1, <4>2 DEF Completes
    <3> QED BY <3>1 DEF Siblings
  <2>2. CanAdd(nodes, 0)
    BY <2>1 DEF CanAdd
  <2> QED BY <1>2, <2>2 DEF Backed, Cached, Field
<1> DEFINE type == "genesis"
           s == Sealed(rows, Keys[1], type, Unit)
<1>4. Fits(rows, Len(rows), type, Keys[1], Unit)
  BY <1>2 DEF Fits
<1>5. Backed(s, AddLeaf(nodes, Len(s) - 1, LeafOf(s[Len(s)]))) /\ Len(s) = 1
  <2> HIDE DEF type
  <2>1. Keys[1] = IF Len(rows) = 0 THEN Keys[1] ELSE ActiveAt(rows, Len(rows))
    BY <1>2
  <2>2. boot = 0 /\ clock \in Nat
    BY DEF Field
  <2> DEFINE u == Unit
  <2> HIDE DEF u
  <2>3. /\ Backed(s, AddLeaf(nodes, Len(s) - 1, LeafOf(s[Len(s)])))
        /\ Len(s) = Len(rows) + 1
    BY <1>3, <1>4, <2>1, <2>2, BackedGrows
  <2> QED BY <1>2, <2>3
<1>6. rows' = s /\ nodes' = AddLeaf(nodes, 0, LeafOf(s[1]))
  BY <1>1 DEF WriteGenesis
<1> HIDE DEF s
<1>7. Backed(rows', nodes') /\ Len(rows') = 1
  BY <1>5, <1>6
<1>8. Cached'
  <2>1. Leaves(rows)' = Leaves(rows')
    BY DEF Leaves
  <2> QED BY <1>7, <2>1 DEF Cached, Backed, Partly, Holds
<1>9. rows' # <<>>
  BY <1>7, NoRowsSeq
<1>10. Len(rows) \in Nat /\ Len(rows') \in Nat /\ Len(rows) <= Len(rows') /\ Agree(rows, rows', Len(rows))
  BY <1>2, <1>7 DEF Agree
<1>11. Taken'
  <2>1. leaves # None => Prefixed(leaves, rows')
    BY <1>10, PrefixStays DEF Field
  <2> QED BY <1>1, <2>1 DEF Taken
<1>12. Anchoring'
  BY <1>1, <1>10, CheckpointStays DEF Field, Anchoring
<1>13. CleanReport'
  BY <1>1 DEF Field, CleanReport
<1>14. Rows'
  BY <1>1, <1>7, <1>8, <1>9 DEF Rows, Backed, Field
<1> QED BY <1>11, <1>12, <1>13, <1>14 DEF Field, Rows, Taken

\* Nothing was appended, written or reported.
LEMMA QuietField ==
  ASSUME Field, UNCHANGED <<rows, nodes, boot, leaves, report>>, clock' \in Nat,
         (file' = "ledger") = (file = "ledger")
  PROVE  Rows' /\ Taken' /\ CleanReport'
<1>1. Honest(rows)'
  <2>1. Honest(rows) /\ UNCHANGED rows
    BY DEF Field
  <2> QED BY <2>1 DEF Honest, Placed, Fits, LastAt, Leaves
<1>2. boot' = 0 /\ clock' \in Nat /\ ((file = "ledger") = (rows # <<>>))'
  BY DEF Field
<1>3. Cached'
  BY DEF Field, Cached, Partly, Holds, Leaves
<1>4. Taken'
  BY DEF Field, Taken, Prefixed
<1>5. CleanReport'
  BY DEF Field, CleanReport
<1> QED BY <1>1, <1>2, <1>3, <1>4, <1>5 DEF Rows

LEMMA AppendedField ==
  ASSUME Shape, Field, NEW type, NEW body, NEW durably, AppendTyped(type, body, durably), Aside, UNCHANGED export,
         Fits(rows, Len(rows), type, Active, body)
  PROVE  Field'
<1>1. /\ Rows' /\ Taken' /\ CleanReport' /\ Honest(rows') /\ Len(rows') > Len(rows)
      /\ Len(rows) \in Nat /\ Len(rows') \in Nat /\ Agree(rows, rows', Len(rows))
  BY AppendField
<1>2. Anchoring'
  <2>1. UNCHANGED <<files, export>>
    BY DEF Aside
  <2> QED BY <1>1, <2>1, CheckpointStays DEF Field, Anchoring
<1> QED BY <1>1, <1>2 DEF Field, Rows, Taken

LEMMA PrepareField ==
  ASSUME Shape, Field, PrepareAnchor
  PROVE  Field'
<1>1. file = "ledger" /\ Aside
  BY DEF PrepareAnchor
<1>2. CASE Reusable
  <2>1. /\ UNCHANGED <<rows, nodes, synced>>
        /\ export' = [stage |-> "prepared", anchor |-> BuildAnchor(rows[Latest])]
    BY <1>2 DEF PrepareAnchor
  <2>2. OfCheckpoint(export'.anchor, rows)
    BY <1>1, <1>2, <2>1, LatestIs
  <2>3. Anchoring'
    BY <1>1, <2>1, <2>2 DEF Field, Anchoring, Aside, OfCheckpoint
  <2>4. Rows' /\ Taken' /\ CleanReport'
    BY <1>1, <2>1, QuietField DEF Aside, Field
  <2> QED BY <2>3, <2>4 DEF Field, Rows, Taken
<1>3. CASE ~Reusable
  <2> DEFINE type == "checkpoint"
             body == [size |-> Len(rows), root |-> StoreRoot(nodes, Len(rows))]
             durably == TRUE
  <2>1. /\ AppendTyped(type, body, durably)
        /\ export' = [stage |-> "prepared", anchor |-> BuildAnchor(rows'[Len(rows')])]
    BY <1>3 DEF PrepareAnchor
  <2>2. Backed(rows, nodes) /\ HasRoot(nodes, Len(rows))
    BY <1>3 DEF Field, Backed, Cached, PrepareAnchor
  <2>3. Fits(rows, Len(rows), type, Active, body)
    BY <1>1, <2>2, PrepareFits
  <2>4. Len(rows') = Len(rows) + 1
    <3>1. ~Due(type)
      BY DEF Due
    <3>2. IsSeq(rows)
      BY DEF Field, Honest
    <3> HIDE DEF type, body, durably
    <3>3. rows' = After(type, body).rows
      BY <2>1 DEF AppendTyped
    <3>4. After(type, body).rows = Sealed(rows, Active, type, body)
      BY <3>1, AfterIs
    <3> QED BY <3>2, <3>3, <3>4, SealedLength
  <2>5. rows'[Len(rows')].type = "checkpoint"
    <3>1. rows'[Len(rows) + 1].type = type
      <4> HIDE DEF type, body, durably
      <4> QED BY <2>1, <2>3, FieldAppends
    <3> QED BY <2>4, <3>1
  <2> HIDE DEF type, body, durably
  <2>6. /\ Rows' /\ Taken' /\ CleanReport' /\ Honest(rows') /\ Len(rows') > Len(rows)
        /\ Len(rows) \in Nat /\ Len(rows') \in Nat /\ Agree(rows, rows', Len(rows))
    BY <1>1, <2>1, <2>3, AppendField
  <2>7. OfCheckpoint(export'.anchor, rows')
    <3>1. Len(rows') \in 1 .. Len(rows')
      BY <2>6
    <3>2. export'.anchor = BuildAnchor(rows'[Len(rows')])
      BY <2>1
    <3> QED BY <2>5, <3>1, <3>2 DEF OfCheckpoint
  <2>8. Anchoring'
    <3>1. files' = files
      BY <1>1 DEF Aside
    <3> QED BY <2>6, <2>7, <3>1, CheckpointStays DEF Field, Anchoring
  <2> QED BY <2>6, <2>8 DEF Field, Rows, Taken
<1> QED BY <1>2, <1>3

LEMMA RecordField ==
  ASSUME Shape, Field, RecordAnchor
  PROVE  Field'
<1> DEFINE type == "anchor_event"
           a == export.anchor
           body == [cpSeq |-> a.cp.seq, size |-> a.size, root |-> a.root]
           durably == TRUE
<1>1. export.stage = "written" /\ AppendTyped(type, body, durably) /\ export' = Idle /\ Aside
  BY DEF RecordAnchor
<1>2. file = "ledger"
  BY <1>1 DEF AppendTyped
<1>3. OfCheckpoint(a, rows)
  BY <1>1 DEF Field, Anchoring
<1>4. Fits(rows, Len(rows), type, Active, body)
  <2> HIDE DEF a
  <2> QED BY <1>2, <1>3, RecordFits
<1> HIDE DEF type, body, durably
<1>5. /\ Rows' /\ Taken' /\ CleanReport' /\ Honest(rows') /\ Len(rows') > Len(rows)
      /\ Len(rows) \in Nat /\ Len(rows') \in Nat /\ Agree(rows, rows', Len(rows))
  BY <1>1, <1>4, AppendField
<1>6. Anchoring'
  <2>1. files' = files /\ export'.stage = "none"
    BY <1>1 DEF Aside, Idle
  <2> QED BY <1>5, <2>1, CheckpointStays DEF Field, Anchoring
<1> QED BY <1>5, <1>6 DEF Field, Rows, Taken

LEMMA FilesField ==
  ASSUME Shape, Field, (\E p \in Paths : CreateAnchor(p) \/ RefuseAnchor(p)) \/ WriteAnchor
  PROVE  Field'
<1>1. UNCHANGED <<file, rows, nodes, boot, clock, leaves, report>>
  BY DEF CreateAnchor, CreateAnywhere, RefuseAnchor, WriteAnchor
<1>2. Rows' /\ Taken' /\ CleanReport'
  BY <1>1, QuietField DEF Field
<1>3. Anchoring'
  <2>1. CASE \E p \in Paths : CreateAnchor(p)
    <3>1. PICK p \in Paths : CreateAnchor(p)
      BY <2>1
    <3>2. /\ export.stage = "prepared" /\ export'.stage = "created" /\ export'.anchor = export.anchor
          /\ files' = [q \in DOMAIN files \cup {p} |-> IF q = p THEN Partial ELSE files[q]]
      BY <3>1 DEF CreateAnchor, CreateAnywhere
    <3>3. IsFiniteSet(DOMAIN files \cup {p})
      BY FS_AddElement DEF Field, Anchoring
    <3>4. DOMAIN files' = DOMAIN files \cup {p} /\ files'[p] = Partial
          /\ \A q \in DOMAIN files : q # p => files'[q] = files[q]
      BY <3>2
    <3> QED BY <1>1, <3>2, <3>3, <3>4 DEF Field, Anchoring, OfCheckpoint
  <2>2. CASE \E p \in Paths : RefuseAnchor(p)
    BY <1>1, <2>2 DEF RefuseAnchor, Idle, Field, Anchoring, OfCheckpoint
  <2>3. CASE WriteAnchor
    <3>1. /\ export.stage = "created" /\ export'.stage = "written" /\ export'.anchor = export.anchor
          /\ files' = [files EXCEPT ![export.path] = export.anchor]
      BY <2>3 DEF WriteAnchor
    <3>2. DOMAIN files' = DOMAIN files
          /\ \A q \in DOMAIN files : files'[q] = files[q] \/ files'[q] = export.anchor
      BY <3>1
    <3> QED BY <1>1, <3>1, <3>2 DEF Field, Anchoring, OfCheckpoint
  <2>4. (\E p \in Paths : CreateAnchor(p) \/ RefuseAnchor(p))
         <=> (\E p \in Paths : CreateAnchor(p)) \/ (\E p \in Paths : RefuseAnchor(p))
    OBVIOUS
  <2> QED BY <2>1, <2>2, <2>3, <2>4
<1> QED BY <1>2, <1>3 DEF Field, Rows, Taken

LEMMA LeavesArePrefix ==
  ASSUME NEW rs, IsSeq(rs)
  PROVE  Prefixed(Leaves(rs), rs)
<1>1. Len(rs) \in Nat
  BY AppendSeq
<1> QED BY <1>1, LeavesAre DEF Prefixed

LEMMA RebuildField ==
  ASSUME Shape, Field, RebuildRead \/ RebuildWrite \/ Crash
  PROVE  Field'
<1>1. UNCHANGED <<file, rows, boot, clock, files, report>>
  BY DEF RebuildRead, RebuildWrite, Crash
<1>2. Anchoring' /\ CleanReport'
  BY <1>1 DEF RebuildRead, RebuildWrite, Crash, Idle, Field, Anchoring, CleanReport, OfCheckpoint
<1>3. IsSeq(rows)
  BY DEF Field, Honest
<1>4. Honest(rows)' /\ boot' = 0 /\ clock' \in Nat /\ ((file = "ledger") = (rows # <<>>))'
  BY <1>1 DEF Field, Honest, Placed, Fits, LastAt, Leaves
<1>5. CASE RebuildRead
  <2>1. nodes' = nodes /\ leaves' = Leaves(rows)
    BY <1>5 DEF RebuildRead
  <2>2. Prefixed(leaves', rows)
    BY <1>3, <2>1, LeavesArePrefix
  <2>3. Taken'
    BY <1>1, <2>2 DEF Taken, Prefixed
  <2>4. Cached'
    BY <1>1, <2>1 DEF Cached, Partly, Holds, Field, Leaves
  <2> QED BY <1>2, <1>4, <2>3, <2>4 DEF Field, Taken
<1>6. CASE RebuildWrite
  <2>1. leaves # None /\ leaves' = None /\ nodes' = Rebuilt(leaves)
    BY <1>6 DEF RebuildWrite
  <2>2. Prefixed(leaves, rows)
    BY <2>1 DEF Field
  <2>3. Len(leaves) \in 0 .. Len(rows) /\ IsStore(nodes', Leaves(rows), Len(leaves))
    BY <1>3, <2>1, <2>2, RebuiltIs
  <2>4. Cached'
    <3>1. Leaves(rows)' = Leaves(rows) /\ rows' = rows
      BY <1>1 DEF Leaves
    <3>2. TreeNodes(Len(leaves)) \subseteq TreeNodes(Len(rows))
      <4>1. Len(rows) \in Nat
        BY <1>3, AppendSeq
      <4>2. Len(leaves) \in Nat /\ Len(leaves) <= Len(rows)
        BY <2>3, <4>1
      <4> QED BY <4>1, <4>2, TreesNest
    <3> QED BY <2>3, <3>1, <3>2 DEF Cached, Partly, Holds, IsStore
  <2>5. Taken'
    BY <2>1 DEF Taken
  <2> QED BY <1>2, <1>4, <2>4, <2>5 DEF Field, Taken
<1>7. CASE Crash
  <2>1. nodes' = nodes /\ leaves' = None
    BY <1>7 DEF Crash
  <2>2. Cached'
    BY <1>1, <2>1 DEF Cached, Partly, Holds, Field, Leaves
  <2>3. Taken'
    BY <2>1 DEF Taken
  <2> QED BY <1>2, <1>4, <2>2, <2>3 DEF Field, Taken
<1> QED BY <1>5, <1>6, <1>7

-----------------------------------------------------------------------------
\* The examination of a ledger nobody changed.

LEMMA SeqOfSet ==
  ASSUME NEW S, IsFiniteSet(S)
  PROVE  Len(SetToSeq(S)) \in Nat /\ \A i \in 1 .. Len(SetToSeq(S)) : SetToSeq(S)[i] \in S
<1>1. Cardinality(S) \in Nat /\ ExistsBijection(1 .. Cardinality(S), S)
  BY FS_CardinalityType
<1>2. PICK f \in Bijection(1 .. Cardinality(S), S) : TRUE
  BY <1>1 DEF ExistsBijection
<1>3. f \in [1 .. Cardinality(S) -> S] /\ IsInjective(f)
  BY <1>2 DEF Bijection, Injection
<1> DEFINE s == SetToSeq(S)
<1>4. s \in [1 .. Cardinality(S) -> S]
  BY <1>3 DEF SetToSeq
<1> HIDE DEF s
<1>5. Len(s) = Cardinality(S) /\ \A i \in 1 .. Cardinality(S) : s[i] \in S
  <2>1. s \in Seq(S)
    BY <1>1, <1>4
  <2> QED BY <1>1, <1>4, <2>1
<1> QED BY <1>1, <1>5 DEF s

LEMMA WrittenAre ==
  ASSUME Field
  PROVE  /\ IsFiniteSet(Written)
         /\ \A a \in Written : OfCheckpoint(a, rows)
<1> DEFINE D == {q \in DOMAIN files : files[q] # Partial}
           f == [p \in D |-> files[p]]
<1>1. IsFiniteSet(D)
  <2>1. D \in SUBSET (DOMAIN files) /\ IsFiniteSet(DOMAIN files)
    BY DEF Field, Anchoring
  <2> HIDE DEF D
  <2> QED BY <2>1, FS_Subset
<1>2. f \in Surjection(D, Written)
  BY DEF Surjection, Written
<1>3. IsFiniteSet(Written)
  <2> HIDE DEF D, f
  <2> QED BY <1>1, <1>2, FS_Surjection
<1> QED BY <1>3 DEF Written, Field, Anchoring

LEMMA ImageFinite ==
  ASSUME NEW S, IsFiniteSet(S), NEW f, DOMAIN f = S
  PROVE  IsFiniteSet({f[x] : x \in S})
<1> DEFINE T == {f[x] : x \in S}
           g == [x \in S |-> f[x]]
<1>1. g \in Surjection(S, T)
  BY DEF Surjection
<1> HIDE DEF T, g
<1>2. IsFiniteSet(T)
  BY <1>1, FS_Surjection
<1> QED BY <1>2 DEF T

LEMMA GivenIsFair ==
  ASSUME Field, NEW kind \in Kinds
  PROVE  Fair(Given(kind), rows)
<1> DEFINE as == Anchors(kind)
<1>1. Given(kind).anchors = as /\ Given(kind).trust = Trust /\ Given(kind).manifest = <<>>
      /\ Given(kind).expected = <<>> /\ Given(kind).inputs = <<>> /\ Given(kind).payloads = <<>>
  BY DEF Given
<1>2. Len(as) \in Nat /\ \A i \in 1 .. Len(as) : AnchorOf(as[i], rows)
  <2>1. CASE kind = "none"
    <3>1. as = <<>> /\ Len(<<>>) = 0
      BY <2>1 DEF Anchors
    <3> QED BY <3>1
  <2>2. CASE kind = "file"
    <3> DEFINE f == [a \in Written |-> Attest(Cosign(a, Witness), Boundary)]
               S == {f[a] : a \in Written}
    <3>1. IsFiniteSet(S)
      <4>1. DOMAIN f = Written
        OBVIOUS
      <4> HIDE DEF f
      <4> QED BY <4>1, ImageFinite, WrittenAre
    <3>2. as = SetToSeq(S)
      <4>1. S = {Attest(Cosign(a, Witness), Boundary) : a \in Written}
        OBVIOUS
      <4> HIDE DEF S
      <4> QED BY <2>2, <4>1 DEF Anchors
    <3>3. \A b \in S : AnchorOf(b, rows)
      <4> SUFFICES ASSUME NEW a \in Written PROVE AnchorOf(Attest(Cosign(a, Witness), Boundary), rows)
        OBVIOUS
      <4>1. PICK i \in 1 .. Len(rows) : rows[i].type = "checkpoint" /\ a = BuildAnchor(rows[i])
        BY WrittenAre DEF OfCheckpoint
      <4> QED BY <4>1 DEF AnchorOf, FileAnchor
    <3> HIDE DEF S, as
    <3> QED BY <3>1, <3>2, <3>3, SeqOfSet
  <2>3. CASE kind = "logbook"
    <3> DEFINE f == [a \in Written |-> LogbookAnchor(a)]
               S == {f[a] : a \in Written}
    <3>1. IsFiniteSet(S)
      <4>1. DOMAIN f = Written
        OBVIOUS
      <4> HIDE DEF f
      <4> QED BY <4>1, ImageFinite, WrittenAre
    <3>2. as = SetToSeq(S)
      <4>1. S = {LogbookAnchor(a) : a \in Written}
        OBVIOUS
      <4> HIDE DEF S
      <4> QED BY <2>3, <4>1 DEF Anchors
    <3>3. \A b \in S : AnchorOf(b, rows)
      <4> SUFFICES ASSUME NEW a \in Written PROVE AnchorOf(LogbookAnchor(a), rows)
        OBVIOUS
      <4>1. PICK i \in 1 .. Len(rows) : rows[i].type = "checkpoint" /\ a = BuildAnchor(rows[i])
        BY WrittenAre DEF OfCheckpoint
      <4> QED BY <4>1 DEF AnchorOf
    <3> HIDE DEF S, as
    <3> QED BY <3>1, <3>2, <3>3, SeqOfSet
  <2> QED BY <2>1, <2>2, <2>3 DEF Kinds
<1> HIDE DEF as
<1> QED BY <1>1, <1>2 DEF Fair

LEMMA NothingSupplied ==
  ASSUME NEW given, NEW rs, Fair(given, rs),
         DOMAIN given = {"trust", "anchors", "expected", "payloads", "manifest", "inputs"}
  PROVE  Fair(Supplied(given, <<>>), rs)
<1> DEFINE g == Supplied(given, <<>>)
<1>1. DOMAIN <<>> = {}
  OBVIOUS
<1>2. g = [f \in DOMAIN given |-> given[f]]
  BY <1>1 DEF Supplied
<1>3. /\ g.trust = given.trust /\ g.anchors = given.anchors /\ g.expected = given.expected
      /\ g.payloads = given.payloads /\ g.manifest = given.manifest /\ g.inputs = given.inputs
  BY <1>2
<1> HIDE DEF g
<1> QED BY <1>3 DEF Fair, g

LEMMA CleanCase ==
  ASSUME Field, Len(rows) > 0, NEW case \in AsItIs
  PROVE  Report(case).findings \in Seq(Milds) /\ Report(case).chainOk
<1>1. PICK kind \in Kinds : case = <<"clean", 0, kind, Result(rows, "db", <<>>, TRUE)>>
  BY DEF AsItIs
<1> DEFINE result == Result(rows, "db", <<>>, TRUE)
           given == Supplied(Given(kind), <<>>)
<1>2. result.rows = rows /\ result.with = <<>>
  BY DEF Result
<1>3. Fair(given, rows)
  <2>1. DOMAIN Given(kind) = {"trust", "anchors", "expected", "payloads", "manifest", "inputs"}
    BY DEF Given
  <2> QED BY <2>1, GivenIsFair, NothingSupplied
<1>4. Honest(rows)
  BY DEF Field
<1>5. Verified(rows, given).findings \in Seq(Milds)
  <2> HIDE DEF given
  <2> QED BY <1>3, <1>4, VerifiedMild
<1>6. ChainOk(rows, Trust.ledger)
  BY <1>4, HonestChain
<1>7. case[3] = kind /\ case[4] = result
  BY <1>1
<1> HIDE DEF result
<1>8. Report(case).findings = Verified(rows, given).findings /\ Report(case).chainOk = ChainOk(rows, Trust.ledger)
  BY <1>2, <1>7 DEF Report
<1> QED BY <1>5, <1>6, <1>8

LEMMA ScenarioNames ==
  ASSUME NEW k, NEW case \in Scenarios(k)
  PROVE  case[1] # "clean"
<1>1. CASE case \in Anchored(k)
  BY <1>1 DEF Anchored
<1>2. CASE case \in OneRow(k)
  BY <1>2 DEF OneRow
<1>3. CASE case \in BeforeTheLast(k)
  BY <1>3 DEF BeforeTheLast
<1>4. CASE case \in OfInference(k)
  BY <1>4 DEF OfInference
<1>5. CASE case \in OfRegistration(k)
  BY <1>5 DEF OfRegistration
<1>6. CASE case \in TwoRows(k)
  <2>1. CASE \E j \in Inferences(rows) : case = <<"T11", k, "none", T11(rows, j, k)>>
    BY <2>1
  <2>2. CASE \E j \in 1 .. k - 1 : case \in {<<"T5a", k, "none", T5a(rows, j, k)>>, <<"T5b", k, "none", T5b(rows, j, k)>>}
    BY <2>2
  <2> DEFINE J == {i \in 1 .. k - 1 : i = k - 1 \/ {i, k} \subseteq Inferences(rows)}
             L == {p \in Inferences(rows) : p < k /\ k \in Inferences(rows)}
             swaps == UNION {{<<"T5a", k, "none", T5a(rows, j, k)>>, <<"T5b", k, "none", T5b(rows, j, k)>>} : j \in J}
             copies == {<<"T11", k, "none", T11(rows, j, k)>> : j \in L}
  <2>3. TwoRows(k) = swaps \cup copies
    BY DEF TwoRows
  <2>4. case \in swaps => case[1] # "clean"
    BY <2>2
  <2>5. case \in copies => case[1] # "clean"
    BY <2>1
  <2> HIDE DEF swaps, copies
  <2> QED BY <1>6, <2>3, <2>4, <2>5
<1>7. CASE case \in AtTheTip
  BY <1>7 DEF AtTheTip
<1>8. \/ case \in Anchored(k) \/ case \in OneRow(k) \/ case \in BeforeTheLast(k) \/ case \in OfInference(k)
      \/ case \in OfRegistration(k) \/ case \in TwoRows(k) \/ case \in AtTheTip
  BY DEF Scenarios
<1> QED BY <1>1, <1>2, <1>3, <1>4, <1>5, <1>6, <1>7, <1>8

LEMMA ExamineField ==
  ASSUME Shape, Field, NEW k \in Positions, Examine(k) \/ ExamineRecompute(k)
  PROVE  Field'
<1>1. UNCHANGED <<file, rows, synced, nodes, clock, boot, files, export, leaves, events>>
  BY DEF Examine, ExamineRecompute
<1>2. Rows' /\ Taken' /\ Anchoring'
  <2>1. Honest(rows)' /\ boot' = 0 /\ clock' \in Nat /\ ((file = "ledger") = (rows # <<>>))'
    BY <1>1 DEF Field, Honest, Placed, Fits, LastAt, Leaves
  <2>2. Cached'
    BY <1>1 DEF Field, Cached, Partly, Holds, Leaves
  <2>3. Taken'
    BY <1>1 DEF Field, Taken, Prefixed
  <2>4. Anchoring'
    BY <1>1 DEF Field, Anchoring, OfCheckpoint
  <2> QED BY <2>1, <2>2, <2>3, <2>4 DEF Rows
<1>3. CleanReport'
  <2>1. CASE Examine(k)
    <3>1. PICK case \in (IF k = 0 THEN AsItIs ELSE {}) \cup (IF Quiet THEN Scenarios(k) ELSE {}) :
            report' = Report(case)
      BY <2>1 DEF Examine
    <3>2. Report(case).scenario = case[1]
      BY DEF Report
    <3>3. CASE case \in AsItIs
      <4>1. Len(rows) \in Nat /\ 0 .. Len(rows) - 1 # {}
        BY AppendSeq DEF Field, Honest, Positions
      <4>2. Len(rows) > 0
        BY <4>1
      <4> QED BY <3>1, <3>3, <4>2, CleanCase DEF CleanReport
    <3>4. CASE case \notin AsItIs
      <4>1. case \in Scenarios(k)
        BY <3>1, <3>4
      <4> QED BY <3>1, <3>2, <4>1, ScenarioNames DEF CleanReport
    <3> QED BY <3>3, <3>4
  <2>2. CASE ExamineRecompute(k)
    <3>1. report'.scenario = "recompute"
      BY <2>2 DEF ExamineRecompute
    <3> QED BY <3>1 DEF CleanReport
  <2> QED BY <2>1, <2>2
<1> QED BY <1>2, <1>3 DEF Field, Rows, Taken

LEMMA StepField ==
  ASSUME Shape, Field, Next
  PROVE  Field'
<1>1. CASE Create
  <2>1. UNCHANGED <<rows, nodes, boot, clock, leaves, report, files, export>> /\ file = "absent" /\ file' = "created"
    BY <1>1 DEF Create
  <2>2. Rows' /\ Taken' /\ CleanReport'
    BY <2>1, QuietField DEF Field
  <2>3. Anchoring'
    BY <2>1 DEF Field, Anchoring, OfCheckpoint
  <2> QED BY <2>2, <2>3 DEF Field, Rows, Taken
<1>2. CASE WriteGenesis
  BY <1>2, GenesisField
<1>3. CASE \E w \in Weights : Register(w)
  <2>1. PICK w \in Weights : Register(w)
    BY <1>3
  <2> DEFINE type == "model_registration"
             body == [model |-> Model(w)]
             durably == TRUE
  <2>2. AppendTyped(type, body, durably) /\ Aside /\ UNCHANGED export
    BY <2>1 DEF Register
  <2>3. Fits(rows, Len(rows), type, Active, body)
    BY <2>2, RegisterFits DEF AppendTyped
  <2> HIDE DEF type, body, durably
  <2> QED BY <2>2, <2>3, AppendedField
<1>4. CASE Infer
  <2> DEFINE type == "inference"
             n == Len(rows)
             out == <<"output", n>>
             input == <<"input", n>>
             body == [model |-> LastModel, input |-> input, output |-> [decision |-> out, raw |-> out, ref |-> out]]
             durably == FALSE
  <2>1. AppendTyped(type, body, durably) /\ Aside /\ UNCHANGED export /\ Registrations # {}
    BY <1>4 DEF Infer
  <2>2. Fits(rows, Len(rows), type, Active, body)
    <3>1. file = "ledger"
      BY <2>1 DEF AppendTyped
    <3> HIDE DEF out, input
    <3> QED BY <2>1, <3>1, InferFits
  <2> HIDE DEF type, body, durably
  <2> QED BY <2>1, <2>2, AppendedField
<1>5. CASE Mark
  <2> DEFINE type == "degraded_marker"
             body == <<>>
             durably == FALSE
  <2>1. AppendTyped(type, body, durably) /\ Aside /\ UNCHANGED export
    BY <1>5 DEF Mark
  <2>2. Fits(rows, Len(rows), type, Active, body)
    <3>1. file = "ledger"
      BY <2>1 DEF AppendTyped
    <3> HIDE DEF body
    <3> QED BY <3>1, MarkFits
  <2> HIDE DEF type, body, durably
  <2> QED BY <2>1, <2>2, AppendedField
<1>6. CASE Rotate
  <2> DEFINE type == "key_rotation"
             body == RotationBody(Len(rows))
             durably == TRUE
  <2>1. AppendTyped(type, body, durably) /\ Aside /\ UNCHANGED export /\ file = "ledger"
    BY <1>6 DEF Rotate
  <2>2. Fits(rows, Len(rows), type, Active, body)
    BY <2>1, RotateFits
  <2> HIDE DEF type, body, durably
  <2> QED BY <2>1, <2>2, AppendedField
<1>7. CASE ClockBack
  <2>1. UNCHANGED <<file, rows, nodes, boot, leaves, report, files, export>> /\ clock' = 0
    BY <1>7 DEF ClockBack
  <2>2. Rows' /\ Taken' /\ CleanReport'
    BY <2>1, QuietField DEF Field
  <2>3. Anchoring'
    BY <2>1 DEF Field, Anchoring, OfCheckpoint
  <2> QED BY <2>2, <2>3 DEF Field, Rows, Taken
<1>8. CASE PrepareAnchor
  BY <1>8, PrepareField
<1>9. CASE WriteAnchor \/ \E p \in Paths : CreateAnchor(p) \/ RefuseAnchor(p)
  BY <1>9, FilesField
<1>10. CASE RecordAnchor
  BY <1>10, RecordField
<1>11. CASE RebuildRead \/ RebuildWrite \/ Crash
  BY <1>11, RebuildField
<1>12. CASE \E k \in Positions : Examine(k) \/ ExamineRecompute(k)
  BY <1>12, ExamineField
<1> QED BY <1>1, <1>2, <1>3, <1>4, <1>5, <1>6, <1>7, <1>8, <1>9, <1>10, <1>11, <1>12 DEF Next

LEMMA UntouchedField ==
  ASSUME Field, UNCHANGED vars
  PROVE  Field'
<1>1. UNCHANGED <<file, rows, nodes, boot, clock, leaves, report, files, export>>
  BY DEF vars
<1>2. Rows' /\ Taken' /\ CleanReport'
  BY <1>1, QuietField DEF Field
<1>3. Anchoring'
  BY <1>1 DEF Field, Anchoring, OfCheckpoint
<1> QED BY <1>2, <1>3 DEF Field, Rows, Taken

\* While the power does not fail, every ledger is one that nobody changed: the
\* invariant the next theorems rest on.
THEOREM FieldHolds == Spec => []Field
<1>1. Init => Field
  BY InitField
<1>2. Init => Shape
  BY InitShape
<1>3. Shape /\ [Next]_vars => Shape'
  <2> SUFFICES ASSUME Shape, [Next]_vars PROVE Shape'
    OBVIOUS
  <2>1. [Next \/ PowerFails]_vars
    OBVIOUS
  <2> QED BY <2>1, EveryShape
<1>4. Shape /\ Field /\ [Next]_vars => Field'
  BY StepField, UntouchedField
<1> QED BY <1>1, <1>2, <1>3, <1>4, PTL DEF Spec

\* No false alarm, for any history of any length: whatever was registered,
\* sealed, rotated, anchored, rebuilt or cut short, and in whatever order, the
\* rows as they are verify clean with no anchor, with the anchor files as the
\* parties signed them and with the logbook, and pass the SDK's own chain check.
THEOREM NoFalseAlarm == Spec => []HonestIsClean
BY FieldHolds, FieldIsClean, PTL

\* The cache answers as the records do, for any number of them: with every root
\* it has the nodes for, and with every proof once it counts up.
LEMMA FieldIsTree == Field => CacheIsTree
<1> SUFFICES ASSUME Field, Len(rows) > 0
             PROVE  LET n == Len(rows) IN
                    /\ \A m \in 1 .. n :
                         HasRoot(nodes, m) => StoreRoot(nodes, m) = MTH(Leaves(SubSeq(rows, 1, m)))
                    /\ CountsUp => HasRoot(nodes, n)
                    /\ CountsUp => \A i \in 0 .. n - 1 :
                         VerifyInclusion(LeafOf(rows[i + 1]), i, n, InclusionProof(nodes, i, n), StoreRoot(nodes, n))
                    /\ CountsUp => \A m \in 1 .. n :
                         VerifyConsistency(m, n, StoreRoot(nodes, m), StoreRoot(nodes, n), ConsistencyProof(nodes, m, n))
  BY DEF CacheIsTree
<1> DEFINE n == Len(rows)
           tree == Leaves(rows)
<1>1. Honest(rows) /\ Holds(nodes, tree) /\ (CountsUp => IsStore(nodes, tree, n))
  BY CachedWhole DEF Field, Cached, Partly
<1>2. n \in Nat /\ Len(tree) = n /\ DOMAIN tree = 1 .. n /\ IsSeq(rows)
  BY <1>1, AppendSeq, LeavesAre DEF Honest
<1>3. \A i \in 1 .. n : tree[i] = LeafOf(rows[i])
  BY <1>2 DEF Leaves
<1>4. ASSUME NEW m \in 1 .. n, HasRoot(nodes, m)
      PROVE  StoreRoot(nodes, m) = MTH(Leaves(SubSeq(rows, 1, m)))
  <2>1. m \in Nat /\ m # 0 /\ m <= n
    BY <1>2
  <2>2. StoreRoot(nodes, m) = RangeOf(tree, 0, m)
    <3> HIDE DEF tree, n
    <3> QED BY <1>1, <1>4, <2>1, PeaksAnswer
  <2>3. MTH(Leaves(SubSeq(rows, 1, m))) = RangeOf(tree, 0, m)
    BY <1>2, <2>1, FirstRoot
  <2> QED BY <2>2, <2>3
<1> SUFFICES ASSUME CountsUp
             PROVE  /\ HasRoot(nodes, n)
                    /\ \A i \in 0 .. n - 1 :
                         VerifyInclusion(LeafOf(rows[i + 1]), i, n, InclusionProof(nodes, i, n), StoreRoot(nodes, n))
                    /\ \A m \in 1 .. n :
                         VerifyConsistency(m, n, StoreRoot(nodes, m), StoreRoot(nodes, n), ConsistencyProof(nodes, m, n))
  BY <1>4
<1> HIDE DEF n, tree
<1>5. \A m \in 1 .. n : StoreRoot(nodes, m) = RangeOf(tree, 0, m)
  <2> SUFFICES ASSUME NEW m \in 1 .. n PROVE StoreRoot(nodes, m) = RangeOf(tree, 0, m)
    OBVIOUS
  <2>1. m \in Nat /\ m <= n /\ m # 0
    BY <1>2
  <2> QED BY <1>1, <1>2, <2>1, StoreRootIsRange
<1>6. n \in 1 .. n
  <2>1. n > 0
    BY DEF n
  <2> QED BY <1>2, <2>1
<1>7. HasRoot(nodes, n)
  BY <1>1, <1>2, PeaksWithin DEF HasRoot, IsStore
<1>8. ASSUME NEW i \in 0 .. n - 1
      PROVE  VerifyInclusion(LeafOf(rows[i + 1]), i, n, InclusionProof(nodes, i, n), StoreRoot(nodes, n))
  <2>1. i \in Nat /\ i < n /\ i + 1 \in 1 .. n
    BY <1>2
  <2>2. VerifyInclusion(tree[i + 1], i, n, InclusionProof(nodes, i, n), RangeOf(tree, 0, n))
    BY <1>1, <1>2, <2>1, InclusionVerifies
  <2> QED BY <1>3, <1>5, <1>6, <2>1, <2>2
<1>9. ASSUME NEW m \in 1 .. n
      PROVE  VerifyConsistency(m, n, StoreRoot(nodes, m), StoreRoot(nodes, n), ConsistencyProof(nodes, m, n))
  <2>1. m \in Nat \ {0} /\ m <= n
    BY <1>2
  <2>2. VerifyConsistency(m, n, RangeOf(tree, 0, m), RangeOf(tree, 0, n), ConsistencyProof(nodes, m, n))
    BY <1>1, <1>2, <2>1, ConsistencyVerifies
  <2> QED BY <1>5, <1>6, <2>2
<1> QED BY <1>7, <1>8, <1>9

\* The cache answers as the records do, for any history of any length and however
\* short rebuilds that overlapped with appends left it: every root it has the
\* nodes for is that of the records; and one that passes the count check on open
\* makes its root, an inclusion proof for every record and a consistency proof for
\* every earlier size, each of which verifies (store.py, merkle.py).
THEOREM CacheAnswers == Spec => []CacheIsTree
BY FieldHolds, FieldIsTree, PTL

-----------------------------------------------------------------------------
\* What the lab makes of an honest ledger.

\* Every ledger the lab makes of an honest one can still be read.
LEMMA HonestReadable ==
  ASSUME NEW rs, Honest(rs)
  PROVE  Readable(rs)
<1> SUFFICES ASSUME NEW i \in 1 .. Len(rs) PROVE Legible(rs[i])
  BY DEF Honest, Readable
<1>1. Len(rs) \in Nat
  BY AppendSeq DEF Honest
<1> DEFINE n == i - 1
           row == rs[i]
<1>2. n \in 0 .. Len(rs) - 1 /\ n + 1 = i /\ n \in Nat
  BY <1>1
<1>3. Placed(rs, n)
  BY <1>2 DEF Honest
<1>4. /\ DOMAIN row = RowFields /\ row.form = "ok" /\ row.seq = n /\ row.at \in Nat
      /\ row.prev = (IF n = 0 THEN Unit ELSE Link(rs[n])) /\ Fits(rs, n, row.type, row.key, row.body)
  BY <1>2, <1>3 DEF Placed
<1>5. row.prev # NoLink
  <2>1. Unit # NoLink
    BY DeploymentAssumption
  <2>2. Link(rs[n]) # NoLink
    BY DEF Link, NoLink
  <2> QED BY <1>4, <2>1, <2>2
<1>6. row.type = "checkpoint" => row.body = [size |-> row.body.size, root |-> row.body.root]
  BY <1>4 DEF Fits
<1> HIDE DEF row
<1>7. Legible(row)
  BY <1>2, <1>4, <1>5, <1>6 DEF Legible
<1> QED BY <1>7 DEF row

-----------------------------------------------------------------------------
\* Every examination of the lab: rows that can be read, anchors that state what
\* their checkpoints say.

\* What a scenario hands to the verifiers besides the rows.
Supplies(with) ==
  \/ with = <<>>
  \/ \E field, value : /\ with = Assign(<<>>, field, value)
                       /\ \/ field \in {"payloads", "manifest", "inputs", "unit"}
                          \/ field = "expected" /\ \E x : value = <<x>>

Tried(result) == Readable(result.rows) /\ Supplies(result.with)

LEMMA PutTried ==
  ASSUME NEW rs, Readable(rs), NEW k \in 0 .. Len(rs) - 1
  PROVE  /\ Tried(T1a(rs, k)) /\ Tried(T2a(rs, k)) /\ Tried(T2b(rs, k))
         /\ Tried(T13(rs, k)) /\ Tried(T14(rs, k)) /\ Tried(T15(rs, k))
<1> DEFINE row == rs[k + 1]
           c == Changed(row.c)
           key == Attacker1
           sig2a == [by |-> Attacker1, c |-> c]
           sig2b == [by |-> Attacker1, c |-> row.c]
           other == "non_canonical_encoding"
           broken == "malformed_record"
           cols == [row.cols EXCEPT !.type = "edited"]
           r2a == [row EXCEPT !.key = key, !.c = c, !.sig = sig2a]
           r2b == [row EXCEPT !.sig = sig2b]
           r13 == [row EXCEPT !.form = other, !.c = c]
           r14 == [row EXCEPT !.form = broken, !.c = c]
           r15 == [row EXCEPT !.cols = cols]
<1>1. Legible(row)
  <2>1. k + 1 \in 1 .. Len(rs)
    BY LegibleOnes
  <2> QED BY <2>1 DEF Readable
<1>2. /\ T1a(rs, k).rows = PutRow(rs, k, Edited(row)) /\ T1a(rs, k).with = <<>>
      /\ T2a(rs, k).rows = PutRow(rs, k, Recol(r2a)) /\ T2a(rs, k).with = <<>>
      /\ T2b(rs, k).rows = PutRow(rs, k, r2b) /\ T2b(rs, k).with = <<>>
      /\ T13(rs, k).rows = PutRow(rs, k, r13) /\ T13(rs, k).with = <<>>
      /\ T14(rs, k).rows = PutRow(rs, k, r14) /\ T14(rs, k).with = <<>>
      /\ T15(rs, k).rows = PutRow(rs, k, r15) /\ T15(rs, k).with = <<>>
  <2>1. DOMAIN row = RowFields
    BY <1>1 DEF Legible
  <2>2. /\ [row EXCEPT !.key = Attacker1, !.c = Changed(@), !.sig = [by |-> Attacker1, c |-> Changed(row.c)]] = r2a
        /\ [row EXCEPT !.sig = [by |-> Attacker1, c |-> row.c]] = r2b
        /\ [row EXCEPT !.form = "non_canonical_encoding", !.c = Changed(@)] = r13
        /\ [row EXCEPT !.form = "malformed_record", !.c = Changed(@)] = r14
        /\ [row EXCEPT !.cols.type = "edited"] = r15
    <3> HIDE DEF row
    <3> QED BY <2>1 DEF RowFields
  <2>3. /\ T1a(rs, k).rows = PutRow(rs, k, Edited(row)) /\ T1a(rs, k).with = <<>>
    BY DEF T1a, Result
  <2>4. /\ T2a(rs, k).rows = PutRow(rs, k, Recol(r2a)) /\ T2a(rs, k).with = <<>>
    BY <2>2 DEF T2a, Result
  <2>5. /\ T2b(rs, k).rows = PutRow(rs, k, r2b) /\ T2b(rs, k).with = <<>>
    BY <2>2 DEF T2b, Result
  <2>6. /\ T13(rs, k).rows = PutRow(rs, k, r13) /\ T13(rs, k).with = <<>>
    BY <2>2 DEF T13, Result
  <2>7. /\ T14(rs, k).rows = PutRow(rs, k, r14) /\ T14(rs, k).with = <<>>
    BY <2>2 DEF T14, Result
  <2>8. /\ T15(rs, k).rows = PutRow(rs, k, r15) /\ T15(rs, k).with = <<>>
    BY <2>2 DEF T15, Result
  <2> QED BY <2>3, <2>4, <2>5, <2>6, <2>7, <2>8
<1>3. other \in {"ok", "malformed_record", "non_canonical_encoding"}
      /\ broken \in {"ok", "malformed_record", "non_canonical_encoding"}
  OBVIOUS
<1> HIDE DEF row, c, key, sig2a, sig2b, other, broken, cols
<1>4. Legible(r2a) /\ Legible(r2b) /\ Legible(r13) /\ Legible(r14) /\ Legible(r15)
  <2>1. Legible(r2a)
    BY <1>1 DEF Legible, RowFields
  <2>2. Legible(r2b)
    BY <1>1 DEF Legible, RowFields
  <2>3. Legible(r13)
    BY <1>1, <1>3 DEF Legible, RowFields
  <2>4. Legible(r14)
    BY <1>1, <1>3 DEF Legible, RowFields
  <2>5. Legible(r15)
    BY <1>1 DEF Legible, RowFields
  <2> QED BY <2>1, <2>2, <2>3, <2>4, <2>5
<1> HIDE DEF r2a, r2b, r13, r14, r15
<1>5. Legible(Edited(row)) /\ Legible(Recol(r2a))
  BY <1>1, <1>4, EditedLegible
<1>6. /\ Readable(PutRow(rs, k, Edited(row))) /\ Readable(PutRow(rs, k, Recol(r2a)))
      /\ Readable(PutRow(rs, k, r2b)) /\ Readable(PutRow(rs, k, r13))
      /\ Readable(PutRow(rs, k, r14)) /\ Readable(PutRow(rs, k, r15))
  BY <1>4, <1>5, PutReadable
<1> QED BY <1>2, <1>6, Zenon DEF Tried, Supplies

\* A copy of a record at the end of an export.
LEMMA CopyTried ==
  ASSUME NEW rs, Readable(rs), NEW k \in 0 .. Len(rs) - 1
  PROVE  Tried(T3a(rs, k)) /\ Tried(T3b(rs, k))
<1> DEFINE xs == Exported(rs)
           row == xs[k + 1]
           n == Len(rs)
           c == Changed(row.c)
           renumbered == [row EXCEPT !.seq = n, !.c = c]
<1>1. Readable(xs) /\ Len(xs) = n /\ n \in Nat
  BY ExportedReadable, LegibleOnes
<1>2. Legible(row)
  <2>1. k + 1 \in 1 .. Len(xs)
    BY <1>1
  <2> HIDE DEF xs
  <2> QED BY <1>1, <2>1 DEF Readable
<1>3. /\ T3a(rs, k).rows = Append(xs, row) /\ T3a(rs, k).with = <<>>
      /\ T3b(rs, k).rows = Append(xs, renumbered) /\ T3b(rs, k).with = <<>>
  <2>1. T3a(rs, k).rows = Append(xs, row) /\ T3a(rs, k).with = <<>>
    BY DEF T3a, Result
  <2>2. [row EXCEPT !.seq = n, !.c = Changed(@)] = renumbered
    <3> HIDE DEF row
    <3> QED BY <1>2 DEF Legible, RowFields
  <2>3. T3b(rs, k).rows = Append(xs, renumbered) /\ T3b(rs, k).with = <<>>
    BY <2>2 DEF T3b, Result
  <2> QED BY <2>1, <2>3
<1> HIDE DEF xs, row, n, c
<1>4. Legible(renumbered)
  BY <1>1, <1>2 DEF Legible, RowFields
<1> HIDE DEF renumbered
<1>5. Readable(Append(xs, row)) /\ Readable(Append(xs, renumbered))
  BY <1>1, <1>2, <1>4, AppendReadable
<1> QED BY <1>3, <1>5, Zenon DEF Tried, Supplies

LEMMA RelinkTried ==
  ASSUME NEW rs, Readable(rs), NEW k \in 0 .. Len(rs) - 1, k + 1 \in 0 .. Len(rs) - 1
  PROVE  Tried(T1c(rs, k))
<1> DEFINE row == rs[k + 1]
           next == rs[k + 2]
           edited == Edited(row)
           prev == Link(edited)
           relinked == [next EXCEPT !.prev = prev]
           once == PutRow(rs, k, edited)
           twice == PutRow(once, k + 1, Edited(relinked))
<1>1. Legible(row) /\ Legible(next)
  <2>1. k + 1 \in 1 .. Len(rs) /\ k + 2 \in 1 .. Len(rs)
    BY LegibleOnes
  <2> QED BY <2>1 DEF Readable
<1>2. T1c(rs, k).rows = twice /\ T1c(rs, k).with = <<>>
  BY DEF T1c, Result
<1>3. prev # NoLink
  BY DEF Link, NoLink
<1> HIDE DEF row, next
<1>4. Legible(edited)
  BY <1>1, EditedLegible
<1> HIDE DEF edited, prev
<1>5. Legible(relinked)
  BY <1>1, <1>3 DEF Legible, RowFields
<1> HIDE DEF relinked
<1>6. Legible(Edited(relinked))
  BY <1>5, EditedLegible
<1>7. Readable(once)
  BY <1>4, PutReadable
<1> HIDE DEF once
<1>8. Readable(twice)
  BY <1>6, <1>7, PutReadable
<1> HIDE DEF twice
<1> QED BY <1>2, <1>8, Zenon DEF Tried, Supplies

LEMMA GoneTried ==
  ASSUME NEW rs, Readable(rs), NEW k \in 0 .. Len(rs) - 1
  PROVE  Tried(T4a(rs, k)) /\ Tried(T4b(rs, k)) /\ Tried(T4c(rs, k))
<1> DEFINE n == Len(rs)
           first == SubSeq(rs, 1, k)
           rest == SubSeq(rs, k + 2, n)
           m == n - k - 1
           after == [i \in 1 .. m |-> Edited([rs[k + 1 + i] EXCEPT !.seq = @ - 1])]
<1>1. n \in Nat /\ k \in 0 .. n /\ k + 2 \in 1 .. n + 1 /\ m \in Nat
  BY LegibleOnes
<1>2. Readable(first)
  BY <1>1, FirstReadable
<1>3. Readable(rest)
  BY <1>1, LastReadable
<1>4. Readable(after)
  <2>1. ASSUME NEW i \in 1 .. m PROVE Legible(Edited([rs[k + 1 + i] EXCEPT !.seq = @ - 1]))
    <3> DEFINE row == rs[k + 1 + i]
               seq == row.seq - 1
               moved == [row EXCEPT !.seq = seq]
    <3>1. Legible(row)
      <4>1. k + 1 + i \in 1 .. n
        BY <1>1
      <4> QED BY <4>1 DEF Readable
    <3> HIDE DEF row
    <3>2. [row EXCEPT !.seq = @ - 1] = moved
      BY <3>1 DEF Legible, RowFields
    <3>3. seq \in Int
      BY <3>1 DEF Legible
    <3> HIDE DEF seq
    <3>4. Legible(moved)
      BY <3>1, <3>3 DEF Legible, RowFields
    <3> HIDE DEF moved
    <3>5. Legible(Edited(moved))
      BY <3>4, EditedLegible
    <3> QED BY <3>2, <3>5 DEF row
  <2>2. after = [i \in 1 .. m |-> after[i]] /\ \A i \in 1 .. m : Legible(after[i])
    BY <2>1
  <2> HIDE DEF after, m
  <2> QED BY <1>1, <2>2, ReadableBy
<1>5. /\ T4a(rs, k).rows = first \o rest /\ T4a(rs, k).with = <<>>
      /\ T4b(rs, k).rows = first \o after /\ T4b(rs, k).with = <<>>
      /\ T4c(rs, k).rows = first /\ T4c(rs, k).with = <<>>
  BY DEF T4a, T4b, T4c, Result
<1> HIDE DEF first, rest, after
<1>6. Readable(first \o rest) /\ Readable(first \o after)
  BY <1>2, <1>3, <1>4, JoinReadable
<1> QED BY <1>2, <1>5, <1>6, Zenon DEF Tried, Supplies

LEMMA SwapTried ==
  ASSUME NEW rs, Readable(rs), NEW j \in 0 .. Len(rs) - 1, NEW k \in 0 .. Len(rs) - 1
  PROVE  Tried(T5a(rs, j, k)) /\ Tried(T5b(rs, j, k))
<1> DEFINE n == Len(rs)
           ys == Swapped(rs, j, k)
           xs == Exported(ys)
           numbered(p) == [xs[p + 1] EXCEPT !.seq = p, !.c = Changed(@)]
           once == PutRow(xs, j, numbered(j))
           twice == PutRow(once, k, numbered(k))
<1>1. n \in Nat /\ j + 1 \in 1 .. n /\ k + 1 \in 1 .. n /\ DOMAIN rs = 1 .. n
  BY LegibleOnes
<1>2. Readable(ys) /\ Len(ys) = n
  <2> DEFINE a == j + 1
             b == k + 1
             x == rs[b]
             y == rs[a]
  <2>1. ys = [rs EXCEPT ![a] = x, ![b] = y]
    BY DEF Swapped
  <2>2. Legible(x) /\ Legible(y)
    BY <1>1 DEF Readable
  <2> HIDE DEF ys, a, b, x, y
  <2>3. ys = [i \in 1 .. n |-> ys[i]] /\ \A i \in 1 .. n : ys[i] \in {x, y, rs[i]}
    BY <1>1, <2>1
  <2>4. \A i \in 1 .. n : Legible(ys[i])
    BY <2>2, <2>3 DEF Readable
  <2> HIDE DEF n
  <2> QED BY <1>1, <2>3, <2>4, ReadableBy
<1> HIDE DEF ys
<1>3. Readable(xs) /\ Len(xs) = n
  BY <1>2, ExportedReadable
<1>4. /\ T5a(rs, j, k).rows = xs /\ T5a(rs, j, k).with = <<>>
      /\ T5b(rs, j, k).rows = twice /\ T5b(rs, j, k).with = <<>>
  BY DEF T5a, T5b, Result, ys
<1> HIDE DEF xs
<1>5. ASSUME NEW p \in 0 .. n - 1 PROVE Legible(numbered(p))
  <2> DEFINE row == xs[p + 1]
             c == Changed(row.c)
             new == [row EXCEPT !.seq = p, !.c = c]
  <2>1. Legible(row)
    <3>1. p + 1 \in 1 .. Len(xs)
      BY <1>1, <1>3
    <3> QED BY <1>3, <3>1 DEF Readable
  <2>2. p \in Int
    BY <1>1
  <2> HIDE DEF row
  <2>3. [row EXCEPT !.seq = p, !.c = Changed(@)] = new
    BY <2>1 DEF Legible, RowFields
  <2> HIDE DEF c
  <2>4. Legible(new)
    BY <2>1, <2>2 DEF Legible, RowFields
  <2> HIDE DEF new
  <2> QED BY <2>3, <2>4 DEF row
<1>6. Legible(numbered(j)) /\ Legible(numbered(k))
  BY <1>5
<1> HIDE DEF numbered
<1>7. Readable(once)
  BY <1>3, <1>6, PutReadable
<1> HIDE DEF once
<1>8. Readable(twice)
  BY <1>6, <1>7, PutReadable
<1> HIDE DEF twice
<1> QED BY <1>3, <1>4, <1>8, Zenon DEF Tried, Supplies

LEMMA BranchTried ==
  ASSUME NEW rs, Readable(rs), NEW k \in 0 .. Len(rs) - 1
  PROVE  Tried(T8(rs, k)) /\ \A j : Tried(T11(rs, j, k))
<1> DEFINE row == rs[k + 1]
<1>1. Legible(row)
  <2>1. k + 1 \in 1 .. Len(rs)
    BY LegibleOnes
  <2> QED BY <2>1 DEF Readable
<1>2. T8(rs, k).rows = Resign(rs, k, row) /\ T8(rs, k).with = <<>>
  BY DEF T8, Result
<1>3. Tried(T8(rs, k))
  <2> HIDE DEF row
  <2>1. Readable(Resign(rs, k, row))
    BY <1>1, ResignIs
  <2> QED BY <1>2, <2>1, Zenon DEF Tried, Supplies
<1>4. ASSUME NEW j PROVE Tried(T11(rs, j, k))
  <2> DEFINE nonce == rs[j + 1].nonce
             first == [row EXCEPT !.nonce = nonce]
             xs == Resign(rs, k, first)
  <2>1. T11(rs, j, k).rows = Exported(xs) /\ T11(rs, j, k).with = <<>>
    BY DEF T11, Result
  <2> HIDE DEF row, nonce
  <2>2. Legible(first)
    BY <1>1 DEF Legible, RowFields
  <2> HIDE DEF first
  <2>3. Readable(xs)
    BY <2>2, ResignIs
  <2> HIDE DEF xs
  <2>4. Readable(Exported(xs))
    BY <2>3, ExportedReadable
  <2> QED BY <2>1, <2>4, Zenon DEF Tried, Supplies
<1> QED BY <1>3, <1>4

\* The rows stay, something beside them is another.
LEMMA BesideTried ==
  ASSUME NEW rs, Readable(rs), NEW k, NEW weights, NEW unsealed
  PROVE  /\ Tried(T1b(rs, k)) /\ Tried(T6(rs, k)) /\ Tried(T7a(rs, k, weights))
         /\ Tried(T9(rs)) /\ Tried(T12(rs, unsealed))
<1> DEFINE f1b == "payloads"
           f6 == "inputs"
           f7a == "manifest"
           f9 == "unit"
           f12 == "expected"
           v1b == Assign(<<>>, rs[k + 1].body.output.decision, <<"edited">>)
           v6 == Assign(<<>>, rs[k + 1].body.input, <<"swapped">>)
           v7a == <<{[rs[k + 1].body.model EXCEPT !.weights = weights]}>>
           count == Cardinality(Inferences(rs)) + unsealed
           v12 == <<count>>
<1>1. /\ f1b \in {"payloads", "manifest", "inputs", "unit"} /\ f6 \in {"payloads", "manifest", "inputs", "unit"}
      /\ f7a \in {"payloads", "manifest", "inputs", "unit"} /\ f9 \in {"payloads", "manifest", "inputs", "unit"}
  OBVIOUS
<1>2. /\ T1b(rs, k).rows = rs /\ T1b(rs, k).with = Assign(<<>>, f1b, v1b)
      /\ T6(rs, k).rows = rs /\ T6(rs, k).with = Assign(<<>>, f6, v6)
      /\ T7a(rs, k, weights).rows = rs /\ T7a(rs, k, weights).with = Assign(<<>>, f7a, v7a)
  <2> HIDE DEF f1b, f6, f7a
  <2> QED BY DEF T1b, T6, T7a, Result, With, f1b, f6, f7a
<1>3. /\ T9(rs).rows = rs /\ T9(rs).with = Assign(<<>>, f9, OtherUnit)
      /\ T12(rs, unsealed).rows = rs /\ T12(rs, unsealed).with = Assign(<<>>, f12, v12)
  BY DEF T9, T12, Result, With
<1> HIDE DEF f1b, f6, f7a, f9, v1b, v6, v7a, count
<1>4. /\ Supplies(Assign(<<>>, f1b, v1b)) /\ Supplies(Assign(<<>>, f6, v6)) /\ Supplies(Assign(<<>>, f7a, v7a))
      /\ Supplies(Assign(<<>>, f9, OtherUnit)) /\ Supplies(Assign(<<>>, f12, v12))
  BY <1>1, Zenon DEF Supplies
<1> HIDE DEF f12, v12
<1> QED BY <1>2, <1>3, <1>4 DEF Tried

LEMMA WeightsTried ==
  ASSUME NEW rs, Readable(rs), NEW k \in Inferences(rs), NEW weights
  PROVE  Tried(T7b(rs, k, weights))
<1> DEFINE row == rs[k + 1]
           body == [row.body EXCEPT !.model.weights = weights]
           new == [row EXCEPT !.body = body]
<1>1. Legible(row) /\ row.type = "inference" /\ k \in 0 .. Len(rs) - 1
  <2>1. k + 1 \in 1 .. Len(rs)
    BY LegibleOnes DEF Inferences
  <2> QED BY <2>1 DEF Readable, Inferences
<1>2. [row EXCEPT !.body.model.weights = weights] = new
  <2> HIDE DEF row
  <2> QED BY <1>1 DEF Legible, RowFields
<1>3. T7b(rs, k, weights).rows = PutRow(rs, k, Edited(new)) /\ T7b(rs, k, weights).with = <<>>
  BY <1>2 DEF T7b, Result
<1> HIDE DEF row, body
<1>4. Legible(new)
  BY <1>1 DEF Legible, RowFields
<1> HIDE DEF new
<1>5. Readable(PutRow(rs, k, Edited(new)))
  BY <1>4, EditedLegible, PutReadable
<1> QED BY <1>3, <1>5, Zenon DEF Tried, Supplies

\* Records sealed after the last one.
LEMMA TipTried ==
  ASSUME NEW rs, Readable(rs), Len(rs) # 0, NEW body, NEW key
  PROVE  Tried(T10a(rs, body)) /\ Tried(T10b(rs, body, key)) /\ Tried(T10c(rs, body, key))
<1> DEFINE n == Len(rs)
           rotation == "key_rotation"
           inference == "inference"
           ba == [new |-> Attacker2, pop |-> RotationProof(Attacker2, n + 1, Attacker1)]
           bb == [new |-> Attacker2, pop |-> RotationProof(Attacker1, n + 1, key)]
           c == Changed(n)
           d == Changed(n + 1)
           a1 == SealNext(rs, rotation, ba, Attacker1, c)
           a2 == SealNext(a1, inference, body, Attacker2, d)
           b1 == SealNext(rs, rotation, bb, key, c)
           b2 == SealNext(b1, inference, body, Attacker2, d)
           c1 == SealNext(rs, inference, body, key, c)
<1>1. rotation # "checkpoint" /\ inference # "checkpoint" /\ n \in Nat
  BY LegibleOnes
<1>2. /\ T10a(rs, body).rows = a2 /\ T10a(rs, body).with = <<>>
      /\ T10b(rs, body, key).rows = b2 /\ T10b(rs, body, key).with = <<>>
      /\ T10c(rs, body, key).rows = c1 /\ T10c(rs, body, key).with = <<>>
  BY DEF T10a, T10b, T10c, Result
<1> HIDE DEF rotation, inference, ba, bb, c, d
<1>3. Readable(a1) /\ Len(a1) = n + 1 /\ Readable(b1) /\ Len(b1) = n + 1 /\ Readable(c1)
  BY <1>1, SealReadable
<1>4. Len(a1) # 0 /\ Len(b1) # 0
  BY <1>1, <1>3
<1> HIDE DEF a1, b1, c1
<1>5. Readable(a2) /\ Readable(b2)
  BY <1>1, <1>3, <1>4, SealReadable
<1> HIDE DEF a2, b2
<1> QED BY <1>2, <1>3, <1>5, Zenon DEF Tried, Supplies

LEMMA AnchorStates ==
  ASSUME NEW rs, Honest(rs), NEW a, AnchorOf(a, rs)
  PROVE  Stating(a)
<1>1. PICK i \in 1 .. Len(rs) : /\ rs[i].type = "checkpoint"
                                /\ a = FileAnchor(rs[i]) \/ a = LogbookAnchor(BuildAnchor(rs[i]))
  BY DEF AnchorOf
<1> DEFINE cp == rs[i]
           n == i - 1
<1>2. n \in 0 .. Len(rs) - 1 /\ n + 1 = i /\ n \in Nat
  BY AppendSeq DEF Honest
<1>3. cp.body = [size |-> n, root |-> RangeOf(Leaves(rs), 0, n)]
  BY <1>1, <1>2 DEF Honest, Placed, Fits
<1> DEFINE root == RangeOf(Leaves(rs), 0, n)
<1>4. cp.body.size = n /\ cp.body.root = root /\ cp.body = [size |-> n, root |-> root]
  <2> HIDE DEF cp, root
  <2> QED BY <1>3 DEF root
<1> HIDE DEF cp, root, n
<1>5. CASE a = FileAnchor(cp)
  BY <1>2, <1>4, <1>5, FileAnchorIs DEF Stating
<1>6. CASE a = LogbookAnchor(BuildAnchor(cp))
  <2> DEFINE b == BuildAnchor(cp)
  <2>1. b.size = n
    BY <1>4 DEF BuildAnchor
  <2> HIDE DEF b
  <2>2. a.size = n /\ a.kind = "logbook"
    BY <1>6, <2>1 DEF LogbookAnchor, b
  <2> QED BY <1>2, <2>2 DEF Stating
<1> QED BY <1>1, <1>5, <1>6 DEF cp

LEMMA SuppliedStated ==
  ASSUME Field, NEW kind \in Kinds, NEW with, Supplies(with)
  PROVE  Stated(Supplied(Given(kind), with))
<1> DEFINE given == Given(kind)
           anchors == given.anchors
           g == Supplied(given, with)
<1>1. /\ DOMAIN given = {"trust", "anchors", "expected", "payloads", "manifest", "inputs"}
      /\ given.expected = <<>> /\ Len(anchors) \in Nat
      /\ \A i \in 1 .. Len(anchors) : Stating(anchors[i])
  <2>1. Fair(given, rows)
    BY GivenIsFair
  <2>2. Honest(rows)
    BY DEF Field
  <2>3. DOMAIN given = {"trust", "anchors", "expected", "payloads", "manifest", "inputs"}
    BY DEF Given
  <2> HIDE DEF given
  <2>4. \A i \in 1 .. Len(anchors) : Stating(anchors[i])
    BY <2>1, <2>2, AnchorStates DEF Fair
  <2> QED BY <2>1, <2>3, <2>4 DEF Fair
<1> HIDE DEF given
<1>2. g.anchors = anchors /\ (g.expected = <<>> \/ \E x : g.expected = <<x>>)
  <2>1. CASE with = <<>>
    <3>1. DOMAIN with = {}
      BY <2>1
    <3>2. g = [f \in DOMAIN given |-> given[f]]
      BY <3>1 DEF Supplied
    <3> HIDE DEF g
    <3> QED BY <1>1, <3>2
  <2>2. ASSUME NEW field, NEW value, with = Assign(<<>>, field, value),
               \/ field \in {"payloads", "manifest", "inputs", "unit"}
               \/ field = "expected" /\ \E x : value = <<x>>
        PROVE  g.anchors = anchors /\ (g.expected = <<>> \/ \E x : g.expected = <<x>>)
    <3>1. DOMAIN with = {field} /\ with[field] = value
      <4>1. DOMAIN <<>> = {}
        OBVIOUS
      <4> QED BY <2>2, <4>1 DEF Assign, Over
    <3>2. CASE field = "unit"
      <4> DEFINE trust == [given.trust EXCEPT !.manifest = with.unit]
      <4>1. g = [given EXCEPT !.trust.manifest = with.unit]
        BY <3>1, <3>2 DEF Supplied
      <4>2. g = [given EXCEPT !.trust = trust]
        <5> HIDE DEF g
        <5> QED BY <1>1, <4>1
      <4> HIDE DEF g, trust
      <4> QED BY <1>1, <4>2
    <3>3. CASE field # "unit"
      <4>1. g = [f \in DOMAIN given |-> IF f \in DOMAIN with THEN with[f] ELSE given[f]]
        BY <3>1, <3>3 DEF Supplied
      <4> HIDE DEF g
      <4>2. g.anchors = anchors
        BY <1>1, <2>2, <3>1, <4>1
      <4>3. g.expected = IF field = "expected" THEN value ELSE <<>>
        BY <1>1, <2>2, <3>1, <4>1
      <4> QED BY <2>2, <4>2, <4>3
    <3> QED BY <3>2, <3>3
  <2> HIDE DEF g, anchors
  <2> QED BY <2>1, <2>2 DEF Supplies
<1> HIDE DEF g, anchors
<1>3. Stated(g)
  BY <1>1, <1>2 DEF Stated
<1> QED BY <1>3 DEF g, given

LEMMA EveryTried ==
  ASSUME Field, NEW k \in Positions, NEW case, case \in AsItIs \/ case \in Scenarios(k)
  PROVE  Tried(case[4]) /\ case[3] \in Kinds
<1>1. Readable(rows) /\ k \in 0 .. Len(rows) - 1 /\ Len(rows) \in Nat /\ Len(rows) # 0
  <2>1. Readable(rows)
    BY HonestReadable DEF Field
  <2>2. Len(rows) \in Nat
    BY <2>1, LegibleOnes
  <2> QED BY <2>1, <2>2 DEF Positions
<1>2. "none" \in Kinds
  BY DEF Kinds
<1>3. CASE case \in AsItIs
  <2>1. PICK kind \in Kinds : case = <<"clean", 0, kind, Result(rows, "db", <<>>, TRUE)>>
    BY <1>3 DEF AsItIs
  <2> DEFINE result == Result(rows, "db", <<>>, TRUE)
  <2>2. result.rows = rows /\ result.with = <<>>
    BY DEF Result
  <2> HIDE DEF result
  <2>3. case[3] = kind /\ case[4] = result
    BY <2>1 DEF result
  <2> QED BY <1>1, <2>2, <2>3 DEF Tried, Supplies
<1>4. CASE case \in Anchored(k)
  <2>1. Tried(T4c(rows, k)) /\ Tried(T8(rows, k))
    BY <1>1, GoneTried, BranchTried
  <2>2. PICK kind \in Kinds : case \in {<<"T4c", k, kind, T4c(rows, k)>>, <<"T8", k, kind, T8(rows, k)>>}
    BY <1>4 DEF Anchored
  <2> QED BY <2>1, <2>2
<1>5. CASE case \in OneRow(k)
  <2>1. /\ Tried(T1a(rows, k)) /\ Tried(T2a(rows, k)) /\ Tried(T2b(rows, k)) /\ Tried(T3a(rows, k)) /\ Tried(T3b(rows, k))
        /\ Tried(T13(rows, k)) /\ Tried(T14(rows, k)) /\ Tried(T15(rows, k))
    BY <1>1, PutTried, CopyTried
  <2> QED BY <1>2, <1>5, <2>1 DEF OneRow
<1>6. CASE case \in BeforeTheLast(k)
  <2>1. k + 1 \in 0 .. Len(rows) - 1
    BY <1>6 DEF BeforeTheLast, Positions
  <2>2. Tried(T1c(rows, k)) /\ Tried(T4a(rows, k)) /\ Tried(T4b(rows, k))
    BY <1>1, <2>1, RelinkTried, GoneTried
  <2> QED BY <1>2, <1>6, <2>1, <2>2 DEF BeforeTheLast
<1>7. CASE case \in OfInference(k)
  <2> DEFINE W == Weights \ {rows[k + 1].body.model.weights}
             some == {<<"T1b", k, "none", T1b(rows, k)>>, <<"T6", k, "none", T6(rows, k)>>}
             others == {<<"T7b", k, "none", T7b(rows, k, w)>> : w \in W}
  <2>1. k \in Inferences(rows) /\ case \in some \cup others
    BY <1>7 DEF OfInference
  <2>2. Tried(T1b(rows, k)) /\ Tried(T6(rows, k)) /\ \A w : Tried(T7b(rows, k, w))
    BY <1>1, <2>1, BesideTried, WeightsTried
  <2>3. case \in some => Tried(case[4]) /\ case[3] \in Kinds
    BY <1>2, <2>2
  <2>4. case \in others => Tried(case[4]) /\ case[3] \in Kinds
    BY <1>2, <2>2
  <2> HIDE DEF some, others
  <2> QED BY <2>1, <2>3, <2>4
<1>8. CASE case \in OfRegistration(k)
  <2>1. \A w : Tried(T7a(rows, k, w))
    BY <1>1, BesideTried
  <2>2. \E w \in Weights : case = <<"T7a", k, "none", T7a(rows, k, w)>>
    BY <1>8 DEF OfRegistration
  <2> QED BY <1>2, <2>1, <2>2
<1>9. CASE case \in TwoRows(k)
  <2> DEFINE J == {i \in 1 .. k - 1 : i = k - 1 \/ {i, k} \subseteq Inferences(rows)}
             L == {p \in Inferences(rows) : p < k /\ k \in Inferences(rows)}
             swaps == UNION {{<<"T5a", k, "none", T5a(rows, j, k)>>, <<"T5b", k, "none", T5b(rows, j, k)>>} : j \in J}
             copies == {<<"T11", k, "none", T11(rows, j, k)>> : j \in L}
  <2>1. case \in swaps \cup copies
    BY <1>9 DEF TwoRows
  <2>2. \A j \in J : Tried(T5a(rows, j, k)) /\ Tried(T5b(rows, j, k))
    <3>1. \A j \in J : j \in 0 .. Len(rows) - 1
      BY <1>1
    <3> QED BY <1>1, <3>1, SwapTried
  <2>3. \A j : Tried(T11(rows, j, k))
    BY <1>1, BranchTried
  <2> HIDE DEF J, L
  <2>4. case \in swaps => Tried(case[4]) /\ case[3] \in Kinds
    BY <1>2, <2>2
  <2>5. case \in copies => Tried(case[4]) /\ case[3] \in Kinds
    BY <1>2, <2>3
  <2> HIDE DEF swaps, copies
  <2> QED BY <2>1, <2>4, <2>5
<1>10. CASE case \in AtTheTip
  <2> DEFINE body == rows[(CHOOSE p \in Inferences(rows) : TRUE) + 1].body
             active == Active
             old == Keys[1]
             one == 1
             some == {<<"T9", 0, "none", T9(rows)>>, <<"T12", 0, "none", T12(rows, one)>>,
                      <<"T10a", 0, "none", T10a(rows, body)>>, <<"T10b", 0, "none", T10b(rows, body, active)>>,
                      <<"T10c", 0, "none", T10c(rows, body, old)>>}
  <2>1. case \in some
    BY <1>10 DEF AtTheTip
  <2> HIDE DEF body, active, old, one
  <2>2. /\ Tried(T9(rows)) /\ Tried(T12(rows, one)) /\ Tried(T10a(rows, body))
        /\ Tried(T10b(rows, body, active)) /\ Tried(T10c(rows, body, old))
    BY <1>1, BesideTried, TipTried
  <2> QED BY <1>2, <2>1, <2>2
<1>11. \/ case \in AsItIs
       \/ case \in Anchored(k) \/ case \in OneRow(k) \/ case \in BeforeTheLast(k) \/ case \in OfInference(k)
       \/ case \in OfRegistration(k) \/ case \in TwoRows(k) \/ case \in AtTheTip
  BY DEF Scenarios
<1> QED BY <1>3, <1>4, <1>5, <1>6, <1>7, <1>8, <1>9, <1>10, <1>11

LEMMA CaseAgrees ==
  ASSUME Field, NEW k \in Positions, NEW case, case \in AsItIs \/ case \in Scenarios(k)
  PROVE  "derived_column_mismatch" \notin Classes(Report(case).findings) =>
           Report(case).second = Report(case).findings
<1> DEFINE result == case[4]
           kind == case[3]
           given == Supplied(Given(kind), result.with)
<1>1. Readable(result.rows) /\ Supplies(result.with) /\ kind \in Kinds
  BY EveryTried DEF Tried
<1>2. Stated(given)
  BY <1>1, SuppliedStated
<1>3. /\ Report(case).findings = Verified(result.rows, given).findings
      /\ Report(case).second = Second!verify(Exported(result.rows), given)
  BY DEF Report
<1> HIDE DEF given
<1> DEFINE rs == result.rows
<1> HIDE DEF rs
<1>4. Readable(rs) /\ Len(given.anchors) \in Nat
  BY <1>1, <1>2 DEF Stated, rs
<1>5. ColumnsFit(rs) => Second!verify(Exported(rs), given) = Verified(rs, given).findings
  BY <1>2, <1>4, SameFindings
<1>6. ~ColumnsFit(rs) => "derived_column_mismatch" \in Classes(Verified(rs, given).findings)
  BY <1>4, ColumnsTold
<1> QED BY <1>3, <1>5, <1>6 DEF rs

\* The two verifiers agree on every ledger of any history, as it is or after any
\* change of the lab, whatever they are given besides.
THEOREM SecondOpinion == Spec => []VerifiersAgree
<1>1. Init => VerifiersAgree
  BY DEF Init, NoReport, VerifiersAgree
<1>2. Field /\ VerifiersAgree /\ [Next]_vars => VerifiersAgree'
  <2> SUFFICES ASSUME Field, VerifiersAgree, [Next]_vars PROVE VerifiersAgree'
    OBVIOUS
  <2>1. CASE report' = report
    BY <2>1 DEF VerifiersAgree
  <2>2. CASE \E k \in Positions : Examine(k)
    <3>1. PICK k \in Positions : Examine(k)
      BY <2>2
    <3>2. PICK case \in (IF k = 0 THEN AsItIs ELSE {}) \cup (IF Quiet THEN Scenarios(k) ELSE {}) :
            report' = Report(case)
      BY <3>1 DEF Examine
    <3>3. case \in AsItIs \/ case \in Scenarios(k)
      BY <3>2
    <3> QED BY <3>2, <3>3, CaseAgrees DEF VerifiersAgree
  <2>3. CASE \E k \in Positions : ExamineRecompute(k)
    <3>1. report'.scenario = "recompute"
      BY <2>3 DEF ExamineRecompute
    <3> QED BY <3>1 DEF VerifiersAgree
  <2>4. report' = report \/ (\E k \in Positions : Examine(k)) \/ (\E k \in Positions : ExamineRecompute(k))
    BY DEF Next, vars, Create, WriteGenesis, Register, Infer, Mark, Rotate, ClockBack, PrepareAnchor, WriteAnchor,
           RecordAnchor, CreateAnchor, CreateAnywhere, RefuseAnchor, RebuildRead, RebuildWrite, Crash, Aside
  <2> QED BY <2>1, <2>2, <2>3, <2>4
<1> QED BY <1>1, <1>2, FieldHolds, PTL DEF Spec

===============================================================================
