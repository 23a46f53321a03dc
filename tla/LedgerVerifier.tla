--------------------------- MODULE LedgerVerifier ---------------------------
(***************************************************************************)
(* The standalone verifier, cva/provenance/seal/verify.py, with the parts  *)
(* of anchor.py and chain.py it calls: the rows of a ledger, a trust root  *)
(* and external anchors go in, findings come out.                          *)
(*                                                                         *)
(* A row is a stored record.  Its content is identified by the number c:   *)
(* different contents have different numbers.  A signature names its key   *)
(* and the content it was made over, so it verifies for no other content.  *)
(* Evidence, wording and the mixture of nature and severity that follows   *)
(* from a class are left out.  The walk is a fold of the verifier's state  *)
(* over the rows; position p counts from 0, rows[p + 1] is the row at p.   *)
(***************************************************************************)
EXTENDS MerkleTree, FiniteSets

CONSTANT None   \* what is absent

ASSUME VerifierAssumption == None \notin Nat

NoLink    == <<>>   \* no record to link to
NoColumns == <<>>   \* an export has none

Bytes(row) == <<row.c, row.sig>>
LeafOf(row) == Leaf(Bytes(row))

\* link_from covers the signature too.
Link(row) == <<"link", row.c, row.sig>>

SignedBy(row, key) == row.sig = [by |-> key, c |-> row.c]

\* The columns SQLite keeps beside a record.
Columns(row) == [seq |-> row.seq, type |-> row.type, nonce |-> row.nonce, hash |-> row.c]

RotationProof(new, effective, outgoing) == [by |-> new, at |-> effective, outgoing |-> outgoing]
PopValid(row) == row.body.pop = RotationProof(row.body.new, row.seq + 1, row.key)

TreeTainting == {"record_edit", "record_delete", "record_reorder", "record_replay", "ledger_fork",
                 "malformed_record", "non_canonical_encoding", "key_unauthorised"}

Severity(class) ==
  CASE class \in {"record_edit", "input_swap", "model_swap", "output_mismatch", "ledger_fork"} -> "critical"
    [] class \in {"boundary_flip", "anchor_invalid"} -> "medium"
    [] class = "degraded_gap" -> "low"
    [] class = "clock_regression" -> "info"
    [] OTHER -> "high"

TrustedKeys(trust) == trust.ledger \cup trust.witness \cup trust.boundary

\* The verifier before the first row.  last is the finding that later
\* consequences are folded into, taint the first that changed hashed bytes.
Start(given) ==
  [findings |-> <<>>, last |-> 0, lastPos |-> -10, taint |-> 0,
   shift |-> 0, shiftBefore |-> 0, pending |-> <<>>,
   prevLink |-> NoLink, nonces |-> {}, lastAt |-> 0, registrations |-> <<>>,
   sealedOk |-> {}, keys |-> TrustedKeys(given.trust), active |-> None, rejected |-> <<>>,
   rotatedIn |-> {}, checkpoints |-> <<>>, stack |-> <<>>, lastAnchorSeq |-> -1,
   suppressLink |-> FALSE, copy |-> FALSE, sigOk |-> FALSE]

Finding(class, p, severity) == [class |-> class, position |-> p, severity |-> severity, folded |-> 0]

\* emit(..., primary=False)
Note(v, class, p, severity) == [v EXCEPT !.findings = Append(@, Finding(class, p, severity))]

Emit(v, class, p) ==
  LET f == Len(v.findings) + 1 IN
  [Note(v, class, p, Severity(class)) EXCEPT
     !.last = f, !.lastPos = p,
     !.taint = IF @ = 0 /\ class \in TreeTainting THEN f ELSE @]

Cascade(v, owner) == IF owner = 0 THEN v ELSE [v EXCEPT !.findings[owner].folded = @ + 1]

-----------------------------------------------------------------------------
\* The checks of one row, in their normative order.

\* 2 DERIVED
CheckColumns(v, rows, p) ==
  IF rows[p + 1].cols = NoColumns \/ rows[p + 1].cols = Columns(rows[p + 1]) THEN v
  ELSE Emit(v, "derived_column_mismatch", p)

\* Where a sequence number occurs.
At(rows, seq) == {q \in 0 .. Len(rows) - 1 : rows[q + 1].form = "ok" /\ rows[q + 1].seq = seq}

\* A number ahead of its place: the ones in between come later, or are gone.
SeqAhead(v, rows, p) ==
  LET seq     == rows[p + 1].seq
      missing == p + v.shift .. seq - 1 IN
  IF \A m \in missing : \E q \in At(rows, m) : q > p
    THEN LET w == Emit(v, "record_reorder", p) IN
         [w EXCEPT !.shiftBefore = v.shift, !.pending = Over([m \in missing |-> w.last], @),
                   !.shift = seq - p]
    ELSE [Emit(v, "record_delete", p) EXCEPT !.shift = seq - p, !.suppressLink = TRUE]

\* A number behind its place: seen before, or only late.
SeqBehind(v, rows, p) ==
  LET row     == rows[p + 1]
      earlier == {q \in At(rows, row.seq) : q < p}
      same    == \E q \in earlier : (\A r \in earlier : q <= r) /\ Bytes(rows[q + 1]) = Bytes(row)
      class   == IF earlier = {} THEN "record_reorder"
                 ELSE IF same THEN "record_replay"
                 ELSE IF v.active \in v.keys /\ SignedBy(row, v.active) THEN "ledger_fork"
                 ELSE "record_reorder" IN
  [Emit(v, class, p) EXCEPT
     !.copy = same, !.suppressLink = TRUE,
     !.shift = IF earlier = {} THEN @ ELSE @ - 1]

\* 3 SEQ
CheckSeq(v, rows, p) ==
  LET seq == rows[p + 1].seq IN
  CASE seq = p + v.shift -> v
    [] seq # p + v.shift /\ seq \in DOMAIN v.pending ->
         LET left == [m \in DOMAIN v.pending \ {seq} |-> v.pending[m]] IN
         [Cascade(v, v.pending[seq]) EXCEPT
            !.pending = left, !.last = v.pending[seq], !.lastPos = p, !.suppressLink = TRUE,
            !.shift = IF left = <<>> THEN v.shiftBefore ELSE @]
    [] seq > p + v.shift /\ seq \notin DOMAIN v.pending -> SeqAhead(v, rows, p)
    [] seq < p + v.shift /\ seq \notin DOMAIN v.pending -> SeqBehind(v, rows, p)

CheckFirst(v, rows, p) ==
  IF p = 0 /\ rows[1].type # "genesis" THEN Emit(v, "genesis_mismatch", p) ELSE v

\* A rotation the active key did not sign takes no effect: what the key it
\* names signs later is the same finding.
RejectTarget(v, row) ==
  IF row.type = "key_rotation" THEN [v EXCEPT !.rejected = Assign(@, row.body.new, v.last)] ELSE v

CheckSignatureSkipped(v, row, p) ==
  IF row.key \in v.keys THEN [v EXCEPT !.sigOk = TRUE] ELSE Emit(v, "record_edit", p)

\* 5 SIGNATURE, under the active key.  A run of failures is one finding.
CheckSignature(v, row, p) ==
  LET ok == row.key \in v.keys /\ SignedBy(row, row.key) IN
  IF ok THEN [v EXCEPT !.sigOk = TRUE]
  ELSE IF v.last # 0 /\ v.findings[v.last].class = "record_edit" /\ v.lastPos = p - 1
    THEN [Cascade(v, v.last) EXCEPT !.lastPos = p]
    ELSE Emit(v, "record_edit", p)

\* 4 KEY
CheckKey(v0, rows, p, trust) ==
  LET row == rows[p + 1]
      v   == IF p = 0 /\ v0.active = None THEN [v0 EXCEPT !.active = row.key] ELSE v0 IN
  IF p = 0 /\ row.key \notin trust.ledger THEN Emit(v, "key_unauthorised", p)
  ELSE IF row.key \in DOMAIN v.rejected
    THEN [Cascade(v, v.rejected[row.key]) EXCEPT !.last = v.rejected[row.key], !.lastPos = p]
  ELSE IF row.key = v.active THEN CheckSignature(v, row, p)
  ELSE IF row.key \in v.keys /\ ~SignedBy(row, row.key) THEN Emit(v, "record_edit", p)
  ELSE RejectTarget(Emit(v, "key_unauthorised", p), row)

CheckLinkAlways(v, rows, p, trust) ==
  LET row == rows[p + 1] IN
  IF p = 0 THEN IF row.prev # trust.manifest THEN Emit(v, "genesis_mismatch", p) ELSE v
  ELSE IF v.prevLink = row.prev THEN v
  ELSE Emit(v, "chain_broken", p)

\* 6 LINK: a broken link next to a finding is its consequence.
CheckLink(v, rows, p, trust) ==
  LET row == rows[p + 1] IN
  IF p = 0 THEN IF row.prev # trust.manifest THEN Emit(v, "genesis_mismatch", p) ELSE v
  ELSE IF v.prevLink = row.prev THEN v
  ELSE IF v.suppressLink \/ (v.last # 0 /\ v.lastPos \in {p, p - 1}) THEN Cascade(v, v.last)
  ELSE Emit(v, "chain_broken", p)

\* 7 NONCE
CheckNonce(v, row, p) ==
  LET w == IF row.nonce \in v.nonces /\ ~v.copy THEN Emit(v, "nonce_reuse", p) ELSE v IN
  [w EXCEPT !.nonces = @ \cup {row.nonce}, !.sealedOk = @ \cup {p}]

-----------------------------------------------------------------------------
\* 8 TYPE RULES.

CheckCheckpoint(v, row, p) ==
  IF row.body = [size |-> p, root |-> RootOf(v.stack)]
    THEN [v EXCEPT !.checkpoints = Assign(@, row.seq, row.body)]
  ELSE IF v.taint # 0 THEN Cascade(v, v.taint)
  ELSE Emit(v, "checkpoint_mismatch", p)

\* An anchor event names a checkpoint of this ledger and closes the nonces'
\* window.
CheckAnchorEvent(v, row, p) ==
  LET named == row.body.cpSeq \in DOMAIN v.checkpoints
               /\ v.checkpoints[row.body.cpSeq] = [size |-> row.body.size, root |-> row.body.root]
      w == IF named THEN v ELSE IF v.taint # 0 THEN Cascade(v, v.taint)
           ELSE Note(v, "checkpoint_mismatch", p, Severity("checkpoint_mismatch")) IN
  [w EXCEPT !.lastAnchorSeq = row.seq, !.nonces = {row.nonce}]

CheckRotationForgets(v, row, p) ==
  IF PopValid(row) THEN [v EXCEPT !.keys = @ \cup {row.body.new}, !.active = row.body.new]
  ELSE RejectTarget(Emit(v, "key_unauthorised", p), row)

CheckRotation(v, row, p) ==
  IF PopValid(row)
    THEN [v EXCEPT !.keys = @ \cup {row.body.new}, !.rotatedIn = @ \cup {row.body.new},
                   !.active = row.body.new]
    ELSE RejectTarget(Emit(v, "key_unauthorised", p), row)

\* A registration against the manifest of reference, or the one before it.
CheckRegistration(v, row, p, manifest) ==
  LET m   == row.body.model
      was == m.id \in DOMAIN v.registrations /\ v.registrations[m.id] # m
      w   == [v EXCEPT !.registrations = Assign(@, m.id, m)] IN
  IF manifest # <<>>
    THEN IF m \in manifest[1] THEN w ELSE Emit(w, "model_swap", p)
    ELSE IF was THEN Note(w, "model_swap", p, "info") ELSE w

CheckInferenceModel(v, row, p) ==
  LET m == row.body.model IN
  IF m.id \in DOMAIN v.registrations /\ v.registrations[m.id] = m THEN v
  ELSE Emit(v, "model_swap", p)

CheckType(v, row, p, manifest) ==
  CASE row.type = "checkpoint"         -> CheckCheckpoint(v, row, p)
    [] row.type = "anchor_event"       -> CheckAnchorEvent(v, row, p)
    [] row.type = "degraded_marker"    -> Note(v, "degraded_gap", p, "low")
    [] row.type = "model_registration" -> CheckRegistration(v, row, p, manifest)
    [] row.type = "inference"          -> CheckInferenceModel(v, row, p)
    [] row.type = "key_rotation"       -> CheckRotation(v, row, p)
    [] OTHER -> v

\* 9 TIME: a clock that steps back is no tamper signal.
CheckTime(v, row, p) ==
  [(IF row.at < v.lastAt THEN Note(v, "clock_regression", p, "info") ELSE v) EXCEPT
     !.lastAt = row.at, !.prevLink = Link(row)]

\* Only what the key signed is read further.
CheckSigned(v, row, p, manifest) ==
  IF v.sigOk THEN CheckType(CheckNonce(v, row, p), row, p, manifest) ELSE v

\* 2 to 9, of a row that parses.
CheckRow(v, rows, p, given) ==
  LET placed == CheckFirst(CheckSeq(CheckColumns(v, rows, p), rows, p), rows, p)
      linked == CheckLink(CheckKey(placed, rows, p, given.trust), rows, p, given.trust) IN
  CheckTime(CheckSigned(linked, rows[p + 1], p, given.manifest), rows[p + 1], p)

\* One row, 1 PARSE first; its leaf enters the tree whatever was found.
Step(before, rows, p, given) ==
  LET row   == rows[p + 1]
      v     == [before EXCEPT !.suppressLink = FALSE, !.copy = FALSE, !.sigOk = FALSE]
      after == IF row.form = "ok" THEN CheckRow(v, rows, p, given)
               ELSE [Emit(v, row.form, p) EXCEPT !.prevLink = NoLink] IN
  [after EXCEPT !.stack = Push(@, LeafOf(row))]

Walk(rows, given) ==
  LET after[n \in 0 .. Len(rows)] ==
        IF n = 0 THEN Start(given) ELSE Step(after[n - 1], rows, n - 1, given) IN
  after[Len(rows)]

-----------------------------------------------------------------------------
\* Anchors.

\* How many leading records an anchor fixes.
Covered(a) == IF a.kind = "logbook" THEN a.size ELSE a.size + 1

\* verify_anchor: a logbook entry has no signature; in a file everything
\* present must verify.
AnchorValid(a, trust, extraKeys) ==
  \/ a.kind = "logbook"
  \/ /\ a.cp.form = "ok" /\ a.cp.type = "checkpoint"
     /\ a.cp.body = [size |-> a.size, root |-> a.root] /\ a.cp.seq = a.size
     /\ a.cp.key \in trust.ledger \cup extraKeys /\ SignedBy(a.cp, a.cp.key)
     /\ \A s \in a.cosignatures : s.by \in trust.witness /\ s.of = Bytes(a.cp)
     /\ \A s \in a.attestations : s.by \in trust.boundary /\ s.size = a.size /\ s.root = a.root

\* _tainted_before(size): a finding inside the anchored prefix explains it.
TaintedBefore(v, size) == v.taint # 0 /\ v.findings[v.taint].position < size

CheckAnchorRecord(v, a, rows, given) ==
  LET n == Len(rows) IN
  IF ~AnchorValid(a, given.trust, v.rotatedIn) THEN Note(v, "anchor_invalid", n, "medium")
  ELSE IF n < Covered(a) THEN Note(v, "tail_truncation", n, "high")
  ELSE IF a.kind = "file" /\ Bytes(rows[a.size + 1]) # Bytes(a.cp) THEN Note(v, "ledger_fork", n, "critical")
  ELSE v

CheckAnchor(v, a, rows, given) ==
  LET n == Len(rows)
      forked(size) == IF TaintedBefore(v, size) THEN Cascade(v, v.taint)
                      ELSE Note(v, "ledger_fork", n, "critical") IN
  IF ~AnchorValid(a, given.trust, v.rotatedIn) THEN Note(v, "anchor_invalid", n, "medium")
  ELSE IF n < Covered(a) THEN Note(v, "tail_truncation", n, "high")
  ELSE IF a.root # RootOf(Accumulate([i \in 1 .. a.size |-> LeafOf(rows[i])])) THEN forked(a.size)
  ELSE IF a.kind = "file" /\ Bytes(rows[a.size + 1]) # Bytes(a.cp) THEN forked(a.size + 1)
  ELSE v

CheckAnchors(v, rows, given) ==
  LET after[n \in 0 .. Len(given.anchors)] ==
        IF n = 0 THEN v ELSE CheckAnchor(after[n - 1], given.anchors[n], rows, given) IN
  after[Len(given.anchors)]

-----------------------------------------------------------------------------
\* _finish: the operator's count, the inputs and the payloads.

CheckCount(v, rows, expected) ==
  LET found == {i \in DOMAIN rows : rows[i].form = "ok" /\ rows[i].type = "inference"} IN
  IF expected \in {<<>>, <<Cardinality(found)>>} THEN v ELSE Note(v, "ledger_incomplete", Len(rows), "high")

\* Two addresses of an output without filter are one.
CheckPayloads(v, row, p, payloads) ==
  LET out == row.body.output
      mismatch(w) == Note(w, "output_payload_mismatch", p, "high")
      edited(addr) == addr \in DOMAIN payloads /\ payloads[addr] # addr
      ref      == IF out.ref # out.decision THEN mismatch(v) ELSE v
      decision == IF edited(out.decision) THEN mismatch(ref) ELSE ref IN
  IF out.raw # out.decision /\ edited(out.raw) THEN mismatch(decision) ELSE decision

CheckInput(v, row, p, inputs) ==
  IF row.body.input \in DOMAIN inputs /\ inputs[row.body.input] # row.body.input
    THEN Note(v, "input_swap", p, "critical") ELSE v

CheckInference(v, rows, p, given) ==
  LET row == rows[p + 1] IN
  IF p \in v.sealedOk /\ row.type = "inference"
    THEN CheckPayloads(CheckInput(v, row, p, given.inputs), row, p, given.payloads) ELSE v

Finish(v, rows, given) ==
  LET after[n \in 0 .. Len(rows)] ==
        IF n = 0 THEN CheckCount(CheckAnchors(v, rows, given), rows, given.expected)
        ELSE CheckInference(after[n - 1], rows, n - 1, given) IN
  after[Len(rows)]

\* verify_ledger.  No records is not the same as verified.
Verified(rows, given) ==
  IF rows = <<>> THEN Note(Start(given), "genesis_mismatch", 0, "high")
  ELSE Finish(Walk(rows, given), rows, given)

Clean(findings) == \A i \in DOMAIN findings : findings[i].severity = "info"

\* Worst severity, and the classes found.
Classes(findings) == {findings[i].class : i \in DOMAIN findings}

-----------------------------------------------------------------------------
\* chain.verify_chain, the SDK's own check: the key active at each position
\* is known, the first failure ends it.

ActiveAt(rows, p) ==
  LET rotations == {q \in 1 .. p - 1 : rows[q + 1].type = "key_rotation"} IN
  IF rotations = {} THEN rows[1].key
  ELSE rows[(CHOOSE q \in rotations : \A r \in rotations : r <= q) + 1].body.new

CheckRecord(rows, p, ledgerKeys) ==
  LET row == rows[p + 1] IN
  /\ row.form = "ok"
  /\ row.seq = p
  /\ (row.type = "genesis") = (p = 0)
  /\ row.key = ActiveAt(rows, p)
  /\ p = 0 => row.key \in ledgerKeys
  /\ SignedBy(row, row.key)
  /\ p > 0 => row.prev = Link(rows[p])
  /\ row.type = "key_rotation" => PopValid(row)

ChainOk(rows, ledgerKeys) ==
  rows # <<>> /\ \A p \in 0 .. Len(rows) - 1 :
                   (\A q \in 0 .. p - 1 : CheckRecord(rows, q, ledgerKeys)) => CheckRecord(rows, p, ledgerKeys)
=============================================================================
