------------------------- MODULE IndependentVerifier -------------------------
(***************************************************************************)
(* spec/independent_verifier.py: the second verifier, written from the     *)
(* text of the specification only.  It shares the representation of rows   *)
(* with LedgerVerifier and nothing else; it reads exports.                 *)
(***************************************************************************)
EXTENDS MerkleTree, FiniteSets

CONSTANT None   \* what is absent

NoLink == <<>>   \* no line to link to

TAINTING == {"record_edit", "record_delete", "record_reorder", "record_replay", "ledger_fork",
             "malformed_record", "non_canonical_encoding", "key_unauthorised"}

SEVERITY(cls) ==
  CASE cls \in {"record_edit", "input_swap", "model_swap", "ledger_fork"} -> "critical"
    [] cls = "anchor_invalid"   -> "medium"
    [] cls = "degraded_gap"     -> "low"
    [] cls = "clock_regression" -> "info"
    [] OTHER -> "high"

line(r)    == <<r.c, r.sig>>
leaf(r)    == Leaf(line(r))
link_of(r) == <<"link", r.c, r.sig>>
ed_verify(r, key) == r.sig = [by |-> key, c |-> r.c]

\* The state of the walk; known are the keys, signed the positions whose
\* signature verified, acc the leaves so far.
Begin(trust) ==
  [findings |-> <<>>, lastPrimary |-> 0, lastPos |-> -10, taint |-> 0, shift |-> 0, shiftBefore |-> 0,
   pending |-> <<>>, prevLink |-> NoLink, active |-> None, rejected |-> <<>>, nonces |-> {}, verifiedCp |-> <<>>,
   regs |-> <<>>, lastCreated |-> None, known |-> trust.ledger \cup trust.witness \cup trust.boundary,
   rotatedIn |-> {}, signed |-> {}, acc |-> <<>>, suppress |-> FALSE, replayCopy |-> FALSE, sigOk |-> FALSE]

\* emit(..., primary=False)
Aside(st, cls, p, sev) ==
  [st EXCEPT !.findings = Append(@, [class |-> cls, position |-> p, severity |-> sev, folded |-> 0])]

emit(st, cls, p) ==
  LET f == Len(st.findings) + 1 IN
  [Aside(st, cls, p, SEVERITY(cls)) EXCEPT
     !.lastPrimary = f, !.lastPos = p,
     !.taint = IF cls \in TAINTING /\ @ = 0 THEN f ELSE @]

fold(st, owner) == IF owner = 0 THEN st ELSE [st EXCEPT !.findings[owner].folded = @ + 1]

sig_under(st, r, key) == key \in st.known /\ ed_verify(r, key)

seq_positions(rows, seq) == {q \in 0 .. Len(rows) - 1 : rows[q + 1].form = "ok" /\ rows[q + 1].seq = seq}

-----------------------------------------------------------------------------
\* Step 3: a number that was announced as late, one too high, one too low.

Announced(st, r, p) ==
  LET owner == st.pending[r.seq]
      rest  == [m \in DOMAIN st.pending \ {r.seq} |-> st.pending[m]] IN
  [fold(st, owner) EXCEPT !.pending = rest, !.lastPrimary = owner, !.lastPos = p, !.suppress = TRUE,
                          !.shift = IF rest = <<>> THEN st.shiftBefore ELSE @]

TooHigh(st, rows, p) ==
  LET seq     == rows[p + 1].seq
      missing == p + st.shift .. seq - 1
      later   == \A m \in missing : \E q \in seq_positions(rows, m) : q > p
      moved   == emit(st, "record_reorder", p) IN
  IF later
    THEN [moved EXCEPT !.shiftBefore = st.shift, !.shift = seq - p,
                       !.pending = Over([m \in missing |-> moved.lastPrimary], @)]
    ELSE [emit(st, "record_delete", p) EXCEPT !.shift = seq - p, !.suppress = TRUE]

TooLow(st, rows, p) ==
  LET r       == rows[p + 1]
      earlier == {q \in seq_positions(rows, r.seq) : q < p}
      first   == CHOOSE q \in earlier : \A o \in earlier : q <= o
      same    == line(rows[first + 1]) = line(r) IN
  IF earlier = {} THEN [emit(st, "record_reorder", p) EXCEPT !.suppress = TRUE]
  ELSE [emit(st, IF same THEN "record_replay"
                 ELSE IF sig_under(st, r, st.active) THEN "ledger_fork"
                 ELSE "record_reorder", p)
        EXCEPT !.replayCopy = same, !.shift = @ - 1, !.suppress = TRUE]

Position(st, rows, p) ==
  LET seq == rows[p + 1].seq IN
  IF seq = p + st.shift THEN st
  ELSE IF seq \in DOMAIN st.pending THEN Announced(st, rows[p + 1], p)
  ELSE IF seq > p + st.shift THEN TooHigh(st, rows, p) ELSE TooLow(st, rows, p)

-----------------------------------------------------------------------------
\* Steps 4 to 6: key, signature, link.

\* A rotation under a key that is not authorised: what it introduces is rejected.
Reject(st, r) == [st EXCEPT !.rejected = Assign(@, r.body.new, st.lastPrimary)]

\* A key that is not the active one.  Known and verifying: retired; known and
\* not verifying: edited; unknown: a stranger.
OtherKey(st, r, p) ==
  IF r.key \in st.known /\ ~sig_under(st, r, r.key) THEN emit(st, "record_edit", p)
  ELSE LET out == emit(st, "key_unauthorised", p) IN IF r.type = "key_rotation" THEN Reject(out, r) ELSE out

\* Mutant: a run of bad signatures is one finding per record.
ActiveKeyEach(st, r, p) ==
  IF sig_under(st, r, st.active) THEN [st EXCEPT !.sigOk = TRUE, !.signed = @ \cup {p}]
  ELSE emit(st, "record_edit", p)

ActiveKey(st, r, p) ==
  LET lp == st.lastPrimary IN
  IF sig_under(st, r, st.active) THEN [st EXCEPT !.sigOk = TRUE, !.signed = @ \cup {p}]
  ELSE IF lp # 0 /\ st.findings[lp].class = "record_edit" /\ st.lastPos = p - 1
    THEN [fold(st, lp) EXCEPT !.lastPos = p]
  ELSE emit(st, "record_edit", p)

Key(before, r, p, trust) ==
  LET st == IF p = 0 THEN [before EXCEPT !.active = r.key] ELSE before IN
  IF p = 0 /\ r.key \notin trust.ledger THEN emit(st, "key_unauthorised", p)
  ELSE IF r.key \in DOMAIN st.rejected
    THEN [fold(st, st.rejected[r.key]) EXCEPT !.lastPrimary = st.rejected[r.key], !.lastPos = p]
  ELSE IF r.key = st.active THEN ActiveKey(st, r, p) ELSE OtherKey(st, r, p)

LinkTo(st, r, p, trust) ==
  IF p = 0 THEN IF r.prev = trust.manifest THEN st ELSE emit(st, "genesis_mismatch", p)
  ELSE IF st.prevLink # NoLink /\ r.prev = st.prevLink THEN st
  ELSE IF st.suppress \/ (st.lastPrimary # 0 /\ st.lastPos \in {p - 1, p}) THEN fold(st, st.lastPrimary)
  ELSE emit(st, "chain_broken", p)

-----------------------------------------------------------------------------
\* Steps 7 and 8, for records whose signature verified.

Nonce(st, r, p) ==
  [(IF r.nonce \in st.nonces /\ ~st.replayCopy THEN emit(st, "nonce_reuse", p) ELSE st)
   EXCEPT !.nonces = @ \cup {r.nonce}]

Checkpoint(st, r, p) ==
  IF r.body.size = Len(st.acc) /\ r.body.root = MTH(st.acc)
    THEN [st EXCEPT !.verifiedCp = Assign(@, r.seq, r.body)]
  ELSE IF st.taint # 0 THEN fold(st, st.taint) ELSE emit(st, "checkpoint_mismatch", p)

AnchorEvent(st, r, p) ==
  LET cp == r.body.cpSeq
      ok == cp \in DOMAIN st.verifiedCp /\ st.verifiedCp[cp] = [size |-> r.body.size, root |-> r.body.root]
      out == IF ok THEN st ELSE IF st.taint # 0 THEN fold(st, st.taint)
             ELSE Aside(st, "checkpoint_mismatch", p, "high") IN
  [out EXCEPT !.nonces = {r.nonce}]

Registration(st, r, p, manifest) ==
  LET m   == r.body.model
      now == [st EXCEPT !.regs = Assign(@, m.id, m)] IN
  IF manifest # <<>> THEN IF m \in manifest[1] THEN now ELSE emit(now, "model_swap", p)
  ELSE IF m.id \in DOMAIN st.regs /\ st.regs[m.id] # m THEN Aside(now, "model_swap", p, "info")
  ELSE now

Inference(st, r, p) ==
  LET m == r.body.model IN
  IF m.id \in DOMAIN st.regs /\ st.regs[m.id] = m THEN st ELSE emit(st, "model_swap", p)

Rotation(st, r, p) ==
  LET new == r.body.new IN
  IF r.body.pop = [by |-> new, at |-> r.seq + 1, outgoing |-> r.key]
    THEN [st EXCEPT !.known = @ \cup {new}, !.rotatedIn = @ \cup {new}, !.active = new]
    ELSE Reject(emit(st, "key_unauthorised", p), r)

TypeRules(st, r, p, manifest) ==
  CASE r.type = "checkpoint"         -> Checkpoint(st, r, p)
    [] r.type = "anchor_event"       -> AnchorEvent(st, r, p)
    [] r.type = "degraded_marker"    -> Aside(st, "degraded_gap", p, "low")
    [] r.type = "model_registration" -> Registration(st, r, p, manifest)
    [] r.type = "inference"          -> Inference(st, r, p)
    [] r.type = "key_rotation"       -> Rotation(st, r, p)
    [] OTHER -> st

Time(st, r, p) ==
  [(IF st.lastCreated # None /\ r.at < st.lastCreated THEN Aside(st, "clock_regression", p, "info") ELSE st)
   EXCEPT !.lastCreated = r.at, !.prevLink = link_of(r)]

First(st, r, p) == IF p = 0 /\ r.type # "genesis" THEN emit(st, "genesis_mismatch", p) ELSE st

\* Nothing after the signature is read of a record whose signature failed.
IfSigned(st, r, p, manifest) == IF st.sigOk THEN TypeRules(Nonce(st, r, p), r, p, manifest) ELSE st

\* One line of the export.
Line(old, rows, p, given) ==
  LET r      == rows[p + 1]
      st     == [old EXCEPT !.suppress = FALSE, !.replayCopy = FALSE, !.sigOk = FALSE]
      linked == LinkTo(Key(First(Position(st, rows, p), r, p), r, p, given.trust), r, p, given.trust)
      out    == IF r.form # "ok" THEN [emit(st, r.form, p) EXCEPT !.prevLink = NoLink]
                ELSE Time(IfSigned(linked, r, p, given.manifest), r, p) IN
  [out EXCEPT !.acc = Append(@, leaf(r))]

-----------------------------------------------------------------------------
\* Anchors, the count, inputs and payloads.

check_anchor(a, trust, rotatedIn) ==
  \/ a.kind = "logbook"
  \/ /\ a.cp.form = "ok" /\ a.cp.type = "checkpoint" /\ a.cp.seq = a.cp.body.size
     /\ a.cp.key \in trust.ledger \cup rotatedIn /\ ed_verify(a.cp, a.cp.key)
     /\ \A c \in a.cosignatures : c.by \in trust.witness /\ c.of = line(a.cp)
     /\ \A t \in a.attestations : t.by \in trust.boundary /\ t.size = a.cp.body.size /\ t.root = a.cp.body.root

\* prefix_root was taken during the walk, before any record from the size on.
Anchor(st, a, rows, trust) ==
  LET n == Len(rows)
      size    == IF a.kind = "logbook" THEN a.size ELSE a.cp.body.size
      root    == IF a.kind = "logbook" THEN a.root ELSE a.cp.body.root
      covered == IF a.kind = "logbook" THEN size ELSE size + 1
      forked(limit) == IF st.taint # 0 /\ st.findings[st.taint].position < limit THEN fold(st, st.taint)
                       ELSE Aside(st, "ledger_fork", n, "critical") IN
  IF ~check_anchor(a, trust, st.rotatedIn) THEN Aside(st, "anchor_invalid", n, "medium")
  ELSE IF n < covered THEN Aside(st, "tail_truncation", n, "high")
  ELSE IF MTH(SubSeq(st.acc, 1, size)) # root THEN forked(size)
  ELSE IF a.kind = "file" /\ line(rows[size + 1]) # line(a.cp) THEN forked(size + 1)
  ELSE st

Count(st, rows, expected) ==
  LET got == Cardinality({i \in DOMAIN rows : rows[i].form = "ok" /\ rows[i].type = "inference"}) IN
  IF expected # <<>> /\ expected[1] # got THEN Aside(st, "ledger_incomplete", Len(rows), "high") ELSE st

Payloads(st, r, p, given) ==
  LET out == r.body.output
      swapped  == r.body.input \in DOMAIN given.inputs /\ given.inputs[r.body.input] # r.body.input
      stale(a) == a \in DOMAIN given.payloads /\ given.payloads[a] # a
      s1 == IF swapped THEN Aside(st, "input_swap", p, "critical") ELSE st
      s2 == IF out.ref # out.decision THEN Aside(s1, "output_payload_mismatch", p, "high") ELSE s1
      s3 == IF stale(out.decision) THEN Aside(s2, "output_payload_mismatch", p, "high") ELSE s2 IN
  IF out.raw # out.decision /\ stale(out.raw) THEN Aside(s3, "output_payload_mismatch", p, "high") ELSE s3

\* Only the contents of a record whose signature verified.
Contents(st, r, p, given) ==
  IF p \in st.signed /\ r.type = "inference" THEN Payloads(st, r, p, given) ELSE st

\* verify()
verify(rows, given) ==
  LET n == Len(rows)
      walked[i \in 0 .. n] ==
        IF i = 0 THEN Begin(given.trust) ELSE Line(walked[i - 1], rows, i - 1, given)
      fixed[i \in 0 .. Len(given.anchors)] ==
        IF i = 0 THEN walked[n] ELSE Anchor(fixed[i - 1], given.anchors[i], rows, given.trust)
      done[i \in 0 .. n] ==
        IF i = 0 THEN Count(fixed[Len(given.anchors)], rows, given.expected)
        ELSE Contents(done[i - 1], rows[i], i - 1, given) IN
  IF n = 0 THEN Aside(Begin(given.trust), "genesis_mismatch", 0, "high").findings ELSE done[n].findings
=============================================================================
