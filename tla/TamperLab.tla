------------------------------ MODULE TamperLab ------------------------------
(***************************************************************************)
(* The scenarios of attacklab/tamper.py: one change to a stored ledger     *)
(* each, with what the verifier must report.                               *)
(*                                                                         *)
(* A scenario maps the rows and a position to the rows (and whatever else  *)
(* the verifier is given) after the change, the form they are verified in  *)
(* and the exact classes expected.  The lab picks positions at random; the *)
(* operators take any, and Picked says which ones the lab allows.          *)
(***************************************************************************)
EXTENDS LedgerVerifier

CONSTANTS
  Attacker,   \* keys nobody trusts
  OtherUnit   \* the manifest of another deployment

ASSUME TamperAssumption == Cardinality(Attacker) >= 2

Attacker1 == CHOOSE k \in Attacker : TRUE
Attacker2 == CHOOSE k \in Attacker : k # Attacker1

\* The second verifier, which reads exports.
Second == INSTANCE IndependentVerifier

\* Contents that differ from every content sealed: those count from 0.
Changed(c) == -1 - c

\* put(): the record is rewritten, its columns consistently.
Recol(row) == [row EXCEPT !.cols = Columns(row)]
Edited(row) == Recol([row EXCEPT !.c = Changed(@)])
PutRow(rows, k, row) == [rows EXCEPT ![k + 1] = row]

\* An export holds no columns.
Exported(rows) == [i \in DOMAIN rows |-> [rows[i] EXCEPT !.cols = NoColumns]]

\* seal_next of a body after the last row.
SealNext(rows, type, body, key, c) ==
  LET seq == Len(rows)
      row == [form |-> "ok", seq |-> seq, type |-> type, key |-> key, prev |-> Link(rows[seq]),
              at |-> rows[seq].at, nonce |-> c, body |-> body, c |-> c,
              sig |-> [by |-> key, c |-> c], cols |-> NoColumns] IN
  Append(rows, Recol(row))

\* The history the key holder signs instead, with first in place of the row at k:
\* relinked, with new contents, and with checkpoints and anchor events that state
\* its own roots.
Resigned(old, done) ==
  LET p == Len(done)
      root(n) == RootOf(Accumulate([i \in 1 .. n |-> LeafOf(done[i])]))
      body == CASE old.type = "checkpoint"   -> [size |-> p, root |-> root(p)]
                [] old.type = "anchor_event" -> [old.body EXCEPT !.root = root(old.body.size)]
                [] OTHER -> old.body IN
  Recol([old EXCEPT !.prev = Link(done[p]), !.body = body, !.c = Changed(@),
                    !.sig = [by |-> old.key, c |-> Changed(old.c)]])

Resign(rows, k, first) ==
  LET done[n \in 0 .. Len(rows) - k] ==
        IF n = 0 THEN SubSeq(rows, 1, k)
        ELSE Append(done[n - 1], Resigned(IF n = 1 THEN first ELSE rows[k + n], done[n - 1])) IN
  done[Len(rows) - k]

Inferences(rows) == {p \in 0 .. Len(rows) - 1 : rows[p + 1].type = "inference"}

\* _pick
Picked(rows, k, needNext) ==
  /\ k >= 3
  /\ k .. k + needNext - 1 \subseteq Inferences(rows) /\ k \in Inferences(rows)
  /\ \E last \in 0 .. Len(rows) - 1 :
       last >= k + needNext /\ rows[last + 1].type \in {"inference", "checkpoint"}

Result(rows, form, classes, picked) ==
  [rows |-> rows, form |-> form, classes |-> classes, picked |-> picked, with |-> <<>>]

\* What the verifier is given besides, where a scenario says so.
With(result, field, value) == [result EXCEPT !.with = Assign(@, field, value)]

-----------------------------------------------------------------------------
T1a(rows, k) ==
  Result(PutRow(rows, k, Edited(rows[k + 1])), "db", <<"record_edit">>, Picked(rows, k, 1))

\* The stored output is edited, the record is not.
T1b(rows, k) ==
  LET out == rows[k + 1].body.output.decision IN
  With(Result(rows, "db", <<"output_payload_mismatch">>, TRUE), "payloads", Assign(<<>>, out, <<"edited">>))

\* k is edited and k + 1 relinked to it: both fail their signatures.
T1c(rows, k) ==
  LET edited == Edited(rows[k + 1])
      next   == Edited([rows[k + 2] EXCEPT !.prev = Link(edited)]) IN
  Result(PutRow(PutRow(rows, k, edited), k + 1, next), "db", <<"record_edit">>, Picked(rows, k, 2))

T2a(rows, k) ==
  LET forged == [rows[k + 1] EXCEPT !.key = Attacker1, !.c = Changed(@),
                                    !.sig = [by |-> Attacker1, c |-> Changed(rows[k + 1].c)]] IN
  Result(PutRow(rows, k, Recol(forged)), "db", <<"key_unauthorised">>, Picked(rows, k, 1))

T2b(rows, k) ==
  Result(PutRow(rows, k, [rows[k + 1] EXCEPT !.sig = [by |-> Attacker1, c |-> rows[k + 1].c]]),
         "db", <<"record_edit">>, Picked(rows, k, 1))

T3a(rows, k) ==
  Result(Append(Exported(rows), Exported(rows)[k + 1]), "export", <<"record_replay">>, Picked(rows, k, 0))

T3b(rows, k) ==
  Result(Append(Exported(rows), [Exported(rows)[k + 1] EXCEPT !.seq = Len(rows), !.c = Changed(@)]),
         "export", <<"record_edit">>, Picked(rows, k, 0))

T4a(rows, k) ==
  Result(SubSeq(rows, 1, k) \o SubSeq(rows, k + 2, Len(rows)), "db", <<"record_delete">>, Picked(rows, k, 1))

\* k is deleted and every successor renumbered to close the gap.
T4b(rows, k) ==
  LET after == [i \in 1 .. Len(rows) - k - 1 |-> Edited([rows[k + 1 + i] EXCEPT !.seq = @ - 1])] IN
  Result(SubSeq(rows, 1, k) \o after, "db", <<"record_edit">>, Picked(rows, k, 1))

\* The rows from k on are gone: silent without an anchor.
T4c(rows, k) == Result(SubSeq(rows, 1, k), "db", <<>>, TRUE)

Swapped(rows, j, k) == [rows EXCEPT ![j + 1] = rows[k + 1], ![k + 1] = rows[j + 1]]

T5a(rows, j, k) ==
  Result(Exported(Swapped(rows, j, k)), "export", <<"record_reorder">>,
         Picked(rows, j, 1) /\ k \in Inferences(rows) /\ k > j + 2)

T5b(rows, j, k) ==
  LET swapped == Exported(Swapped(rows, j, k))
      numbered(p) == [swapped[p + 1] EXCEPT !.seq = p, !.c = Changed(@)] IN
  Result(PutRow(PutRow(swapped, j, numbered(j)), k, numbered(k)), "export",
         <<"record_edit", "record_edit">>, Picked(rows, j, 1) /\ k \in Inferences(rows) /\ k > j + 3)

T6(rows, k) ==
  With(Result(rows, "db", <<"input_swap">>, TRUE), "inputs", Assign(<<>>, rows[k + 1].body.input, <<"swapped">>))

\* A registration of other weights, honestly recorded, against a manifest.
T7a(rows, k, weights) ==
  With(Result(rows, "db", <<"model_swap">>, rows[k + 1].body.model.weights # weights), "manifest",
       <<{[rows[k + 1].body.model EXCEPT !.weights = weights]}>>)

T7b(rows, k, weights) ==
  Result(PutRow(rows, k, Edited([rows[k + 1] EXCEPT !.body.model.weights = weights])), "db",
         <<"record_edit">>, Picked(rows, k, 1))

\* Another branch of the history, signed by the same keys from k on.
T8(rows, k) ==
  Result(Resign(rows, k, rows[k + 1]), "db", <<>>, TRUE)

T9(rows) == With(Result(rows, "db", <<"genesis_mismatch">>, TRUE), "unit", OtherUnit)

T10a(rows, body) ==
  LET n == Len(rows)
      rotation == [new |-> Attacker2, pop |-> RotationProof(Attacker2, n + 1, Attacker1)] IN
  Result(SealNext(SealNext(rows, "key_rotation", rotation, Attacker1, Changed(n)),
                  "inference", body, Attacker2, Changed(n + 1)), "db", <<"key_unauthorised">>, TRUE)

\* Signed by the active key, but the proof of possession is another key's.
T10b(rows, body, active) ==
  LET n == Len(rows)
      rotation == [new |-> Attacker2, pop |-> RotationProof(Attacker1, n + 1, active)] IN
  Result(SealNext(SealNext(rows, "key_rotation", rotation, active, Changed(n)),
                  "inference", body, Attacker2, Changed(n + 1)), "db", <<"key_unauthorised">>, TRUE)

\* After a rotation the holder of the old key appends.
T10c(rows, body, old) ==
  Result(SealNext(rows, "inference", body, old, Changed(Len(rows))), "db", <<"key_unauthorised">>, TRUE)

\* The key holder seals record k with the nonce of an earlier one.
T11(rows, j, k) ==
  Result(Exported(Resign(rows, k, [rows[k + 1] EXCEPT !.nonce = rows[j + 1].nonce])), "export",
         <<"nonce_reuse">>, ~\E p \in j .. k : rows[p + 1].type = "anchor_event")

\* Some inferences never sealed, against the operator's count of all.
T12(rows, unsealed) ==
  With(Result(rows, "db", <<"ledger_incomplete">>, TRUE), "expected",
       <<Cardinality(Inferences(rows)) + unsealed>>)

T13(rows, k) ==
  Result(PutRow(rows, k, [rows[k + 1] EXCEPT !.form = "non_canonical_encoding", !.c = Changed(@)]), "db",
         <<"non_canonical_encoding">>, Picked(rows, k, 1))

T14(rows, k) ==
  Result(PutRow(rows, k, [rows[k + 1] EXCEPT !.form = "malformed_record", !.c = Changed(@)]), "db",
         <<"malformed_record">>, Picked(rows, k, 1))

\* Only an indexed column is edited.
T15(rows, k) ==
  Result(PutRow(rows, k, [rows[k + 1] EXCEPT !.cols.type = "edited"]), "db",
         <<"derived_column_mismatch">>, Picked(rows, k, 0))
=============================================================================
