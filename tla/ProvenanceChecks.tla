--------------------------- MODULE ProvenanceChecks ---------------------------
(***************************************************************************)
(* The scan's two checks of a ledger (cva/provenance/checks): what the     *)
(* verifier found becomes findings, and sealed outputs are derived again   *)
(* from their inputs and compared on a ladder of claims.                   *)
(*                                                                         *)
(* Confidences and coordinates are whole numbers of a unit fine enough     *)
(* that a quantum is several of them.  A hash of an object stands for the  *)
(* object: two are equal when the objects are.                             *)
(***************************************************************************)
EXTENDS LedgerVerifier

CONSTANTS
  Pixel,        \* one pixel, in units of a coordinate
  Quantum,      \* 1/64 px, the precision of a sealed box
  ConfQuantum,  \* 1e-6, the precision of a sealed confidence
  MaxConf,      \* the confidence 1.0
  EpsConf, EpsPx, EpsIou, \* what counts as float jitter; EpsIou is a fraction <<n, d>>
  Sample        \* how many unflagged records are derived again

ASSUME ProvenanceAssumption ==
  {Pixel, Quantum, ConfQuantum, MaxConf, EpsConf, EpsPx, EpsIou[2]} \subseteq Nat \ {0} /\ Sample \in Nat

-----------------------------------------------------------------------------
\* Quantisation, and the three objects of an output (seal/outputs.py).
\* An output is [task, finite, items, filter]; filter is <<>> or <<[thr, nms]>>.

\* floor(x / unit + 1/2).
Round(x, unit) == (2 * x + unit) \div (2 * unit)

q_conf(p)  == Max({0, Min({MaxConf \div ConfQuantum, Round(p, ConfQuantum)})})
q_box64(x) == Round(x, Quantum)
q_px(x)    == Round(x, Pixel)

NONFINITE_MARKER == [task |-> "nonfinite", items |-> <<>>, filter |-> <<>>]

FineItem(it) == [cls |-> it.cls, conf |-> q_conf(it.conf), box |-> [k \in DOMAIN it.box |-> q_box64(it.box[k])]]

quantise_fine(o) == [task |-> o.task, items |-> [i \in DOMAIN o.items |-> FineItem(o.items[i])], filter |-> o.filter]
quantise_raw(o)  == [quantise_fine(o) EXCEPT !.filter = <<>>]

\* Ranked classes, or detections on whole pixels in an order of their own.
quantise_coarse(o) ==
  LET bare(it) == [cls |-> it.cls, box |-> [k \in DOMAIN it.box |-> q_px(it.box[k])]]
      all      == [i \in DOMAIN o.items |-> bare(o.items[i])] IN
  [task |-> o.task, filter |-> o.filter,
   items |-> IF o.task = "classify" THEN all
             ELSE [d \in {all[i] : i \in DOMAIN all} |-> Cardinality({i \in DOMAIN all : all[i] = d})]]

build_output_objects(raw, filtered) ==
  IF raw.finite /\ filtered.finite
    THEN [raw |-> quantise_raw(raw), fine |-> quantise_fine(filtered), coarse |-> quantise_coarse(filtered)]
    ELSE [raw |-> NONFINITE_MARKER, fine |-> NONFINITE_MARKER, coarse |-> NONFINITE_MARKER]

\* What one run of a pipeline gives: the floats and the objects made of them.
recompute_objects(out) ==
  [floats |-> out, objects |-> build_output_objects(out.raw, out.filtered)]

-----------------------------------------------------------------------------
\* Geometry.

AbsOf(x)       == IF x < 0 THEN -x ELSE x
Distance(a, b) == Max({AbsOf(a[k] - b[k]) : k \in DOMAIN a})
Area(b)        == (b[3] - b[1]) * (b[4] - b[2])
Overlap(a, b)  == Max({0, Min({a[3], b[3]}) - Max({a[1], b[1]})}) * Max({0, Min({a[4], b[4]}) - Max({a[2], b[2]})})
UnionOf(a, b)  == Area(a) + Area(b) - Overlap(a, b)
Side(a, b)     == Max({Pixel, Min({a[3] - a[1], a[4] - a[2], b[3] - b[1], b[4] - b[2]})})

\* |iou - nms| <= eps_iou + _iou_slack, without division.
NearNms(a, b, nms) ==
  LET off == AbsOf(Overlap(a, b) * nms[2] - nms[1] * UnionOf(a, b)) IN
  off * EpsIou[2] * Side(a, b) <= nms[2] * UnionOf(a, b) * (EpsIou[1] * Side(a, b) + 2 * Quantum * EpsIou[2])

-----------------------------------------------------------------------------
\* The second rung: is every difference explained by jitter at a boundary?

\* _sealed_dets
Dequantised(fine) ==
  [i \in DOMAIN fine.items |->
     [cls |-> fine.items[i].cls, conf |-> fine.items[i].conf * ConfQuantum,
      box |-> [k \in DOMAIN fine.items[i].box |-> fine.items[i].box[k] * Quantum]]]

\* The nearest of the same class within a pixel, the last of equals; 0 if none.
Nearest(d, dets, free) ==
  LET near == {j \in free : dets[j].cls = d.cls /\ Distance(d.box, dets[j].box) <= Pixel + 2 * Quantum}
      far(j) == Distance(d.box, dets[j].box) IN
  IF near = {} THEN 0 ELSE CHOOSE j \in near : \A o \in near : far(j) < far(o) \/ (far(j) = far(o) /\ o <= j)

\* Greedy, in the sealed order.
Matched(S, R) ==
  FoldLeft(LAMBDA m, i : LET j == Nearest(S[i], R, DOMAIN R \ {m[h] : h \in DOMAIN m}) IN
                         IF j = 0 THEN m ELSE (i :> j) @@ m,
           <<>>, [i \in 1 .. Len(S) |-> i])

CoordinateOk(x, y) == q_px(x) = q_px(y) \/ AbsOf(x - y) <= EpsPx + Quantum

\* At the threshold, or at the suppression by a kept box at least as confident.
Excused(d, kept, filter) ==
  filter # <<>> /\ (\/ AbsOf(d.conf - filter[1].thr) <= EpsConf
                    \/ \E j \in DOMAIN kept : /\ kept[j].cls = d.cls /\ kept[j].conf >= d.conf
                                              /\ NearNms(d.box, kept[j].box, filter[1].nms))

\* Mutant: the confidence the sealer claims excuses a detection only it has.
SealedPresenceClaimed(d, R, RAW, filter) == Excused(d, R, filter)

\* Only the sealed output has it: its counterpart before the filter must excuse it.
SealedPresence(d, R, RAW, filter) ==
  LET c == Nearest(d, RAW, DOMAIN RAW) IN
  IF c = 0 THEN FALSE ELSE Excused([d EXCEPT !.conf = RAW[c].conf], R, filter)

DetectBoundary(fine, floats) ==
  LET S == Dequantised(fine)
      R == floats.filtered.items
      m == Matched(S, R)
      filter == IF fine.filter # <<>> THEN fine.filter ELSE floats.filtered.filter IN
  /\ \A i \in DOMAIN m : \A k \in DOMAIN S[i].box : CoordinateOk(S[i].box[k], R[m[i]].box[k])
  /\ \A i \in DOMAIN S \ DOMAIN m : SealedPresence(S[i], R, floats.raw.items, filter)
  /\ \A j \in DOMAIN R \ {m[i] : i \in DOMAIN m} : Excused(R[j], S, filter)

ClassifyBoundary(fine, floats) ==
  LET S == Dequantised(fine)
      R == floats.filtered.items IN
  Len(S) = Len(R) /\ \A i \in DOMAIN S : S[i].cls = R[i].cls \/ AbsOf(S[i].conf - R[i].conf) <= EpsConf

analyse_boundary(fine, floats) ==
  /\ fine.task = floats.filtered.task
  /\ CASE fine.task = "classify" -> ClassifyBoundary(fine, floats)
       [] fine.task = "detect"   -> DetectBoundary(fine, floats)
       [] OTHER -> FALSE

\* climb; fine is <<>> when the sealed payload cannot be read.
climb(sealed, fine, re, sameRuntime) ==
  CASE re.objects.coarse = sealed.coarse /\ re.objects.fine = sealed.fine /\ sameRuntime -> "verified_exact"
    [] re.objects.coarse = sealed.coarse /\ ~(re.objects.fine = sealed.fine /\ sameRuntime) -> "verified_decision"
    [] OTHER -> IF fine = <<>> THEN "output_mismatch"
                ELSE IF analyse_boundary(fine[1], re.floats) THEN "boundary_flip" ELSE "output_mismatch"

-----------------------------------------------------------------------------
\* Recompute over a ledger.  The world is what the scan holds: digest, the loaded
\* model's (or "unavailable"); inputs, by position; specs and payload, how the
\* stored payloads read; tensor, whether the inputs are sealed as tensors;
\* serialises, whether the pipeline can say what they are; sameRuntime; and of
\* each position the objects that were sealed and what the pipeline derives.

\* One record, in the order of the code's early returns.
One(row, p, world) ==
  CASE world.digest # "unavailable" /\ row.body.model.weights # world.digest -> "model_swap"
    [] world.digest = "unavailable" -> "no digest"
    [] OTHER ->
         IF p \notin DOMAIN world.inputs THEN "no input"
         ELSE IF world.specs # "stored" THEN "no spec"
         ELSE IF world.tensor /\ ~world.serialises THEN "no tensor"
         ELSE IF world.inputs[p] # row.body.input THEN "input_swap"
         ELSE climb(world.sealed[p], IF world.payload = "stored" THEN <<world.sealed[p].fine>> ELSE <<>>,
                    recompute_objects(world.derived[p]), world.sameRuntime)

Skipped == {"no digest", "no input", "no spec", "no tensor"}
Derived == {"verified_exact", "verified_decision", "boundary_flip", "output_mismatch"}

\* v is what the verifier made of the rows: only records whose signature it
\* verified are derived.
Eligible(rows, v) == {p \in v.sealedOk : rows[p + 1].type = "inference"}

\* What a check already flagged, and a sample of the rest.
Flagged(rows, v) ==
  {p \in Eligible(rows, v) : \E i \in DOMAIN v.findings :
     v.findings[i].position = p /\ v.findings[i].severity # "info"}

Samples(rows, v) ==
  LET rest == Eligible(rows, v) \ Flagged(rows, v) IN
  kSubset(Min({Sample, Cardinality(rest)}), rest)

\* The disposition that stands until the risk engine decides.
Provisional(severity) ==
  CASE severity \in {"high", "critical"} -> "QUARANTINE"
    [] severity \in {"medium", "low"}    -> "REVIEW"
    [] OTHER -> "ACCEPT"

\* One finding for each output and input that differs, one for each model that is
\* not the loaded one.
RecomputeSeverity(class) == IF class \in {"output_mismatch", "input_swap"} THEN "critical" ELSE "medium"

RecomputeFindings(rows, verdicts) ==
  LET told(p) == verdicts[p] \in {"output_mismatch", "input_swap", "boundary_flip", "model_swap"}
      with(p) == IF verdicts[p] # "model_swap" THEN {p}
                 ELSE {q \in DOMAIN verdicts : verdicts[q] = "model_swap" /\ rows[q + 1].body.model.weights = rows[p + 1].body.model.weights} IN
  {[class |-> verdicts[p], positions |-> with(p), disposition |-> Provisional(RecomputeSeverity(verdicts[p]))] :
     p \in {q \in DOMAIN verdicts : told(q)}}

\* Nothing counts as done that was skipped: the summary is degraded then.
recompute(rows, v, chosen, world) ==
  LET todo     == Flagged(rows, v) \cup chosen
      verdicts == [p \in todo |-> One(rows[p + 1], p, world)]
      With(some) == {p \in todo : verdicts[p] \in some} IN
  [verdicts |-> verdicts, findings |-> RecomputeFindings(rows, verdicts),
   availability |-> IF With(Skipped) # {} \/ With(Derived) = {} THEN "DEGRADED" ELSE "OK"]

-----------------------------------------------------------------------------
\* LedgerVerify: the verifier's findings as the scan's, and the summary every scan gets.

Mapped(f) == [class |-> f.class, severity |-> f.severity, disposition |-> Provisional(f.severity), availability |-> "OK"]

Summary(manifest) ==
  [class |-> "ledger_verified", severity |-> "info", disposition |-> "ACCEPT",
   availability |-> IF manifest = <<>> THEN "DEGRADED" ELSE "OK"]

ScanFindings(findings, manifest) == Append([i \in DOMAIN findings |-> Mapped(findings[i])], Summary(manifest))
=============================================================================
