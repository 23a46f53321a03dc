---------------------------- MODULE Calibration ----------------------------
(* Isotonic calibration of detector scores (risk/calibration.py): the benchmark fits one curve per detector from
   labelled outcomes, scores the fit on families it held out, and saves it; a scan loads the file, refuses one
   that is not a calibrator, and reads every calibrated finding's confidence off its curve.

   Scores, confidences and curve values are in hundredths. A curve is a sequence of blocks (edge, value), a
   calibration a record of the curves by detector with the score of the fit. *)
EXTENDS Integers, Sequences, FiniteSets, SequencesExt, RiskRules

CONSTANT MinPoints   \* a detector with fewer labelled outcomes gets no curve
ASSUME MinPointsAssumption == MinPoints \in Nat \ {0}

SchemaVersion == 1
NoScore == -1
EmptySet == [curves |-> <<>>, brier |-> NoScore, bins |-> {}, excluded |-> {}]

Mean(b) == (100 * b.hits) \div b.weight

(* Two neighbouring blocks out of order are pooled, from the right, until none is. *)
Pool(blocks) ==
    LET settled(b) == Len(b) < 2 \/ b[Len(b) - 1].hits * b[Len(b)].weight < b[Len(b)].hits * b[Len(b) - 1].weight
        joined(b, n) == Append(SubSeq(b, 1, n - 2), [hits |-> b[n - 1].hits + b[n].hits,
                                                     weight |-> b[n - 1].weight + b[n].weight, edge |-> b[n].edge])
        after[k \in 0..Len(blocks)] ==
            IF k = 0 THEN blocks ELSE IF settled(after[k - 1]) THEN after[k - 1] ELSE joined(after[k - 1], Len(after[k - 1]))
    IN after[Len(blocks)]

Pav(points) ==
    LET sorted == SortSeq(points, LAMBDA p, q : p.score < q.score)
        add(blocks, p) == Pool(Append(blocks, [hits |-> IF p.hit THEN 1 ELSE 0, weight |-> 1, edge |-> p.score]))
    IN FoldLeft(add, <<>>, sorted)

FitOne(points) == [i \in DOMAIN Pav(points) |-> [edge |-> Pav(points)[i].edge, value |-> Mean(Pav(points)[i])]]

(* The value of the first block whose edge is not below the score, the last one beyond them all. *)
Calibrate(curve, score) ==
    LET below == Cardinality({i \in DOMAIN curve : curve[i].edge < score})
    IN curve[IF below < Len(curve) THEN below + 1 ELSE Len(curve)].value

(* The Brier score of (predicted, outcome) pairs and their reliability bins, one per tenth that has pairs. *)
Reliability(pairs) ==
    LET err(p) == (p.predicted - p.outcome) * (p.predicted - p.outcome)
        binOf(i) == IF pairs[i].predicted = 100 THEN 9 ELSE pairs[i].predicted \div 10
        inBin(b) == {i \in DOMAIN pairs : binOf(i) = b}
    IN IF pairs = <<>> THEN [brier |-> NoScore, bins |-> {}]
       ELSE [brier |-> FoldLeft(LAMBDA sum, p : sum + err(p), 0, pairs) \div (100 * Len(pairs)),
             bins |-> {[bin |-> b, n |-> Cardinality(inBin(b))] : b \in {c \in 0..9 : inBin(c) # {}}}]

Points(records, det) == SelectSeq(records, LAMBDA r : r.det = det)
Outcomes(points) == {points[i].hit : i \in DOMAIN points}

(* The predictions of the folds that may be scored: the held-out family by a curve that never saw it, both sides
   holding both outcomes. *)
OutOfFold(points) ==
    LET families == {points[i].family : i \in DOMAIN points}
        fit(held) == SelectSeq(points, LAMBDA p : p.family # held)
        test(held) == SelectSeq(points, LAMBDA p : p.family = held)
        fair(held) == /\ Len(fit(held)) >= MinPoints
                      /\ Cardinality(Outcomes(fit(held))) = 2 /\ Cardinality(Outcomes(test(held))) = 2
        predict(held) == [i \in DOMAIN test(held) |->
                             [predicted |-> Calibrate(FitOne(fit(held)), test(held)[i].score),
                              outcome |-> IF test(held)[i].hit THEN 100 ELSE 0]]
    IN IF Cardinality(families) < 2 THEN <<>>
       ELSE FlattenSeq([k \in 1..Cardinality({h \in families : fair(h)}) |->
                           predict(SetToSeq({h \in families : fair(h)})[k])])

(* One curve per detector with enough outcomes, provenance never; the score of the fit comes from held-out
   families only, and there is none when nothing could be held out. *)
FitCalibrators(records) ==
    LET dets == {records[i].det : i \in DOMAIN records}
        fitted == {d \in dets \ Provenance : Len(Points(records, d)) >= MinPoints}
        seq == SetToSeq(fitted)
        rel == Reliability(FlattenSeq([i \in DOMAIN seq |-> OutOfFold(Points(records, seq[i]))]))
    IN [curves |-> [d \in fitted |-> FitOne(Points(records, d))], brier |-> rel.brier, bins |-> rel.bins,
        excluded |-> dets \cap Provenance]

(* What the report prints of a calibration. *)
Summary(cal) ==
    [brier |-> cal.brier, scoredOn |-> IF cal.brier = NoScore THEN "none" ELSE "out_of_fold",
     detectors |-> DOMAIN cal.curves, excluded |-> cal.excluded]

(* Only what ran, is not provenance and has a curve is calibrated. *)
ApplyCalibration(findings, cal) ==
    [i \in DOMAIN findings |->
        LET f == findings[i] IN
        IF Ran(f) /\ f.det \in DOMAIN cal.curves \ Provenance
        THEN [f EXCEPT !.conf = Calibrate(cal.curves[f.det], f.raw)] ELSE f]

---------------------------------------------------------------------------
(* The file: its size and syntax, its keys (a duplicate or an unknown one is refused), its version and method,
   and the calibration in it. *)
Payload(cal) == [readable |-> TRUE, keys |-> "known", version |-> SchemaVersion, method |-> "isotonic", cal |-> cal]

Ascending(curve, field(_)) == \A i \in DOMAIN curve : i > 1 => field(curve[i - 1]) <= field(curve[i])
Edge(b) == b.edge
Value(b) == b.value

CalibratorOk(det, curve) ==
    /\ det \notin Provenance
    /\ curve # <<>>
    /\ \A i \in DOMAIN curve : curve[i].value \in 0..100
    /\ Ascending(curve, Edge)
    /\ Ascending(curve, Value)

BinsOk(cal) == cal.brier \in 0..100 \cup {NoScore} /\ \A b \in cal.bins : b.n >= 0 /\ b.bin \in 0..9

SetFromPayload(file) ==
    /\ file.keys = "known" /\ file.version = SchemaVersion /\ file.method = "isotonic"
    /\ \A d \in DOMAIN file.cal.curves : CalibratorOk(d, file.cal.curves[d])
    /\ BinsOk(file.cal)

(* Saving validates first, so that what is written always loads: <<>> when it refuses. *)
SaveCalibration(cal) == IF SetFromPayload(Payload(cal)) THEN <<Payload(cal)>> ELSE <<>>

(* Loading takes the whole file or raises (<<>>), never a part of it. *)
LoadCalibration(file) == IF file.readable /\ SetFromPayload(file) THEN <<file.cal>> ELSE <<>>
=============================================================================
