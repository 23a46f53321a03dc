----------------------------- MODULE RecomputeLab -----------------------------
(***************************************************************************)
(* The study of the recompute ladder, attacklab/recompute_study.py: what a *)
(* detector saw is decoded, sealed, and decoded again with float jitter;   *)
(* with the dishonest sealers of tests/provenance/_recompute_helpers.py.   *)
(***************************************************************************)
EXTENDS ProvenanceChecks

CONSTANTS
  ConfThr, NmsIou,  \* the stored postprocessing spec; NmsIou is a fraction <<n, d>>
  Jobs              \* what is sealed and derived again:
                    \*   scene   [kind, task, dets]: what the model saw
                    \*   jitter  per detection, how far confidence and box move
                    \*   forged  how the sealer lied, or "none"
                    \*   env     what the scan holds

Filter == [thr |-> ConfThr, nms |-> NmsIou]

Out(task, dets, filter) == [task |-> task, finite |-> TRUE, items |-> dets, filter |-> filter]

\* decode_grid: above the threshold, by falling confidence, unless a kept box of
\* the class overlaps too much.
Suppresses(kept, d) == kept.cls = d.cls /\ Overlap(kept.box, d.box) * NmsIou[2] >= NmsIou[1] * UnionOf(kept.box, d.box)

ByConfidence(dets, some) ==
  SetToSortSeq(some, LAMBDA i, j : dets[i].conf > dets[j].conf \/ (dets[i].conf = dets[j].conf /\ i < j))

decode_grid(dets) ==
  LET order == ByConfidence(dets, {i \in DOMAIN dets : dets[i].conf >= ConfThr})
      kept  == FoldLeft(LAMBDA ks, i : IF \E k \in DOMAIN ks : Suppresses(ks[k], dets[i]) THEN ks
                                       ELSE Append(ks, dets[i]), <<>>, order) IN
  [raw |-> Out("detect", dets, <<>>), filtered |-> Out("detect", kept, <<Filter>>)]

\* A classifier's ranking has no filter.
decode_ranks(dets) ==
  LET order == ByConfidence(dets, DOMAIN dets)
      top   == Out("classify", [i \in DOMAIN order |-> dets[order[i]]], <<>>) IN
  [raw |-> top, filtered |-> top]

Decoded(scene, dets) ==
  CASE scene.task = "detect"   -> decode_grid(dets)
    [] scene.task = "classify" -> decode_ranks(dets)
    [] scene.task = "garbage"  ->
         LET o == [Out("detect", <<>>, <<>>) EXCEPT !.finite = FALSE] IN [raw |-> o, filtered |-> o]

Jittered(dets, jitter) ==
  [i \in DOMAIN dets |->
     [dets[i] EXCEPT !.conf = @ + jitter[i].conf,
                     !.box = [k \in DOMAIN @ |-> IF k \in {1, 3} THEN @[k] + jitter[i].box ELSE @[k]]]]

\* What a dishonest sealer makes of its decisions.  A ghost was never seen; a
\* promoted detection was seen, far below the threshold it is claimed to reach.
Ghost == [cls |-> 9, conf |-> ConfThr, box |-> <<0, 0, 4 * Pixel, 4 * Pixel>>]

Lie(forged, kept, raw) ==
  CASE forged = "drop_top"  -> Tail(kept)
    [] forged = "shift_box" -> [kept EXCEPT ![1].box = [k \in DOMAIN @ |-> @[k] + 5 * Pixel]]
    [] forged = "relabel"   -> [kept EXCEPT ![1].cls = (@ + 1) % 3]
    [] forged = "ghost"     -> Append(kept, Ghost)
    [] forged = "promote"   -> Append(kept, [raw[Len(raw)] EXCEPT !.conf = ConfThr])
    [] OTHER -> kept

\* The objects a sealer hashes, and what the pipeline derives in the scan.
SealedObjects(job) ==
  LET out == Decoded(job.scene, job.scene.dets) IN
  build_output_objects(out.raw, [out.filtered EXCEPT !.items = Lie(job.forged, @, out.raw.items)])

Rederived(job) == Decoded(job.scene, Jittered(job.scene.dets, job.jitter))
=============================================================================
