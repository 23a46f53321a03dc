----------------------------- MODULE DataChecks -----------------------------
(* The data checks (detectors/data): what each one reports of a dataset.

   A dataset is a sequence of samples: who supplied it (contributor, batch, and the tier that says so), its
   labels, what the extractor and the image hash make of it (vec, 0 when it was not embedded; phash, distances
   being differences), what a probe trained on others reads in it (reads, agree, issue), its boxes, its file's
   metadata (meta), its anomalies (block and z, spectral, cluster, unannotated) and how far past the reference's
   own tail it lies (dist). Rates and scores are in hundredths. A model is the record ModelChecks describes, with
   what the data checks ask of it. p holds the parameters of one check: its defaults, overridden by the
   profile's namespace for it.

   The two statistical tests are scipy's and stay parameters. *)
EXTENDS Integers, Sequences, FiniteSets, SequencesExt, Functions, TLC, ModelChecks

CONSTANTS
    Exceeds(_, _, _, _, _),     \* k of n against k' of n', in a family of tests (Fisher, Bonferroni)
    Differs(_, _, _)            \* two value sequences, in a family of tests (Kolmogorov-Smirnov, Bonferroni)

(* An unknown parameter raises; a known one overrides its default. *)
KnownParams(defaults, overrides) == DOMAIN overrides \subseteq DOMAIN defaults
Params(defaults, overrides) == overrides @@ defaults

(* A check that had nothing to look at says so in a finding about the dataset. *)
NotPerformed(det, cls, state) == [Finding(det, cls, state, Info, 0, 0) EXCEPT !.assessed = FALSE]
OnSample(f, i) == [f EXCEPT !.target = i]
InOrder(S) == SortSeq(SetToSeq(S), <)
PerSample(S, f(_)) == [n \in 1..Cardinality(S) |-> OnSample(f(InOrder(S)[n]), InOrder(S)[n])]
AtMostOf(x, cap) == Clip(x, 0, cap)
PerGroup(S, f(_)) == [n \in 1..Cardinality(S) |-> f(SetToSeq(S)[n])]

Categories(s) == ToSet(s.labels)
TimesLabelled(s, c) == Cardinality({i \in DOMAIN s.labels : s.labels[i] = c})
(* The most frequent label, the lowest of equals; 0 without labels. *)
DominantCategory(s) ==
    LET most == {c \in Categories(s) : \A d \in Categories(s) : TimesLabelled(s, d) <= TimesLabelled(s, c)}
    IN IF most = {} THEN 0 ELSE CHOOSE c \in most : \A d \in most : c <= d
Labelled(data) == {i \in DOMAIN data : DominantCategory(data[i]) # 0}
Contributors(data, S) == {data[i].contributor : i \in S} \ {""}
From(data, S, c) == {i \in S : data[i].contributor = c}

---------------------------------------------------------------------------
(* Clusters: hashes close enough and, when there is an index, embeddings too; without one a tighter hash. *)
DupDefaults == [hamming |-> 8, hammingOnly |-> 4]
CandidatePairs(data, cut) ==
    {e \in (DOMAIN data) \X (DOMAIN data) : e[1] < e[2] /\ Divergence(data[e[1]].phash, data[e[2]].phash) <= cut}
Alike(data, emb, p) ==
    LET cut == IF emb \/ p.hamming < p.hammingOnly THEN p.hamming ELSE p.hammingOnly
    IN {e \in CandidatePairs(data, cut) : emb => data[e[1]].vec # 0 /\ data[e[1]].vec = data[e[2]].vec}
FindClusters(data, emb, p) ==
    LET join(e, parts) == LET touched == {C \in parts : C \cap {e[1], e[2]} # {}}
                          IN (parts \ touched) \cup {UNION touched}
        parts == FoldSet(join, {{i} : i \in DOMAIN data}, Alike(data, emb, p))
    IN {C \in parts : Cardinality(C) >= 2}

DupSeverity(size) == IF size = 2 THEN Low ELSE IF size < 10 THEN Medium ELSE High

(* One finding per member of a cluster; a hash alone never makes it more than half sure. *)
NearDuplicate(data, emb, p) ==
    LET clusters == FindClusters(data, emb, p)
        mine(i) == CHOOSE C \in clusters : i \in C
        size(i) == Cardinality(mine(i))
        closest(i) == Min({Divergence(data[e[1]].phash, data[e[2]].phash) :
                             e \in {f \in Alike(data, emb, p) : f[1] \in mine(i)}})
        report(i) == Finding("data.near_dup", "near_duplicate_flooding", "OK", DupSeverity(size(i)),
                             IF emb THEN 95 ELSE AtMostOf(30 + 2 * size(i), 50),
                             IF emb THEN 100 ELSE 100 - (100 * closest(i)) \div 64)
    IN PerSample(UNION clusters, report)

(* A cluster whose labelled members disagree: every one of them is named, majority or not. *)
DuplicateLabelConflict(data, emb, p) ==
    LET labelled(C) == {i \in C : Categories(data[i]) # {}}
        sets(C) == {Categories(data[i]) : i \in labelled(C)}
        torn == {C \in FindClusters(data, emb, p) : Cardinality(sets(C)) >= 2}
        kinds(i) == Cardinality(sets(CHOOSE C \in torn : i \in C))
        report(i) == Finding("data.duplicate_label_conflict", "duplicate_label_conflict", "OK",
                             IF emb THEN High ELSE Medium, IF emb THEN 85 ELSE 45, 100 * kinds(i))
    IN PerSample(UNION {labelled(C) : C \in torn}, report)

---------------------------------------------------------------------------
(* Two signals against a label: its neighbours (agree, -1 with too few of them) and a probe that did not see it
   (issue, none when a class has fewer than two samples). Both together make it medium. *)
LabelDefaults == [k |-> 10, knnAgreeMax |-> 20]
ConfidentLearning(data, rows) ==
    LET size(c) == Cardinality({i \in rows : DominantCategory(data[i]) = c})
    IN IF \E i \in rows : size(DominantCategory(data[i])) < 2 THEN {} ELSE {i \in rows : data[i].issue}

LabelConsistency(data, emb, p) ==
    LET rows == {i \in Labelled(data) : data[i].vec # 0}
        knn == {i \in rows : data[i].agree >= 0 /\ data[i].agree <= p.knnAgreeMax}
        learned == ConfidentLearning(data, rows)
        report(i) == Finding("data.label_consistency", "label_flipping", "OK",
                             IF i \in knn \cap learned THEN Medium ELSE Low,
                             IF i \in knn \cap learned THEN 80 ELSE IF i \in learned THEN 50 ELSE 45,
                             100 - AtMostOf(data[i].agree, 100))
    IN IF \/ ~ emb \/ Cardinality(rows) < 2 * p.k
          \/ Cardinality({DominantCategory(data[i]) : i \in rows}) < 2
       THEN <<NotPerformed("data.label_consistency", "label_flipping", "UNAVAILABLE")>>
       ELSE PerSample(knn \cup learned, report)

(* A contributor whose images of class a are read as b, by a probe that saw none of theirs, far more often than
   those of its worst peer: two contributors who share a mapping are each other's worst peer. *)
MislabelDefaults == [minN |-> 10, rateMin |-> 25, gapMin |-> 20, highRate |-> 40]
Declared(data, rows, c, a) ==
    {i \in From(data, rows, c) : data[i].reads # 0 /\ DominantCategory(data[i]) = a}
ReadAs(data, rows, c, a, b) == {i \in Declared(data, rows, c, a) : data[i].reads = b}
Peers(data, rows, c, a, minN) ==
    {o \in Contributors(data, rows) \ {c} : Cardinality(Declared(data, rows, o, a)) >= minN}

SystematicMislabel(data, emb, p) ==
    LET rows == {i \in Labelled(data) : data[i].contributor # "" /\ data[i].vec # 0}
        who == Contributors(data, rows)
        classes == {DominantCategory(data[i]) : i \in rows}
        n(c, a) == Cardinality(Declared(data, rows, c, a))
        k(c, a, b) == Cardinality(ReadAs(data, rows, c, a, b))
        peers(c, a) == Peers(data, rows, c, a, p.minN)
        tested == {e \in who \X classes : n(e[1], e[2]) >= p.minN /\ peers(e[1], e[2]) # {}}
        family == Cardinality(tested) * (Cardinality(classes) - 1)
        rate(c, a, b) == (100 * k(c, a, b)) \div n(c, a)
        deviates(c, a, b) ==
            /\ <<c, a>> \in tested /\ a # b
            /\ rate(c, a, b) >= p.rateMin
            /\ \A o \in peers(c, a) : rate(c, a, b) - rate(o, a, b) >= p.gapMin
            /\ Exceeds(k(c, a, b), n(c, a), Cardinality(UNION {ReadAs(data, rows, o, a, b) : o \in peers(c, a)}),
                       Cardinality(UNION {Declared(data, rows, o, a) : o \in peers(c, a)}), family)
        cells(c) == {e \in classes \X classes : deviates(c, e[1], e[2])}
        top(c) == Max({rate(c, e[1], e[2]) : e \in cells(c)})
        report(c) == Finding("data.systematic_mislabel", "systematic_mislabelling", "OK",
                             IF top(c) >= p.highRate THEN High ELSE Medium,
                             AtMostOf(50 + (8 * (top(c) - p.rateMin)) \div 10, 90), top(c))
    IN IF ~ emb \/ Cardinality(who) < 2 \/ family = 0
       THEN <<NotPerformed("data.systematic_mislabel", "systematic_mislabelling", "UNAVAILABLE")>>
       ELSE PerGroup({c \in who : cells(c) # {}}, report)

---------------------------------------------------------------------------
(* Objects the model sees where nothing is annotated: a systematic rate when contributors are known, a low
   finding per image when none is. *)
NegativeDefaults == [minFlagged |-> 5, rateMin |-> 15, ratioMin |-> 3, cohortFloor |-> 2, minPeer |-> 10, highRate |-> 40]
Unannotated(data, S) == {i \in S : data[i].unannotated}

PerSampleNegatives(data, samples) ==
    LET report(i) == Finding("data.negative_space", "negative_space_poisoning", "DEGRADED", Low, 30, 80)
    IN IF Unannotated(data, samples) = {}
       THEN <<NotPerformed("data.negative_space", "negative_space_poisoning", "DEGRADED")>>
       ELSE PerSample(Unannotated(data, samples), report)

NegativeSpace(data, model, p) ==
    LET annotated == Labelled(data)
        owned == {i \in annotated : data[i].contributor # ""}
        who == Contributors(data, owned)
        n(c) == Cardinality(From(data, owned, c))
        k(c) == Cardinality(Unannotated(data, From(data, owned, c)))
        rate(c) == (100 * k(c)) \div n(c)
        peers(c) == {o \in who \ {c} : n(o) >= p.minPeer}
        among(c) == UNION {From(data, owned, o) : o \in peers(c)}
        worst(c) == Max({rate(o) : o \in peers(c)} \cup {p.cohortFloor})
        systematic(c) == /\ peers(c) # {} /\ k(c) >= p.minFlagged
                         /\ rate(c) >= p.rateMin /\ rate(c) >= p.ratioMin * worst(c)
                         /\ Exceeds(k(c), n(c), Cardinality(Unannotated(data, among(c))), Cardinality(among(c)),
                                    Cardinality(who))
        hits == UNION {Unannotated(data, From(data, owned, c)) : c \in {d \in who : systematic(d)}}
        report(i) == LET r == rate(data[i].contributor) IN
                     Finding("data.negative_space", "negative_space_poisoning", "OK",
                             IF r >= p.highRate THEN Medium ELSE Low, AtMostOf(30 + r \div 2, 75), r)
    IN IF model.absent \/ annotated = {} \/ ~ model.boxes
       THEN <<NotPerformed("data.negative_space", "negative_space_poisoning", "UNAVAILABLE")>>
       ELSE IF owned = {} THEN PerSampleNegatives(data, annotated)
       ELSE IF \A c \in who : peers(c) = {}
       THEN <<NotPerformed("data.negative_space", "negative_space_poisoning", "UNAVAILABLE")>>
       ELSE PerSample(hits, report)

(* Boxes of one contributor and category whose area, shape or place is shifted from every peer's, in the same
   direction; the boxes in the tail of the shift are the ones named. A box is [cat, feats], a feature a number. *)
GeometryDefaults == [minN |-> 15, effectMin |-> 100, sampleZ |-> 150, madFloor |-> 1]
BoxesOf(data, c, cat) ==
    {e \in UNION {{j} \X DOMAIN data[j].boxes : j \in From(data, DOMAIN data, c)} : data[e[1]].boxes[e[2]].cat = cat}
ValuesOf(data, boxes, f) ==
    LET order == SetToSeq(boxes) IN [n \in DOMAIN order |-> data[order[n][1]].boxes[order[n][2]].feats[f]]
Scale(values, p) ==
    Max({(148 * Median([i \in DOMAIN values |-> Divergence(values[i], Median(values))])) \div 100, p.madFloor})

AnnotationGeometry(data, p) ==
    LET who == Contributors(data, DOMAIN data)
        cats == UNION {{data[i].boxes[b].cat : b \in DOMAIN data[i].boxes} : i \in DOMAIN data}
        usable(cat) == {c \in who : Cardinality(BoxesOf(data, c, cat)) >= p.minN}
        family == 4 * Cardinality({e \in who \X cats : e[1] \in usable(e[2]) /\ Cardinality(usable(e[2])) >= 2})
        values(c, cat, f) == ValuesOf(data, BoxesOf(data, c, cat), f)
        z(x, o, cat, f) == (100 * (x - Median(values(o, cat, f)))) \div Scale(values(o, cat, f), p)
        shift(c, o, cat, f) == z(Median(values(c, cat, f)), o, cat, f)
        shifted(c, cat, f) ==
            LET others == usable(cat) \ {c} IN
            /\ c \in usable(cat) /\ others # {}
            /\ \/ \A o \in others : shift(c, o, cat, f) >= p.effectMin
               \/ \A o \in others : shift(c, o, cat, f) <= - p.effectMin
            /\ \A o \in others : Differs(values(c, cat, f), values(o, cat, f), family)
        nearest(c, cat, f) ==
            CHOOSE o \in usable(cat) \ {c} : \A q \in usable(cat) \ {c} :
                Divergence(shift(c, o, cat, f), 0) <= Divergence(shift(c, q, cat, f), 0)
        inTail(i, b, f) ==
            LET c == data[i].contributor
                box == data[i].boxes[b]
                o == nearest(c, box.cat, f)
                out == z(box.feats[f], o, box.cat, f)
            IN /\ c # "" /\ shifted(c, box.cat, f)
               /\ (IF shift(c, o, box.cat, f) > 0 THEN out ELSE - out) >= p.sampleZ
        features(i) == {f \in 1..4 : \E b \in DOMAIN data[i].boxes : inTail(i, b, f)}
        report(i) == Finding("data.annotation_geometry", "annotation_geometry_tamper", "OK",
                             IF Cardinality(features(i)) >= 2 THEN Medium ELSE Low,
                             AtMostOf(33 + 10 * Cardinality(features(i)), 70), p.sampleZ)
    IN IF family = 0 THEN <<NotPerformed("data.annotation_geometry", "annotation_geometry_tamper", "UNAVAILABLE")>>
       ELSE PerSample({i \in DOMAIN data : features(i) # {}}, report)

---------------------------------------------------------------------------
(* Files that look generated as a set: each group large enough is compared with all the files outside it. *)
MetadataDefaults == [minGroup |-> 20, exifGroupMax |-> 5, exifCohortMin |-> 50, concentration |-> 95,
                     cohortConcentrationMax |-> 80, sizeCohortMax |-> 50, encoderGroupMin |-> 50,
                     encoderGapMin |-> 40, burstShare |-> 90, burstCohortMax |-> 50, pooledMin |-> 3,
                     cameraMinShare |-> 50, burstGap |-> 1]
Percent(k, n) == IF n = 0 THEN 0 ELSE (100 * k) \div n
Share(S, test(_)) == Percent(Cardinality({i \in S : test(i)}), Cardinality(S))
(* The largest share one value has among the files that carry one ("" or 0 when none does). *)
TopShare(S, value(_), none) ==
    LET carried == {i \in S : value(i) # none}
    IN Max({0} \cup {Percent(Cardinality({j \in carried : value(j) = value(i)}), Cardinality(carried)) : i \in carried})
(* The share of the gaps between consecutive files that are shorter than the burst gap. *)
BurstShare(data, S, gap) ==
    LET times == SortSeq([n \in 1..Cardinality(S) |-> data[InOrder(S)[n]].meta.mtime], <)
        gaps == 1..(Len(times) - 1)
    IN IF Len(times) < 3 THEN 0
       ELSE Percent(Cardinality({g \in gaps : times[g + 1] - times[g] < gap}), Cardinality(gaps))

(* The group a file is compared in: its contributor's, else its batch's, else the dataset's. *)
MetaGroup(s) == IF s.contributor # "" THEN <<"contributor", s.contributor>>
                ELSE IF s.batch # "" THEN <<"batch", s.batch>> ELSE <<"dataset", "dataset">>

CamerasOf(data, S) == {data[i].meta.camera : i \in S} \ {""}
Signals(data, g, cohort, peerCams, p) ==
    LET meta(i) == data[i].meta
        exif(i) == meta(i).exif
        named(i) == meta(i).camera # ""
        quant(i) == meta(i).quant
        dims(i) == meta(i).dims
        tool(i) == meta(i).tool
        named50 == Share(g, named) >= p.cameraMinShare
        found(name, holds) == IF holds THEN {name} ELSE {}
    IN (IF Cardinality(cohort) < p.minGroup THEN {}
        ELSE found("exif_stripped", Share(g, exif) <= p.exifGroupMax /\ Share(cohort, exif) >= p.exifCohortMin)
             \cup found("single_camera", named50 /\ Cardinality(CamerasOf(data, g)) = 1
                                               /\ Cardinality(CamerasOf(data, cohort)) >= 3)
             \cup found("pooled_cameras", /\ named50 /\ Cardinality(peerCams) >= 2
                                          /\ Cardinality(CamerasOf(data, g)) >= p.pooledMin
                                          /\ \A P \in peerCams : Cardinality(CamerasOf(data, P)) <= 1)
             \cup found("quant_table", TopShare(g, quant, 0) >= p.concentration
                                             /\ TopShare(cohort, quant, 0) < p.cohortConcentrationMax)
             \cup found("uniform_size", TopShare(g, dims, 0) >= p.concentration
                                              /\ TopShare(cohort, dims, 0) < p.sizeCohortMax)
             \cup found("mtime_burst", BurstShare(data, g, p.burstGap) >= p.burstShare
                                             /\ BurstShare(data, cohort, p.burstGap) < p.burstCohortMax))
       \cup found("encoder_string", Share(g, tool) >= p.encoderGroupMin
                                         /\ Share(g, tool) - Share(cohort, tool) >= p.encoderGapMin)

MetadataAnomaly(data, p) ==
    LET unreadable == {i \in DOMAIN data : ~ data[i].meta.readable}
        members(key) == {i \in DOMAIN data : MetaGroup(data[i]) = key}
        big == {key \in {MetaGroup(data[i]) : i \in DOMAIN data} : Cardinality(members(key)) >= p.minGroup}
        cohort(key) == DOMAIN data \ members(key)
        signals(key) == Signals(data, members(key), cohort(key), {members(o) : o \in big \ {key}}, p)
        shown == {key \in big : signals(key) # {}}
        report(key) == LET k == Cardinality(signals(key)) IN
                       Finding("data.metadata_anomaly", "script_generated_batch", "OK",
                               IF k >= 3 THEN Medium ELSE Low, AtMostOf(35 + 15 * k, 80), 100 * k)
    IN IF 2 * Cardinality(unreadable) > Len(data) \/ big = {}
       THEN <<NotPerformed("data.metadata_anomaly", "script_generated_batch", "UNAVAILABLE")>>
       ELSE IF shown = {} /\ \A key \in big : Cardinality(cohort(key)) < p.minGroup
       THEN <<NotPerformed("data.metadata_anomaly", "script_generated_batch", "DEGRADED")>>
       ELSE PerGroup(shown, report)
---------------------------------------------------------------------------
(* Triggers, by four methods of which two corroborate: an anomaly that recurs at one place, and a place whose
   occlusion changes the model's answers. A method that could not run is a problem, reported and never raised. *)
TriggerDefaults == [minBaseline |-> 30, zThr |-> 380, minGroupAbs |-> 5, minGroupFrac |-> 1, flipMin |-> 50,
                    flipGapMin |-> 30, targetConcMin |-> 60, maxGroupSamples |-> 100, ssZ |-> 600, ssMinClass |-> 20,
                    acSilhouetteMin |-> 50, acMinClass |-> 20, candidates |-> {}]
Corroborators == {"frequency_residue", "patch_saliency"}
MethodConf == [frequency_residue |-> 50, patch_saliency |-> 60, spectral_signature |-> 25, activation_clustering |-> 25]
Has(model, cap) == ~ model.absent /\ ~ model.broken /\ cap \in model.caps

FrequencyResidue(data, p) ==
    LET at(b) == {i \in DOMAIN data : data[i].z >= p.zThr /\ data[i].block = b}
        need == Max({p.minGroupAbs, (p.minGroupFrac * Len(data) + 99) \div 100})
    IN IF Len(data) < p.minBaseline THEN {}
       ELSE {i \in DOMAIN data : data[i].z >= p.zThr /\ Cardinality(at(data[i].block)) >= need}

(* The regions worth occluding: where residues recur, and the one a sweep over the named candidates votes for. *)
SaliencyGroups(data, model, p) ==
    LET residue == FrequencyResidue(data, p)
        swept == IF p.candidates # {} /\ model.queryable /\ model.hot # 0 THEN {model.hot} ELSE {}
    IN [b \in {data[i].block : i \in residue} \cup swept |->
           LET ids == {i \in residue : data[i].block = b} \cup IF b \in swept THEN p.candidates ELSE {}
           IN ToSet(SubSeq(InOrder(ids), 1, Min({Cardinality(ids), p.maxGroupSamples})))]

(* Occluding the region changes the answers, occluding others does not, and one class loses most of them. *)
OcclusionTest(model, b, p) ==
    LET res == model.occlusion[b]
    IN res.flip >= p.flipMin /\ res.flip - res.control >= p.flipGapMin /\ res.share >= p.targetConcMin
PatchSaliency(data, model, p) ==
    LET groups == SaliencyGroups(data, model, p)
    IN UNION {groups[b] : b \in {r \in DOMAIN groups : model.queryable /\ OcclusionTest(model, r, p)}}

(* The classes with enough samples for a method on activations, of the samples whose label the model knows. *)
LargeClasses(data, model, size) ==
    LET of(c) == {i \in Labelled(data) : DominantCategory(data[i]) = c}
    IN IF ~ model.activated THEN {} ELSE {c \in 1..Len(model.norms) : Cardinality(of(c)) >= size}
SpectralFlags(data, model, p) ==
    {i \in Labelled(data) : DominantCategory(data[i]) \in LargeClasses(data, model, p.ssMinClass)
                             /\ data[i].spectral >= p.ssZ}
ClusterFlags(data, model, p) ==
    {i \in Labelled(data) : DominantCategory(data[i]) \in LargeClasses(data, model, p.acMinClass)
                             /\ data[i].cluster >= p.acSilhouetteMin}

TriggerFinding(s, methods) ==
    LET corr == Cardinality(Corroborators \cap methods)
        left(m) == IF m \in methods THEN 100 - MethodConf[m] ELSE 100
        conf == 100 - (left("frequency_residue") * left("patch_saliency") * left("spectral_signature")
                        * left("activation_clustering")) \div 1000000
    IN Finding("data.trigger_artifact", "trigger_injection", "OK",
               IF corr = 0 THEN Low ELSE IF corr = 2 \/ methods \ Corroborators # {} THEN High ELSE Medium,
               AtMostOf(conf, IF corr = 0 THEN 35 ELSE 95),
               IF "frequency_residue" \in methods THEN s.z ELSE Max({s.spectral, s.cluster}))

TriggerArtifact(data, model, p) ==
    LET predicts == Has(model, "MODEL_PREDICT")
        reads == Has(model, "MODEL_ACTIVATIONS")
        groups == SaliencyGroups(data, model, p)
        ran == Len(data) >= p.minBaseline \/ (predicts /\ model.queryable /\ DOMAIN groups # {})
               \/ (reads /\ LargeClasses(data, model, Min({p.ssMinClass, p.acMinClass})) # {})
        problem == \/ ~ model.absent /\ model.broken
                   \/ predicts /\ ~ model.queryable /\ (DOMAIN groups # {} \/ p.candidates # {})
                   \/ reads /\ ~ model.activated /\ Labelled(data) # {}
        none == NotPerformed("data.trigger_artifact", "trigger_injection", "UNAVAILABLE")
        by(i) == {m \in DOMAIN MethodConf :
                    \/ m = "frequency_residue" /\ i \in FrequencyResidue(data, p)
                    \/ m = "patch_saliency" /\ predicts /\ i \in PatchSaliency(data, model, p)
                    \/ m = "spectral_signature" /\ reads /\ i \in SpectralFlags(data, model, p)
                    \/ m = "activation_clustering" /\ reads /\ i \in ClusterFlags(data, model, p)}
        report(i) == TriggerFinding(data[i], by(i))
    IN IF ~ ran THEN <<none>>
       ELSE PerSample({i \in DOMAIN data : by(i) # {}}, report)
            \o IF problem THEN <<[none EXCEPT !.avail = "DEGRADED"]>> ELSE <<>>

(* Samples beyond the tail of a clean reference: one is low, a contributor with many of them medium. *)
OodDefaults == [minReference |-> 50, contributorShare |-> 20, contributorMin |-> 10]
OutOfDistribution(data, emb, reference, p) ==
    LET flagged == {i \in DOMAIN data : data[i].vec # 0 /\ data[i].dist > 0}
        all(c) == Cardinality(From(data, DOMAIN data, c))
        far(c) == Cardinality(From(data, flagged, c))
        heavy(c) == c # "" /\ far(c) >= p.contributorMin /\ 100 * far(c) >= p.contributorShare * all(c)
        report(i) == Finding("data.ood", "out_of_distribution", "OK",
                             IF heavy(data[i].contributor) THEN Medium ELSE Low,
                             AtMostOf(40 + AtMostOf(data[i].dist, 100) \div 2, 90), data[i].dist)
    IN IF reference = 0 \/ ~ emb \/ reference < p.minReference
       THEN <<NotPerformed("data.ood", "out_of_distribution", "UNAVAILABLE")>>
       ELSE PerSample(flagged, report)
=============================================================================
