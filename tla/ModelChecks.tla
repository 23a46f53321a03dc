----------------------------- MODULE ModelChecks -----------------------------
(* The model checks (detectors/model): what each one reports of a model, given what the scan could supply.

   A model is a record of what the checks can measure of it: its weight digest, its response to the probe
   battery (behaviour, thousandths), its operator graph (<<>> when the format has none to read), its capabilities,
   and the scores the numerical parts produce (hundredths). A context holds the reference manifest (an option of
   digest, fingerprint option and architecture hash), the number of reference models, of clean probes and of
   suspect inputs, whether the probes are labelled, and what earlier checks of the same scan left behind. *)
EXTENDS Integers, Sequences, FiniteSets, SequencesExt, RiskRules

Finding(det, cls, avail, sev, conf, raw) ==
    [det |-> det, cls |-> cls, avail |-> avail, sev |-> sev, conf |-> conf, raw |-> raw, target |-> 0,
     disp |-> "review", rule |-> "none", assessed |-> TRUE]

(* The row of a check that could not look: its limitation says the class was not assessed in this scan. *)
UnavailableFinding(det, cls, state) ==
    [Finding(det, cls, state, Info, 0, 0) EXCEPT !.rule = "capability.unavailable", !.assessed = FALSE]

Clip(x, lo, hi) == IF x < lo THEN lo ELSE IF x > hi THEN hi ELSE x
Largest(seq) == CHOOSE x \in ToSet(seq) : \A y \in ToSet(seq) : y <= x

(* Byte identity with the declared digest. *)
WeightDigestCheck(model, ctx) ==
    LET declared == IF ctx.manifest = <<>> THEN "" ELSE ctx.manifest[1].digest
        report(sev, raw) == Finding("model.weight_digest", "model_substitution", "OK", sev, 100, raw)
    IN IF declared = "" THEN <<UnavailableFinding("model.weight_digest", "model_substitution", "DEGRADED")>>
       ELSE IF model.digest = declared THEN <<report(Info, 0)>>
       ELSE <<report(Critical, 100)>>

Benign == 10
Hostile == 50
Divergence(a, b) == IF a >= b THEN a - b ELSE b - a

(* Distance from the registered fingerprint: identical, inside the tolerance band, or a different model. *)
FingerprintCheck(model, ctx) ==
    LET registered == IF ctx.manifest = <<>> THEN <<>> ELSE ctx.manifest[1].fingerprint
        d == Divergence(model.behaviour, registered[1])
        report(sev, conf) == Finding("model.fingerprint", "model_substitution", "OK", sev, conf, d \div 10)
    IN IF registered = <<>> THEN <<UnavailableFinding("model.fingerprint", "model_substitution", "DEGRADED")>>
       ELSE IF d <= Benign THEN <<report(Info, 100 - d \div 10)>>
       ELSE IF d <= Hostile THEN <<report(Low, 50)>>
       ELSE <<report(High, Clip((60 * d) \div Hostile + 35, 0, 99))>>

(* The worst of a foreign operator, data-dependent control flow, a dormant subgraph and a changed inventory. *)
GraphStructureCheck(model, ctx) ==
    LET graph == model.graph[1]
        changed == /\ ctx.manifest # <<>>
                   /\ ctx.manifest[1].arch # ""
                   /\ ctx.manifest[1].arch # graph.arch
        problems == (IF graph.nonstandard THEN {Critical} ELSE {}) \cup (IF graph.control THEN {High} ELSE {})
                    \cup (IF graph.dead THEN {Medium} ELSE {}) \cup (IF changed THEN {High} ELSE {})
        sev == CHOOSE s \in problems \cup {Info} : \A t \in problems : t <= s
    IN IF model.graph = <<>> THEN <<UnavailableFinding("model.graph_structure", "architectural_backdoor", "DEGRADED")>>
       ELSE <<Finding("model.graph_structure",
                      IF graph.nonstandard THEN "unsafe_artifact" ELSE "architectural_backdoor", "OK", sev,
                      IF problems = {} THEN 0 ELSE 95, 100 * Cardinality(problems))>>

MinBattery == 5

(* Layer spread against a battery large enough for a z-score to mean anything. *)
WeightFindings(model, ctx) ==
    IF ctx.battery < MinBattery THEN <<UnavailableFinding("model.weight_stats", "weight_anomaly", "DEGRADED")>>
    ELSE <<Finding("model.weight_stats", "weight_anomaly", "OK", IF model.spread > 400 THEN High ELSE Info,
                   Clip(model.spread \div 8, 0, 90), model.spread)>>

(* Inert units, on clean probes, of a model whose activations can be read. *)
ActivationFindings(model, ctx) ==
    IF "MODEL_ACTIVATIONS" \notin model.caps \/ ctx.probes = 0
    THEN <<UnavailableFinding("model.weight_stats", "activation_anomaly", "DEGRADED")>>
    ELSE <<Finding("model.weight_stats", "activation_anomaly", "OK", IF model.inert > 35 THEN Medium ELSE Info,
                   (60 * Clip((100 * model.inert) \div 35, 0, 100)) \div 100, model.inert)>>

WeightStatisticsCheck(model, ctx) == WeightFindings(model, ctx) \o ActivationFindings(model, ctx)

---------------------------------------------------------------------------
(* One-sided outlier index of each value against the others (hundredths): how far below the median, in median
   deviations, the scale floored at a twentieth of the median. *)
Median(seq) ==
    LET s == SortSeq(seq, <) IN (s[(Len(s) + 1) \div 2] + s[Len(s) \div 2 + 1]) \div 2

MadAnomalyIndex(norms) ==
    LET med == Median(norms)
        mad == (14826 * Median([i \in DOMAIN norms |-> Divergence(norms[i], med)])) \div 10000
        scale == Largest(<<mad, med \div 20, 1>>)
    IN [i \in DOMAIN norms |-> (100 * (med - norms[i])) \div scale]

(* The classes by how suspicious the reference-free signals make them. *)
Ranking(model) ==
    SortSeq([c \in DOMAIN model.suspicion |-> c], LAMBDA c, d : model.suspicion[c] > model.suspicion[d])

IntrinsicProbeCheck(model, ctx) ==
    LET top == model.suspicion[Head(Ranking(model))] IN
    IF ctx.probes = 0 \/ ~ ctx.labelled
    THEN <<UnavailableFinding("model.intrinsic_probes", "backdoor_trigger", "UNAVAILABLE")>>
    ELSE <<Finding("model.intrinsic_probes", "backdoor_trigger", "OK", IF top > 250 THEN Medium ELSE Info,
                   Clip(top \div 5, 0, 60), top)>>

(* The smallest trigger of each class examined, the suspicious ones first; a gradient-free search says less. *)
NeuralCleanseCheck(model, ctx) ==
    LET order == IF ctx.order = <<>> THEN [c \in DOMAIN model.norms |-> c] ELSE ctx.order
        classes == SubSeq(order, 1, Clip(ctx.topK, 1, Len(order)))
        worst == Largest(MadAnomalyIndex([i \in DOMAIN classes |-> model.norms[classes[i]]]))
        native == "MODEL_GRADIENTS" \in model.caps
        sure == Clip(worst \div 4, 0, 100)
    IN IF ctx.probes = 0 THEN <<UnavailableFinding("model.neural_cleanse", "backdoor_trigger", "UNAVAILABLE")>>
       ELSE <<Finding("model.neural_cleanse", "backdoor_trigger", IF native THEN "OK" ELSE "DEGRADED",
                      IF worst > 200 THEN Critical ELSE Info,
                      IF native THEN sure ELSE (70 * sure) \div 100, worst)>>

MinProbes == 32

UniversalMarginCheck(model, ctx) ==
    LET worst == Largest(MadAnomalyIndex(model.costs)) IN
    IF ctx.probes < MinProbes THEN <<UnavailableFinding("model.universal_margin", "backdoor_trigger", "UNAVAILABLE")>>
    ELSE <<Finding("model.universal_margin", "backdoor_trigger", "OK", IF worst > 200 THEN High ELSE Info,
                   Clip(worst \div 4, 0, 85), worst)>>

(* Which inputs carry a trigger: nothing without inputs that may carry one. *)
StripCheck(model, ctx) ==
    LET low == model.lowEntropy IN
    IF ctx.suspects = 0 \/ ctx.probes < MinProbes
    THEN <<UnavailableFinding("model.strip", "backdoor_trigger", "UNAVAILABLE")>>
    ELSE <<Finding("model.strip", "backdoor_trigger", "OK", IF low > 5 THEN High ELSE Info,
                   IF low > 5 THEN (80 * (low - 5)) \div 95 + 15 ELSE 0, low)>>

(* Near chance (known only with labels), few classes used, one class for most, or saturated. *)
AnomalousBehaviourCheck(model, ctx) ==
    LET flagged == \/ ctx.labelled /\ model.accuracy < 40
                   \/ model.used < 2 \/ model.used < Len(model.norms) \div 2
                   \/ model.collapse > 60 \/ model.saturated
    IN IF ctx.probes = 0 THEN <<UnavailableFinding("model.anomalous", "model_anomalous", "UNAVAILABLE")>>
       ELSE <<Finding("model.anomalous", "model_anomalous", "OK", IF flagged THEN Medium ELSE Info,
                      IF flagged THEN 80 ELSE 0, model.collapse)>>

(* A pattern that drives the model: the supplied data explains it or not. Needs a candidate found earlier. *)
DataConsistencyCheck(model, ctx) ==
    LET cand == ctx.trigger[1]
        drives == cand.response >= 60
    IN IF ctx.trigger = <<>> THEN <<UnavailableFinding("model.data_consistency", "data_model_discrepancy", "DEGRADED")>>
       ELSE <<Finding("model.data_consistency", "data_model_discrepancy", "OK", IF drives THEN High ELSE Info,
                      IF ~ drives THEN 0 ELSE Clip(cand.response, 0, IF cand.present THEN 85 ELSE 90),
                      cand.response)>>
=============================================================================
