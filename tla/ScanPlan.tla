------------------------------ MODULE ScanPlan ------------------------------
(* What a scan may run: the capabilities its inputs really have, the profile it was asked for, and the plan that
   resolves every registered check against both before anything runs (core/capability.py, core/runcontext.py,
   core/profile.py, core/registry.py and the planning half of core/orchestrator.py).

   A context is what the command line could supply: clean probes and suspect inputs (counts), reference models,
   the reference manifest, whether each ledger can be used, and two datasets (options). *)
EXTENDS Integers, Sequences, FiniteSets, SequencesExt, TLC, DataChecks

DatasetCaps == {"DATASET_IMAGES", "DATASET_LABELS", "DATASET_CONTRIBUTOR_META"}
ModelCaps == {"MODEL_PREDICT", "MODEL_LOGITS", "MODEL_ACTIVATIONS", "MODEL_WEIGHTS", "MODEL_GRADIENTS",
              "MODEL_ARCHITECTURE"}
ContextCaps == {"REFERENCE_CLEAN_SET", "SUSPECT_INPUTS", "REFERENCE_MODEL_BATTERY", "REFERENCE_MANIFEST",
                "INFERENCE_LEDGER", "SIGNING_KEY"}

When(holds, cap) == IF holds THEN {cap} ELSE {}

(* A capability is probed, never declared: an image that decodes, a label, a contributor that resolved. *)
DatasetCapabilities(data) ==
    When(\E i \in DOMAIN data : data[i].decodes, "DATASET_IMAGES")
    \cup When(\E i \in DOMAIN data : data[i].labels # <<>>, "DATASET_LABELS")
    \cup When(\E i \in DOMAIN data : data[i].contributor # "", "DATASET_CONTRIBUTOR_META")

(* Clean references come from probes or from a second dataset that is not empty. *)
ContextCapabilities(ctx) ==
    When(ctx.probes > 0 \/ (ctx.reference # <<>> /\ ctx.reference[1] # <<>>), "REFERENCE_CLEAN_SET")
    \cup When(ctx.suspects > 0, "SUSPECT_INPUTS")
    \cup When(ctx.battery > 0, "REFERENCE_MODEL_BATTERY")
    \cup When(ctx.manifest # <<>>, "REFERENCE_MANIFEST")
    \cup When(ctx.signs, "SIGNING_KEY")
    \cup When(ctx.audits, "INFERENCE_LEDGER")
    \cup IF ctx.dataset = <<>> THEN {} ELSE DatasetCapabilities(ctx.dataset[1])

(* A resolution: the state, why the check may not run, and what is missing. *)
Resolution(state, why, missing) == [state |-> state, why |-> why, missing |-> missing, cost |-> "none"]
Runnable(res) == res.state \in {"OK", "DEGRADED"}

Resolve(caps, requires, optional) ==
    IF requires \ caps # {} THEN Resolution("UNAVAILABLE", "capability", requires \ caps)
    ELSE IF optional \ caps # {} THEN Resolution("DEGRADED", "", optional \ caps)
    ELSE Resolution("OK", "", {})

BudgetExcluded(cost) == [Resolution("UNAVAILABLE", "budget", {}) EXCEPT !.cost = cost]

---------------------------------------------------------------------------
(* The registries. A data check is given the dataset and the index, a model check the model. *)
KindModel == "model"
KindData == "data"
Check(kind, requires, optional, classes) ==
    [kind |-> kind, requires |-> requires, optional |-> optional, classes |-> classes]

Registry ==
    ("data.annotation_geometry" :> Check(KindData, {"DATASET_LABELS", "DATASET_CONTRIBUTOR_META"}, {},
                                         {"annotation_geometry_tamper"}))
 @@ ("data.duplicate_label_conflict" :> Check(KindData, {"DATASET_IMAGES", "DATASET_LABELS"}, {},
                                              {"duplicate_label_conflict"}))
 @@ ("data.label_consistency" :> Check(KindData, {"DATASET_IMAGES", "DATASET_LABELS"}, {}, {"label_flipping"}))
 @@ ("data.metadata_anomaly" :> Check(KindData, {"DATASET_IMAGES"}, {}, {"script_generated_batch"}))
 @@ ("data.near_dup" :> Check(KindData, {"DATASET_IMAGES"}, {}, {"near_duplicate_flooding"}))
 @@ ("data.negative_space" :> Check(KindData, {"DATASET_IMAGES", "DATASET_LABELS", "MODEL_PREDICT"},
                                    {"DATASET_CONTRIBUTOR_META"}, {"negative_space_poisoning"}))
 @@ ("data.ood" :> Check(KindData, {"DATASET_IMAGES", "REFERENCE_CLEAN_SET"}, {}, {"out_of_distribution"}))
 @@ ("data.systematic_mislabel" :> Check(KindData, DatasetCaps, {}, {"systematic_mislabelling"}))
 @@ ("data.trigger_artifact" :> Check(KindData, {"DATASET_IMAGES"}, {"MODEL_ACTIVATIONS", "MODEL_PREDICT"},
                                      {"trigger_injection"}))
 @@ ("model.data_consistency" :> Check(KindData, {"DATASET_IMAGES", "MODEL_PREDICT"}, {}, {"data_model_discrepancy"}))
 @@ ("model.anomalous" :> Check(KindModel, {"MODEL_PREDICT", "REFERENCE_CLEAN_SET"}, {}, {"model_anomalous"}))
 @@ ("model.fingerprint" :> Check(KindModel, {"MODEL_PREDICT"}, {"REFERENCE_MANIFEST"},
                                  {"model_substitution", "weight_anomaly", "benign_conversion"}))
 @@ ("model.graph_structure" :> Check(KindModel, {"MODEL_ARCHITECTURE"}, {"REFERENCE_MANIFEST"},
                                      {"architectural_backdoor", "unsafe_artifact"}))
 @@ ("model.intrinsic_probes" :> Check(KindModel, {"MODEL_PREDICT", "REFERENCE_CLEAN_SET"}, {},
                                       {"backdoor_trigger", "model_anomalous"}))
 @@ ("model.neural_cleanse" :> Check(KindModel, {"MODEL_PREDICT", "REFERENCE_CLEAN_SET"}, {"MODEL_GRADIENTS"},
                                     {"backdoor_trigger"}))
 @@ ("model.strip" :> Check(KindModel, {"MODEL_PREDICT", "REFERENCE_CLEAN_SET", "SUSPECT_INPUTS"}, {},
                            {"backdoor_trigger"}))
 @@ ("model.universal_margin" :> Check(KindModel, {"MODEL_PREDICT", "REFERENCE_CLEAN_SET"}, {}, {"backdoor_trigger"}))
 @@ ("model.weight_digest" :> Check(KindModel, {}, {"REFERENCE_MANIFEST", "MODEL_WEIGHTS"},
                                    {"model_substitution", "weight_anomaly"}))
 @@ ("model.weight_stats" :> Check(KindModel, {"MODEL_WEIGHTS"}, {"REFERENCE_MODEL_BATTERY", "MODEL_ACTIVATIONS"},
                                   {"weight_anomaly", "activation_anomaly"}))

(* Attack classes count as coverage, reports about the tool's own state do not; four classes stand for those of
   the modules whose checks the scanner does not register. *)
Operational == {"benign_conversion", "tool.error", "not_assessed"}
Elsewhere == {"record_tampered", "distribution_shift", "semantic_shift", "suspicious_manipulation"}
Claimable == ((UNION {Registry[c].classes : c \in DOMAIN Registry}) \cup Elsewhere) \ Operational

(* Registering refuses a class the taxonomy does not know and an id another implementation holds. *)
Claim(reg, id, impl, classes) ==
    IF classes \subseteq Claimable \cup Operational /\ (id \in DOMAIN reg => reg[id] = impl)
    THEN <<(id :> impl) @@ reg>> ELSE <<>>

---------------------------------------------------------------------------
(* Two axes: how much work (a tier) and what posture (a policy). checks is <<>> for every registered check. *)
Tier(checks, except, maxImages, topK) ==
    [checks |-> checks, except |-> except, maxImages |-> maxImages, topK |-> topK]
Tiers == [triage   |-> Tier(<<{"model.weight_digest", "model.graph_structure"}>>, {}, 0, 999),
          standard |-> Tier(<<>>, {"model.neural_cleanse", "model.strip", "model.universal_margin",
                                   "model.data_consistency"}, 5000, 999),
          deep     |-> Tier(<<>>, {}, 30000, 3),
          forensic |-> Tier(<<>>, {}, 120000, 999)]

Policy(tier, disabled, selftest) == [tier |-> tier, disabled |-> disabled, selftest |-> selftest]
WhiteBox == {"model.weight_digest", "model.weight_stats", "model.graph_structure", "model.neural_cleanse"}
Policies == [baseline |-> Policy("standard", {}, FALSE),
             strict   |-> Policy("deep", {}, FALSE),
             blackbox |-> Policy("standard", WhiteBox, FALSE),
             selftest |-> Policy("standard", {}, TRUE)]

(* The tier first, the policy on top; an explicit tier wins over the policy's own. An unknown name is refused
   (<<>>), never replaced by a default. *)
ResolveProfile(name, tier) ==
    LET policy == IF name \in DOMAIN Policies THEN Policies[name] ELSE Policy("", {}, FALSE)
        tierName == IF tier # "" THEN tier ELSE IF policy.tier # "" THEN policy.tier ELSE name
    IN IF name \notin DOMAIN Policies \cup DOMAIN Tiers \/ tierName \notin DOMAIN Tiers THEN <<>>
       ELSE <<[name |-> name, tier |-> tierName, checks |-> Tiers[tierName].checks,
               except |-> Tiers[tierName].except, disabled |-> policy.disabled,
               maxImages |-> Tiers[tierName].maxImages, selftest |-> policy.selftest,
               topK |-> IF policy.selftest THEN 1 ELSE Tiers[tierName].topK, rules |-> DefaultRules]>>

Known(checks) == checks \subseteq DOMAIN Registry
ValidateProfileIds(prof) ==
    Known(prof.except) /\ Known(prof.disabled) /\ (prof.checks # <<>> => Known(prof.checks[1]))

(* What lifting a budget exclusion costs: the shared embedding pass, when there is a dataset to size it. *)
EstimatedCost(ctx, check) ==
    IF Registry[check].kind = KindData /\ ctx.dataset # <<>> /\ check # "model.data_consistency"
    THEN "embedding pass" ELSE "not estimated"

(* One row per registered check, the model's own checks needing a model. What cannot run is told apart from what
   was not asked to: a missing capability is reported before the budget. *)
PlanRow(check, caps, prof, ctx) ==
    LET entry == Registry[check]
        res == Resolve(caps, entry.requires, entry.optional)
        outside == (prof.checks # <<>> /\ check \notin prof.checks[1]) \/ check \in prof.except
    IN [check |-> check, kind |-> entry.kind, classes |-> entry.classes,
        res |-> IF check \in prof.disabled THEN Resolution("UNAVAILABLE", "budget", {})
                ELSE IF ~ Runnable(res) THEN res
                ELSE IF entry.kind = KindModel /\ ctx.model = <<>> THEN Resolution("UNAVAILABLE", "capability", {})
                ELSE IF outside THEN BudgetExcluded(EstimatedCost(ctx, check))
                ELSE res]

BuildPlan(ctx, prof) ==
    LET caps == ContextCapabilities(ctx) \cup IF ctx.model = <<>> THEN {} ELSE ctx.model[1].caps
    IN {PlanRow(check, caps, prof, ctx) : check \in DOMAIN Registry}

(* A row that may not run is reported as a gap of its first class. *)
PlanFinding(row) ==
    UnavailableFinding(row.check, CHOOSE c \in row.classes : TRUE, row.res.state)

(* What the gaps cost, in the one line above the plan. *)
Consequence(plan) ==
    LET rows(state, why) == Cardinality({r \in plan : r.res.state = state /\ r.res.why = why})
    IN [capability |-> rows("UNAVAILABLE", "capability"), budget |-> rows("UNAVAILABLE", "budget"),
        degraded |-> rows("DEGRADED", "")]

RenderAccessBlock(caps, plan) ==
    [available |-> caps, absent |-> (DatasetCaps \cup ModelCaps \cup ContextCaps) \ caps,
     consequence |-> Consequence(plan)]

---------------------------------------------------------------------------
(* The arguments that name a model: one source at most, and a query-only one says what it cannot be asked. *)
ModelArgError(args) ==
    LET sources == Cardinality({s \in {"path", "cmd", "url"} : s \in args.sources})
        query == args.sources \cap {"cmd", "url"} # {}
    IN \/ sources > 1
       \/ args.preprocess /\ sources = 0
       \/ query /\ ~ (args.shape /\ args.classes /\ args.wellFormed)
       \/ ~ query /\ (args.shape \/ args.classes)

(* The manifest registered for a model: a fact that is unknown is absent. Reading it back drops the rest. *)
ReferenceManifest(model, withFingerprint) ==
    [digest |-> IF model.digest \in {"unavailable:frozen", "unavailable:query"} THEN "" ELSE model.digest,
     fingerprint |-> IF withFingerprint /\ model.queryable THEN <<model.behaviour>> ELSE <<>>,
     arch |-> IF model.graph = <<>> THEN "" ELSE model.graph[1].arch]
ManifestFrom(reference) == [reference EXCEPT !.arch = ""]

(* Reference models are other, clean ones. *)
BuildBattery(corpus, exclude) == Min({2, Cardinality(corpus \ {exclude})})
=============================================================================
