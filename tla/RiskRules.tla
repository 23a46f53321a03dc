----------------------------- MODULE RiskRules -----------------------------
(* The risk engine (risk/disposition.py, risk/engine.py and the verdict of core/orchestrator.py): a finding that
   ran is calibrated, routed by the first rule of the profile's table that matches it, and the routed findings
   together decide the scan's verdict.

   A finding is a record: the check (det) and class (cls) it is about, whether it ran (avail), its severity
   0..4, its confidence and raw score in hundredths, the sample it targets (0 for the model or the dataset), the
   disposition and rule the engine gives it, and whether the class was assessed at all (a finding may say it was
   not). *)
EXTENDS Integers, Sequences, FiniteSets, SequencesExt

Info == 0   Low == 1   Medium == 2   High == 3   Critical == 4
Availabilities == {"OK", "DEGRADED", "UNAVAILABLE", "ERROR"}
Ran(f) == f.avail \in {"OK", "DEGRADED"}

(* Dispositions are ordered so that a cap is a minimum. *)
Severer == [accept |-> 0, review |-> 1, quarantine |-> 2]
AtMost(disp, cap) == IF Severer[disp] > Severer[cap] THEN cap ELSE disp

Anything == {"any"}
Provenance == {"prov.chain"}
ModuleD == {"distribution_shift", "semantic_shift", "suspicious_manipulation"}

(* A row of the table: the checks and classes it is about, the confidence and severity it asks for (0: no
   floor), the disposition it gives and the ceiling on it. *)
Row(id, dets, classes, minConf, minSev, disp, cap) ==
    [id |-> id, dets |-> dets, classes |-> classes, minConf |-> minConf, minSev |-> minSev,
     minPost |-> 0, disp |-> disp, cap |-> cap]

DefaultRules ==
    << Row("D1", Provenance, Anything, 0, High, "quarantine", "quarantine"),
       Row("D2", Anything, {"benign_conversion"}, 0, 0, "review", "quarantine"),
       Row("D6", Anything, ModuleD, 60, Low, "review", "review"),
       Row("C1", {"model.intrinsic_probes"}, Anything, 0, Low, "review", "review"),
       Row("C2", Anything, {"activation_anomaly"}, 0, Low, "review", "review"),
       Row("C3", Anything, {"model_anomalous"}, 0, Low, "review", "review"),
       Row("D3", Anything, Anything, 90, High, "quarantine", "quarantine"),
       [Row("D4", Anything, Anything, 0, 0, "quarantine", "quarantine") EXCEPT !.minPost = 2500],
       Row("D5", Anything, Anything, 60, Low, "review", "quarantine"),
       Row("D7", Anything, Anything, 0, 0, "accept", "quarantine") >>

(* A rule on contributors never matches a finding, and an uncalibrated confidence is not compared. *)
Matches(rule, f, calibrated) ==
    /\ rule.minPost = 0
    /\ rule.dets = Anything \/ f.det \in rule.dets
    /\ rule.classes = Anything \/ f.cls \in rule.classes
    /\ calibrated => f.conf >= rule.minConf
    /\ f.sev >= rule.minSev

(* Mutant of Decide: the ceiling of an uncalibrated score is forgotten. *)
DecideUncapped(rules, f, calibrated) ==
    LET hits == {i \in DOMAIN rules : Matches(rules[i], f, calibrated)} IN
    IF hits = {} THEN [f EXCEPT !.disp = "accept", !.rule = "D7"]
    ELSE LET rule == rules[CHOOSE i \in hits : \A j \in hits : i <= j]
         IN [f EXCEPT !.disp = AtMost(rule.disp, rule.cap), !.rule = rule.id]

(* The first rule that matches, its cap, and review as the ceiling of an uncalibrated score. *)
Decide(rules, f, calibrated) ==
    LET hits == {i \in DOMAIN rules : Matches(rules[i], f, calibrated)} IN
    IF hits = {} THEN [f EXCEPT !.disp = "accept", !.rule = "D7"]
    ELSE LET rule == rules[CHOOSE i \in hits : \A j \in hits : i <= j]
             capped == AtMost(rule.disp, rule.cap)
         IN [f EXCEPT !.disp = IF calibrated THEN capped ELSE AtMost(capped, "review"), !.rule = rule.id]

(* Only what ran is routed; provenance findings need no calibrator. *)
ApplyDispositions(findings, rules, calibrated) ==
    [i \in DOMAIN findings |->
        LET f == findings[i] IN
        IF Ran(f) THEN Decide(rules, f, f.det \in calibrated \cup Provenance) ELSE f]

(* The fingerprint owns the substitution verdict whenever it ran: the digest's own finding drops to info. *)
DeferDigestToFingerprint(findings) ==
    LET owned == \E i \in DOMAIN findings : findings[i].det = "model.fingerprint" /\ Ran(findings[i])
        deferred(f) == owned /\ f.det = "model.weight_digest" /\ f.cls = "model_substitution" /\ Ran(f)
    IN [i \in DOMAIN findings |->
            IF deferred(findings[i]) THEN [findings[i] EXCEPT !.sev = Info] ELSE findings[i]]

(* A row about a contributor, on its posterior (permyriad) and whether its interval clears the cohort. *)
ContributorDisposition(rules, posterior, excludes) ==
    LET met == {i \in DOMAIN rules : rules[i].minPost > 0 /\ posterior >= rules[i].minPost /\ excludes} IN
    IF met # {} THEN rules[CHOOSE i \in met : \A j \in met : i <= j].disp
    ELSE IF excludes THEN "review" ELSE "accept"

(* Flagged, for the cohort and for the reference alike: a sample finding that ran and is not accepted. *)
FlaggedSamples(findings) ==
    {f.target : f \in {g \in ToSet(findings) : g.target > 0 /\ Ran(g) /\ g.disp # "accept"}}

Quarantined(rows) == {r \in ToSet(rows) : r.disp = "quarantine"}

(* The verdict counts what ran, the contributors, and every check that crashed. *)
Verdict(findings, rows) ==
    LET ran == {f \in ToSet(findings) : Ran(f)} IN
    IF (\E f \in ran : f.disp = "quarantine") \/ Quarantined(rows) # {} THEN "QUARANTINE"
    ELSE IF \/ \E f \in ToSet(findings) : f.avail = "ERROR"
            \/ \E f \in ran : f.disp = "review" /\ f.sev >= Medium
    THEN "REVIEW"
    ELSE "ACCEPT"
=============================================================================
