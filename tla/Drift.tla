------------------------------- MODULE Drift -------------------------------
(* Has the incoming folder of images moved away from the reference one?  (core/drift_scan.py, loaders/drift.py,
   detectors/drift, risk/drift.py.)

   A folder is a sequence of images: its name (sid), what it contains, whether it decodes, and what was measured
   on it (axes: a function from axis names to integers; the metadata axes may be absent). Embeddings come from a
   file somebody else made: one vector per image. Probabilities are in ten-thousandths, rounded down; a
   Kolmogorov-Smirnov statistic is an integer over the product of the two sizes. *)
EXTENDS Integers, Sequences, FiniteSets, SequencesExt, TLC, ScanPlan

CONSTANTS
    PsiTail(_),         \* the upper tail of the scaled chi-square, for the bins' counts of two samples
    KsTail(_, _, _)     \* the upper tail of the two-sample Kolmogorov-Smirnov statistic, for two sizes

Certain == 10000

DriftOrder == <<"drift.distribution", "drift.interpretable_axes", "drift.semantic_axis", "drift.vs_manipulation">>
DriftIds == ToSet(DriftOrder)

---------------------------------------------------------------------------
(* The profile: the file's settings over the shipped ones, the command's over both. Giving one sample size sets
   both minima that were not given themselves. *)
ShippedPsi == [alpha |-> 500, bins |-> 10, minSamples |-> 20, minReference |-> 20, minIncoming |-> 20,
               effect |-> 1500, permutations |-> 199, seed |-> 0, thresholds |-> << >>]

Minima(given) ==
    IF "minSamples" \in DOMAIN given
    THEN [minReference |-> given.minSamples, minIncoming |-> given.minSamples] ELSE << >>

ValidPsi(psi) ==
    /\ psi.alpha \in 1..9999 /\ psi.effect \in 1..10000 /\ psi.seed >= 0
    /\ psi.bins >= 2 /\ psi.minSamples >= 2 /\ psi.permutations >= 19
    /\ psi.minReference >= 2 /\ psi.minIncoming >= 2

(* <<>>: refused. *)
LoadProfile(supplied, options, selftest) ==
    LET psi == options @@ Minima(options) @@ supplied.psi @@ Minima(supplied.psi) @@ ShippedPsi
        named == UNION (ToSet(supplied.checks) \cup {supplied.except, supplied.disabled})
    IN IF ~ ValidPsi(psi) \/ \E c \in named : c \notin DriftIds THEN <<>>
       ELSE <<[psi |-> psi, checks |-> supplied.checks, outside |-> supplied.except \cup supplied.disabled,
               selftest |-> selftest, rules |-> DefaultRules]>>

---------------------------------------------------------------------------
(* The folders and the embeddings. *)
LoadsFolder(images) == images # <<>> /\ \A i \in DOMAIN images : images[i].decodes

(* The axes every image has. *)
Measure(images) ==
    LET every == {axis \in UNION {DOMAIN images[i].axes : i \in DOMAIN images} :
                     \A i \in DOMAIN images : axis \in DOMAIN images[i].axes}
    IN [axis \in every |-> [i \in DOMAIN images |-> images[i].axes[axis]]]

Contents(images) == {images[i].content : i \in DOMAIN images}
Names(images) == [i \in DOMAIN images |-> images[i].sid]

(* A file of embeddings is of this folder, in this order, or it is refused. *)
LoadsEmbeddings(file, images) ==
    file = <<>> \/ /\ file[1].complete /\ file[1].ids = Names(images) /\ Len(file[1].rows) = Len(file[1].ids)
                   /\ file[1].extractor # "" /\ Len(file[1].rows[1]) > 0

---------------------------------------------------------------------------
(* The statistics of one axis. *)
(* The k-th inner quantile of a sorted sample, times the number of bins. *)
Quantile(s, k, bins) ==
    LET at == (Len(s) - 1) * k
        low == at \div bins + 1
        part == at % bins
    IN IF part = 0 THEN bins * s[low] ELSE (bins - part) * s[low] + part * s[low + 1]

(* Mutant of Edges: the bins are cut on the reference alone. *)
EdgesOfReference(x, y, bins) == {Quantile(SortSeq(x, <), k, bins) : k \in 1..(bins - 1)}

(* The bins are cut on both samples together. *)
Edges(x, y, bins) == {Quantile(SortSeq(x \o y, <), k, bins) : k \in 1..(bins - 1)}

InBin(x, b, edges, bins) == Cardinality({i \in DOMAIN x : Cardinality({e \in edges : e <= x[i] * bins}) = b})

(* What each bin holds of either sample; a bin that holds nothing is left out. *)
Histogram(x, y, edges, bins) ==
    SelectSeq([b \in 1..(Cardinality(edges) + 1) |->
                  [x |-> InBin(x, b - 1, edges, bins), y |-> InBin(y, b - 1, edges, bins)]],
              LAMBDA c : c.x + c.y > 0)

(* With the pseudocount the divergence is zero just when all shares agree. *)
Diverges(counts, n, m) ==
    \E i \in DOMAIN counts :
        (2 * counts[i].x + 1) * (2 * m + Len(counts)) # (2 * counts[i].y + 1) * (2 * n + Len(counts))
Sparse(counts, n, m) ==
    \E i \in DOMAIN counts : (counts[i].x + counts[i].y) * Min({n, m}) < 5 * (n + m)

(* Permutations that reach what was observed: all, when nothing was; else as the seed has it (few: none). *)
PsiP(counts, n, m, permutations, few) ==
    IF Len(counts) < 2 THEN Certain
    ELSE IF ~ Sparse(counts, n, m) THEN PsiTail(counts)
    ELSE IF few /\ Diverges(counts, n, m) THEN Certain \div (permutations + 1) ELSE Certain

(* The largest distance of the two distribution functions, times both sizes. *)
Below(x, v) == Cardinality({i \in DOMAIN x : x[i] <= v})
Apart(p, q) == IF p < q THEN q - p ELSE p - q
Ks(x, y) == Max({Apart(Below(x, v) * Len(y), Below(y, v) * Len(x)) : v \in ToSet(x \o y)})

(* One axis: the two probabilities and the effect, in ten-thousandths. *)
CompareAxis(x, y, psi, few) ==
    [psiP |-> PsiP(Histogram(x, y, Edges(x, y, psi.bins), psi.bins), Len(x), Len(y), psi.permutations, few),
     ksP |-> KsTail(Len(x), Len(y), Ks(x, y)), ks |-> (Certain * Ks(x, y)) \div (Len(x) * Len(y))]

(* Benjamini and Hochberg: the least of the scaled probabilities from one's own rank on. *)
Rank(p, i) == Cardinality({k \in DOMAIN p : p[k] < p[i] \/ (p[k] = p[i] /\ k <= i)})
BhFrom(p, rank) ==
    [i \in DOMAIN p |->
        Min({Certain} \cup {(p[j] * Len(p)) \div rank[j] : j \in {k \in DOMAIN p : rank[k] >= rank[i]}})]
BhAdjust(p) == BhFrom(p, [i \in DOMAIN p |-> Rank(p, i)])

---------------------------------------------------------------------------
(* Mutant of Budget: the profile's permutations, whatever the family. *)
BudgetAsGiven(family, psi) == psi.permutations

(* Permutations enough for one sparse rejection to survive the correction over the family. *)
Budget(family, psi) ==
    LET needed == (2 * family * Certain + psi.alpha - 1) \div psi.alpha
    IN IF needed > psi.permutations THEN needed ELSE psi.permutations

ThresholdOf(axis, psi) == IF axis \in DOMAIN psi.thresholds THEN psi.thresholds[axis] ELSE psi.effect

(* The axes that moved: for one of the two statistics, corrected over all, and by enough to matter. *)
Rejected(names, rows, q, psi) ==
    {names[i] : i \in {k \in DOMAIN names : /\ Min({q[2 * k - 1], q[2 * k]}) <= psi.alpha
                                            /\ rows[k].ks >= ThresholdOf(names[k], psi)}}
MovedAmong(names, rows, psi) ==
    Rejected(names, rows,
             BhAdjust([i \in 1..(2 * Len(rows)) |->
                          IF i % 2 = 1 THEN rows[(i + 1) \div 2].psiP ELSE rows[i \div 2].ksP]), psi)
Compared(names, x, y, psi, few) == [i \in DOMAIN names |-> CompareAxis(x[names[i]], y[names[i]], psi, few)]
Moved(names, x, y, psi, few) ==
    MovedAmong(names, Compared(names, x, y, [psi EXCEPT !.permutations = Budget(2 * Len(names), psi)], few), psi)

Shift(check, moved, avail) == Finding(check, "distribution_shift", avail, IF moved = {} THEN Info ELSE Medium, 0, 0)
CompareFeatures(check, x, y, psi, few) ==
    IF DOMAIN x \cap DOMAIN y = {} THEN <<Shift(check, {}, "UNAVAILABLE")>>
    ELSE <<Shift(check, Moved(SetToSeq(DOMAIN x \cap DOMAIN y), x, y, psi, few), IF DOMAIN x = DOMAIN y THEN "OK" ELSE "DEGRADED")>>

---------------------------------------------------------------------------
(* Two of the checks are declared and not built. *)
DriftRegistry ==
    ("drift.distribution" :> Check(KindData, {"DATASET_IMAGES", "REFERENCE_CLEAN_SET"}, {}, {"distribution_shift"}))
 @@ ("drift.interpretable_axes" :> Check(KindData, {"DATASET_IMAGES"}, {}, {"distribution_shift"}))
 @@ ("drift.semantic_axis" :> Check(KindData, {"DATASET_IMAGES", "REFERENCE_CLEAN_SET"}, {}, {"semantic_shift"}))
 @@ ("drift.vs_manipulation" :> Check(KindData, {}, {}, {"suspicious_manipulation"}))

Columns(rows) == [k \in 1..Len(rows[1]) |-> [i \in DOMAIN rows |-> rows[i][k]]]

EmbeddingDistance(in) ==
    LET r == in.referenceRows   n == in.incomingRows
        same == /\ r # <<>> /\ n # <<>>
                /\ r[1].extractor = n[1].extractor /\ Len(r[1].rows[1]) = Len(n[1].rows[1])
    IN IF ~ same THEN <<Shift("drift.distribution", {}, "UNAVAILABLE")>>
       ELSE CompareFeatures("drift.distribution", Columns(r[1].rows), Columns(n[1].rows), in.psi, in.few)

(* Without a reference the axes are described, not compared. *)
InterpretableAxes(in) ==
    IF in.reference = <<>> THEN <<Shift("drift.interpretable_axes", {}, "OK")>>
    ELSE CompareFeatures("drift.interpretable_axes", Measure(in.reference[1]), Measure(in.incoming), in.psi, in.few)

(* Projections of wide vectors may overflow, and a comparison refuses what is not finite. *)
DriftRaises(check, in) ==
    /\ check = "drift.distribution" /\ in.referenceRows # <<>> /\ in.incomingRows # <<>>
    /\ in.referenceRows[1].overflows \/ in.incomingRows[1].overflows

DriftDetect(check, in) ==
    CASE check = "drift.distribution" -> EmbeddingDistance(in)
      [] check = "drift.interpretable_axes" -> InterpretableAxes(in)
      [] OTHER -> <<UnavailableFinding(check, CHOOSE c \in DriftRegistry[check].classes : TRUE, "UNAVAILABLE")>>

---------------------------------------------------------------------------
(* The plan comes before any check: two samples that share content are not two samples, and few are not enough. *)
Overlap(in) == in.reference # <<>> /\ Contents(in.reference[1]) \cap Contents(in.incoming) # {}
TooFew(in) ==
    in.reference # <<>> /\ (Len(in.reference[1]) < in.psi.minReference \/ Len(in.incoming) < in.psi.minIncoming)

(* Mutant of DriftRow: the reference is not looked at. *)
DriftRowUnlooked(check, in, prof) ==
    LET entry == DriftRegistry[check]
        caps == {"DATASET_IMAGES"} \cup When(in.reference # <<>>, "REFERENCE_CLEAN_SET")
    IN [check |-> check, kind |-> KindData, classes |-> entry.classes, res |-> Resolve(caps, entry.requires, {})]

DriftRow(check, in, prof) ==
    LET entry == DriftRegistry[check]
        caps == {"DATASET_IMAGES"} \cup When(in.reference # <<>>, "REFERENCE_CLEAN_SET")
        res == Resolve(caps, entry.requires, {})
        asked == check \notin prof.outside /\ (prof.checks # <<>> => check \in prof.checks[1])
        why == IF ~ asked THEN "budget" ELSE IF Overlap(in) THEN "overlap" ELSE IF TooFew(in) THEN "samples" ELSE ""
    IN [check |-> check, kind |-> KindData, classes |-> entry.classes,
        res |-> IF ~ Runnable(res) \/ why = "" THEN res
                ELSE IF why = "budget" THEN BudgetExcluded("none") ELSE Resolution("UNAVAILABLE", why, {})]

(* The worst of what the findings say is what the row says. *)
Settled(row, found) ==
    LET worst == SelectSeq(<<"ERROR", "UNAVAILABLE", "DEGRADED">>, LAMBDA s : \E f \in ToSet(found) : f.avail = s)
    IN IF worst = <<>> THEN row ELSE [row EXCEPT !.res = Resolution(worst[1], "", {})]

Answered(row, found) == [row |-> Settled(row, found), found |-> found]
DriftOutcome(row, in) ==
    IF ~ Runnable(row.res) THEN [row |-> row, found |-> <<PlanFinding(row)>>]
    ELSE IF DriftRaises(row.check, in)
    THEN [row |-> [row EXCEPT !.res = Resolution("ERROR", "", {})],
          found |-> <<[Finding(row.check, "tool.error", "ERROR", Medium, 0, 0) EXCEPT !.assessed = FALSE]>>]
    ELSE Answered(row, DriftDetect(row.check, in))

(* No curve is fitted for drift: its findings are routed uncalibrated. *)
DriftResult(rows, routed) == [plan |-> rows, findings |-> routed, verdict |-> Verdict(routed, <<>>)]
DriftJudged(got, prof) ==
    DriftResult({got[i].row : i \in DOMAIN got},
                ApplyDispositions(FlattenSeq([i \in DOMAIN got |-> got[i].found]), prof.rules, {}))
ScanDrift(in, prof) ==
    DriftJudged([i \in DOMAIN DriftOrder |-> DriftOutcome(DriftRow(DriftOrder[i], in, prof), in)], prof)
=============================================================================
