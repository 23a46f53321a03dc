-------------------------- MODULE ContributorRisk --------------------------
(* Who contributed the flagged samples (risk/contributor.py): every group of samples is scored against a prior
   learned from the other groups, with the groups that are already outliers set aside, and its row is routed by
   the profile's rule on contributors.

   Rates are in permyriad. The two tail computations are scipy's and stay parameters: Unlikely is the binomial
   test of a flag count against a rate, Interval the credible interval of a Beta posterior, Strength the moment
   estimate of a prior's strength (0 when it cannot be estimated). *)
EXTENDS Integers, Sequences, FiniteSets, SequencesExt, Functions, RiskRules

CONSTANTS
    Unlikely(_, _, _),      \* n samples, k flagged, rate
    Interval(_, _),         \* the posterior's two parameters: [lo, hi]
    Strength(_, _)          \* the kept groups' counts and flags

GroupKeys == <<"contributor", "batch", "source">>
DefaultStrength == 10
ClipRate(p) == IF p < 1 THEN 1 ELSE IF p > 9999 THEN 9999 ELSE p

(* The group a sample falls in under a key: none when it carries nothing there. *)
KeyOf(sample, key) == sample[key]

SumOver(f, S) == FoldFunctionOnSet(LAMBDA x, y : x + y, 0, f, S)

(* n and k: the samples and the flagged samples of each group. *)
Pooled(n, k) ==
    LET total == SumOver(n, DOMAIN n)
    IN ClipRate(IF total = 0 THEN 0 ELSE (10000 * SumOver(k, DOMAIN k)) \div total)

BaselineGroups(n, k) == {g \in DOMAIN n : ~ Unlikely(n[g], k[g], Pooled(n, k))}

(* The rate and the strength of the groups kept; the pooled rate when fewer than two are. *)
PriorFrom(n, k, keep) ==
    LET learned == Cardinality(keep) >= 2
        rate == IF learned THEN ClipRate((10000 * SumOver(k, keep)) \div SumOver(n, keep)) ELSE Pooled(n, k)
        estimated == IF learned THEN Strength([g \in keep |-> n[g]], [g \in keep |-> k[g]]) ELSE 0
    IN [rate |-> rate, strength |-> IF estimated > 0 THEN estimated ELSE DefaultStrength]

PriorFor(n, k) == PriorFrom(n, k, BaselineGroups(n, k))

(* Every group judged by a prior it took no part in. *)
LooPriors(n, k) == [g \in DOMAIN n |-> PriorFrom(n, k, BaselineGroups(n, k) \ {g})]

Posterior(n, k, prior) ==
    LET a == prior.rate * prior.strength + 10000 * k
        b == (10000 - prior.rate) * prior.strength + 10000 * (n - k)
    IN [mean |-> a \div ((a + b) \div 10000), lo |-> Interval(a, b).lo, hi |-> Interval(a, b).hi]

Groups(samples, key) == {KeyOf(samples[i], key) : i \in DOMAIN samples} \ {""}
MembersOf(samples, key, g) == {i \in DOMAIN samples : KeyOf(samples[i], key) = g}

(* The rows of one key, ranked on the lower bound, then the mean. *)
RowsOf(samples, flagged, rules, key, ceiling) ==
    LET groups == Groups(samples, key)
        n == [g \in groups |-> Cardinality(MembersOf(samples, key, g))]
        k == [g \in groups |-> Cardinality(MembersOf(samples, key, g) \cap flagged)]
        row(g) ==
            LET prior == LooPriors(n, k)[g]
                post == Posterior(n[g], k[g], prior)
                excludes == post.lo > prior.rate
            IN [key |-> key, group |-> g, n |-> n[g], k |-> k[g], post |-> post, used |-> prior.rate,
                excludes |-> excludes, overReference |-> ceiling >= 0 /\ post.lo > ceiling,
                disp |-> ContributorDisposition(rules, post.mean, excludes)]
        before(r, s) == r.post.lo > s.post.lo \/ (r.post.lo = s.post.lo /\ r.post.mean > s.post.mean)
    IN SortSeq(SetToSeq({row(g) : g \in groups}), before)

(* The rows of every key that carries data, the cohort rate of each, and the first key on which the permutation
   test of clustering can be made. *)
AssessGroups(samples, flagged, rules, ceiling) ==
    LET keys == SelectSeq(GroupKeys, LAMBDA key : Groups(samples, key) # {})
        n(key) == [g \in Groups(samples, key) |-> Cardinality(MembersOf(samples, key, g))]
        k(key) == [g \in Groups(samples, key) |-> Cardinality(MembersOf(samples, key, g) \cap flagged)]
        tested == SelectSeq(keys, LAMBDA key : Cardinality(Groups(samples, key)) >= 2)
    IN [rows |-> FlattenSeq([i \in DOMAIN keys |-> RowsOf(samples, flagged, rules, keys[i], ceiling)]),
        rates |-> [i \in DOMAIN keys |-> PriorFor(n(keys[i]), k(keys[i])).rate],
        permutationOn |-> IF tested = <<>> THEN "" ELSE Head(tested)]
=============================================================================
