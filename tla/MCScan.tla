------------------------------- MODULE MCScan -------------------------------
(* Small instances of Scan: the inputs of its jobs. *)
EXTENDS Scan

MCExceeds(k, n, l, m, family) == k * m > 2 * l * n
MCDiffers(v, w, family) == Median(v) # Median(w)
MCUnlikely(n, k, rate) == 5000 * k > rate * n
MCInterval(a, b) == LET mean == a \div ((a + b) \div 10000)
                    IN [lo |-> (7 * mean) \div 10, hi |-> ClipRate((13 * mean) \div 10 + 1)]
MCStrength(n, k) == 2

(* Datasets. *)
File(camera, time) == [readable |-> TRUE, exif |-> camera # "", camera |-> camera, quant |-> time, dims |-> time,
                       mtime |-> 10 * time, tool |-> FALSE]
Clean(i, who) ==
    [contributor |-> who, batch |-> "", source |-> "", labels |-> <<1>>, vec |-> i, phash |-> 20 * i, reads |-> 1,
     agree |-> 90, issue |-> FALSE, unannotated |-> FALSE, boxes |-> <<>>, meta |-> File("", i), block |-> i, z |-> 0,
     spectral |-> 0, cluster |-> 0, dist |-> 0, decodes |-> TRUE]
Box(x) == [cat |-> 1, feats |-> <<x, 50, 50, 50>>]

CleanData == <<Clean(1, "a"), Clean(2, "a"), Clean(3, "b"), Clean(4, "b")>>
(* b copies, relabels and stamps; a does not. *)
Poisoned ==
    <<Clean(1, "a"), Clean(2, "a"), [Clean(3, "a") EXCEPT !.boxes = <<Box(10)>>],
      [Clean(4, "b") EXCEPT !.vec = 5, !.phash = 100, !.z = 900, !.block = 7, !.boxes = <<Box(900)>>],
      [Clean(5, "b") EXCEPT !.labels = <<2>>, !.z = 900, !.block = 7, !.agree = 0, !.issue = TRUE, !.dist = 80],
      [Clean(6, "b") EXCEPT !.unannotated = TRUE, !.reads = 2, !.spectral = 700, !.cluster = 60, !.dist = 40]>>
(* No one says who supplied it, and one image was not embedded. *)
Anonymous == <<[Clean(1, "") EXCEPT !.unannotated = TRUE, !.vec = 0], Clean(2, ""), [Clean(3, "") EXCEPT !.labels = <<>>]>>
Undecoded == <<[Clean(1, "a") EXCEPT !.decodes = FALSE, !.meta.readable = FALSE]>>

SmallParams ==
    ("data.annotation_geometry" :> [minN |-> 1]) @@ ("data.label_consistency" :> [k |-> 1])
    @@ ("data.systematic_mislabel" :> [minN |-> 1]) @@ ("data.negative_space" :> [minFlagged |-> 1, minPeer |-> 1])
    @@ ("data.metadata_anomaly" :> [minGroup |-> 2])
    @@ ("data.trigger_artifact" :> [minBaseline |-> 3, minGroupAbs |-> 1, ssMinClass |-> 2, acMinClass |-> 2])
    @@ ("data.ood" :> [minReference |-> 1, contributorMin |-> 2])

(* Models. *)
Everything == ModelCaps
Good == [format |-> "pytorch", digest |-> "d1", behaviour |-> 500, caps |-> Everything, spread |-> 100, inert |-> 5,
         graph |-> <<[nonstandard |-> FALSE, control |-> FALSE, dead |-> FALSE, arch |-> "g1"]>>,
         suspicion |-> <<100, 50>>, norms |-> <<100, 100, 100>>, costs |-> <<100, 100, 100>>, lowEntropy |-> 2,
         accuracy |-> 90, used |-> 2, collapse |-> 40, saturated |-> FALSE, absent |-> FALSE, broken |-> FALSE,
         boxes |-> TRUE, queryable |-> TRUE, hot |-> 0, activated |-> TRUE, preprocess |-> TRUE,
         occlusion |-> [b \in 0..10 |-> [flip |-> 0, control |-> 0, share |-> 0]]]
Backdoored == [Good EXCEPT !.digest = "d2", !.behaviour = 900, !.suspicion = <<300, 50>>, !.norms = <<10, 100, 100>>,
                           !.costs = <<10, 100, 100>>, !.occlusion[7] = [flip |-> 90, control |-> 0, share |-> 90],
                           !.graph[1].dead = TRUE]
Substituted == [Good EXCEPT !.digest = "d2", !.behaviour = 900]
Requantised == [Good EXCEPT !.digest = "d3", !.behaviour = 505]
Frozen == [Good EXCEPT !.digest = "unavailable:frozen", !.format = "torchscript", !.graph = <<>>,
                       !.caps = {"MODEL_PREDICT", "MODEL_LOGITS"}, !.preprocess = FALSE]
QueryOnly == [Frozen EXCEPT !.digest = "unavailable:query", !.format = "query", !.broken = TRUE]

Args == [sources |-> {"path"}, preprocess |-> FALSE, shape |-> FALSE, classes |-> FALSE, wellFormed |-> TRUE]
NoModel == [Args EXCEPT !.sources = {}]

Job == [program |-> "scan", args |-> Args, profile |-> "baseline", tier |-> "", seed |-> 7, model |-> <<Good>>,
        dataset |-> <<>>, reference |-> <<>>, probes |-> 0, corpus |-> {}, manifest |-> <<>>, ledger |-> "socket",
        ledgerSigns |-> TRUE, inference |-> FALSE, calibration |-> <<>>, loads |-> TRUE, dryRun |-> FALSE,
        extractor |-> "ready", raises |-> {}, params |-> SmallParams, standing |-> <<{"reviewed limits"}>>]
Corpus == [Job EXCEPT !.program = "corpus", !.probes = 40, !.ledger = "null", !.corpus = {"d1", "d7", "d8"},
                      !.profile = "deep"]
Crowded == [Job EXCEPT !.profile = "triage"]

Curve(lo, hi) == <<[edge |-> 50, value |-> lo], [edge |-> 100, value |-> hi]>>
Fit == [curves |-> ("data.near_dup" :> Curve(20, 95)) @@ ("data.trigger_artifact" :> Curve(60, 60)),
        brier |-> 10, bins |-> {}, excluded |-> {}]
Points1 == [i \in 1..6 |-> [det |-> "data.duplicate_label_conflict", score |-> 40 * i, hit |-> i > 3, family |-> i % 2]]
Files == {Payload(Fit), Payload(FitCalibrators(Points1)),
          Payload([Fit EXCEPT !.curves = "data.near_dup" :> Curve(95, 20)]), [Payload(Fit) EXCEPT !.version = 2]}

(* What one scanner may be asked. *)
RichJobs ==
    {[Job EXCEPT !.profile = prof, !.tier = tier, !.model = m, !.dataset = d,
                 !.args = IF m = <<>> THEN NoModel ELSE Args] :
        prof \in {"baseline", "blackbox", "selftest", "forensic", "stirct"}, tier \in {"", "triage"},
        m \in {<<>>, <<Backdoored>>, <<QueryOnly>>}, d \in {<<>>, <<Poisoned>>, <<Anonymous>>}}
    \cup {[Job EXCEPT !.dataset = <<Poisoned>>, !.calibration = <<file>>, !.raises = r, !.model = <<Backdoored>>,
                      !.profile = "strict"] :
            file \in Files, r \in {{}, {"data.near_dup"}}}
    \cup {[Job EXCEPT !.dataset = <<d>>, !.reference = <<ref>>, !.extractor = e, !.tier = tier] :
            d \in {Poisoned, Undecoded}, ref \in {CleanData, Anonymous, <<>>}, e \in {"ready", "missing", "raises"},
            tier \in {"", "triage"}}
    \cup {[Corpus EXCEPT !.model = <<m>>, !.manifest = man, !.raises = r] :
            m \in {Good, Backdoored, Requantised}, r \in {{}, {"model.fingerprint"}},
            man \in {<<>>, <<ReferenceManifest(Good, TRUE)>>}}
    \cup {[Job EXCEPT !.dryRun = TRUE], [Job EXCEPT !.loads = FALSE], [Job EXCEPT !.ledger = "both"],
          [Job EXCEPT !.args.sources = {"path", "cmd"}], [Job EXCEPT !.args.sources = {"cmd"}],
          [Job EXCEPT !.inference = TRUE, !.standing = <<>>], [Job EXCEPT !.ledgerSigns = FALSE],
          [Job EXCEPT !.ledger = "file"],
          [Job EXCEPT !.args.shape = TRUE]}

(* Folders to compare: how light each image is, and what its JPEG tables say, when it has any. *)
Image(place, i, light, jpeg) ==
    [sid |-> i, content |-> 10 * place + i, decodes |-> TRUE,
     axes |-> ("light" :> light) @@ IF jpeg = 0 THEN << >> ELSE ("jpeg" :> jpeg)]
Folder(place, lights, jpeg) == [i \in DOMAIN lights |-> Image(place, i, lights[i], jpeg)]
Dawn == Folder(4, <<1, 2, 3, 4>>, 5)
Day == Folder(1, <<1, 2, 3, 10>>, 5)
Haze == Folder(2, <<1, 2, 9, 10>>, 5)
Dusk == Folder(3, <<9, 8, 7, 6>>, 5)
Noon == Folder(1, <<6, 7, 2, 3, 11>>, 0)
Long(lo) == Folder(10 * lo, [i \in 1..10 |-> lo + (i % 2)], 0)
Rows(folder, values, extractor) ==
    <<[complete |-> TRUE, ids |-> Names(folder), rows |-> [i \in DOMAIN folder |-> <<values[i], i>>],
       extractor |-> extractor, overflows |-> FALSE]>>

MCPsiTail(counts) ==
    LET gap == FoldLeft(LAMBDA sum, c : sum + Apart(c.x, c.y), 0, counts)
    IN IF gap >= 8 THEN 0 ELSE IF gap >= 5 THEN 400 ELSE 6000
(* Two samples that are wholly apart, exactly; anything less is likely. *)
MCKsTail(n, m, d) ==
    IF 2 * d < n * m THEN Certain ELSE IF d < n * m THEN 1678
    ELSE IF n + m = 8 THEN 285 ELSE IF n + m = 9 THEN 158 ELSE 0

SmallPsi == [minSamples |-> 4, bins |-> 2, permutations |-> 19]
Supplied(psi) == [psi |-> psi, checks |-> <<>>, except |-> {}, disabled |-> {}]
Drifting == [program |-> "drift", supplied |-> Supplied(SmallPsi), options |-> << >>, selftest |-> FALSE,
             incoming |-> Dusk, reference |-> <<Dawn>>, incomingRows |-> <<>>, referenceRows |-> <<>>, few |-> TRUE]
WithRows(n, r) == [Drifting EXCEPT !.incomingRows = n, !.referenceRows = r]
DriftJobs ==
    {[Drifting EXCEPT !.incoming = inc, !.reference = ref, !.few = few, !.supplied = sup] :
        inc \in {Dusk, Haze, Noon, Long(1)}, ref \in {<<>>, <<Dawn>>, <<Day>>, <<Noon>>, <<Long(5)>>, <<Long(2)>>}, few \in BOOLEAN,
        sup \in {Supplied(SmallPsi), [Supplied([minSamples |-> 4, bins |-> 3]) EXCEPT !.disabled = {"drift.distribution"}]}}
    \cup {WithRows(n, Rows(Dawn, <<1, 2, 3, 4>>, "e")) :
            n \in {<<>>, Rows(Dusk, <<6, 7, 8, 9>>, "e"), Rows(Dusk, <<1, 2, 3, 4>>, "f"), Rows(Dawn, <<6, 7, 8, 9>>, "e"),
                   <<[Rows(Dusk, <<6, 7, 8, 9>>, "e")[1] EXCEPT !.overflows = TRUE]>>,
                   Rows([i \in 1..4 |-> [Dusk[i] EXCEPT !.sid = 9 - i]], <<6, 7, 8, 9>>, "e")}}
    \cup {[WithRows(<<>>, Rows(Dawn, <<1, 2, 3, 4>>, "e")) EXCEPT !.reference = <<>>],
          [Drifting EXCEPT !.supplied.psi = << >>], [Drifting EXCEPT !.options = [minSamples |-> 5]],
          [Drifting EXCEPT !.supplied.psi = SmallPsi @@ [minReference |-> 1]],
          [Drifting EXCEPT !.supplied.checks = <<{"drift.interpretable_axes"}>>],
          [Drifting EXCEPT !.supplied.except = {"data.ood"}], [Drifting EXCEPT !.supplied.psi = [permutations |-> 9] @@ SmallPsi],
          [Drifting EXCEPT !.incoming[2].decodes = FALSE], [Drifting EXCEPT !.incoming = <<>>]}

CONSTANTS One, Two
ScanAssignments ==
    {One :> j : j \in RichJobs \cup DriftJobs}
    \cup {(One :> [Drifting EXCEPT !.selftest = s]) @@ (Two :> [Drifting EXCEPT !.selftest = s]) : s \in BOOLEAN} \cup {(One :> Crowded) @@ (Two :> [Crowded EXCEPT !.model = <<Backdoored>>])}
Stubborn == {(One :> [Corpus EXCEPT !.model = <<Substituted>>,
                                    !.manifest = <<ReferenceManifest(Good, FALSE)>>])}
=============================================================================
