----------------------------- MODULE SealerProofs -----------------------------
(***************************************************************************)
(* Proofs about Sealer, for every set of processes, inferences, models and *)
(* deployments, and any number of closes, kills and power failures.        *)
(*                                                                         *)
(* TypeInv, ReleaseInv and RegisteredInv (what a record rests on) hold for *)
(* any number of processes.  HoleInv, which says where each unsealed       *)
(* inference is accounted for, and OnceInv, that it is in one place only,  *)
(* are about a program that is one process: two would share one spill.     *)
(***************************************************************************)
EXTENDS Sealer, SequenceTheorems, TLAPS

-----------------------------------------------------------------------------
\* Types.

Pair == {PairOf[i] : i \in Inference}
Digest == Seq(Inference) \cup {NoFile, Unavailable}

LogItem ==
  [type : {"genesis"}]
  \cup [type : {"degraded_marker"}, covers : SUBSET Inference, spill : Digest]
  \cup [type : {"model_registration"}, pair : Pair]
  \cup [type : {"inference"}, inference : Inference]

Phase == {"closed", "opening", "opening retire", "idle", "append", "retire", "return", "spill"}
Busy == {"append", "retire", "return", "spill"}

SealerType ==
  [phase : Phase, open : BOOLEAN, gap : [covers : SUBSET Inference, spillOk : BOOLEAN],
   registered : SUBSET Pair, inference : Inference \cup {NoInference},
   digest : Digest, target : Nat]

Fate == {"new", "running", "sealed", "durable", "unsealed", "unspilled", "refused", "lost"}

\* The values of the variables, with the shapes of the log's records and of a
\* Sealer.
Typed ==
  /\ setup \in SetupType
  /\ log \in Seq(LogItem)
  /\ durable \in 1 .. Len(log)
  /\ spill \in Seq(Inference) \cup {NoFile}
  /\ sealer \in [Proc -> SealerType]
  /\ fate \in [Inference -> Fate]
  /\ ends \in Nat
  /\ lost \subseteq LogItem
  /\ dropped \subseteq Inference

\* In a call exactly with an inference, which has no fate yet; opening and
\* retiring there is no gap in memory; an orphan spill is a list of inferences.
PhaseSound(p) ==
  LET s == sealer[p] IN
  /\ s.phase \in Busy <=> s.inference \in Inference
  /\ s.phase \in Busy => fate[s.inference] = "running"
  /\ s.phase \in {"closed", "opening", "opening retire", "retire"} => s.gap = NoGap
  /\ s.phase = "closed" => s.registered = {}
  /\ s.phase = "opening" => s.digest \in Seq(Inference)

\* No inference is in two calls.
Apart ==
  \A p, q \in Proc :
    p # q /\ sealer[p].inference \in Inference => sealer[p].inference # sealer[q].inference

TypeInv == Typed /\ Apart /\ \A p \in Proc : PhaseSound(p)

-----------------------------------------------------------------------------
\* Lemmas on the types.

\* The stand-ins for a missing file are no spill's content.
LEMMA StandIns ==
  /\ NoFile \notin Seq(Inference)
  /\ Unavailable \notin Seq(Inference)
  /\ NoFile # Unavailable
  /\ NoInference \notin Inference
<1>1. "no file" \notin Inference /\ "unavailable" \notin Inference /\ NoInference \notin Inference
  BY SealerAssumption DEF NoInference
<1>2. NoFile[1] = "no file" /\ Len(NoFile) = 1
  BY DEF NoFile
<1>3. Unavailable[1] = "unavailable" /\ Len(Unavailable) = 1
  BY DEF Unavailable
<1>4. ASSUME NEW s \in Seq(Inference), Len(s) = 1
      PROVE  s[1] \in Inference
  <2>1. 1 \in 1 .. Len(s)
    BY <1>4
  <2> QED BY <2>1, ElementOfSeq
<1>5. NoFile \notin Seq(Inference)
  BY <1>1, <1>2, <1>4
<1>6. Unavailable \notin Seq(Inference)
  BY <1>1, <1>3, <1>4
<1> QED BY <1>1, <1>2, <1>3, <1>5, <1>6

\* The lines of the spill are inferences.
LEMMA LinesType ==
  ASSUME Typed
  PROVE  Lines \in Seq(Inference)
BY EmptySeq DEF Typed, Lines

\* A line more is in the content.
LEMMA ContentAppend ==
  ASSUME NEW s \in Seq(Inference), NEW i \in Inference
  PROVE  /\ s \o <<i>> \in Seq(Inference)
         /\ Content(s \o <<i>>) = Content(s) \cup {i}
<1>1. <<i>> \in Seq(Inference) /\ Len(<<i>>) = 1
  OBVIOUS
<1>2. /\ s \o <<i>> \in Seq(Inference)
      /\ Len(s \o <<i>>) = Len(s) + 1
      /\ \A n \in 1 .. Len(s) + 1 : (s \o <<i>>)[n] = IF n <= Len(s) THEN s[n] ELSE <<i>>[n - Len(s)]
  BY <1>1, ConcatProperties
<1>3. Len(s) \in Nat
  BY LenProperties
<1>4. \A n \in 1 .. Len(s) : (s \o <<i>>)[n] = s[n]
  BY <1>2, <1>3
<1>5. (s \o <<i>>)[Len(s) + 1] = i
  BY <1>2, <1>3
<1> QED BY <1>2, <1>3, <1>4, <1>5 DEF Content

\* The content of a spill is a set of inferences.
LEMMA ContentType ==
  ASSUME NEW s \in Seq(Inference)
  PROVE  Content(s) \subseteq Inference
BY ElementOfSeq DEF Content

\* A new Sealer takes for registered what is registered.
LEMMA RegisteredType ==
  ASSUME Typed
  PROVE  Registered \subseteq Pair
<1>1. \A n \in 1 .. Len(log) : log[n] \in LogItem
  BY ElementOfSeq DEF Typed
<1> QED BY <1>1 DEF Registered, Records, LogItem

\* What a Sealer appends: the marker of a gap, the registration of a new pair,
\* the inference; records all.
LEMMA BatchShape ==
  ASSUME Typed, NEW p \in Proc, sealer[p].phase = "append", PhaseSound(p)
  PROVE  LET s == sealer[p]
             batch == Batch(s)
         IN /\ batch \in Seq(LogItem)
            /\ Len(batch) \in 1 .. 3
            /\ batch[Len(batch)] = Sealed(s.inference)
            /\ s.gap # NoGap => 1 < Len(batch) /\ batch[1] = Marker(s.gap.covers, s.digest)
            /\ PairOf[s.inference] \notin s.registered =>
                 \E n \in 1 .. Len(batch) - 1 : batch[n] = Registration(PairOf[s.inference])
            /\ \A n \in 1 .. Len(batch) : batch[n].type = "inference" => n = Len(batch)
            /\ \A n \in 1 .. Len(batch) :
                 batch[n].type = "degraded_marker" => n = 1 /\ s.gap # NoGap
<1> DEFINE s == sealer[p]
           m == Marker(s.gap.covers, s.digest)
           r == Registration(PairOf[s.inference])
           i == Sealed(s.inference)
           a == IF s.gap = NoGap THEN <<>> ELSE <<m>>
           b == IF PairOf[s.inference] \in s.registered THEN <<>> ELSE <<r>>
<1>1. s \in SealerType /\ s.inference \in Inference
  BY DEF Typed, PhaseSound, Busy
<1>2. m \in LogItem /\ r \in LogItem /\ i \in LogItem
  BY <1>1 DEF LogItem, SealerType, Marker, Registration, Sealed, Pair
<1>3. m.type = "degraded_marker" /\ r.type = "model_registration" /\ i.type = "inference"
  BY DEF Marker, Registration, Sealed
<1>4. Batch(s) = a \o b \o <<i>>
  BY DEF Batch
<1> HIDE DEF m, r, i
<1>5. /\ a \in Seq(LogItem) /\ Len(a) = (IF s.gap = NoGap THEN 0 ELSE 1)
      /\ s.gap # NoGap => a[1] = m
  BY <1>2, EmptySeq
<1>6. /\ b \in Seq(LogItem) /\ Len(b) = (IF PairOf[s.inference] \in s.registered THEN 0 ELSE 1)
      /\ PairOf[s.inference] \notin s.registered => b[1] = r
  BY <1>2, EmptySeq
<1>7. <<i>> \in Seq(LogItem) /\ Len(<<i>>) = 1 /\ <<i>>[1] = i
  BY <1>2
<1> HIDE DEF s, a, b
<1>8. /\ a \o b \in Seq(LogItem) /\ Len(a \o b) = Len(a) + Len(b)
      /\ \A n \in 1 .. Len(a) + Len(b) : (a \o b)[n] = IF n <= Len(a) THEN a[n] ELSE b[n - Len(a)]
  BY <1>5, <1>6, ConcatProperties
<1>9. /\ Batch(s) \in Seq(LogItem) /\ Len(Batch(s)) = Len(a) + Len(b) + 1
      /\ \A n \in 1 .. Len(a) + Len(b) + 1 :
           Batch(s)[n] = IF n <= Len(a) + Len(b) THEN (a \o b)[n] ELSE i
  <2>1. Len(a \o b) \in Nat
    BY <1>8, LenProperties
  <2> QED BY <1>4, <1>7, <1>8, <2>1, ConcatProperties
<1>10. Batch(s)[Len(a) + Len(b) + 1] = i
  BY <1>5, <1>6, <1>9
<1>11. s.gap # NoGap => Batch(s)[1] = m
  BY <1>5, <1>6, <1>8, <1>9
<1>12. PairOf[s.inference] \notin s.registered => Batch(s)[Len(a) + 1] = r
  BY <1>5, <1>6, <1>8, <1>9
<1>13. \A n \in 1 .. Len(a) + Len(b) : \/ s.gap # NoGap /\ n = 1 /\ Batch(s)[n] = m
                                       \/ Batch(s)[n] = r
  BY <1>5, <1>6, <1>8, <1>9
<1>14. Len(a) \in 0 .. 1 /\ Len(b) \in 0 .. 1
  BY <1>5, <1>6
<1>15. Batch(s) \in Seq(LogItem) /\ Len(Batch(s)) \in 1 .. 3 /\ Batch(s)[Len(Batch(s))] = i
  BY <1>9, <1>10, <1>14
<1>16. s.gap # NoGap => 1 < Len(Batch(s)) /\ Batch(s)[1] = m
  BY <1>5, <1>9, <1>11, <1>14
<1>17. PairOf[s.inference] \notin s.registered => \E n \in 1 .. Len(Batch(s)) - 1 : Batch(s)[n] = r
  BY <1>6, <1>9, <1>12, <1>14
<1>18. \A n \in 1 .. Len(Batch(s)) : Batch(s)[n].type = "inference" => n = Len(Batch(s))
  BY <1>3, <1>9, <1>13, <1>14
<1>19. \A n \in 1 .. Len(Batch(s)) : Batch(s)[n].type = "degraded_marker" => n = 1 /\ s.gap # NoGap
  BY <1>3, <1>9, <1>10, <1>13, <1>14
<1> QED BY <1>15, <1>16, <1>17, <1>18, <1>19, Zenon DEF s, m, r, i

\* The log after an append.
LEMMA AppendType ==
  ASSUME Typed, NEW items \in Seq(LogItem), AppendMany(items)
  PROVE  /\ log' \in Seq(LogItem)
         /\ Len(log') = Len(log) + Len(items)
         /\ durable' \in durable .. Len(log') /\ durable' > 0
         /\ \A n \in 1 .. Len(log) : log'[n] = log[n]
         /\ \A n \in 1 .. Len(items) : log'[Len(log) + n] = items[n]
<1>1. log' = log \o items
  BY DEF AppendMany
<1>2. /\ log' \in Seq(LogItem) /\ Len(log') = Len(log) + Len(items)
      /\ \A n \in 1 .. Len(log) + Len(items) :
           log'[n] = IF n <= Len(log) THEN log[n] ELSE items[n - Len(log)]
  BY <1>1, ConcatProperties DEF Typed
<1>3. Len(log) \in Nat /\ Len(items) \in Nat
  BY LenProperties DEF Typed
<1>4. \A n \in 1 .. Len(items) : log'[Len(log) + n] = items[n]
  BY <1>2, <1>3
<1>5. durable' \in durable .. Len(log') /\ durable' > 0
  BY <1>2, <1>3 DEF AppendMany, Typed
<1> QED BY <1>1, <1>2, <1>3, <1>4, <1>5

\* The log after a power failure.
LEMMA PowerLossType ==
  ASSUME Typed, PowerLoss
  PROVE  /\ log' \in Seq(LogItem)
         /\ durable' \in 1 .. Len(log')
         /\ Len(log') \in durable .. Len(log)
         /\ \A n \in 1 .. Len(log') : log'[n] = log[n]
<1>1. PICK n \in durable .. Len(log) : log' = SubSeq(log, 1, n)
  BY DEF PowerLoss
<1>2. Len(log) \in Nat /\ durable \in 1 .. Len(log)
  BY LenProperties DEF Typed
<1>3. log' \in Seq(LogItem) /\ Len(log') = n /\ \A m \in 1 .. n : log'[m] = log[m]
  BY <1>1, <1>2, SubSeqProperties DEF Typed
<1> QED BY <1>2, <1>3 DEF PowerLoss

\* Abandoned inferences get a fate; the others keep theirs.
LEMMA AbandonedType ==
  ASSUME Typed, NEW S
  PROVE  Abandoned(S) \in [Inference -> Fate]
BY DEF Typed, Abandoned, Fate

-----------------------------------------------------------------------------
\* Type correctness.

\* The log starts with its genesis, and no Sealer is open.
LEMMA TypeInit == Init => TypeInv
<1> SUFFICES ASSUME Init PROVE TypeInv
  OBVIOUS
<1>1. [type |-> "genesis"] \in LogItem
  BY DEF LogItem
<1>2. log \in Seq(LogItem) /\ Len(log) = 1
  BY <1>1 DEF Init
<1>3. Closed \in SealerType
  BY DEF Closed, SealerType, Phase, NoGap, Digest
<1>4. Typed
  <2>1. setup \in SetupType
    BY SealerAssumption DEF Init
  <2>2. durable \in 1 .. Len(log)
    BY <1>2 DEF Init
  <2>3. sealer \in [Proc -> SealerType] /\ fate \in [Inference -> Fate]
    BY <1>3 DEF Init, Fate
  <2>4. ends \in Nat /\ spill = NoFile
    BY DEF Init
  <2>5. lost \subseteq LogItem /\ dropped \subseteq Inference
    BY DEF Init
  <2> QED BY <1>2, <2>1, <2>2, <2>3, <2>4, <2>5 DEF Typed
<1>5. \A p \in Proc : sealer[p] = Closed
  BY DEF Init
<1>6. /\ Closed.inference = NoInference /\ Closed.phase = "closed" /\ Closed.gap = NoGap
      /\ Closed.registered = {}
  BY DEF Closed
<1>7. Apart
  BY <1>5, <1>6, StandIns DEF Apart
<1>8. \A p \in Proc : PhaseSound(p)
  BY <1>5, <1>6, StandIns DEF PhaseSound, Busy
<1> QED BY <1>4, <1>7, <1>8 DEF TypeInv

\* What a Sealer's step has to respect: it may end the call it is in, or take
\* up a new inference, and nobody else is disturbed.
LEMMA OneSealerSteps ==
  ASSUME TypeInv, NEW p \in Proc, NEW s \in SealerType,
         sealer' = [sealer EXCEPT ![p] = s],
         fate' \in [Inference -> Fate],
         \A i \in Inference : fate'[i] # fate[i] => i = sealer[p].inference \/ fate[i] = "new",
         s.inference \in Inference => s.inference = sealer[p].inference \/ fate[s.inference] = "new",
         PhaseSound(p)'
  PROVE  /\ sealer' \in [Proc -> SealerType]
         /\ Apart'
         /\ \A q \in Proc : PhaseSound(q)'
<1>1. sealer \in [Proc -> SealerType] /\ sealer'[p] = s /\ \A q \in Proc : q # p => sealer'[q] = sealer[q]
  BY DEF TypeInv, Typed
<1>2. sealer' \in [Proc -> SealerType]
  BY DEF TypeInv, Typed
<1>3. \A q \in Proc : sealer[q].inference \in Inference => fate[sealer[q].inference] = "running"
  BY DEF TypeInv, PhaseSound
<1>4. Apart'
  BY <1>1, <1>3 DEF TypeInv, Apart
<1>5. ASSUME NEW q \in Proc, q # p
      PROVE  PhaseSound(q)'
  <2>1. sealer'[q] = sealer[q]
    BY <1>1, <1>5
  <2>2. sealer[q].inference \in Inference => fate'[sealer[q].inference] = fate[sealer[q].inference]
    BY <1>3, <1>5 DEF TypeInv, Apart
  <2>3. PhaseSound(q)
    BY DEF TypeInv
  <2> QED BY <2>1, <2>2, <2>3 DEF PhaseSound
<1> QED BY <1>2, <1>4, <1>5

\* Opening reads the log and the spill file.
LEMMA TypeOpen ==
  ASSUME TypeInv, NEW p \in Proc, Open(p) \/ OpenOnSpill(p)
  PROVE  TypeInv'
<1> DEFINE a == [Closed EXCEPT !.phase = "idle", !.open = TRUE, !.registered = Registered]
           b == [Closed EXCEPT
                   !.phase = IF spill = <<>> \/ Marked THEN "opening retire" ELSE "opening",
                   !.open = TRUE,
                   !.registered = Registered,
                   !.digest = spill,
                   !.target = IF spill = <<>> THEN 0 ELSE Len(log)]
<1>1. sealer[p] \in SealerType /\ Len(log) \in Nat /\ Registered \subseteq Pair /\ PhaseSound(p)
  BY RegisteredType, LenProperties DEF TypeInv, Typed
<1>2. PICK s \in {a, b} : sealer' = [sealer EXCEPT ![p] = s] /\ (s = b => spill # NoFile)
  <2>1. CASE Open(p)
    <3>1. sealer' = [sealer EXCEPT ![p] = a]
      BY <2>1 DEF Open
    <3>2. a.phase # b.phase
      BY DEF Closed
    <3> QED BY <3>1, <3>2
  <2>2. CASE OpenOnSpill(p)
    <3>1. sealer' = [sealer EXCEPT ![p] = b] /\ spill # NoFile
      BY <2>2 DEF OpenOnSpill
    <3> QED BY <3>1
  <2> QED BY <2>1, <2>2
<1>3. a \in SealerType /\ a.inference \notin Inference /\ a.phase = "idle"
  BY ZenonT(60), <1>1, StandIns DEF SealerType, Phase, Closed, Digest, NoGap
<1>4. b \in SealerType /\ b.inference \notin Inference /\ b.gap = NoGap
      /\ b.phase \in {"opening", "opening retire"} /\ (spill # NoFile => b.digest \in Seq(Inference))
  BY ZenonT(60), <1>1, StandIns DEF SealerType, Phase, Closed, Digest, TypeInv, Typed, NoGap
<1> HIDE DEF a, b
<1>5. fate' = fate
  BY DEF Open, OpenOnSpill
<1>6. PhaseSound(p)'
  BY <1>1, <1>2, <1>3, <1>4, <1>5 DEF PhaseSound, Busy, TypeInv, Typed
<1>7. sealer' \in [Proc -> SealerType] /\ Apart' /\ \A q \in Proc : PhaseSound(q)'
  BY <1>2, <1>3, <1>4, <1>5, <1>6, OneSealerSteps DEF TypeInv, Typed
<1>8. UNCHANGED <<setup, log, durable, spill, fate, ends, lost, dropped>>
  BY DEF Open, OpenOnSpill
<1> QED BY <1>7, <1>8 DEF TypeInv, Typed

\* An orphan spill is declared by a marker of its own.
LEMMA TypeDeclareOrphan ==
  ASSUME TypeInv, NEW p \in Proc, DeclareOrphan(p)
  PROVE  TypeInv'
<1> DEFINE d == sealer[p].digest
           m == Marker(Content(d), d)
           s == [sealer[p] EXCEPT !.phase = "opening retire", !.target = Len(log)]
<1>1. sealer[p] \in SealerType /\ PhaseSound(p) /\ Typed /\ sealer[p].phase = "opening" /\ Len(log) \in Nat
  BY LenProperties DEF TypeInv, Typed, DeclareOrphan
<1>2. d \in Seq(Inference) /\ Content(d) \subseteq Inference
  BY <1>1, ContentType DEF PhaseSound
<1>3. m \in LogItem
  BY <1>2 DEF Marker, LogItem, Digest
<1>4. <<m>> \in Seq(LogItem) /\ AppendMany(<<m>>)
  <2>1. AppendMany(<<m>>)
    BY DEF DeclareOrphan
  <2> HIDE DEF m
  <2> QED BY <1>3, <2>1
<1>5. log' \in Seq(LogItem) /\ durable' \in 1 .. Len(log')
  <2> HIDE DEF m
  <2>1. durable \in Nat
    BY <1>1 DEF Typed
  <2>2. log' \in Seq(LogItem) /\ durable' \in durable .. Len(log') /\ durable' > 0
    BY <1>1, <1>4, AppendType
  <2>3. Len(log') \in Nat
    BY <2>2, LenProperties
  <2> QED BY <2>1, <2>2, <2>3
<1>6. UNCHANGED <<setup, spill, fate, ends, lost, dropped>>
  BY DEF DeclareOrphan
<1>7. Len(log) \in Nat /\ s \in SealerType /\ s.phase = "opening retire" /\ s.inference \notin Inference /\ s.gap = NoGap
  BY <1>1 DEF SealerType, Phase, PhaseSound, Busy
<1>8. sealer' = [sealer EXCEPT ![p] = s]
  BY <1>1 DEF DeclareOrphan, Typed
<1> HIDE DEF s
<1>9. PhaseSound(p)'
  BY <1>1, <1>6, <1>7, <1>8 DEF PhaseSound, Busy, Typed
<1> QED BY <1>1, <1>5, <1>6, <1>7, <1>8, <1>9, OneSealerSteps DEF TypeInv, Typed

\* A Sealer that is closed has its type.
LEMMA ClosedType ==
  /\ Closed \in SealerType
  /\ Closed.inference \notin Inference
  /\ Closed.phase = "closed" /\ Closed.gap = NoGap /\ Closed.registered = {}
BY StandIns DEF Closed, SealerType, Phase, NoGap, Digest

\* An open that fails, or a process that is killed.
LEMMA TypeDeath ==
  ASSUME TypeInv, NEW p \in Proc, OpenFails(p) \/ Crash(p)
  PROVE  TypeInv'
<1>1. sealer' = [sealer EXCEPT ![p] = Closed] /\ UNCHANGED <<setup, log, durable, spill, lost>>
  BY DEF OpenFails, Crash
<1>2. fate' \in [Inference -> Fate] /\ ends' \in Nat /\ dropped' \subseteq Inference
  BY AbandonedType DEF OpenFails, Crash, TypeInv, Typed, SealerType
<1>3. \A i \in Inference : fate'[i] # fate[i] => i = sealer[p].inference
  BY DEF OpenFails, Crash, Abandoned
<1>4. PhaseSound(p)'
  BY <1>1, ClosedType DEF PhaseSound, Busy, TypeInv, Typed
<1> QED BY <1>1, <1>2, <1>3, <1>4, ClosedType, OneSealerSteps DEF TypeInv, Typed

\* An orderly close changes nothing else of the Sealer.
LEMMA CloseStep ==
  ASSUME TypeInv, NEW p \in Proc, Close(p)
  PROVE  /\ sealer' = [sealer EXCEPT ![p] = [sealer[p] EXCEPT !.open = FALSE]]
         /\ sealer'[p] \in SealerType /\ ~ sealer'[p].open
         /\ sealer'[p].phase = sealer[p].phase /\ sealer'[p].gap = sealer[p].gap
         /\ sealer'[p].inference = sealer[p].inference /\ sealer'[p].digest = sealer[p].digest
         /\ sealer'[p].registered = sealer[p].registered
         /\ \A q \in Proc : q # p => sealer'[q] = sealer[q]
         /\ sealer[p].phase \notin {"opening", "opening retire"}
<1>1. sealer[p] \in SealerType /\ sealer \in [Proc -> SealerType]
  BY DEF TypeInv, Typed
<1>2. sealer' = [sealer EXCEPT ![p] = [sealer[p] EXCEPT !.open = FALSE]]
      /\ sealer[p].phase \notin {"opening", "opening retire"}
  BY <1>1 DEF Close
<1>3. sealer'[p] = [sealer[p] EXCEPT !.open = FALSE] /\ \A q \in Proc : q # p => sealer'[q] = sealer[q]
  BY <1>1, <1>2
<1> QED BY <1>1, <1>2, <1>3 DEF SealerType

\* An orderly close keeps the types: the gap stays what it was.
LEMMA TypeClose ==
  ASSUME TypeInv, NEW p \in Proc, Close(p)
  PROVE  TypeInv'
<1>1. UNCHANGED <<setup, log, spill, fate, lost>>
  BY DEF Close
<1>2. ends' \in Nat /\ dropped' \subseteq Inference /\ durable' \in 1 .. Len(log')
  <2>1. ends' \in Nat
    <3>1. ends \in Nat
      BY DEF TypeInv, Typed
    <3>2. ends' = ends + 1
      BY DEF Close
    <3> QED BY <3>1, <3>2
  <2>2. dropped' \subseteq Inference
    <3>1. sealer[p] \in SealerType /\ dropped \subseteq Inference
      BY DEF TypeInv, Typed
    <3>2. sealer[p].gap.covers \subseteq Inference
      BY <3>1 DEF SealerType
    <3> QED BY <3>1, <3>2 DEF Close
  <2>3. durable \in 1 .. Len(log) /\ Len(log) \in Nat
    BY LenProperties DEF TypeInv, Typed
  <2>4. durable' \in {durable, Len(log)}
    BY DEF Close
  <2> QED BY <1>1, <2>1, <2>2, <2>3, <2>4
<1>3. PhaseSound(p)'
  BY <1>1, CloseStep DEF PhaseSound, TypeInv
<1>4. sealer' \in [Proc -> SealerType] /\ Apart' /\ \A q \in Proc : PhaseSound(q)'
  BY <1>1, <1>3, CloseStep, OneSealerSteps DEF TypeInv, Typed
<1> QED BY <1>1, <1>2, <1>4 DEF TypeInv, Typed

\* A commit hands an inference that was new to the append.
LEMMA TypeCommit ==
  ASSUME TypeInv, NEW p \in Proc, NEW i \in Inference, Commit(p, i)
  PROVE  TypeInv'
<1> DEFINE s == [sealer[p] EXCEPT !.phase = "append", !.inference = i,
                   !.digest = IF sealer[p].gap.spillOk /\ spill # NoFile THEN spill ELSE Unavailable]
<1>1. sealer[p] \in SealerType /\ PhaseSound(p) /\ Typed /\ sealer[p].phase = "idle"
  BY DEF TypeInv, Typed, Commit
<1>2. sealer' = [sealer EXCEPT ![p] = s]
  BY <1>1 DEF Commit, Typed
<1>3. s \in SealerType /\ s.phase = "append" /\ s.inference = i
  BY <1>1 DEF SealerType, Phase, Digest, Typed
<1>4. /\ UNCHANGED <<setup, log, durable, spill, ends, lost, dropped>>
      /\ fate' = [fate EXCEPT ![i] = "running"] /\ fate[i] = "new"
  BY DEF Commit
<1> HIDE DEF s
<1>5. fate' \in [Inference -> Fate] /\ fate'[i] = "running"
  BY <1>1, <1>4 DEF Typed, Fate
<1>6. PhaseSound(p)'
  BY <1>1, <1>2, <1>3, <1>5 DEF PhaseSound, Busy, Typed
<1> QED BY <1>1, <1>2, <1>3, <1>4, <1>5, <1>6, OneSealerSteps DEF TypeInv, Typed

\* One append writes the owed marker, a registration and the inference.
LEMMA TypeSealBatch ==
  ASSUME TypeInv, NEW p \in Proc, SealBatch(p)
  PROVE  TypeInv'
<1> DEFINE i == sealer[p].inference
           s == [sealer[p] EXCEPT
                   !.phase = IF sealer[p].gap = NoGap THEN "return" ELSE "retire",
                   !.gap = NoGap, !.registered = sealer[p].registered \cup {PairOf[i]},
                   !.target = Len(log') - 1]
<1>1. sealer[p] \in SealerType /\ PhaseSound(p) /\ Typed /\ sealer[p].phase = "append" /\ i \in Inference
  BY DEF TypeInv, Typed, SealBatch, PhaseSound, Busy
<1>2. Batch(sealer[p]) \in Seq(LogItem) /\ AppendMany(Batch(sealer[p]))
  BY <1>1, BatchShape DEF SealBatch
<1>3. log' \in Seq(LogItem) /\ durable' \in 1 .. Len(log') /\ Len(log') \in Nat \ {0}
  BY <1>1, <1>2, AppendType, LenProperties
<1>4. sealer' = [sealer EXCEPT ![p] = s]
  BY <1>1 DEF SealBatch, Typed
<1>5. s \in SealerType /\ s.phase \in {"return", "retire"} /\ s.inference = i /\ s.gap = NoGap
  <2>1. NoGap \in [covers : SUBSET Inference, spillOk : BOOLEAN]
    BY DEF NoGap
  <2>2. sealer[p].registered \cup {PairOf[i]} \in SUBSET Pair /\ Len(log') - 1 \in Nat
    BY <1>1, <1>3 DEF SealerType, Pair
  <2> QED BY <1>1, <2>1, <2>2 DEF SealerType, Phase
<1>6. UNCHANGED <<setup, spill, fate, ends, lost, dropped>>
  BY DEF SealBatch
<1> HIDE DEF s
<1>7. PhaseSound(p)'
  BY <1>1, <1>4, <1>5, <1>6 DEF PhaseSound, Busy, Typed
<1> QED BY <1>1, <1>3, <1>4, <1>5, <1>6, <1>7, OneSealerSteps DEF TypeInv, Typed

\* The end of a call.
LEMMA TypeAnswer ==
  ASSUME TypeInv, NEW p \in Proc, Return(p) \/ Raise(p)
  PROVE  TypeInv'
<1> DEFINE i == sealer[p].inference
           s == [sealer[p] EXCEPT !.phase = "idle", !.inference = NoInference]
<1>1. sealer[p] \in SealerType /\ PhaseSound(p) /\ Typed
      /\ sealer[p].phase \in {"append", "return"} /\ i \in Inference
  BY DEF TypeInv, Typed, Return, Raise, PhaseSound, Busy
<1>2. PICK f \in Fate : fate' = [fate EXCEPT ![i] = f]
  BY DEF Return, Raise, Fate
<1>3. sealer' = [sealer EXCEPT ![p] = s] /\ UNCHANGED <<setup, log, durable, spill, ends, lost, dropped>>
  BY <1>1 DEF Return, Raise, Typed
<1>4. s \in SealerType /\ s.phase = "idle" /\ s.inference \notin Inference
  BY <1>1, StandIns DEF SealerType, Phase
<1> HIDE DEF s
<1>5. fate' \in [Inference -> Fate] /\ \A j \in Inference : fate'[j] # fate[j] => j = i
  BY <1>1, <1>2 DEF Typed
<1>6. PhaseSound(p)'
  BY <1>1, <1>3, <1>4 DEF PhaseSound, Busy, Typed
<1> QED BY <1>1, <1>3, <1>4, <1>5, <1>6, OneSealerSteps DEF TypeInv, Typed

\* A refused append leaves the inference to the spill.
LEMMA TypeNoteUnsealed ==
  ASSUME TypeInv, NEW p \in Proc, NoteUnsealed(p)
  PROVE  TypeInv'
<1> DEFINE i == sealer[p].inference
           s == [sealer[p] EXCEPT !.phase = "spill", !.gap.covers = sealer[p].gap.covers \cup {i}]
<1>1. sealer[p] \in SealerType /\ PhaseSound(p) /\ Typed /\ sealer[p].phase = "append" /\ i \in Inference
  BY DEF TypeInv, Typed, NoteUnsealed, PhaseSound, Busy
<1>2. sealer' = [sealer EXCEPT ![p] = s] /\ UNCHANGED <<setup, log, durable, spill, fate, ends, lost>>
  BY <1>1 DEF NoteUnsealed, Typed, SealerType
<1>3. s \in SealerType /\ s.phase = "spill" /\ s.inference = i
  BY <1>1 DEF SealerType, Phase
<1> HIDE DEF s
<1>4. PhaseSound(p)'
  BY <1>1, <1>2, <1>3 DEF PhaseSound, Busy, Typed
<1>5. dropped' \subseteq Inference
  BY <1>1 DEF NoteUnsealed, Typed
<1> QED BY <1>1, <1>2, <1>3, <1>4, <1>5, OneSealerSteps DEF TypeInv, Typed

\* The spill file gets one more line, or cannot be written.
LEMMA TypeWriteSpill ==
  ASSUME TypeInv, NEW p \in Proc, WriteSpill(p) \/ WriteSpillFails(p)
  PROVE  TypeInv'
<1> DEFINE i == sealer[p].inference
<1>1. sealer[p] \in SealerType /\ PhaseSound(p) /\ Typed /\ sealer[p].phase = "spill" /\ i \in Inference
  BY DEF TypeInv, Typed, WriteSpill, WriteSpillFails, PhaseSound, Busy
<1>2. PICK ok \in BOOLEAN : ReturnUnsealed(p, ok)
  BY DEF WriteSpill, WriteSpillFails
<1> DEFINE s == [sealer[p] EXCEPT !.phase = "idle", !.inference = NoInference,
                                  !.gap.spillOk = ok /\ sealer[p].gap.spillOk]
<1>3. sealer' = [sealer EXCEPT ![p] = s]
  BY <1>1, <1>2 DEF ReturnUnsealed, Typed, SealerType
<1>4. s \in SealerType /\ s.phase = "idle" /\ s.inference \notin Inference
  BY <1>1, StandIns DEF SealerType, Phase
<1> HIDE DEF s
<1>5. fate' \in [Inference -> Fate] /\ \A j \in Inference : fate'[j] # fate[j] => j = i
  BY <1>1, <1>2 DEF Typed, ReturnUnsealed, Fate
<1>6. PhaseSound(p)'
  BY <1>1, <1>3, <1>4 DEF PhaseSound, Busy, Typed
<1>7. Lines \in Seq(Inference) /\ Lines \o <<i>> \in Seq(Inference)
  BY <1>1, LinesType, ContentAppend
<1>8. spill' \in Seq(Inference) \cup {NoFile} /\ UNCHANGED <<setup, log, durable, ends, lost, dropped>>
  BY <1>1, <1>7 DEF WriteSpill, WriteSpillFails, Typed
<1> QED BY <1>1, <1>3, <1>4, <1>5, <1>6, <1>8, OneSealerSteps DEF TypeInv, Typed

\* The spill file is renamed once it is declared, or stays.
LEMMA TypeRetire ==
  ASSUME TypeInv, NEW p \in Proc, Retire(p) \/ RetireFails(p)
  PROVE  TypeInv'
<1> DEFINE s == [sealer[p] EXCEPT !.phase = IF sealer[p].phase = "retire" THEN "return" ELSE "idle"]
<1>1. sealer[p] \in SealerType /\ PhaseSound(p) /\ Typed /\ sealer[p].phase \in {"retire", "opening retire"}
  BY DEF TypeInv, Typed, Retire, RetireFails, Retiring
<1>2. sealer' = [sealer EXCEPT ![p] = s]
  BY <1>1 DEF Retire, RetireFails, AfterRetire, Typed
<1>3. /\ s \in SealerType /\ s.phase = IF sealer[p].phase = "retire" THEN "return" ELSE "idle"
      /\ s.inference = sealer[p].inference
  BY <1>1 DEF SealerType, Phase
<1> HIDE DEF s
<1>4. UNCHANGED <<setup, log, durable, fate, ends, lost, dropped>> /\ spill' \in Seq(Inference) \cup {NoFile}
  BY DEF Retire, RetireFails, TypeInv, Typed
<1>5. PhaseSound(p)'
  BY <1>1, <1>2, <1>3, <1>4 DEF PhaseSound, Busy, Typed
<1> QED BY <1>1, <1>2, <1>3, <1>4, <1>5, OneSealerSteps DEF TypeInv, Typed

\* A power loss keeps a prefix of the log that covers what was durable.
LEMMA TypePowerLoss ==
  ASSUME TypeInv, PowerLoss
  PROVE  TypeInv'
<1>1. /\ log' \in Seq(LogItem) /\ durable' \in 1 .. Len(log')
      /\ fate' \in [Inference -> Fate] /\ ends' \in Nat
      /\ UNCHANGED <<setup, spill>>
  BY PowerLossType, AbandonedType DEF PowerLoss, TypeInv, Typed
<1>2. sealer' = [p \in Proc |-> Closed]
  BY DEF PowerLoss
<1>3. sealer' \in [Proc -> SealerType]
  BY <1>2, ClosedType
<1>4. Apart' /\ \A p \in Proc : PhaseSound(p)'
  BY <1>2, ClosedType DEF Apart, PhaseSound, Busy
<1>5. lost' \subseteq LogItem
  <2>1. \A n \in Len(log') + 1 .. Len(log) : n \in 1 .. Len(log)
    BY <1>1, LenProperties DEF TypeInv, Typed
  <2>2. \A n \in 1 .. Len(log) : log[n] \in LogItem
    BY ElementOfSeq DEF TypeInv, Typed
  <2> QED BY <2>1, <2>2 DEF PowerLoss, TypeInv, Typed
<1>6. dropped' \subseteq Inference
  <2>1. \A p \in Proc : sealer[p].gap.covers \subseteq Inference
    BY DEF TypeInv, Typed, SealerType
  <2> QED BY <2>1 DEF PowerLoss, TypeInv, Typed
<1> QED BY <1>1, <1>3, <1>4, <1>5, <1>6 DEF TypeInv, Typed

\* Every step keeps the types.
LEMMA TypeNext == TypeInv /\ [Next]_vars => TypeInv'
<1> SUFFICES ASSUME TypeInv, [Next]_vars PROVE TypeInv'
  OBVIOUS
<1>1. CASE Flush
  <2>1. durable' \in 1 .. Len(log')
    BY <1>1 DEF Flush, TypeInv, Typed
  <2>2. UNCHANGED <<setup, log, spill, sealer, fate, ends, lost, dropped>>
    BY <1>1 DEF Flush
  <2> QED BY <2>1, <2>2 DEF TypeInv, Typed, Apart, PhaseSound
<1>2. CASE PowerLoss
  BY <1>2, TypePowerLoss
<1>3. ASSUME NEW p \in Proc, SealerStep(p)
      PROVE  TypeInv'
  BY <1>3, TypeOpen, TypeDeclareOrphan, TypeDeath, TypeClose, TypeCommit, TypeSealBatch, TypeAnswer,
     TypeNoteUnsealed, TypeWriteSpill, TypeRetire DEF SealerStep
<1>4. CASE UNCHANGED vars
  BY <1>4 DEF vars, TypeInv, Typed, Apart, PhaseSound
<1> QED BY <1>1, <1>2, <1>3, <1>4 DEF Next

\* The types hold in every state.
LEMMA AlwaysTyped == Spec => []TypeInv
BY TypeInit, TypeNext, PTL DEF Spec

\* Every reachable state has the types the model gives it, and a Sealer is in
\* a call exactly while it holds an inference.
THEOREM SealerTypeCorrect == Spec => []TypeOK
<1>1. TypeInv => TypeOK
  BY DEF TypeInv, Typed, PhaseSound, TypeOK, Busy, SealerType, Fate
<1> QED BY <1>1, AlwaysTyped, PTL

-----------------------------------------------------------------------------
\* What was released is sealed.

SealedAt(n, i) == log[n].type = "inference" /\ log[n].inference = i

\* ReleasedIsSealed for an inference with its answer; for one whose batch is
\* in the ledger and whose answer is to come; and where a durable record is.
ReleaseInv ==
  /\ \A i \in Inference :
       /\ fate[i] = "durable" => \E n \in 1 .. durable : SealedAt(n, i)
       /\ fate[i] = "sealed" => Sealed(i) \in lost \/ \E n \in 1 .. Len(log) : SealedAt(n, i)
       /\ fate[i] \in {"unsealed", "unspilled"} => setup.failOpen
  /\ \A p \in Proc :
       /\ sealer[p].phase \in {"retire", "return"} =>
            \E n \in 1 .. Len(log) : SealedAt(n, sealer[p].inference)
       /\ sealer[p].phase = "spill" => setup.failOpen

\* The record of an inference is nothing but that.
LEMMA SealedIsSealed ==
  ASSUME Typed, NEW i \in Inference, NEW n \in 1 .. Len(log), SealedAt(n, i)
  PROVE  log[n] = Sealed(i)
<1>1. log[n] \in LogItem /\ log[n].type = "inference" /\ log[n].inference = i
  BY ElementOfSeq DEF Typed, SealedAt
<1>2. log[n] \in [type : {"inference"}, inference : Inference]
  BY <1>1 DEF LogItem
<1> QED BY <1>1, <1>2 DEF Sealed

\* The records that are durable are never touched, and the others only by a
\* power failure, which leaves them in lost.
LEMMA LogKept ==
  ASSUME TypeInv, [Next]_vars
  PROVE  /\ durable' >= durable /\ Len(log') >= durable
         /\ \A n \in 1 .. durable : log'[n] = log[n]
         /\ \/ Len(log') >= Len(log) /\ \A n \in 1 .. Len(log) : log'[n] = log[n]
            \/ PowerLoss
         /\ \A n \in 1 .. Len(log) : (n \in 1 .. Len(log') /\ log'[n] = log[n]) \/ log[n] \in lost'
         /\ lost \subseteq lost'
         /\ setup' = setup
<1> USE DEF TypeInv
<1>1. durable \in 1 .. Len(log) /\ Len(log) \in Nat
  BY LenProperties DEF Typed
<1>2. CASE PowerLoss
  <2>1. /\ Len(log') \in durable .. Len(log) /\ \A n \in 1 .. Len(log') : log'[n] = log[n]
    BY <1>2, PowerLossType
  <2>2. durable' = Len(log') /\ lost' = lost \cup {log[n] : n \in Len(log') + 1 .. Len(log)} /\ setup' = setup
    BY <1>2 DEF PowerLoss
  <2>3. durable' >= durable /\ Len(log') >= durable /\ \A n \in 1 .. durable : log'[n] = log[n]
    BY <1>1, <2>1, <2>2
  <2>4. \A n \in 1 .. Len(log) : n \in 1 .. Len(log') \/ n \in Len(log') + 1 .. Len(log)
    BY <1>1, <2>1
  <2>5. \A n \in 1 .. Len(log) : (n \in 1 .. Len(log') /\ log'[n] = log[n]) \/ log[n] \in lost'
    BY <2>1, <2>2, <2>4
  <2> QED BY <1>2, <2>2, <2>3, <2>5
<1>3. ASSUME NEW p \in Proc, DeclareOrphan(p) \/ SealBatch(p)
      PROVE  /\ durable' \in durable .. Len(log') /\ Len(log') >= Len(log)
             /\ \A n \in 1 .. Len(log) : log'[n] = log[n]
             /\ UNCHANGED <<setup, lost>>
  <2>1. CASE SealBatch(p)
    <3> DEFINE items == Batch(sealer[p])
    <3>1. items \in Seq(LogItem) /\ AppendMany(items)
      BY <2>1, BatchShape DEF SealBatch
    <3> HIDE DEF items
    <3>2. Len(items) \in Nat
      BY <3>1, LenProperties
    <3> QED BY <1>1, <2>1, <3>1, <3>2, AppendType DEF SealBatch
  <2>2. CASE DeclareOrphan(p)
    <3> DEFINE d == sealer[p].digest
               m == Marker(Content(d), d)
    <3>1. d \in Seq(Inference)
      BY <2>2 DEF DeclareOrphan, PhaseSound
    <3>2. m \in LogItem
      BY <3>1, ContentType DEF Marker, LogItem, Digest
    <3>3. AppendMany(<<m>>)
      BY <2>2 DEF DeclareOrphan
    <3> HIDE DEF m
    <3>4. <<m>> \in Seq(LogItem) /\ Len(<<m>>) = 1
      BY <3>2
    <3>5. /\ Len(log') = Len(log) + 1 /\ durable' \in durable .. Len(log')
          /\ \A n \in 1 .. Len(log) : log'[n] = log[n]
      BY <3>3, <3>4, AppendType
    <3>6. UNCHANGED <<setup, lost>>
      BY <2>2 DEF DeclareOrphan
    <3> QED BY <1>1, <3>5, <3>6
  <2> QED BY <1>3, <2>1, <2>2
<1>4. CASE UNCHANGED <<setup, log, lost>> /\ durable' \in durable .. Len(log)
  BY <1>1, <1>4
<1>5. CASE Flush
  BY <1>1, <1>4, <1>5 DEF Flush
<1>6. CASE UNCHANGED vars
  BY <1>1, <1>4, <1>6 DEF vars
<1>7. ASSUME NEW p \in Proc, SealerStep(p), ~ DeclareOrphan(p), ~ SealBatch(p)
      PROVE  UNCHANGED <<setup, log, lost>> /\ durable' \in durable .. Len(log)
  <2>1. CASE Close(p)
    <3>1. UNCHANGED <<setup, log, lost>>
      BY <2>1 DEF Close
    <3>2. durable' \in {durable, Len(log)}
      BY <2>1 DEF Close
    <3> QED BY <1>1, <3>1, <3>2
  <2>2. CASE ~ Close(p)
    <3>1. UNCHANGED <<setup, log, lost, durable>>
      BY <1>7, <2>2 DEF SealerStep, Open, OpenOnSpill, OpenFails, Commit, Return, Raise, NoteUnsealed,
         WriteSpill, WriteSpillFails, Retire, RetireFails, Crash
    <3> QED BY <1>1, <3>1
  <2> QED BY <2>1, <2>2
<1>8. ASSUME NEW p \in Proc, SealerStep(p)
      PROVE  \/ DeclareOrphan(p) \/ SealBatch(p)
             \/ UNCHANGED <<setup, log, lost>> /\ durable' \in durable .. Len(log)
  BY <1>7, <1>8
<1>9. ASSUME NEW p \in Proc, SealerStep(p)
      PROVE  /\ durable' \in durable .. Len(log') /\ Len(log') >= Len(log)
             /\ \A n \in 1 .. Len(log) : log'[n] = log[n]
             /\ UNCHANGED <<setup, lost>>
  BY <1>1, <1>3, <1>8, <1>9
<1>10. CASE \E p \in Proc : SealerStep(p)
  BY <1>1, <1>9, <1>10
<1> QED BY <1>2, <1>5, <1>6, <1>10 DEF Next

\* An inference gets its fate from the call it is in.
LEMMA FateStep ==
  ASSUME TypeInv, [Next]_vars, NEW i \in Inference, fate'[i] # fate[i]
  PROVE  \/ fate'[i] \in {"running", "refused", "lost"}
         \/ /\ \E p \in Proc : sealer[p].inference = i /\ sealer[p].phase = "return"
            /\ UNCHANGED <<log, durable>>
            /\ fate'[i] = IF durable = Len(log) THEN "durable" ELSE "sealed"
         \/ /\ \E p \in Proc : sealer[p].inference = i /\ sealer[p].phase = "spill"
            /\ fate'[i] \in {"unsealed", "unspilled"}
<1> USE DEF TypeInv, Typed
<1>1. CASE PowerLoss
  BY <1>1 DEF PowerLoss, Abandoned
<1>2. CASE Flush \/ UNCHANGED vars
  BY <1>2 DEF Flush, vars
<1>3. ASSUME NEW p \in Proc, SealerStep(p)
      PROVE  \/ fate'[i] \in {"running", "refused", "lost"}
             \/ /\ sealer[p].inference = i /\ sealer[p].phase = "return"
                /\ UNCHANGED <<log, durable>>
                /\ fate'[i] = IF durable = Len(log) THEN "durable" ELSE "sealed"
             \/ /\ sealer[p].inference = i /\ sealer[p].phase = "spill"
                /\ fate'[i] \in {"unsealed", "unspilled"}
  <2>1. CASE Open(p) \/ OpenOnSpill(p) \/ DeclareOrphan(p) \/ OpenFails(p) \/ SealBatch(p)
             \/ NoteUnsealed(p) \/ Retire(p) \/ RetireFails(p) \/ Close(p)
    BY <2>1 DEF Open, OpenOnSpill, DeclareOrphan, OpenFails, SealBatch, NoteUnsealed, Retire, RetireFails, Close
  <2>2. ASSUME NEW j \in Inference, Commit(p, j)
        PROVE  fate'[i] = "running"
    BY <2>2 DEF Commit
  <2>3. CASE Return(p)
    BY <2>3 DEF Return
  <2>4. CASE Raise(p)
    BY <2>4 DEF Raise
  <2>5. CASE WriteSpill(p) \/ WriteSpillFails(p)
    BY <2>5 DEF WriteSpill, WriteSpillFails, ReturnUnsealed
  <2>6. CASE Crash(p)
    BY <2>6 DEF Crash, Abandoned
  <2> QED BY <1>3, <2>1, <2>2, <2>3, <2>4, <2>5, <2>6 DEF SealerStep
<1> QED BY <1>1, <1>2, <1>3 DEF Next

\* How a call comes to its phases after the append.
LEMMA PhaseStep ==
  ASSUME TypeInv, [Next]_vars, NEW p \in Proc
  PROVE  /\ sealer'[p].phase \in {"retire", "return"} =>
              \/ SealBatch(p) /\ sealer'[p].inference = sealer[p].inference
              \/ /\ sealer[p].phase \in {"retire", "return"}
                 /\ sealer'[p].inference = sealer[p].inference
                 /\ ~ PowerLoss
         /\ sealer'[p].phase = "spill" => sealer[p].phase = "spill" \/ setup.failOpen
<1> USE DEF TypeInv, Typed
<1>1. sealer[p] \in SealerType
  OBVIOUS
<1>2. CASE PowerLoss
  BY <1>2, ClosedType DEF PowerLoss
<1>3. CASE Flush \/ UNCHANGED vars
  <2>1. sealer' = sealer
    BY <1>3 DEF Flush, vars
  <2>2. CASE PowerLoss
    BY <1>2, <2>2
  <2> QED BY <2>1, <2>2
<1>4. ASSUME NEW q \in Proc, SealerStep(q), ~ PowerLoss
      PROVE  /\ sealer'[p].phase \in {"retire", "return"} =>
                  \/ SealBatch(p) /\ sealer'[p].inference = sealer[p].inference
                  \/ /\ sealer[p].phase \in {"retire", "return"}
                     /\ sealer'[p].inference = sealer[p].inference
                     /\ ~ PowerLoss
             /\ sealer'[p].phase = "spill" => sealer[p].phase = "spill" \/ setup.failOpen
  <2>1. CASE p # q
    <3>1. sealer'[p] = sealer[p]
      BY <1>4, <2>1 DEF SealerStep, Open, OpenOnSpill, OpenFails, Commit, Return, Raise, NoteUnsealed,
         WriteSpill, WriteSpillFails, Retire, RetireFails, Close, Crash, DeclareOrphan, SealBatch,
         ReturnUnsealed, AfterRetire
    <3> QED BY <1>4, <3>1
  <2>2. CASE p = q
    <3>1. CASE Open(p)
      <4>1. sealer'[p].phase = "idle"
        BY <3>1, <1>1 DEF Open, Closed
      <4> QED BY <4>1
    <3>11. CASE Close(p)
      BY <1>4, <3>11, CloseStep
    <3>2. CASE DeclareOrphan(p)
      BY <3>2, <1>1 DEF DeclareOrphan, SealerType
    <3>3. CASE OpenOnSpill(p)
      <4>1. sealer'[p].phase = IF spill = <<>> \/ Marked THEN "opening retire" ELSE "opening"
        BY <3>3, <1>1 DEF OpenOnSpill, Closed
      <4> QED BY <4>1
    <3>4. CASE OpenFails(p) \/ Crash(p)
      BY <3>4, ClosedType DEF OpenFails, Crash
    <3>5. ASSUME NEW j \in Inference, Commit(p, j)
          PROVE  sealer'[p].phase = "append"
      BY <3>5, <1>1 DEF Commit, SealerType
    <3>6. CASE Return(p) \/ Raise(p)
      BY <3>6, <1>1 DEF Return, Raise, SealerType
    <3>7. CASE WriteSpill(p) \/ WriteSpillFails(p)
      BY <3>7, <1>1 DEF WriteSpill, WriteSpillFails, ReturnUnsealed, SealerType
    <3>8. CASE NoteUnsealed(p)
      BY <3>8, <1>1 DEF NoteUnsealed, SealerType
    <3>9. CASE Retire(p) \/ RetireFails(p)
      <4>1. AfterRetire(p) /\ sealer[p].phase \in {"retire", "opening retire"}
        BY <3>9 DEF Retire, RetireFails, Retiring
      <4>2. CASE sealer[p].phase = "retire"
        BY <1>4, <4>1, <4>2, <1>1 DEF AfterRetire, SealerType
      <4>3. CASE sealer[p].phase # "retire"
        <5>1. sealer' = [sealer EXCEPT ![p].phase = "idle"]
          BY <4>1, <4>3 DEF AfterRetire
        <5>2. sealer'[p].phase = "idle"
          BY <5>1, <1>1 DEF SealerType
        <5> QED BY <5>2
      <4> QED BY <4>2, <4>3
    <3>10. CASE SealBatch(p)
      BY <3>10, <1>1 DEF SealBatch, SealerType
    <3> QED BY <1>4, <2>2, <3>1, <3>4, <3>5, <3>6, <3>7, <3>8, <3>9, <3>10, <3>3, <3>2, <3>11 DEF SealerStep
  <2> QED BY <2>1, <2>2
<1> QED BY <1>2, <1>3, <1>4 DEF Next

\* Nothing is released at first.
LEMMA ReleaseInit == Init => ReleaseInv
BY DEF Init, ReleaseInv, Closed

\* What was released as sealed stays in the log.
LEMMA ReleaseNext == TypeInv /\ ReleaseInv /\ [Next]_vars => ReleaseInv'
<1> SUFFICES ASSUME TypeInv, ReleaseInv, [Next]_vars PROVE ReleaseInv'
  OBVIOUS
<1>1. TypeInv' /\ durable \in 1 .. Len(log) /\ Len(log) \in Nat /\ durable' \in Nat /\ Len(log') \in Nat
  BY TypeNext, LenProperties DEF TypeInv, Typed
<1>2. /\ durable' >= durable /\ Len(log') >= durable
      /\ \A n \in 1 .. durable : log'[n] = log[n]
      /\ \/ Len(log') >= Len(log) /\ \A n \in 1 .. Len(log) : log'[n] = log[n]
         \/ PowerLoss
      /\ \A n \in 1 .. Len(log) : (n \in 1 .. Len(log') /\ log'[n] = log[n]) \/ log[n] \in lost'
      /\ lost \subseteq lost'
      /\ setup' = setup
  BY <1>1, LogKept DEF TypeInv, Typed
<1>3. ASSUME NEW i \in Inference, fate'[i] = "durable"
      PROVE  \E n \in 1 .. durable' : SealedAt(n, i)'
  <2>1. CASE fate[i] = "durable"
    <3>1. PICK n \in 1 .. durable : SealedAt(n, i)
      BY <2>1 DEF ReleaseInv
    <3>2. n \in 1 .. durable' /\ log'[n] = log[n]
      BY <1>1, <1>2
    <3> QED BY <3>1, <3>2 DEF SealedAt
  <2>2. CASE fate[i] # "durable"
    <3>1. PICK p \in Proc : sealer[p].inference = i /\ sealer[p].phase = "return"
      BY <1>3, <2>2, FateStep
    <3>2. UNCHANGED <<log, durable>> /\ durable = Len(log)
      BY <1>3, <2>2, FateStep
    <3>3. PICK n \in 1 .. Len(log) : SealedAt(n, i)
      BY <3>1 DEF ReleaseInv
    <3> QED BY <3>2, <3>3 DEF SealedAt
  <2> QED BY <2>1, <2>2
<1>4. ASSUME NEW i \in Inference, fate'[i] = "sealed", Sealed(i) \notin lost'
      PROVE  \E n \in 1 .. Len(log') : SealedAt(n, i)'
  <2>1. \E n \in 1 .. Len(log) : SealedAt(n, i)
    BY <1>2, <1>4, FateStep DEF ReleaseInv
  <2>2. PICK n \in 1 .. Len(log) : SealedAt(n, i)
    BY <2>1
  <2>3. log[n] = Sealed(i)
    BY <2>2, SealedIsSealed DEF TypeInv
  <2>4. n \in 1 .. Len(log') /\ log'[n] = log[n]
    BY <1>2, <1>4, <2>3
  <2> QED BY <2>2, <2>4 DEF SealedAt
<1>5. ASSUME NEW i \in Inference, fate'[i] \in {"unsealed", "unspilled"}
      PROVE  setup'.failOpen
  BY <1>2, <1>5, FateStep DEF ReleaseInv
<1>6. ASSUME NEW p \in Proc, sealer'[p].phase \in {"retire", "return"}
      PROVE  \E n \in 1 .. Len(log') : SealedAt(n, sealer[p].inference)' /\ sealer'[p].inference = sealer[p].inference
  <2>1. CASE SealBatch(p) /\ sealer'[p].inference = sealer[p].inference
    <3> DEFINE b == Batch(sealer[p])
    <3>1. sealer[p].phase = "append" /\ Typed /\ PhaseSound(p) /\ AppendMany(b)
      BY <2>1 DEF SealBatch, TypeInv
    <3>2. b \in Seq(LogItem) /\ Len(b) \in 1 .. 3 /\ b[Len(b)] = Sealed(sealer[p].inference)
      BY <3>1, BatchShape
    <3> HIDE DEF b
    <3>3. Len(log') = Len(log) + Len(b) /\ \A n \in 1 .. Len(b) : log'[Len(log) + n] = b[n]
      BY <3>1, <3>2, AppendType
    <3>4. log'[Len(log')] = Sealed(sealer[p].inference) /\ Len(log') \in 1 .. Len(log')
      <4>1. Len(b) \in 1 .. Len(b)
        <5>1. \A k \in 1 .. 3 : k \in 1 .. k
          OBVIOUS
        <5> QED BY <3>2, <5>1
      <4>2. log'[Len(log) + Len(b)] = Sealed(sealer[p].inference)
        BY <3>2, <3>3, <4>1
      <4> QED BY <1>1, <3>2, <3>3, <4>2
    <3>5. log'[Len(log')].type = "inference" /\ log'[Len(log')].inference = sealer'[p].inference
      BY <2>1, <3>4 DEF Sealed
    <3> QED BY <2>1, <3>4, <3>5 DEF SealedAt
  <2>2. CASE sealer[p].phase \in {"retire", "return"} /\ sealer'[p].inference = sealer[p].inference /\ ~ PowerLoss
    <3>1. PICK n \in 1 .. Len(log) : SealedAt(n, sealer[p].inference)
      BY <2>2 DEF ReleaseInv
    <3> QED BY <1>1, <1>2, <2>2, <3>1 DEF SealedAt
  <2> QED BY <1>6, <2>1, <2>2, PhaseStep
<1>7. ASSUME NEW p \in Proc, sealer'[p].phase = "spill"
      PROVE  setup'.failOpen
  BY <1>2, <1>7, PhaseStep DEF ReleaseInv
<1> QED BY <1>3, <1>4, <1>5, <1>6, <1>7 DEF ReleaseInv, SealedAt

\* Whatever fails after an output was released as durable, its record is in the
\* ledger; released as not yet durable, unless a power failure took records;
\* and nothing is released unsealed under fail_closed.
THEOREM AlwaysReleasedIsSealed == Spec => []ReleasedIsSealed
<1>1. TypeInv /\ ReleaseInv => ReleasedIsSealed
  <2> SUFFICES ASSUME TypeInv, ReleaseInv PROVE ReleasedIsSealed
    OBVIOUS
  <2>1. durable \in 1 .. Len(log) /\ Len(log) \in Nat
    BY LenProperties DEF TypeInv, Typed
  <2> QED BY <2>1 DEF ReleaseInv, ReleasedIsSealed, SealedAt, Records
<1>2. TypeInv /\ ReleaseInv /\ [Next]_vars => ReleaseInv'
  BY ReleaseNext
<1> QED BY <1>1, <1>2, ReleaseInit, AlwaysTyped, PTL DEF Spec

-----------------------------------------------------------------------------
\* Holes, with one process.

OneProcess == \E p \in Proc : Proc = {p}

Before == {"closed", "opening"}

DeclaredBy(n, i) == log[n].type = "degraded_marker" /\ i \in log[n].covers
IsDeclared(i) == \E n \in 1 .. Len(log) : DeclaredBy(n, i)

\* A marker covers it, or one did that a power failure took: for good.
Settled(i) == IsDeclared(i) \/ i \in MarkerLost

\* What a Sealer says of the spill is what the spill is; what it spills it has
\* counted.
DigestSound(p) ==
  LET s == sealer[p] IN
  /\ s.phase = "opening" => s.digest = spill
  /\ s.phase = "spill" => s.inference \in s.gap.covers
  /\ s.phase = "append" => s.digest = Unavailable \/ (s.digest = spill /\ spill # NoFile)

\* Where a hole is accounted for.  The lines of the spill are declared, or in
\* the gap in memory, or wait for the next open; an unsealed inference that is
\* not declared has its line, so that the end of the Sealer leaves it; one
\* without a line is in the gap, or its Sealer came to an end, as that of a
\* gap behind a closed ledger did; and a spill that a marker names has nothing
\* left to declare.
HoleInv ==
  /\ \A p \in Proc :
       /\ DigestSound(p)
       /\ \A i \in Content(Lines) :
            Settled(i) \/ i \in sealer[p].gap.covers \/ sealer[p].phase \in Before
       /\ \A i \in Inference : fate[i] = "unsealed" =>
            \/ Settled(i)
            \/ /\ i \in Content(Lines)
               /\ i \in sealer[p].gap.covers \/ sealer[p].phase \in Before
       /\ \A i \in Inference : fate[i] = "unspilled" =>
            Settled(i) \/ i \in sealer[p].gap.covers \/ i \in dropped
       /\ ~ sealer[p].open => sealer[p].gap.covers \subseteq dropped
  /\ \A n \in 1 .. Len(log) :
       log[n].type = "degraded_marker" /\ log[n].spill # Unavailable =>
         /\ log[n].spill \in Seq(Inference)
         /\ \A i \in Content(log[n].spill) : Settled(i)

Calm == ~ setup.spillFails /\ ~ setup.renameFails

\* What is in memory and what the spill says, in each phase of a calm run.
GapIsSpill(p) ==
  LET s == sealer[p] IN
  /\ s.phase \in {"idle", "append"} =>
       s.gap.covers = Content(Lines) /\ s.gap.spillOk /\ (spill = NoFile <=> s.gap = NoGap)
  /\ s.phase = "spill" => s.gap.covers = Content(Lines) \cup {s.inference} /\ s.gap.spillOk
  /\ s.phase = "return" => spill = NoFile /\ s.gap = NoGap
  /\ s.phase = "append" /\ s.gap # NoGap => s.digest = spill
  /\ s.phase = "opening" => ~ Marked
  /\ \A i \in s.gap.covers :
       /\ ~ IsDeclared(i)
       /\ fate[i] = "unsealed" \/ (s.phase = "spill" /\ i = s.inference)

OnceInv ==
  Calm =>
    /\ \A p \in Proc : GapIsSpill(p)
    /\ \A m, n \in 1 .. Len(log), i \in Inference : DeclaredBy(m, i) /\ DeclaredBy(n, i) => m = n
    /\ \A i \in Inference : IsDeclared(i) \/ i \in Content(Lines) => fate[i] = "unsealed"
    /\ \A n \in 1 .. Len(log), i \in Content(Lines) : DeclaredBy(n, i) => log[n].spill = spill

\* What the ledger says after a batch.
LEMMA BatchInLog ==
  ASSUME TypeInv, NEW p \in Proc, SealBatch(p)
  PROVE  LET s == sealer[p] IN
         /\ Len(log') \in Nat /\ Len(log') > Len(log)
         /\ \A n \in 1 .. Len(log) : log'[n] = log[n]
         /\ \A n \in 1 .. Len(log') : log'[n].type = "degraded_marker" =>
              \/ n \in 1 .. Len(log)
              \/ s.gap # NoGap /\ n = Len(log) + 1 /\ log'[n] = Marker(s.gap.covers, s.digest)
         /\ \A n \in Len(log) + 1 .. Len(log') : log'[n].type = "inference" =>
              n = Len(log') /\ log'[n] = Sealed(s.inference)
         /\ PairOf[s.inference] \notin s.registered =>
              \E n \in 1 .. Len(log') - 1 : log'[n] = Registration(PairOf[s.inference])
         /\ s.gap # NoGap =>
              Len(log) + 1 < Len(log') /\ log'[Len(log) + 1] = Marker(s.gap.covers, s.digest)
<1> DEFINE s == sealer[p]
           b == Batch(s)
<1>1. s.phase = "append" /\ Typed /\ PhaseSound(p) /\ AppendMany(b) /\ Len(log) \in Nat
  BY LenProperties DEF SealBatch, TypeInv, Typed
<1>2. /\ b \in Seq(LogItem) /\ Len(b) \in 1 .. 3
      /\ b[Len(b)] = Sealed(s.inference)
      /\ s.gap # NoGap => 1 < Len(b) /\ b[1] = Marker(s.gap.covers, s.digest)
      /\ PairOf[s.inference] \notin s.registered =>
           \E n \in 1 .. Len(b) - 1 : b[n] = Registration(PairOf[s.inference])
      /\ \A n \in 1 .. Len(b) : b[n].type = "inference" => n = Len(b)
      /\ \A n \in 1 .. Len(b) : b[n].type = "degraded_marker" => n = 1 /\ s.gap # NoGap
  BY <1>1, BatchShape
<1> HIDE DEF b, s
<1>3. /\ Len(log') = Len(log) + Len(b)
      /\ \A n \in 1 .. Len(log) : log'[n] = log[n]
      /\ \A n \in 1 .. Len(b) : log'[Len(log) + n] = b[n]
  BY <1>1, <1>2, AppendType
<1>4. PICK k \in 1 .. 3 : k = Len(b)
  BY <1>2
<1>5. \A n \in Len(log) + 1 .. Len(log') : n - Len(log) \in 1 .. k /\ log'[n] = b[n - Len(log)]
  <2> SUFFICES ASSUME NEW n \in Len(log) + 1 .. Len(log')
               PROVE  n - Len(log) \in 1 .. k /\ log'[n] = b[n - Len(log)]
    OBVIOUS
  <2>1. n - Len(log) \in 1 .. k /\ Len(log) + (n - Len(log)) = n
    BY <1>1, <1>3, <1>4
  <2> QED BY <1>3, <1>4, <2>1
<1>6. Len(log') = Len(log) + k /\ Len(log') \in Nat /\ Len(log') > Len(log)
  BY <1>1, <1>3, <1>4
<1>7. ASSUME NEW n \in 1 .. Len(log'), log'[n].type = "degraded_marker", n \notin 1 .. Len(log)
      PROVE  s.gap # NoGap /\ n = Len(log) + 1 /\ log'[n] = Marker(s.gap.covers, s.digest)
  <2>1. n \in Len(log) + 1 .. Len(log')
    BY <1>1, <1>6, <1>7
  <2>2. n - Len(log) \in 1 .. k /\ log'[n] = b[n - Len(log)]
    BY <1>5, <2>1
  <2>3. n - Len(log) = 1 /\ s.gap # NoGap
    BY <1>2, <1>4, <1>7, <2>2
  <2> QED BY <1>1, <1>2, <2>1, <2>2, <2>3
<1>8. ASSUME NEW n \in Len(log) + 1 .. Len(log'), log'[n].type = "inference"
      PROVE  n = Len(log') /\ log'[n] = Sealed(s.inference)
  <2>1. n - Len(log) \in 1 .. k /\ log'[n] = b[n - Len(log)]
    BY <1>5
  <2>2. n - Len(log) = k
    BY <1>2, <1>4, <1>8, <2>1
  <2> QED BY <1>1, <1>2, <1>4, <1>6, <2>1, <2>2
<1>9. ASSUME PairOf[s.inference] \notin s.registered
      PROVE  \E n \in 1 .. Len(log') - 1 : log'[n] = Registration(PairOf[s.inference])
  <2>1. PICK n \in 1 .. k - 1 : b[n] = Registration(PairOf[s.inference])
    BY <1>2, <1>4, <1>9
  <2>2. log'[Len(log) + n] = b[n] /\ Len(log) + n \in 1 .. Len(log') - 1
    BY <1>1, <1>3, <1>4, <1>6
  <2> QED BY <2>1, <2>2
<1>10. ASSUME s.gap # NoGap
      PROVE  Len(log) + 1 < Len(log') /\ log'[Len(log) + 1] = Marker(s.gap.covers, s.digest)
  BY <1>1, <1>2, <1>3, <1>4, <1>6, <1>10
<1> QED BY <1>3, <1>6, <1>7, <1>8, <1>9, <1>10 DEF s

\* What is declared after a batch.
LEMMA DeclaredByBatch ==
  ASSUME TypeInv, NEW p \in Proc, SealBatch(p), NEW i \in Inference
  PROVE  IsDeclared(i)' <=> IsDeclared(i) \/ i \in sealer[p].gap.covers
<1>1. Len(log) \in Nat
  BY LenProperties DEF TypeInv, Typed
<1>2. ASSUME IsDeclared(i)
      PROVE  IsDeclared(i)'
  BY <1>1, <1>2, BatchInLog DEF IsDeclared, DeclaredBy
<1>3. ASSUME i \in sealer[p].gap.covers
      PROVE  IsDeclared(i)'
  <2>1. sealer[p].gap # NoGap
    BY <1>3 DEF NoGap
  <2>2. PICK k \in Nat : k = Len(log) + 1
    BY <1>1
  <2>3. k \in 1 .. Len(log') /\ log'[k] = Marker(sealer[p].gap.covers, sealer[p].digest)
    BY <1>1, <2>1, <2>2, BatchInLog
  <2>4. DeclaredBy(k, i)'
    BY <1>3, <2>3 DEF DeclaredBy, Marker
  <2> QED BY <2>3, <2>4 DEF IsDeclared
<1>4. ASSUME IsDeclared(i)'
      PROVE  IsDeclared(i) \/ i \in sealer[p].gap.covers
  <2>1. PICK n \in 1 .. Len(log') : DeclaredBy(n, i)'
    BY <1>4 DEF IsDeclared
  <2>2. CASE n \in 1 .. Len(log)
    BY <2>1, <2>2, BatchInLog DEF IsDeclared, DeclaredBy
  <2>3. CASE n \notin 1 .. Len(log)
    <3>1. log'[n] = Marker(sealer[p].gap.covers, sealer[p].digest) /\ i \in log'[n].covers
      BY <2>1, <2>3, BatchInLog DEF DeclaredBy
    <3> QED BY <3>1 DEF Marker
  <2> QED BY <2>2, <2>3
<1> QED BY <1>2, <1>3, <1>4

\* What the ledger says after an orphan spill was declared.
LEMMA OrphanInLog ==
  ASSUME TypeInv, NEW p \in Proc, DeclareOrphan(p)
  PROVE  LET d == sealer[p].digest IN
         /\ Len(log) \in Nat /\ Len(log') = Len(log) + 1
         /\ \A n \in 1 .. Len(log) : log'[n] = log[n]
         /\ log'[Len(log) + 1] = Marker(Content(d), d)
         /\ \A i \in Inference : IsDeclared(i)' <=> IsDeclared(i) \/ i \in Content(d)
<1> DEFINE d == sealer[p].digest
           m == Marker(Content(d), d)
<1>1. Typed /\ PhaseSound(p) /\ sealer[p].phase = "opening" /\ AppendMany(<<m>>) /\ Len(log) \in Nat
  BY LenProperties DEF DeclareOrphan, TypeInv, Typed
<1>2. d \in Seq(Inference)
  BY <1>1 DEF PhaseSound
<1>3. m \in LogItem /\ m.type = "degraded_marker" /\ m.covers = Content(d)
  BY <1>2, ContentType DEF Marker, LogItem, Digest
<1> HIDE DEF m, d
<1>4. <<m>> \in Seq(LogItem) /\ Len(<<m>>) = 1 /\ <<m>>[1] = m
  BY <1>3
<1>5. /\ Len(log') = Len(log) + 1 /\ log'[Len(log) + 1] = m
      /\ \A n \in 1 .. Len(log) : log'[n] = log[n]
  <2>1. /\ Len(log') = Len(log) + 1
        /\ \A n \in 1 .. Len(log) : log'[n] = log[n]
        /\ \A n \in 1 .. 1 : log'[Len(log) + n] = <<m>>[n]
    BY <1>1, <1>4, AppendType
  <2> QED BY <1>4, <2>1
<1>6. ASSUME NEW i \in Inference
      PROVE  IsDeclared(i)' <=> IsDeclared(i) \/ i \in Content(d)
  <2>1. IsDeclared(i) => IsDeclared(i)'
    BY <1>1, <1>5 DEF IsDeclared, DeclaredBy
  <2>2. PICK k \in Nat : k = Len(log) + 1
    BY <1>1
  <2>3. k \in 1 .. Len(log') /\ (DeclaredBy(k, i)' <=> i \in Content(d))
    BY <1>1, <1>3, <1>5, <2>2 DEF DeclaredBy
  <2>4. \A n \in 1 .. Len(log') : n = k \/ n \in 1 .. Len(log)
    BY <1>1, <1>5, <2>2
  <2>5. \A n \in 1 .. Len(log) : DeclaredBy(n, i)' <=> DeclaredBy(n, i)
    BY <1>5 DEF DeclaredBy
  <2> QED BY <2>1, <2>3, <2>4, <2>5 DEF IsDeclared
<1> QED BY <1>1, <1>5, <1>6 DEF m, d

\* A spill file that is not there has no lines.
LEMMA ContentEmpty == Content(<<>>) = {} /\ (spill = NoFile => Lines = <<>>) /\ (spill # NoFile => Lines = spill)
BY DEF Content, Lines

\* What is declared is so for good, or a power failure took the marker.
LEMMA SettledStays ==
  ASSUME TypeInv, [Next]_vars, NEW i, Settled(i)
  PROVE  Settled(i)'
<1>1. \A n \in 1 .. Len(log) : (n \in 1 .. Len(log') /\ log'[n] = log[n]) \/ log[n] \in lost'
  BY LogKept
<1>2. CASE IsDeclared(i)
  <2>1. PICK n \in 1 .. Len(log) : DeclaredBy(n, i)
    BY <1>2 DEF IsDeclared
  <2>2. CASE n \in 1 .. Len(log') /\ log'[n] = log[n]
    BY <2>1, <2>2 DEF Settled, IsDeclared, DeclaredBy
  <2>3. CASE log[n] \in lost'
    BY <2>1, <2>3 DEF Settled, DeclaredBy, MarkerLost, Covered, MarkersIn
  <2> QED BY <1>1, <2>2, <2>3
<1>3. CASE i \in MarkerLost
  <2>1. lost \subseteq lost'
    BY LogKept
  <2> QED BY <1>3, <2>1 DEF Settled, MarkerLost, Covered, MarkersIn
<1> QED BY <1>2, <1>3 DEF Settled

\* The markers that stay name spills with nothing left to declare.
LEMMA SpillsSettled ==
  ASSUME TypeInv, HoleInv, [Next]_vars, NEW n \in 1 .. Len(log), log'[n] = log[n],
         log'[n].type = "degraded_marker", log'[n].spill # Unavailable
  PROVE  log'[n].spill \in Seq(Inference) /\ \A i \in Content(log[n].spill)' : Settled(i)'
<1>1. log[n].spill \in Seq(Inference) /\ \A i \in Content(log[n].spill) : Settled(i)
  BY DEF HoleInv
<1>2. Content(log[n].spill)' = Content(log[n].spill)
  BY DEF Content
<1> QED BY <1>1, <1>2, SettledStays

\* The steps that only move a Sealer along, or let its gap grow.
LEMMA HolesKept ==
  ASSUME TypeInv, HoleInv, [Next]_vars, NEW p \in Proc, Proc = {p},
         UNCHANGED <<lost, log, spill>>, dropped \subseteq dropped',
         \A i \in Inference : fate'[i] \in {"unsealed", "unspilled"} => fate'[i] = fate[i],
         sealer[p].gap.covers \subseteq sealer'[p].gap.covers,
         ~ sealer'[p].open => sealer'[p].gap.covers \subseteq dropped',
         sealer'[p].phase \in Before <=> sealer[p].phase \in Before,
         DigestSound(p)'
  PROVE  HoleInv'
<1>1. Content(Lines)' = Content(Lines)
  BY DEF Lines, Content
<1>2. ASSUME NEW i \in Content(Lines)'
      PROVE  (Settled(i) \/ i \in sealer[p].gap.covers \/ sealer[p].phase \in Before)'
  BY <1>1, <1>2, SettledStays DEF HoleInv
<1>3. ASSUME NEW i \in Inference, fate'[i] = "unsealed"
      PROVE  \/ Settled(i)'
             \/ /\ i \in Content(Lines)'
                /\ i \in sealer'[p].gap.covers \/ sealer'[p].phase \in Before
  BY <1>1, <1>3, SettledStays DEF HoleInv
<1>4. ASSUME NEW i \in Inference, fate'[i] = "unspilled"
      PROVE  Settled(i)' \/ i \in sealer'[p].gap.covers \/ i \in dropped'
  BY <1>1, <1>4, SettledStays DEF HoleInv
<1>5. ASSUME NEW n \in 1 .. Len(log'), log'[n].type = "degraded_marker", log'[n].spill # Unavailable
      PROVE  log'[n].spill \in Seq(Inference) /\ \A i \in Content(log[n].spill)' : Settled(i)'
  BY <1>5, SpillsSettled
<1> QED BY <1>2, <1>3, <1>4, <1>5 DEF HoleInv

\* There is no hole at first.
LEMMA HoleInit == OneProcess /\ Init => HoleInv
<1> SUFFICES ASSUME Init PROVE HoleInv
  OBVIOUS
<1>1. \A p \in Proc : sealer[p] = Closed
  BY DEF Init
<1>2. \A i \in Inference : fate[i] = "new"
  BY DEF Init
<1>3. \A p \in Proc : DigestSound(p) /\ sealer[p].phase = "closed" /\ sealer[p].gap.covers = {}
  BY <1>1 DEF DigestSound, Closed, NoGap
<1>4. Len(log) = 1 /\ log[1].type # "degraded_marker"
  BY DEF Init
<1> QED BY <1>1, <1>2, <1>3, <1>4 DEF HoleInv, Before

\* A Sealer that opens owes what the spill file holds.
LEMMA HoleOpen ==
  ASSUME TypeInv, HoleInv, [Next]_vars, NEW p \in Proc, Proc = {p}, Open(p) \/ OpenOnSpill(p)
  PROVE  HoleInv'
<1>1. sealer[p] \in SealerType /\ sealer[p].gap.covers \subseteq dropped
  BY DEF TypeInv, Typed, HoleInv, Open, OpenOnSpill, Unused
<1>2. UNCHANGED <<lost, log, spill, fate, dropped>>
  BY DEF Open, OpenOnSpill
<1>3. Content(Lines)' = Content(Lines)
  BY <1>2 DEF Lines, Content
<1>4. /\ sealer'[p].gap = NoGap
      /\ \/ sealer'[p].phase = "idle" /\ spill = NoFile
         \/ sealer'[p].phase = "opening" /\ sealer'[p].digest = spill
         \/ sealer'[p].phase = "opening retire" /\ spill = <<>>
         \/ sealer'[p].phase = "opening retire" /\ Marked /\ spill # NoFile
  <2>1. CASE Open(p)
    BY <2>1 DEF Open, Closed, TypeInv, Typed
  <2>2. CASE OpenOnSpill(p)
    <3>1. /\ sealer'[p].gap = NoGap
          /\ sealer'[p].phase = (IF spill = <<>> \/ Marked THEN "opening retire" ELSE "opening")
          /\ sealer'[p].digest = spill /\ spill # NoFile
      BY <2>2, <1>1 DEF OpenOnSpill, Closed, TypeInv, Typed
    <3> QED BY <3>1
  <2> QED BY <2>1, <2>2
<1>5. sealer'[p].gap.covers = {} /\ DigestSound(p)'
  <2>1. sealer'[p].gap.covers = {}
    <3>1. sealer'[p].gap = NoGap
      BY <1>4
    <3>2. NoGap.covers = {}
      BY DEF NoGap
    <3> QED BY <3>1, <3>2
  <2>2. sealer'[p].phase \notin {"spill", "append"}
    BY <1>4
  <2>3. sealer'[p].phase = "opening" => sealer'[p].digest = spill
    BY <1>4
  <2> QED BY <1>2, <2>1, <2>2, <2>3 DEF DigestSound
<1>6. ASSUME sealer'[p].phase # "opening"
      PROVE  \A i \in Content(Lines) : Settled(i)
  <2>1. CASE spill = NoFile \/ spill = <<>>
    BY <2>1, ContentEmpty
  <2>2. CASE Marked /\ spill # NoFile
    <3>1. PICK n \in 1 .. Len(log) : log[n].type = "degraded_marker" /\ log[n].spill = spill
      BY <2>2 DEF Marked, Records
    <3>2. spill # Unavailable /\ Lines = spill
      BY <2>2, StandIns, ContentEmpty DEF TypeInv, Typed
    <3> QED BY <3>1, <3>2 DEF HoleInv
  <2> QED BY <1>4, <1>6, <2>1, <2>2
<1>7. ASSUME NEW i \in Content(Lines)'
      PROVE  Settled(i)' \/ sealer'[p].phase \in Before
  BY <1>3, <1>6, <1>7, SettledStays DEF Before
<1>8. ASSUME NEW i \in Inference, fate'[i] = "unsealed"
      PROVE  Settled(i)' \/ (i \in Content(Lines)' /\ sealer'[p].phase \in Before)
  <2>1. Settled(i) \/ i \in Content(Lines)
    BY <1>2, <1>8 DEF HoleInv
  <2> QED BY <1>3, <1>7, <2>1, SettledStays
<1>9. ASSUME NEW i \in Inference, fate'[i] = "unspilled"
      PROVE  Settled(i)' \/ i \in dropped'
  BY <1>1, <1>2, <1>9, SettledStays DEF HoleInv
<1>10. ASSUME NEW n \in 1 .. Len(log'), log'[n].type = "degraded_marker", log'[n].spill # Unavailable
       PROVE  log'[n].spill \in Seq(Inference) /\ \A i \in Content(log[n].spill)' : Settled(i)'
  BY <1>2, <1>10, SpillsSettled
<1> QED BY <1>5, <1>7, <1>8, <1>9, <1>10 DEF HoleInv

\* A marker for an orphan covers every line of the file whose digest it took.
LEMMA HoleDeclareOrphan ==
  ASSUME TypeInv, HoleInv, [Next]_vars, NEW p \in Proc, Proc = {p}, DeclareOrphan(p)
  PROVE  HoleInv'
<1>1. /\ sealer[p] \in SealerType /\ sealer[p].phase = "opening" /\ sealer[p].gap = NoGap
      /\ sealer[p].digest = spill /\ spill \in Seq(Inference) /\ Lines = spill
  BY ContentEmpty, StandIns DEF TypeInv, Typed, PhaseSound, DeclareOrphan, HoleInv, DigestSound
<1>2. UNCHANGED <<lost, spill, fate, dropped>> /\ Lines' = Lines
  BY DEF DeclareOrphan, Lines
<1>3. sealer'[p].phase = "opening retire" /\ sealer'[p].gap = NoGap /\ NoGap.covers = {}
  BY <1>1 DEF DeclareOrphan, SealerType, TypeInv, Typed, NoGap
<1>4. /\ Len(log) \in Nat /\ Len(log') = Len(log) + 1
      /\ \A n \in 1 .. Len(log) : log'[n] = log[n]
      /\ log'[Len(log) + 1] = Marker(Content(spill), spill)
      /\ \A i \in Inference : IsDeclared(i)' <=> IsDeclared(i) \/ i \in Content(spill)
  BY <1>1, OrphanInLog
<1>5. Content(spill) \subseteq Inference /\ Content(Lines)' = Content(spill)
  BY <1>1, <1>2, ContentType DEF Content
<1>6. \A i \in Content(spill) : Settled(i)'
  BY <1>4, <1>5 DEF Settled
<1>7. ASSUME NEW i \in Inference, fate'[i] = "unsealed"
      PROVE  Settled(i)'
  <2>1. Settled(i) \/ i \in Content(spill)
    BY <1>1, <1>2, <1>7 DEF HoleInv
  <2> QED BY <1>6, <2>1, SettledStays
<1>8. ASSUME NEW i \in Inference, fate'[i] = "unspilled"
      PROVE  Settled(i)' \/ i \in dropped'
  BY <1>1, <1>2, <1>3, <1>8, SettledStays DEF HoleInv
<1>9. ASSUME NEW n \in 1 .. Len(log'), log'[n].type = "degraded_marker", log'[n].spill # Unavailable
      PROVE  log'[n].spill \in Seq(Inference) /\ \A i \in Content(log[n].spill)' : Settled(i)'
  <2>1. CASE n \in 1 .. Len(log)
    BY <1>4, <1>9, <2>1, SpillsSettled
  <2>2. CASE n \notin 1 .. Len(log)
    <3>1. log'[n] = Marker(Content(spill), spill)
      BY <1>4, <2>2
    <3>2. log'[n].spill = spill
      BY <3>1 DEF Marker
    <3>3. Content(log[n].spill)' = Content(spill)
      BY <3>2 DEF Content
    <3> QED BY <1>1, <1>6, <3>2, <3>3
  <2> QED BY <2>1, <2>2
<1>10. DigestSound(p)'
  BY <1>3 DEF DigestSound
<1> QED BY <1>3, <1>5, <1>6, <1>7, <1>8, <1>9, <1>10 DEF HoleInv

\* The marker of a batch covers what the Sealer owed.
LEMMA HoleSealBatch ==
  ASSUME TypeInv, HoleInv, [Next]_vars, NEW p \in Proc, Proc = {p}, SealBatch(p)
  PROVE  HoleInv'
<1> DEFINE g == sealer[p].gap
           d == sealer[p].digest
<1>1. /\ sealer[p] \in SealerType /\ sealer[p].phase = "append"
      /\ d = Unavailable \/ (d = spill /\ spill # NoFile)
      /\ g.covers \subseteq Inference /\ Lines \in Seq(Inference)
  BY LinesType DEF TypeInv, Typed, SealBatch, HoleInv, DigestSound, SealerType
<1>2. UNCHANGED <<lost, spill, fate, dropped>> /\ Content(Lines)' = Content(Lines)
  BY DEF SealBatch, Lines, Content
<1>3. sealer'[p].phase \in {"return", "retire"} /\ sealer'[p].gap = NoGap /\ NoGap.covers = {}
  BY <1>1 DEF SealBatch, SealerType, TypeInv, Typed, NoGap
<1>4. \A i \in g.covers : Settled(i)'
  BY <1>1, DeclaredByBatch DEF Settled
<1>5. sealer[p].phase \notin Before
  BY <1>1 DEF Before
<1>6. \A i \in Content(Lines) : Settled(i)'
  BY <1>4, <1>5, SettledStays DEF HoleInv
<1>7. ASSUME NEW i \in Inference, fate'[i] = "unsealed"
      PROVE  Settled(i)'
  BY <1>2, <1>4, <1>5, <1>7, SettledStays DEF HoleInv
<1>8. ASSUME NEW i \in Inference, fate'[i] = "unspilled"
      PROVE  Settled(i)' \/ i \in dropped'
  BY <1>2, <1>4, <1>8, SettledStays DEF HoleInv
<1>9. ASSUME NEW n \in 1 .. Len(log'), log'[n].type = "degraded_marker", log'[n].spill # Unavailable
      PROVE  log'[n].spill \in Seq(Inference) /\ \A i \in Content(log[n].spill)' : Settled(i)'
  <2>1. CASE n \in 1 .. Len(log)
    BY <1>9, <2>1, BatchInLog, SpillsSettled
  <2>2. CASE n \notin 1 .. Len(log)
    <3>1. log'[n] = Marker(g.covers, d)
      BY <1>9, <2>2, BatchInLog
    <3>2. log'[n].spill = d
      BY <3>1 DEF Marker
    <3>3. d = spill /\ spill \in Seq(Inference) /\ Lines = spill
      BY <1>1, <1>9, <3>2, ContentEmpty DEF TypeInv, Typed
    <3>4. Content(log[n].spill)' = Content(Lines)
      BY <3>2, <3>3 DEF Content
    <3> QED BY <1>6, <3>2, <3>3, <3>4
  <2> QED BY <2>1, <2>2
<1>10. DigestSound(p)'
  BY <1>3 DEF DigestSound
<1> QED BY <1>2, <1>3, <1>6, <1>7, <1>8, <1>9, <1>10 DEF HoleInv

\* A hole is owed from the moment its inference is let go.
LEMMA HoleWriteSpill ==
  ASSUME TypeInv, HoleInv, [Next]_vars, NEW p \in Proc, Proc = {p}, WriteSpill(p) \/ WriteSpillFails(p)
  PROVE  HoleInv'
<1> DEFINE j == sealer[p].inference
<1>1. /\ sealer[p] \in SealerType /\ sealer[p].phase = "spill" /\ Lines \in Seq(Inference)
      /\ j \in Inference /\ Lines \o <<j>> \in Seq(Inference) /\ Content(Lines \o <<j>>) = Content(Lines) \cup {j}
      /\ j \in sealer[p].gap.covers
  BY LinesType, ContentAppend DEF TypeInv, Typed, WriteSpill, WriteSpillFails, SealerType, HoleInv, DigestSound
<1>2. UNCHANGED <<lost, log, dropped>>
  BY DEF WriteSpill, WriteSpillFails
<1>3. /\ sealer'[p].phase = "idle" /\ sealer'[p].gap.covers = sealer[p].gap.covers
      /\ sealer'[p].open = sealer[p].open
      /\ \A i \in Inference : i # j => fate'[i] = fate[i]
  BY <1>1 DEF WriteSpill, WriteSpillFails, ReturnUnsealed, SealerType, TypeInv, Typed
<1>4. /\ Lines' \in {Lines, Lines \o <<j>>}
      /\ fate'[j] = "unsealed" => Lines' = Lines \o <<j>>
  <2>1. spill' \in {spill, Lines, Lines \o <<j>>}
    BY DEF WriteSpill, WriteSpillFails
  <2>2. Lines # NoFile /\ Lines \o <<j>> # NoFile
    BY <1>1, StandIns
  <2>3. Lines' \in {Lines, Lines \o <<j>>}
    BY <2>1, <2>2 DEF Lines
  <2>4. CASE WriteSpill(p)
    BY <2>2, <2>4 DEF Lines, WriteSpill
  <2>5. CASE WriteSpillFails(p)
    BY <1>1, <2>3, <2>5 DEF WriteSpillFails, ReturnUnsealed, TypeInv, Typed
  <2> QED BY <2>3, <2>4, <2>5
<1>5. Content(Lines)' \in {Content(Lines), Content(Lines) \cup {j}}
      /\ (fate'[j] = "unsealed" => Content(Lines)' = Content(Lines) \cup {j})
  BY <1>1, <1>4 DEF Content
<1>6. sealer[p].phase \notin Before
  BY <1>1 DEF Before
<1>7. ASSUME NEW i \in Content(Lines)'
      PROVE  Settled(i)' \/ i \in sealer'[p].gap.covers
  BY <1>1, <1>3, <1>5, <1>6, <1>7, SettledStays DEF HoleInv
<1>8. ASSUME NEW i \in Inference, fate'[i] = "unsealed"
      PROVE  Settled(i)' \/ (i \in Content(Lines)' /\ i \in sealer'[p].gap.covers)
  <2>1. CASE i = j
    BY <1>1, <1>3, <1>5, <1>8, <2>1
  <2>2. CASE i # j
    BY <1>3, <1>5, <1>6, <1>8, <2>2, SettledStays DEF HoleInv
  <2> QED BY <2>1, <2>2
<1>9. ASSUME NEW i \in Inference, fate'[i] = "unspilled"
      PROVE  Settled(i)' \/ i \in sealer'[p].gap.covers \/ i \in dropped'
  <2>1. CASE i = j
    BY <1>1, <1>3, <2>1
  <2>2. CASE i # j
    BY <1>2, <1>3, <1>9, <2>2, SettledStays DEF HoleInv
  <2> QED BY <2>1, <2>2
<1>10. ASSUME NEW n \in 1 .. Len(log'), log'[n].type = "degraded_marker", log'[n].spill # Unavailable
       PROVE  log'[n].spill \in Seq(Inference) /\ \A i \in Content(log[n].spill)' : Settled(i)'
  BY <1>2, <1>10, SpillsSettled
<1>11. DigestSound(p)'
  BY <1>3 DEF DigestSound
<1>12. ~ sealer'[p].open => sealer'[p].gap.covers \subseteq dropped'
  BY <1>2, <1>3 DEF HoleInv
<1> QED BY <1>7, <1>8, <1>9, <1>10, <1>11, <1>12 DEF HoleInv

\* The phase after a retirement, renamed or not.
LEMMA RetireStep ==
  ASSUME TypeInv, NEW p \in Proc, Retire(p) \/ RetireFails(p)
  PROVE  /\ sealer[p].phase \in {"retire", "opening retire"}
         /\ sealer'[p].phase = IF sealer[p].phase = "retire" THEN "return" ELSE "idle"
         /\ sealer'[p].gap = sealer[p].gap
         /\ sealer'[p].inference = sealer[p].inference
         /\ sealer'[p].registered = sealer[p].registered
         /\ sealer'[p].open = sealer[p].open
<1>1. sealer[p] \in SealerType /\ sealer[p].phase \in {"retire", "opening retire"} /\ AfterRetire(p)
  BY DEF TypeInv, Typed, Retire, RetireFails, Retiring
<1>2. CASE sealer[p].phase = "retire"
  <2>1. sealer' = [sealer EXCEPT ![p].phase = "return"]
    BY <1>1, <1>2 DEF AfterRetire
  <2> QED BY <1>1, <1>2, <2>1 DEF SealerType, TypeInv, Typed
<1>3. CASE sealer[p].phase # "retire"
  <2>1. sealer' = [sealer EXCEPT ![p].phase = "idle"]
    BY <1>1, <1>3 DEF AfterRetire
  <2> QED BY <1>1, <1>3, <2>1 DEF SealerType, TypeInv, Typed
<1> QED BY <1>2, <1>3

\* A renamed spill file leaves no lines.
LEMMA NoLinesLeft ==
  ASSUME spill' = NoFile
  PROVE  Content(Lines)' = {}
<1>1. Lines' = <<>> /\ {<<>>[n] : n \in 1 .. Len(<<>>)} = {}
  BY DEF Lines
<1> QED BY <1>1 DEF Content

\* Only a spill file whose lines are declared is renamed.
LEMMA HoleRetire ==
  ASSUME TypeInv, HoleInv, [Next]_vars, NEW p \in Proc, Proc = {p}, Retire(p)
  PROVE  HoleInv'
<1>1. /\ sealer[p] \in SealerType /\ sealer[p].gap = NoGap /\ sealer[p].phase \in {"retire", "opening retire"}
  BY DEF TypeInv, Typed, PhaseSound, Retire, Retiring
<1>2. UNCHANGED <<lost, log, fate, dropped>> /\ spill' = NoFile
  BY DEF Retire
<1>3. sealer'[p].gap = NoGap /\ sealer'[p].phase \in {"return", "idle"}
  <2>1. sealer'[p].gap = sealer[p].gap
        /\ sealer'[p].phase = IF sealer[p].phase = "retire" THEN "return" ELSE "idle"
    BY RetireStep
  <2> QED BY <1>1, <2>1
<1>4. sealer[p].phase \notin Before /\ sealer[p].gap.covers = {} /\ sealer'[p].gap.covers = {}
  <2>1. NoGap.covers = {}
    BY DEF NoGap
  <2> QED BY <1>1, <1>3, <2>1 DEF Before
<1>5. Content(Lines)' = {}
  BY <1>2, NoLinesLeft
<1>6. ASSUME NEW i \in Inference, fate'[i] = "unsealed"
      PROVE  Settled(i)'
  BY <1>2, <1>4, <1>6, SettledStays DEF HoleInv
<1>7. ASSUME NEW i \in Inference, fate'[i] = "unspilled"
      PROVE  Settled(i)' \/ i \in dropped'
  BY <1>2, <1>4, <1>7, SettledStays DEF HoleInv
<1>8. ASSUME NEW n \in 1 .. Len(log'), log'[n].type = "degraded_marker", log'[n].spill # Unavailable
      PROVE  log'[n].spill \in Seq(Inference) /\ \A i \in Content(log[n].spill)' : Settled(i)'
  BY <1>2, <1>8, SpillsSettled
<1>9. DigestSound(p)'
  BY <1>3 DEF DigestSound
<1> QED BY <1>4, <1>5, <1>6, <1>7, <1>8, <1>9 DEF HoleInv

\* A process that died, or all of them: the spill and the markers are what is
\* left.
LEMMA HoleDeath ==
  ASSUME TypeInv, HoleInv, [Next]_vars, NEW p \in Proc, Proc = {p}, Crash(p) \/ PowerLoss
  PROVE  HoleInv'
<1>1. UNCHANGED spill /\ sealer'[p] = Closed
  BY DEF Crash, PowerLoss, TypeInv, Typed
<1>2. \A i \in Inference : fate'[i] \in {"unsealed", "unspilled"} => fate'[i] = fate[i]
  BY DEF Crash, PowerLoss, Abandoned
<1>3. sealer[p].gap.covers \subseteq dropped' /\ dropped \subseteq dropped'
  BY DEF Crash, PowerLoss
<1>4. \A n \in 1 .. Len(log') : n \in 1 .. Len(log) /\ log'[n] = log[n]
  <2>1. Len(log) \in Nat /\ durable \in 1 .. Len(log)
    BY LenProperties DEF TypeInv, Typed
  <2>2. CASE PowerLoss
    BY <2>1, <2>2, PowerLossType DEF TypeInv
  <2>3. CASE Crash(p)
    BY <2>3 DEF Crash
  <2> QED BY <2>2, <2>3
<1>5. sealer'[p].phase \in Before /\ DigestSound(p)' /\ sealer'[p].gap.covers = {}
  BY <1>1, ClosedType DEF Before, DigestSound, NoGap
<1>6. Content(Lines)' = Content(Lines)
  BY <1>1 DEF Lines, Content
<1>7. ASSUME NEW i \in Inference, fate'[i] = "unsealed"
      PROVE  Settled(i)' \/ i \in Content(Lines)'
  BY <1>2, <1>6, <1>7, SettledStays DEF HoleInv
<1>8. ASSUME NEW i \in Inference, fate'[i] = "unspilled"
      PROVE  Settled(i)' \/ i \in dropped'
  BY <1>2, <1>3, <1>8, SettledStays DEF HoleInv
<1>9. ASSUME NEW n \in 1 .. Len(log'), log'[n].type = "degraded_marker", log'[n].spill # Unavailable
      PROVE  log'[n].spill \in Seq(Inference) /\ \A i \in Content(log[n].spill)' : Settled(i)'
  BY <1>4, <1>9, SpillsSettled
<1> QED BY <1>5, <1>7, <1>8, <1>9 DEF HoleInv

\* With one process, every step keeps the holes declared, owed or counted.
LEMMA HoleNext == OneProcess /\ TypeInv /\ HoleInv /\ [Next]_vars => HoleInv'
<1> SUFFICES ASSUME TypeInv, HoleInv, [Next]_vars, NEW p \in Proc, Proc = {p}
             PROVE  HoleInv'
  BY DEF OneProcess
<1>1. sealer[p] \in SealerType /\ PhaseSound(p) /\ DigestSound(p) /\ sealer \in [Proc -> SealerType]
  BY DEF TypeInv, Typed, HoleInv
<1>5. ~ sealer[p].open => sealer[p].gap.covers \subseteq dropped
  BY DEF HoleInv
<1>2. CASE SealerStep(p)
  <2>1. CASE Open(p) \/ OpenOnSpill(p)
    BY <2>1, HoleOpen
  <2>2. CASE DeclareOrphan(p)
    BY <2>2, HoleDeclareOrphan
  <2>3. CASE OpenFails(p)
    <3>1. UNCHANGED <<lost, log, spill, fate, dropped>> /\ sealer'[p] = Closed /\ sealer[p].phase = "opening"
      BY <1>1, <2>3 DEF OpenFails
    <3>2. sealer[p].gap = NoGap /\ sealer'[p].gap = NoGap /\ sealer'[p].phase = "closed"
      BY <1>1, <3>1, ClosedType DEF PhaseSound
    <3>3. DigestSound(p)' /\ sealer'[p].gap.covers = {}
      BY <3>2 DEF DigestSound, NoGap
    <3> QED BY <1>5, <3>1, <3>2, <3>3, HolesKept DEF Before
  <2>4. ASSUME NEW i \in Inference, Commit(p, i)
        PROVE  HoleInv'
    <3>1. UNCHANGED <<lost, log, spill, dropped>> /\ sealer[p].phase = "idle"
          /\ \A j \in Inference : fate'[j] \in {"unsealed", "unspilled"} => fate'[j] = fate[j]
      BY <2>4 DEF Commit, TypeInv, Typed
    <3>2. /\ sealer'[p].phase = "append" /\ sealer'[p].gap = sealer[p].gap /\ sealer'[p].open = sealer[p].open
          /\ sealer'[p].digest = IF sealer[p].gap.spillOk /\ spill # NoFile THEN spill ELSE Unavailable
      BY <1>1, <2>4 DEF Commit, SealerType
    <3>3. DigestSound(p)'
      BY <3>1, <3>2 DEF DigestSound
    <3> QED BY <1>5, <3>1, <3>2, <3>3, HolesKept DEF Before
  <2>5. CASE SealBatch(p)
    BY <2>5, HoleSealBatch
  <2>6. CASE Return(p) \/ Raise(p)
    <3>1. UNCHANGED <<lost, log, spill, dropped>> /\ sealer[p].phase \in {"return", "append"}
          /\ \A j \in Inference : fate'[j] \in {"unsealed", "unspilled"} => fate'[j] = fate[j]
      BY <2>6 DEF Return, Raise, TypeInv, Typed
    <3>2. sealer'[p].phase = "idle" /\ sealer'[p].gap = sealer[p].gap /\ sealer'[p].open = sealer[p].open
      BY <1>1, <2>6 DEF Return, Raise, SealerType
    <3>3. DigestSound(p)'
      BY <3>2 DEF DigestSound
    <3> QED BY <1>5, <3>1, <3>2, <3>3, HolesKept DEF Before
  <2>7. CASE NoteUnsealed(p)
    <3>1. /\ UNCHANGED <<lost, log, spill, fate>> /\ sealer[p].phase = "append" /\ dropped \subseteq dropped'
          /\ ~ sealer[p].open => sealer[p].inference \in dropped'
      BY <2>7 DEF NoteUnsealed
    <3>2. /\ sealer'[p].phase = "spill" /\ sealer'[p].inference = sealer[p].inference
          /\ sealer'[p].gap.covers = sealer[p].gap.covers \cup {sealer[p].inference}
          /\ sealer'[p].open = sealer[p].open
      BY <1>1, <2>7 DEF NoteUnsealed, SealerType
    <3>3. DigestSound(p)'
      BY <3>2 DEF DigestSound
    <3>4. ~ sealer'[p].open => sealer'[p].gap.covers \subseteq dropped'
      BY <1>5, <3>1, <3>2
    <3> QED BY <3>4, <3>1, <3>2, <3>3, HolesKept DEF Before
  <2>8. CASE WriteSpill(p) \/ WriteSpillFails(p)
    BY <2>8, HoleWriteSpill
  <2>9. CASE Retire(p)
    BY <2>9, HoleRetire
  <2>10. CASE RetireFails(p)
    <3>1. UNCHANGED <<lost, log, spill, fate, dropped>> /\ sealer[p].phase \in {"retire", "opening retire"}
      BY <2>10 DEF RetireFails, Retiring
    <3>2. sealer'[p].phase \in {"return", "idle"} /\ sealer'[p].gap = sealer[p].gap
          /\ sealer'[p].open = sealer[p].open
      BY <2>10, <3>1, RetireStep
    <3>3. DigestSound(p)'
      BY <3>2 DEF DigestSound
    <3> QED BY <1>5, <3>1, <3>2, <3>3, HolesKept DEF Before
  <2>11. CASE Crash(p)
    BY <2>11, HoleDeath
  <2>12. CASE Close(p)
    <3>1. UNCHANGED <<lost, log, spill, fate>> /\ dropped' = dropped \cup sealer[p].gap.covers
      BY <2>12 DEF Close
    <3>2. DigestSound(p)'
      BY <1>1, <2>12, <3>1, CloseStep DEF DigestSound
    <3> QED BY <2>12, <3>1, <3>2, CloseStep, HolesKept
  <2> QED BY <1>2, <2>1, <2>2, <2>3, <2>4, <2>5, <2>6, <2>7, <2>8, <2>9, <2>10, <2>11, <2>12 DEF SealerStep
<1>3. CASE Flush \/ UNCHANGED vars
  <2>1. UNCHANGED <<lost, log, spill, fate, sealer, dropped>>
    BY <1>3 DEF Flush, vars
  <2>2. DigestSound(p)'
    BY <1>1, <2>1 DEF DigestSound
  <2> QED BY <1>5, <2>1, <2>2, HolesKept
<1>4. CASE PowerLoss
  BY <1>4, HoleDeath
<1> QED BY <1>2, <1>3, <1>4 DEF Next

\* With one process, every hole is declared, owed or counted in every state.
LEMMA AlwaysHoleInv == OneProcess => (Spec => []HoleInv)
<1> SUFFICES ASSUME OneProcess PROVE Spec => []HoleInv
  OBVIOUS
<1>1. Init => HoleInv
  BY HoleInit
<1>2. TypeInv /\ HoleInv /\ [Next]_vars => HoleInv'
  BY HoleNext
<1> QED BY <1>1, <1>2, AlwaysTyped, PTL DEF Spec

\* With one process that seals, nothing leaves an inference that was released
\* unsealed without a marker or a spill line, wherever and however often a
\* batch fails, the Sealer is closed or the process dies, unless a power
\* failure takes that very marker; and one without a spill line is lost at most
\* by the end of the Sealer that counted it.
THEOREM AlwaysEveryHoleDeclared == OneProcess => (Spec => []EveryHoleDeclared)
<1> SUFFICES ASSUME OneProcess PROVE Spec => []EveryHoleDeclared
  OBVIOUS
<1>1. TypeInv /\ HoleInv => EveryHoleDeclared
  <2> SUFFICES ASSUME TypeInv, HoleInv, NEW i \in Inference, NEW p \in Proc, Proc = {p}
               PROVE  /\ fate[i] = "unsealed" => i \in Declared \cup Content(Lines) \cup MarkerLost
                      /\ fate[i] = "unspilled" => i \in Declared \cup Counted \cup dropped \cup MarkerLost
    BY DEF OneProcess, EveryHoleDeclared
  <2>1. Settled(i) => i \in Declared \/ i \in MarkerLost
    BY DEF Settled, IsDeclared, DeclaredBy, Declared, Covered, MarkersIn, Content
  <2>2. i \in sealer[p].gap.covers => i \in Counted \/ i \in dropped
    BY DEF HoleInv, Counted
  <2> QED BY <2>1, <2>2 DEF HoleInv
<1> QED BY <1>1, AlwaysTyped, AlwaysHoleInv, PTL

-----------------------------------------------------------------------------
\* What a record rests on.

\* What a Sealer takes for registered is in the ledger: a power failure, which
\* can take a registration, takes every Sealer with it.
RegisteredInv ==
  \A p \in Proc : \A pair \in sealer[p].registered :
    \E n \in 1 .. Len(log) : log[n] = Registration(pair)

\* What a Sealer takes for registered has its record.
LEMMA RegisteredInLog ==
  ASSUME TypeInv, NEW pair \in Registered
  PROVE  \E n \in 1 .. Len(log) : log[n] = Registration(pair)
<1>1. PICK n \in 1 .. Len(log) : log[n].type = "model_registration" /\ log[n].pair = pair
  BY DEF Registered, Records
<1>2. log[n] \in LogItem
  BY ElementOfSeq DEF TypeInv, Typed
<1>3. log[n] \in [type : {"model_registration"}, pair : Pair]
  BY <1>1, <1>2 DEF LogItem
<1>4. log[n] = [type |-> "model_registration", pair |-> pair]
  BY <1>1, <1>3
<1> QED BY <1>4 DEF Registration

\* What a Sealer takes for registered after a step: what it did before, what it
\* read when it opened, or what it has just registered.
LEMMA RegisteredStep ==
  ASSUME TypeInv, [Next]_vars, NEW p \in Proc, NEW pair \in sealer'[p].registered
  PROVE  \/ pair \in sealer[p].registered /\ ~ PowerLoss
         \/ pair \in Registered /\ log' = log
         \/ SealBatch(p) /\ pair = PairOf[sealer[p].inference]
<1>1. sealer[p] \in SealerType /\ sealer \in [Proc -> SealerType]
  BY DEF TypeInv, Typed
<1>2. CASE PowerLoss
  BY <1>1, <1>2, ClosedType DEF PowerLoss
<1>3. CASE (Flush \/ UNCHANGED vars) /\ ~ PowerLoss
  BY <1>3 DEF Flush, vars
<1>4. ASSUME NEW q \in Proc, SealerStep(q), ~ PowerLoss
      PROVE  \/ pair \in sealer[p].registered
             \/ pair \in Registered /\ log' = log
             \/ SealBatch(p) /\ pair = PairOf[sealer[p].inference]
  <2>1. CASE p # q
    <3>1. sealer'[p] = sealer[p]
      BY <1>1, <1>4, <2>1 DEF SealerStep, Open, OpenOnSpill, OpenFails, Commit, Return, Raise, NoteUnsealed,
         WriteSpill, WriteSpillFails, Retire, RetireFails, Close, Crash, DeclareOrphan, SealBatch,
         ReturnUnsealed, AfterRetire
    <3> QED BY <3>1
  <2>2. CASE p = q
    <3>1. CASE Open(p)
      BY <1>1, <3>1 DEF Open, Closed
    <3>11. CASE Close(p)
      BY <3>11, CloseStep
    <3>2. CASE OpenOnSpill(p)
      BY <1>1, <3>2 DEF OpenOnSpill, Closed
    <3>3. CASE DeclareOrphan(p)
      BY <1>1, <3>3 DEF DeclareOrphan, SealerType
    <3>4. CASE OpenFails(p) \/ Crash(p)
      BY <1>1, <3>4, ClosedType DEF OpenFails, Crash
    <3>5. ASSUME NEW j \in Inference, Commit(p, j)
          PROVE  sealer'[p].registered = sealer[p].registered
      BY <3>5, <1>1 DEF Commit, SealerType
    <3>6. CASE Return(p) \/ Raise(p)
      BY <3>6, <1>1 DEF Return, Raise, SealerType
    <3>7. CASE WriteSpill(p) \/ WriteSpillFails(p)
      BY <3>7, <1>1 DEF WriteSpill, WriteSpillFails, ReturnUnsealed, SealerType
    <3>8. CASE NoteUnsealed(p)
      BY <3>8, <1>1 DEF NoteUnsealed, SealerType
    <3>9. CASE Retire(p) \/ RetireFails(p)
      BY <3>9, RetireStep
    <3>10. CASE SealBatch(p)
      BY <3>10, <1>1 DEF SealBatch, SealerType
    <3> QED BY <1>4, <2>2, <3>1, <3>2, <3>3, <3>4, <3>5, <3>6, <3>7, <3>8, <3>9, <3>10, <3>11 DEF SealerStep
  <2> QED BY <2>1, <2>2
<1> QED BY <1>2, <1>3, <1>4 DEF Next

\* What a Sealer remembers as registered stays registered.
LEMMA RegisteredNext == TypeInv /\ RegisteredInv /\ [Next]_vars => RegisteredInv'
<1> SUFFICES ASSUME TypeInv, RegisteredInv, [Next]_vars, NEW p \in Proc, NEW pair \in sealer'[p].registered
             PROVE  \E n \in 1 .. Len(log') : log'[n] = Registration(pair)
  BY DEF RegisteredInv, Registration
<1>1. Len(log) \in Nat /\ Len(log') \in Nat
  <2>1. TypeInv'
    BY TypeNext
  <2> QED BY <2>1, LenProperties DEF TypeInv, Typed
<1>2. CASE pair \in sealer[p].registered /\ ~ PowerLoss
  <2>1. Len(log') >= Len(log) /\ \A n \in 1 .. Len(log) : log'[n] = log[n]
    BY <1>2, LogKept
  <2>2. PICK n \in 1 .. Len(log) : log[n] = Registration(pair)
    BY <1>2 DEF RegisteredInv
  <2> QED BY <1>1, <2>1, <2>2
<1>3. CASE pair \in Registered /\ log' = log
  BY <1>3, RegisteredInLog
<1>4. CASE SealBatch(p) /\ pair = PairOf[sealer[p].inference]
  <2>1. CASE pair \in sealer[p].registered
    <3>1. PICK n \in 1 .. Len(log) : log[n] = Registration(pair)
      BY <2>1 DEF RegisteredInv
    <3> QED BY <1>1, <1>4, <3>1, BatchInLog
  <2>2. CASE pair \notin sealer[p].registered
    <3>1. PICK n \in 1 .. Len(log') - 1 : log'[n] = Registration(pair)
      BY <1>4, <2>2, BatchInLog
    <3> QED BY <1>1, <3>1
  <2> QED BY <2>1, <2>2
<1> QED BY <1>2, <1>3, <1>4, RegisteredStep

\* What a Sealer remembers as registered is in the log in every state.
LEMMA AlwaysRegisteredInv == Spec => []RegisteredInv
<1>1. Init => RegisteredInv
  BY ClosedType DEF Init, RegisteredInv
<1> QED BY <1>1, RegisteredNext, AlwaysTyped, PTL DEF Spec

\* Only a batch puts an inference into the ledger.
LEMMA OnlyBatchesSeal ==
  ASSUME TypeInv, [Next]_vars, NEW n \in Len(log) + 1 .. Len(log'), log'[n].type = "inference"
  PROVE  \E p \in Proc : SealBatch(p)
<1>1. Len(log) \in Nat
  BY LenProperties DEF TypeInv, Typed
<1>2. CASE PowerLoss
  BY <1>1, <1>2, PowerLossType DEF TypeInv
<1>3. CASE Flush \/ UNCHANGED vars
  BY <1>1, <1>3 DEF Flush, vars
<1>4. ASSUME NEW p \in Proc, SealerStep(p), ~ SealBatch(p)
      PROVE  FALSE
  <2>1. CASE DeclareOrphan(p)
    <3>1. Len(log') = Len(log) + 1 /\ log'[Len(log) + 1] = Marker(Content(sealer[p].digest), sealer[p].digest)
      BY <2>1, OrphanInLog
    <3>2. log'[n] = Marker(Content(sealer[p].digest), sealer[p].digest)
      BY <1>1, <3>1
    <3> QED BY <3>2 DEF Marker
  <2>2. CASE ~ DeclareOrphan(p)
    <3>1. log' = log
      BY <1>4, <2>2 DEF SealerStep, Open, OpenOnSpill, OpenFails, Commit, Return, Raise, NoteUnsealed,
         WriteSpill, WriteSpillFails, Retire, RetireFails, Close, Crash
    <3> QED BY <1>1, <3>1
  <2> QED BY <2>1, <2>2
<1> QED BY <1>2, <1>3, <1>4 DEF Next

\* With one process that seals: in front of an inference in the ledger stand the
\* registration of its pair and a marker for each inference released unsealed
\* before it, wherever the Sealer was closed or died in between; except for a
\* marker a power failure took, and a hole without a spill line whose Sealer was
\* closed or died before it could declare it.
THEOREM AlwaysSealedInContext == OneProcess => (Spec => SealedInContext)
<1> SUFFICES ASSUME OneProcess PROVE Spec => SealedInContext
  OBVIOUS
<1> DEFINE InContext ==
      \A n \in Len(log) + 1 .. Len(log') : log'[n].type = "inference" =>
       /\ \E m \in 1 .. n - 1 : log'[m] = Registration(PairOf[log'[n].inference])
       /\ \A i \in Inference : Outstanding(i) =>
            \E m \in 1 .. n - 1 : log'[m].type = "degraded_marker" /\ i \in log'[m].covers
<1>1. TypeInv /\ HoleInv /\ RegisteredInv /\ [Next]_vars => InContext
  <2> SUFFICES ASSUME TypeInv, HoleInv, RegisteredInv, [Next]_vars,
                      NEW n \in Len(log) + 1 .. Len(log'), log'[n].type = "inference"
               PROVE  /\ \E m \in 1 .. n - 1 : log'[m] = Registration(PairOf[log'[n].inference])
                      /\ \A i \in Inference : Outstanding(i) =>
                             \E m \in 1 .. n - 1 : log'[m].type = "degraded_marker" /\ i \in log'[m].covers
    OBVIOUS
  <2>1. Len(log) \in Nat
    BY LenProperties DEF TypeInv, Typed
  <2>2. PICK p \in Proc : SealBatch(p)
    BY OnlyBatchesSeal
  <2>3. /\ n = Len(log') /\ log'[n] = Sealed(sealer[p].inference)
        /\ \A m \in 1 .. Len(log) : log'[m] = log[m]
        /\ sealer[p].gap # NoGap => Len(log) + 1 < Len(log') /\ log'[Len(log) + 1] = Marker(sealer[p].gap.covers, sealer[p].digest)
        /\ Len(log') \in Nat /\ Len(log) < Len(log')
    BY <2>2, BatchInLog
  <2>4. log'[n].inference = sealer[p].inference
    BY <2>3 DEF Sealed
  <2>5. \E m \in 1 .. n - 1 : log'[m] = Registration(PairOf[sealer[p].inference])
    <3>1. CASE PairOf[sealer[p].inference] \in sealer[p].registered
      <4>1. PICK m \in 1 .. Len(log) : log[m] = Registration(PairOf[sealer[p].inference])
        BY <3>1 DEF RegisteredInv
      <4> QED BY <2>1, <2>3, <4>1
    <3>2. CASE PairOf[sealer[p].inference] \notin sealer[p].registered
      BY <2>2, <2>3, <3>2, BatchInLog
    <3> QED BY <3>1, <3>2
  <2>6. ASSUME NEW i \in Inference, Outstanding(i)
        PROVE  \E m \in 1 .. n - 1 : log'[m].type = "degraded_marker" /\ i \in log'[m].covers
    <3>1. sealer[p].phase \notin Before
      BY <2>2 DEF SealBatch, Before
    <3>2. IsDeclared(i) \/ i \in sealer[p].gap.covers
      BY <2>6, <3>1 DEF HoleInv, Outstanding, Settled
    <3>3. CASE IsDeclared(i)
      <4>1. PICK m \in 1 .. Len(log) : DeclaredBy(m, i)
        BY <3>3 DEF IsDeclared
      <4> QED BY <2>1, <2>3, <4>1 DEF DeclaredBy
    <3>4. CASE i \in sealer[p].gap.covers
      <4>1. sealer[p].gap # NoGap
        BY <3>4 DEF NoGap
      <4>2. PICK m \in Nat : m = Len(log) + 1
        BY <2>1
      <4>3. m \in 1 .. n - 1 /\ log'[m] = Marker(sealer[p].gap.covers, sealer[p].digest)
        BY <2>1, <2>3, <4>1, <4>2
      <4> QED BY <3>4, <4>3 DEF Marker
    <3> QED BY <3>2, <3>3, <3>4
  <2> QED BY <2>4, <2>5, <2>6
<1>2. TypeInv /\ HoleInv /\ RegisteredInv /\ [Next]_vars => [InContext]_log
  BY <1>1
<1> HIDE DEF InContext
<1>3. Spec => [][InContext]_log
  BY <1>2, AlwaysTyped, AlwaysHoleInv, AlwaysRegisteredInv, PTL DEF Spec
<1> QED BY <1>3, Zenon DEF SealedInContext, InContext

-----------------------------------------------------------------------------
\* No hole is declared twice.

\* Released unsealed is for good.
LEMMA UnsealedStays ==
  ASSUME TypeInv, [Next]_vars, NEW i \in Inference, fate[i] = "unsealed"
  PROVE  fate'[i] = "unsealed"
<1> USE DEF TypeInv, Typed
<1>1. \A p \in Proc : sealer[p].inference # i
  BY DEF PhaseSound
<1>2. CASE PowerLoss
  BY <1>1, <1>2 DEF PowerLoss, Abandoned
<1>3. CASE Flush \/ UNCHANGED vars
  BY <1>3 DEF Flush, vars
<1>4. ASSUME NEW p \in Proc, SealerStep(p)
      PROVE  fate'[i] = "unsealed"
  <2>1. CASE Open(p) \/ OpenOnSpill(p) \/ DeclareOrphan(p) \/ OpenFails(p) \/ SealBatch(p)
             \/ NoteUnsealed(p) \/ Retire(p) \/ RetireFails(p) \/ Close(p)
    BY <2>1 DEF Open, OpenOnSpill, DeclareOrphan, OpenFails, SealBatch, NoteUnsealed, Retire, RetireFails, Close
  <2>2. ASSUME NEW j \in Inference, Commit(p, j)
        PROVE  fate'[i] = "unsealed"
    BY <2>2 DEF Commit
  <2>3. CASE Return(p) \/ Raise(p)
    BY <1>1, <2>3 DEF Return, Raise
  <2>4. CASE WriteSpill(p) \/ WriteSpillFails(p)
    BY <1>1, <2>4 DEF WriteSpill, WriteSpillFails, ReturnUnsealed
  <2>5. CASE Crash(p)
    BY <1>1, <2>5 DEF Crash, Abandoned
  <2> QED BY <1>4, <2>1, <2>2, <2>3, <2>4, <2>5 DEF SealerStep
<1> QED BY <1>2, <1>3, <1>4 DEF Next

\* The steps that leave ledger and spill alone.
LEMMA OnceKept ==
  ASSUME TypeInv, OnceInv, [Next]_vars, NEW p \in Proc, Proc = {p}, Calm,
         UNCHANGED <<log, spill>>, GapIsSpill(p)'
  PROVE  OnceInv'
<1>1. Lines' = Lines /\ (\A i : IsDeclared(i)' <=> IsDeclared(i)) /\ \A n, i : DeclaredBy(n, i)' <=> DeclaredBy(n, i)
  BY DEF Lines, IsDeclared, DeclaredBy
<1>2. Content(Lines)' = Content(Lines) /\ Content(Lines) \subseteq Inference
  BY <1>1, LinesType, ContentType DEF Content, TypeInv
<1>3. \A m, n \in 1 .. Len(log'), i \in Inference : DeclaredBy(m, i)' /\ DeclaredBy(n, i)' => m = n
  BY <1>1 DEF OnceInv
<1>4. \A i \in Inference : IsDeclared(i)' \/ i \in Content(Lines)' => fate'[i] = "unsealed"
  BY <1>1, <1>2, UnsealedStays DEF OnceInv
<1>5. \A n \in 1 .. Len(log'), i \in Content(Lines)' : DeclaredBy(n, i)' => log'[n].spill = spill'
  BY <1>1, <1>2 DEF OnceInv
<1> QED BY <1>3, <1>4, <1>5 DEF OnceInv

\* A Sealer with no gap that is not waiting for a spill.
LEMMA NoGapIsSpill ==
  ASSUME NEW p \in Proc, sealer'[p].gap = NoGap,
         sealer'[p].phase \in {"closed", "opening retire", "retire"}
         \/ (sealer'[p].phase \in {"idle", "return"} /\ spill' = NoFile)
         \/ (sealer'[p].phase = "opening" /\ ~ Marked')
  PROVE  GapIsSpill(p)'
<1>1. NoGap.covers = {} /\ NoGap.spillOk
  BY DEF NoGap
<1>2. spill' = NoFile => Content(Lines)' = {}
  BY NoLinesLeft
<1>3. sealer'[p].gap.covers = {} /\ sealer'[p].gap.spillOk
  BY <1>1
<1>4. sealer'[p].phase \notin {"append", "spill"}
  OBVIOUS
<1>5. sealer'[p].phase \in {"idle", "return"} => spill' = NoFile
  OBVIOUS
<1>6. sealer'[p].phase = "opening" => ~ Marked'
  OBVIOUS
<1> QED BY <1>2, <1>3, <1>4, <1>5, <1>6 DEF GapIsSpill

\* Nothing is declared at first.
LEMMA OnceInit == OneProcess /\ Init => OnceInv
<1> SUFFICES ASSUME Init, NEW p \in Proc, Proc = {p} PROVE OnceInv
  BY DEF OneProcess
<1>1. sealer[p] = Closed /\ spill = NoFile
  BY DEF Init
<1>2. GapIsSpill(p)
  BY <1>1 DEF GapIsSpill, Closed, NoGap
<1>3. Len(log) = 1 /\ log[1].type # "degraded_marker"
  BY DEF Init
<1>4. \A n \in 1 .. Len(log) : \A i : ~ DeclaredBy(n, i)
  BY <1>3 DEF DeclaredBy
<1>5. Content(Lines) = {}
  BY <1>1, ContentEmpty
<1> QED BY <1>2, <1>4, <1>5 DEF OnceInv, IsDeclared

\* Steps that write no record declare nothing.
LEMMA OnceWait ==
  ASSUME TypeInv, HoleInv, OnceInv, [Next]_vars, NEW p \in Proc, Proc = {p}, Calm,
         \/ Open(p) \/ OpenOnSpill(p) \/ OpenFails(p) \/ Close(p) \/ Crash(p) \/ Return(p) \/ Raise(p)
         \/ NoteUnsealed(p) \/ \E i \in Inference : Commit(p, i)
  PROVE  OnceInv'
<1>1. /\ sealer[p] \in SealerType /\ PhaseSound(p) /\ GapIsSpill(p) /\ sealer \in [Proc -> SealerType]
      /\ DigestSound(p) /\ fate \in [Inference -> Fate]
  BY DEF TypeInv, Typed, OnceInv, HoleInv
<1>2. UNCHANGED <<log, spill>>
  BY DEF Open, OpenOnSpill, OpenFails, Close, Crash, Return, Raise, NoteUnsealed, Commit
<1>3. /\ Lines' = Lines /\ (\A i : IsDeclared(i)' <=> IsDeclared(i)) /\ Content(Lines)' = Content(Lines)
      /\ Marked' <=> Marked
  BY <1>2 DEF Lines, IsDeclared, DeclaredBy, Content, Marked, Records
<1>4. CASE Open(p)
  <2>1. sealer'[p].phase = "idle" /\ sealer'[p].gap = NoGap /\ spill = NoFile
    BY <1>1, <1>4 DEF Open, Closed
  <2> QED BY <1>2, <2>1, NoGapIsSpill, OnceKept
<1>5. CASE OpenOnSpill(p)
  <2>1. sealer'[p].phase = (IF spill = <<>> \/ Marked THEN "opening retire" ELSE "opening")
        /\ sealer'[p].gap = NoGap
    BY <1>1, <1>5 DEF OpenOnSpill, Closed
  <2>2. sealer'[p].phase = "opening retire" \/ (sealer'[p].phase = "opening" /\ ~ Marked')
    BY <1>3, <2>1
  <2> QED BY <1>2, <2>1, <2>2, NoGapIsSpill, OnceKept
<1>6. CASE OpenFails(p) \/ Crash(p)
  <2>1. sealer'[p] = Closed
    BY <1>1, <1>6 DEF OpenFails, Crash
  <2> QED BY <1>2, <2>1, ClosedType, NoGapIsSpill, OnceKept
<1>7. CASE Return(p) \/ Raise(p)
  <2>1. /\ sealer'[p].phase = "idle" /\ sealer'[p].gap = sealer[p].gap
        /\ sealer[p].phase \in {"return", "append"}
    BY <1>1, <1>7 DEF Return, Raise, SealerType
  <2>2. \A i \in sealer[p].gap.covers : i \in Inference /\ ~ IsDeclared(i) /\ fate[i] = "unsealed"
    BY <1>1, <2>1 DEF GapIsSpill, SealerType
  <2>3. \A i \in sealer[p].gap.covers : fate'[i] = "unsealed"
    BY <2>2, UnsealedStays
  <2>4. spill = NoFile => Content(Lines) = {}
    BY ContentEmpty
  <2>5. sealer[p].gap.covers = Content(Lines) /\ sealer[p].gap.spillOk /\ (spill = NoFile <=> sealer[p].gap = NoGap)
    BY <1>1, <2>1, <2>4 DEF GapIsSpill, NoGap
  <2>6. GapIsSpill(p)'
    BY <1>2, <1>3, <2>1, <2>2, <2>3, <2>5 DEF GapIsSpill
  <2> QED BY <1>2, <2>6, OnceKept
<1>8. CASE NoteUnsealed(p)
  <2>1. /\ sealer'[p].phase = "spill" /\ sealer'[p].inference = sealer[p].inference
        /\ sealer'[p].gap.covers = sealer[p].gap.covers \cup {sealer[p].inference}
        /\ sealer'[p].gap.spillOk = sealer[p].gap.spillOk
        /\ sealer[p].phase = "append" /\ UNCHANGED fate
    BY <1>1, <1>8 DEF NoteUnsealed, SealerType
  <2>2. sealer[p].inference \in Inference /\ fate[sealer[p].inference] # "unsealed"
    BY <1>1, <2>1 DEF PhaseSound, Busy
  <2>3. ~ IsDeclared(sealer[p].inference)
    BY <2>2 DEF OnceInv
  <2>4. GapIsSpill(p)'
    BY <1>1, <1>3, <2>1, <2>3 DEF GapIsSpill
  <2> QED BY <1>2, <2>4, OnceKept
<1>9. ASSUME NEW i \in Inference, Commit(p, i)
      PROVE  OnceInv'
  <2>1. /\ sealer'[p].phase = "append" /\ sealer'[p].gap = sealer[p].gap /\ sealer[p].phase = "idle"
        /\ sealer'[p].digest = IF sealer[p].gap.spillOk /\ spill # NoFile THEN spill ELSE Unavailable
    BY <1>1, <1>9 DEF Commit, SealerType
  <2>2. /\ sealer[p].gap.covers = Content(Lines) /\ sealer[p].gap.spillOk
        /\ (spill = NoFile <=> sealer[p].gap = NoGap)
        /\ \A j \in sealer[p].gap.covers : j \in Inference /\ ~ IsDeclared(j) /\ fate[j] = "unsealed"
    BY <1>1, <2>1 DEF GapIsSpill, SealerType
  <2>3. \A j \in sealer[p].gap.covers : fate'[j] = "unsealed"
    BY <2>2, UnsealedStays
  <2>4. GapIsSpill(p)'
    BY <1>2, <1>3, <2>1, <2>2, <2>3 DEF GapIsSpill
  <2> QED BY <1>2, <2>4, OnceKept
<1>10. CASE Close(p)
  <2>1. UNCHANGED fate
    BY <1>10 DEF Close
  <2>2. GapIsSpill(p)'
    BY <1>1, <1>2, <1>3, <1>10, <2>1, CloseStep DEF GapIsSpill
  <2> QED BY <1>2, <2>2, OnceKept
<1> QED BY <1>4, <1>5, <1>6, <1>7, <1>8, <1>9, <1>10

\* An orphan is declared when none of its lines is.
LEMMA OnceDeclareOrphan ==
  ASSUME TypeInv, HoleInv, OnceInv, NEW p \in Proc, Proc = {p}, Calm, DeclareOrphan(p)
  PROVE  OnceInv'
<1>1. /\ sealer[p] \in SealerType /\ sealer[p].phase = "opening" /\ sealer[p].gap = NoGap
      /\ sealer[p].digest = spill /\ spill \in Seq(Inference) /\ Lines = spill /\ ~ Marked
  <2>1. sealer[p].phase = "opening" /\ sealer[p] \in SealerType
    BY DEF DeclareOrphan, TypeInv, Typed
  <2>2. sealer[p].gap = NoGap /\ sealer[p].digest \in Seq(Inference)
    BY <2>1 DEF TypeInv, PhaseSound
  <2>3. sealer[p].digest = spill /\ ~ Marked
    BY <2>1 DEF HoleInv, DigestSound, OnceInv, GapIsSpill
  <2> QED BY <2>1, <2>2, <2>3, ContentEmpty, StandIns
<1>2. UNCHANGED <<spill, fate>> /\ Lines' = Lines /\ Content(Lines)' = Content(Lines)
  BY DEF DeclareOrphan, Lines, Content
<1>3. sealer'[p].phase = "opening retire" /\ sealer'[p].gap = NoGap
  BY <1>1 DEF DeclareOrphan, SealerType, TypeInv, Typed
<1>4. PICK k \in Nat : k = Len(log) + 1
  BY <1>1, OrphanInLog
<1>5. /\ Len(log) \in Nat /\ Len(log') = k
      /\ \A n \in 1 .. Len(log) : log'[n] = log[n]
      /\ log'[k] = Marker(Content(spill), spill)
      /\ \A i \in Inference : IsDeclared(i)' <=> IsDeclared(i) \/ i \in Content(spill)
  BY <1>1, <1>4, OrphanInLog
<1>6. /\ \A n \in 1 .. k : n \in 1 .. Len(log) \/ n = k
      /\ \A n \in 1 .. Len(log), i \in Inference : DeclaredBy(n, i)' <=> DeclaredBy(n, i)
      /\ \A i : DeclaredBy(k, i)' <=> i \in Content(spill)
      /\ log'[k].spill = spill
  BY <1>4, <1>5 DEF DeclaredBy, Marker
<1>7. Content(spill) \subseteq Inference
  BY <1>1, ContentType
<1>8. \A n \in 1 .. Len(log), i \in Content(spill) : ~ DeclaredBy(n, i)
  <2> SUFFICES ASSUME NEW n \in 1 .. Len(log), NEW i \in Content(spill), DeclaredBy(n, i) PROVE FALSE
    OBVIOUS
  <2>1. log[n].spill = spill
    BY <1>1 DEF OnceInv
  <2> QED BY <1>1, <2>1 DEF Marked, Records, DeclaredBy
<1>9. GapIsSpill(p)'
  BY <1>3, NoGapIsSpill
<1>10. \A m, n \in 1 .. Len(log'), i \in Inference : DeclaredBy(m, i)' /\ DeclaredBy(n, i)' => m = n
  BY <1>5, <1>6, <1>8 DEF OnceInv
<1>11. \A i \in Inference : IsDeclared(i)' \/ i \in Content(Lines)' => fate'[i] = "unsealed"
  BY <1>1, <1>2, <1>5 DEF OnceInv
<1>12. \A n \in 1 .. Len(log'), i \in Content(Lines)' : DeclaredBy(n, i)' => log'[n].spill = spill'
  BY <1>1, <1>2, <1>5, <1>6, <1>8, <1>7
<1> QED BY <1>9, <1>10, <1>11, <1>12 DEF OnceInv

\* A batch declares what is owed and not yet declared.
LEMMA OnceSealBatch ==
  ASSUME TypeInv, HoleInv, OnceInv, NEW p \in Proc, Proc = {p}, Calm, SealBatch(p)
  PROVE  OnceInv'
<1> DEFINE g == sealer[p].gap
<1>1. /\ sealer[p] \in SealerType /\ sealer[p].phase = "append" /\ g.covers \subseteq Inference
      /\ g.covers = Content(Lines) /\ (spill = NoFile <=> g = NoGap)
      /\ g # NoGap => sealer[p].digest = spill
      /\ \A i \in g.covers : ~ IsDeclared(i) /\ fate[i] = "unsealed"
  BY DEF TypeInv, Typed, SealBatch, OnceInv, GapIsSpill, SealerType
<1>2. UNCHANGED <<spill, fate>> /\ Lines' = Lines /\ Content(Lines)' = Content(Lines)
  BY DEF SealBatch, Lines, Content
<1>3. sealer'[p].phase = (IF g = NoGap THEN "return" ELSE "retire") /\ sealer'[p].gap = NoGap
  BY <1>1 DEF SealBatch, SealerType, TypeInv, Typed
<1>4. PICK k \in Nat : k = Len(log) + 1
  BY LenProperties DEF TypeInv, Typed
<1>5. /\ \A n \in 1 .. Len(log) : log'[n] = log[n]
      /\ \A n \in 1 .. Len(log') : log'[n].type = "degraded_marker" =>
           n \in 1 .. Len(log) \/ (n = k /\ g # NoGap /\ log'[n] = Marker(g.covers, sealer[p].digest))
      /\ \A i \in Inference : IsDeclared(i)' <=> IsDeclared(i) \/ i \in g.covers
  BY <1>4, BatchInLog, DeclaredByBatch
<1>6. \A n \in 1 .. Len(log'), i \in Inference : DeclaredBy(n, i)' =>
        \/ n \in 1 .. Len(log) /\ DeclaredBy(n, i) /\ log'[n] = log[n]
        \/ n = k /\ i \in g.covers /\ log'[n].spill = spill
  BY <1>1, <1>5 DEF DeclaredBy, Marker
<1>7. \A n \in 1 .. Len(log), i \in g.covers : ~ DeclaredBy(n, i)
  BY <1>1 DEF IsDeclared
<1>8. GapIsSpill(p)'
  BY <1>1, <1>2, <1>3, NoGapIsSpill
<1>9. \A m, n \in 1 .. Len(log'), i \in Inference : DeclaredBy(m, i)' /\ DeclaredBy(n, i)' => m = n
  BY <1>6, <1>7 DEF OnceInv
<1>10. \A i \in Inference : IsDeclared(i)' \/ i \in Content(Lines)' => fate'[i] = "unsealed"
  BY <1>1, <1>2, <1>5 DEF OnceInv
<1>11. \A n \in 1 .. Len(log'), i \in Content(Lines)' : DeclaredBy(n, i)' => log'[n].spill = spill'
  BY <1>1, <1>2, <1>6, <1>7
<1> QED BY <1>8, <1>9, <1>10, <1>11 DEF OnceInv

\* A new line of the spill file is not declared yet.
LEMMA OnceWriteSpill ==
  ASSUME TypeInv, OnceInv, [Next]_vars, NEW p \in Proc, Proc = {p}, Calm, WriteSpill(p)
  PROVE  OnceInv'
<1> DEFINE j == sealer[p].inference
<1>1. /\ sealer[p] \in SealerType /\ sealer[p].phase = "spill" /\ Lines \in Seq(Inference)
      /\ j \in Inference /\ Lines \o <<j>> \in Seq(Inference) /\ Content(Lines \o <<j>>) = Content(Lines) \cup {j}
      /\ sealer[p].gap.covers = Content(Lines) \cup {j} /\ sealer[p].gap.spillOk
      /\ fate[j] # "unsealed" /\ \A i \in sealer[p].gap.covers : ~ IsDeclared(i)
  BY ZenonT(60), LinesType, ContentAppend DEF TypeInv, Typed, WriteSpill, PhaseSound, Busy, OnceInv, GapIsSpill
<1>2. log' = log /\ (\A i : IsDeclared(i)' <=> IsDeclared(i)) /\ \A n, i : DeclaredBy(n, i)' <=> DeclaredBy(n, i)
  BY DEF WriteSpill, IsDeclared, DeclaredBy
<1>3. /\ sealer'[p].phase = "idle" /\ sealer'[p].gap.covers = sealer[p].gap.covers /\ sealer'[p].gap.spillOk
      /\ fate'[j] = "unsealed" /\ \A i \in Inference : i # j => fate'[i] = fate[i]
  BY <1>1 DEF WriteSpill, ReturnUnsealed, SealerType, TypeInv, Typed
<1>4. spill' = Lines \o <<j>> /\ spill' # NoFile /\ Lines' = spill'
  BY <1>1, StandIns DEF WriteSpill, Lines
<1>5. Content(Lines)' = Content(Lines) \cup {j} /\ Content(Lines) \subseteq Inference
  BY <1>1, <1>4, ContentType DEF Content
<1>6. sealer'[p].gap # NoGap
  <2>1. NoGap.covers = {} /\ j \in sealer'[p].gap.covers
    BY <1>1, <1>3 DEF NoGap
  <2> QED BY <2>1
<1>7. \A i \in sealer[p].gap.covers : fate'[i] = "unsealed"
  BY <1>1, <1>3, <1>5 DEF OnceInv
<1>8. GapIsSpill(p)'
  BY <1>1, <1>2, <1>3, <1>4, <1>5, <1>6, <1>7 DEF GapIsSpill
<1>9. \A m, n \in 1 .. Len(log'), i \in Inference : DeclaredBy(m, i)' /\ DeclaredBy(n, i)' => m = n
  BY <1>2 DEF OnceInv
<1>10. \A i \in Inference : IsDeclared(i)' \/ i \in Content(Lines)' => fate'[i] = "unsealed"
  BY <1>1, <1>2, <1>3, <1>5, <1>7, UnsealedStays DEF OnceInv
<1>11. \A n \in 1 .. Len(log'), i \in Content(Lines)' : ~ DeclaredBy(n, i)'
  BY <1>1, <1>2, <1>5 DEF IsDeclared
<1> QED BY <1>8, <1>9, <1>10, <1>11 DEF OnceInv

\* A retired file takes with it the lines that were declared.
LEMMA OnceRetire ==
  ASSUME TypeInv, OnceInv, [Next]_vars, NEW p \in Proc, Proc = {p}, Calm, Retire(p)
  PROVE  OnceInv'
<1>1. log' = log /\ (\A i : IsDeclared(i)' <=> IsDeclared(i)) /\ \A n, i : DeclaredBy(n, i)' <=> DeclaredBy(n, i)
  BY DEF Retire, IsDeclared, DeclaredBy
<1>2. sealer[p].phase \in {"retire", "opening retire"} /\ sealer'[p].gap = sealer[p].gap
      /\ sealer'[p].phase = IF sealer[p].phase = "retire" THEN "return" ELSE "idle"
  BY RetireStep
<1>3. sealer'[p].gap = NoGap /\ sealer'[p].phase \in {"return", "idle"} /\ spill' = NoFile
  BY <1>2 DEF Retire, TypeInv, PhaseSound
<1>4. GapIsSpill(p)'
  BY <1>3, NoGapIsSpill
<1>5. Content(Lines)' = {}
  BY <1>3, NoLinesLeft
<1>6. \A i \in Inference : IsDeclared(i)' => fate'[i] = "unsealed"
  BY <1>1, UnsealedStays DEF OnceInv
<1> QED BY <1>1, <1>4, <1>5, <1>6 DEF OnceInv

\* A power loss keeps a prefix of the log, and closes the Sealer.
LEMMA OncePowerLoss ==
  ASSUME TypeInv, OnceInv, [Next]_vars, NEW p \in Proc, Proc = {p}, Calm, PowerLoss
  PROVE  OnceInv'
<1>1. \A n \in 1 .. Len(log') : n \in 1 .. Len(log) /\ log'[n] = log[n]
  <2>1. Len(log) \in Nat /\ durable \in 1 .. Len(log)
    BY LenProperties DEF TypeInv, Typed
  <2> QED BY <2>1, PowerLossType DEF TypeInv
<1>2. sealer'[p] = Closed /\ spill' = spill /\ Lines' = Lines /\ Content(Lines)' = Content(Lines)
  BY DEF PowerLoss, Lines, Content
<1>3. GapIsSpill(p)'
  BY <1>2, ClosedType, NoGapIsSpill
<1>4. \A n \in 1 .. Len(log'), i \in Inference : DeclaredBy(n, i)' => DeclaredBy(n, i) /\ log'[n].spill = log[n].spill
  BY <1>1 DEF DeclaredBy
<1>5. \A i \in Inference : IsDeclared(i)' => IsDeclared(i)
  BY <1>1, <1>4 DEF IsDeclared
<1>6. Content(Lines) \subseteq Inference
  BY LinesType, ContentType DEF TypeInv
<1>7. \A m, n \in 1 .. Len(log'), i \in Inference : DeclaredBy(m, i)' /\ DeclaredBy(n, i)' => m = n
  BY <1>1, <1>4 DEF OnceInv
<1>8. \A i \in Inference : IsDeclared(i)' \/ i \in Content(Lines)' => fate'[i] = "unsealed"
  BY <1>2, <1>5, UnsealedStays DEF OnceInv
<1>9. \A n \in 1 .. Len(log'), i \in Content(Lines)' : DeclaredBy(n, i)' => log'[n].spill = spill'
  BY <1>1, <1>2, <1>4, <1>6 DEF OnceInv
<1> QED BY <1>3, <1>7, <1>8, <1>9 DEF OnceInv

\* With one process, no step declares a hole for the second time.
LEMMA OnceNext == OneProcess /\ TypeInv /\ HoleInv /\ OnceInv /\ [Next]_vars => OnceInv'
<1> SUFFICES ASSUME TypeInv, HoleInv, OnceInv, [Next]_vars, NEW p \in Proc, Proc = {p}
             PROVE  OnceInv'
  BY DEF OneProcess
<1>1. setup' = setup
  BY LogKept
<1>2. CASE ~ Calm
  BY <1>1, <1>2 DEF OnceInv, Calm
<1>3. CASE Calm
  <2>1. CASE SealerStep(p)
    <3>1. ~ WriteSpillFails(p) /\ ~ RetireFails(p)
      BY <1>3 DEF Calm, WriteSpillFails, RetireFails
    <3> QED BY <1>3, <2>1, <3>1, OnceWait, OnceDeclareOrphan, OnceSealBatch, OnceWriteSpill, OnceRetire DEF SealerStep
  <2>2. CASE Flush \/ UNCHANGED vars
    <3>1. UNCHANGED <<log, spill, sealer, fate>>
      BY <2>2 DEF Flush, vars
    <3>2. GapIsSpill(p)
      BY <1>3 DEF OnceInv
    <3>3. GapIsSpill(p)'
      BY <3>1, <3>2 DEF GapIsSpill, Lines, Content, Marked, Records, IsDeclared, DeclaredBy
    <3> QED BY <1>3, <3>1, <3>3, OnceKept
  <2>3. CASE PowerLoss
    BY <1>3, <2>3, OncePowerLoss
  <2> QED BY <2>1, <2>2, <2>3 DEF Next
<1> QED BY <1>2, <1>3

\* With one process that seals, and as long as the spill can be written and
\* renamed, no inference is counted in two markers, wherever a crash falls
\* between the marker and the renaming.
THEOREM AlwaysDeclaredOnce == OneProcess => (Spec => []DeclaredOnce)
<1> SUFFICES ASSUME OneProcess PROVE Spec => []DeclaredOnce
  OBVIOUS
<1>1. Init => OnceInv
  BY OnceInit
<1>2. TypeInv /\ HoleInv /\ OnceInv /\ [Next]_vars => OnceInv'
  BY OnceNext
<1>3. TypeInv /\ OnceInv => DeclaredOnce
  <2> SUFFICES ASSUME TypeInv, OnceInv, Calm,
                      NEW m \in Records("degraded_marker"), NEW n \in Records("degraded_marker"), m # n,
                      NEW i \in log[m].covers \cap log[n].covers
               PROVE  FALSE
    BY Zenon DEF DeclaredOnce, Calm
  <2>1. m \in 1 .. Len(log) /\ n \in 1 .. Len(log) /\ DeclaredBy(m, i) /\ DeclaredBy(n, i)
    BY DEF Records, DeclaredBy
  <2>2. log[m] \in LogItem
    BY <2>1, ElementOfSeq DEF TypeInv, Typed
  <2>3. i \in Inference
    BY <2>1, <2>2 DEF LogItem, DeclaredBy
  <2> QED BY <2>1, <2>3 DEF OnceInv
<1> QED BY <1>1, <1>2, <1>3, AlwaysTyped, AlwaysHoleInv, PTL DEF Spec
=============================================================================
