------------------------- MODULE AnalystDaemonProofs --------------------------
(***************************************************************************)
(* Proofs about the decision daemons, for any people, reports, connections *)
(* and shifts.                                                             *)
(*                                                                         *)
(* The first part is about the two folds over a ledger of decisions, one   *)
(* record at a time: what Fold and Replay are of the empty ledger, and     *)
(* what one more record makes of them. Both are recursive functions; that  *)
(* they exist at all, and that the ledger's prefix folds to the same, is   *)
(* shown by looking at the first position that would be an exception.      *)
(*                                                                         *)
(* AnswerInv, inductive for every shift: an entry of the idempotency map,  *)
(* and a handler that recorded its event, name a record of that request;   *)
(* and whoever will be answered waits for that one handler. DaemonInv adds *)
(* why each record was written: every event of the ledger is one the       *)
(* daemon's fold admitted on some prefix of what came before it, and, when *)
(* requests do not overlap, on all of it. The properties follow from what  *)
(* the folds say of a ledger.                                              *)
(***************************************************************************)
EXTENDS AnalystDaemon, SequenceTheorems, WellFoundedInduction, FiniteSetTheorems, TLAPS

-----------------------------------------------------------------------------
\* A non-empty set of positions has a first one.
LEMMA FirstPosition ==
  ASSUME NEW S \in SUBSET Nat, S # {}
  PROVE  \E i \in S : \A j \in S : i <= j
<1>1. PICK i \in S : \A j \in S : ~ (<<j, i>> \in OpToRel(<, Nat))
  BY WFMin, NatLessThanWellFounded, Zenon
<1>2. \A j \in S : ~ (j < i)
  BY <1>1, Zenon DEF OpToRel
<1> QED BY <1>2

\* The fold before any record, and one turn of its loop.
FoldStart(originals) ==
  [findings |-> [f \in DOMAIN originals |-> FreshFinding(originals[f])],
   targets |-> <<>>, approvable |-> <<>>, approved |-> {}]

FoldStep(before, n, record, track) ==
  IF IsEvent(record) THEN Apply(before, n, record, track) ELSE before

\* The states of the fold, one per record read.
FoldStates(g, n, originals, track, log) ==
  /\ DOMAIN g = 0 .. n
  /\ g[0] = FoldStart(originals)
  /\ \A i \in 1 .. n : g[i] = FoldStep(g[i - 1], i, log[i], track)

FoldTurn(g, n, originals, track, log) ==
  [i \in 0 .. n |-> IF i = 0 THEN FoldStart(originals)
                            ELSE FoldStep(g[i - 1], i, log[i], track)]

\* There are such states for every length.
LEMMA FoldStatesExist ==
  ASSUME NEW originals, NEW track, NEW log, NEW n \in Nat
  PROVE  \E g : g = FoldTurn(g, n, originals, track, log)
<1> USE DEF FoldTurn
<1> DEFINE Body(g, i) == IF i = 0 THEN FoldStart(originals)
                                  ELSE FoldStep(g[i - 1], i, log[i], track)
           Bad == {m \in Nat : ~ \E g : g = [i \in 0 .. m |-> Body(g, i)]}
<1>1. SUFFICES ASSUME Bad # {} PROVE FALSE
  OBVIOUS
<1>2. PICK m \in Bad : \A k \in Bad : m <= k
  <2> HIDE DEF Bad
  <2>1. Bad \subseteq Nat
    BY DEF Bad
  <2> QED BY <1>1, <2>1, FirstPosition
<1>3. m # 0
  <2> DEFINE g == [i \in 0 .. 0 |-> FoldStart(originals)]
  <2>1. g = [i \in 0 .. 0 |-> Body(g, i)]
    OBVIOUS
  <2>2. \E x : x = [i \in 0 .. 0 |-> Body(x, i)]
    BY <2>1
  <2> QED BY <2>2
<1>4. m - 1 \in Nat /\ m - 1 \notin Bad
  <2>1. m \in Nat /\ Bad \subseteq Nat
    BY <1>2
  <2>2. m - 1 \in Nat /\ ~ (m <= m - 1)
    BY <1>3, <2>1
  <2> HIDE DEF Bad
  <2> QED BY <1>2, <2>2
<1>5. PICK g : g = [i \in 0 .. m - 1 |-> Body(g, i)]
  BY <1>4
<1> DEFINE h == [i \in 0 .. m |-> IF i < m THEN g[i] ELSE Body(g, m)]
<1>6. h = [i \in 0 .. m |-> Body(h, i)]
  <2>1. ASSUME NEW i \in 0 .. m
        PROVE  h[i] = Body(h, i)
    <3>1. CASE i = 0
      <4>1. h[i] = g[i] /\ 0 \in 0 .. m - 1
        BY <1>3, <3>1
      <4>2. g[0] = FoldStart(originals)
        BY <1>5, <4>1
      <4> QED BY <3>1, <4>1, <4>2
    <3>2. CASE i # 0
      <4>1. i - 1 \in 0 .. m /\ i - 1 < m /\ h[i - 1] = g[i - 1]
        BY <3>2
      <4>2. h[i] = Body(g, i)
        <5>1. CASE i = m
          BY <5>1
        <5>2. CASE i # m
          <6>1. i \in 0 .. m - 1
            BY <5>2
          <6>2. g[i] = Body(g, i)
            BY <1>5, <6>1
          <6> QED BY <5>2, <6>1, <6>2
        <5> QED BY <5>1, <5>2
      <4> QED BY <3>2, <4>1, <4>2
    <3> QED BY <3>1, <3>2
  <2>2. h = [i \in 0 .. m |-> h[i]]
    OBVIOUS
  <2> HIDE DEF h, Body
  <2> QED BY <2>1, <2>2
<1>7. \E x : x = [i \in 0 .. m |-> Body(x, i)]
  BY <1>6
<1> QED BY <1>7

\* Fold(log) is the last of these states.
LEMMA FoldUnfolds ==
  ASSUME NEW originals, NEW track, NEW log, Len(log) \in Nat
  PROVE  \E g : /\ FoldStates(g, Len(log), originals, track, log)
                /\ Fold(originals, track, log) = g[Len(log)]
<1> DEFINE N == Len(log)
           start == [findings |-> [f \in DOMAIN originals |-> FreshFinding(originals[f])],
                     targets |-> <<>>, approvable |-> <<>>, approved |-> {}]
           Turn(g) == [n \in 0 .. N |->
                         CASE n = 0 -> start
                           [] n > 0 /\ IsEvent(log[n]) -> Apply(g[n - 1], n, log[n], track)
                           [] OTHER -> g[n - 1]]
           Plainly(g) == FoldTurn(g, N, originals, track, log)
           after == CHOOSE g : g = Turn(g)
<1>1. Fold(originals, track, log) = after[N]
  BY DEF Fold
<1>2. ASSUME NEW g
      PROVE  Turn(g) = Plainly(g)
  <2> USE DEF FoldTurn
  <2>1. ASSUME NEW n \in 0 .. N
        PROVE  Turn(g)[n] = Plainly(g)[n]
    <3>1. CASE n = 0
      BY <3>1 DEF FoldStart
    <3>2. CASE n # 0
      <4>1. n > 0
        BY <3>2
      <4> QED BY <4>1 DEF FoldStep
    <3> QED BY <3>1, <3>2
  <2>2. Turn(g) = [n \in 0 .. N |-> Turn(g)[n]] /\ Plainly(g) = [n \in 0 .. N |-> Plainly(g)[n]]
    OBVIOUS
  <2> HIDE DEF Turn, Plainly
  <2> QED BY <2>1, <2>2
<1>3. after = Plainly(after)
  <2>1. \E g : g = Plainly(g)
    BY FoldStatesExist
  <2>2. \E g : g = Turn(g)
    <3> HIDE DEF Turn, Plainly
    <3> QED BY <1>2, <2>1
  <2>3. after = Turn(after)
    <3> HIDE DEF Turn
    <3> QED BY <2>2
  <2> HIDE DEF after, Turn, Plainly
  <2> QED BY <1>2, <2>3
<1> HIDE DEF after
<1>4. FoldStates(after, N, originals, track, log)
  <2>1. DOMAIN after = 0 .. N
    BY <1>3 DEF FoldTurn
  <2>2. \A i \in 0 .. N : after[i] = IF i = 0 THEN FoldStart(originals)
                                     ELSE FoldStep(after[i - 1], i, log[i], track)
    <3> DEFINE Q(i) == IF i = 0 THEN FoldStart(originals)
                                ELSE FoldStep(after[i - 1], i, log[i], track)
    <3>1. after = [i \in 0 .. N |-> Q(i)]
      BY <1>3 DEF FoldTurn
    <3> HIDE DEF Q
    <3>2. \A i \in 0 .. N : after[i] = Q(i)
      BY <3>1
    <3> QED BY <3>2 DEF Q
  <2> QED BY <2>1, <2>2 DEF FoldStates
<1> QED BY <1>1, <1>4

\* Two lists of states over ledgers that agree so far agree so far.
LEMMA FoldStatesAgree ==
  ASSUME NEW originals, NEW track, NEW log, NEW more,
         NEW n \in Nat, NEW m \in Nat, NEW g, NEW h,
         FoldStates(g, n, originals, track, log), FoldStates(h, m, originals, track, more),
         n <= m, \A i \in 1 .. n : log[i] = more[i]
  PROVE  g[n] = h[n]
<1> DEFINE Bad == {i \in 0 .. n : g[i] # h[i]}
<1>1. SUFFICES ASSUME Bad # {} PROVE FALSE
  OBVIOUS
<1>2. PICK i \in Bad : \A j \in Bad : i <= j
  <2>1. Bad \in SUBSET Nat
    OBVIOUS
  <2> HIDE DEF Bad
  <2> QED BY <1>1, <2>1, FirstPosition
<1>3. i # 0
  BY <1>2 DEF FoldStates
<1>4. i - 1 \in 0 .. n /\ i - 1 \notin Bad /\ i \in 1 .. n /\ i \in 1 .. m
  BY <1>2, <1>3
<1>5. g[i - 1] = h[i - 1]
  BY <1>4
<1>6. /\ g[i] = FoldStep(g[i - 1], i, log[i], track)
      /\ h[i] = FoldStep(h[i - 1], i, more[i], track)
  BY <1>4 DEF FoldStates
<1> QED BY <1>2, <1>4, <1>5, <1>6

\* load_scan over an empty ledger sees the report as the risk engine left it.
THEOREM FoldEmpty ==
  ASSUME NEW originals, NEW track
  PROVE  Fold(originals, track, <<>>) = FoldStart(originals)
<1>1. Len(<<>>) = 0
  OBVIOUS
<1>2. PICK g : /\ FoldStates(g, Len(<<>>), originals, track, <<>>)
               /\ Fold(originals, track, <<>>) = g[Len(<<>>)]
  BY <1>1, FoldUnfolds
<1> QED BY <1>1, <1>2 DEF FoldStates

\* One more record is one more turn of the loop: what a handler decides after
\* an append follows from what the ledger folded to before it.
THEOREM FoldAppend ==
  ASSUME NEW originals, NEW track, NEW S, NEW log \in Seq(S), NEW record \in S
  PROVE  Fold(originals, track, Append(log, record))
           = FoldStep(Fold(originals, track, log), Len(log) + 1, record, track)
<1> DEFINE more == Append(log, record)
<1>1. /\ Len(log) \in Nat /\ Len(more) = Len(log) + 1 /\ more[Len(log) + 1] = record
      /\ \A i \in 1 .. Len(log) : log[i] = more[i]
  BY LenProperties, AppendProperties
<1> HIDE DEF more
<1>2. PICK g : /\ FoldStates(g, Len(log), originals, track, log)
               /\ Fold(originals, track, log) = g[Len(log)]
  BY <1>1, FoldUnfolds
<1>3. PICK h : /\ FoldStates(h, Len(more), originals, track, more)
               /\ Fold(originals, track, more) = h[Len(more)]
  BY <1>1, FoldUnfolds
<1>4. g[Len(log)] = h[Len(log)]
  <2>1. Len(log) <= Len(more) /\ Len(more) \in Nat
    BY <1>1
  <2> QED BY <1>1, <1>2, <1>3, <2>1, FoldStatesAgree
<1>5. h[Len(more)] = FoldStep(h[Len(log)], Len(log) + 1, record, track)
  <2>1. Len(more) \in 1 .. Len(more) /\ Len(more) - 1 = Len(log)
    BY <1>1
  <2> QED BY <1>1, <1>3, <2>1 DEF FoldStates
<1> QED BY <1>2, <1>3, <1>4, <1>5 DEF more

-----------------------------------------------------------------------------
\* The same for the audit's replay.

ReplayStart ==
  [findings |-> <<>>, scans |-> {}, requestIds |-> <<>>, violations |-> {}]

ReplayStep(before, n, record) ==
  IF IsEvent(record) THEN ReplayEvent(before, n, record)
                     ELSE [before EXCEPT !.scans = @ \cup {n}]

ReplayStates(g, n, log) ==
  /\ DOMAIN g = 0 .. n
  /\ g[0] = ReplayStart
  /\ \A i \in 1 .. n : g[i] = ReplayStep(g[i - 1], i, log[i])

ReplayTurn(g, n, log) ==
  [i \in 0 .. n |-> IF i = 0 THEN ReplayStart ELSE ReplayStep(g[i - 1], i, log[i])]

\* There are such states for every length.
LEMMA ReplayStatesExist ==
  ASSUME NEW log, NEW n \in Nat
  PROVE  \E g : g = ReplayTurn(g, n, log)
<1> USE DEF ReplayTurn
<1> DEFINE Body(g, i) == IF i = 0 THEN ReplayStart ELSE ReplayStep(g[i - 1], i, log[i])
           Bad == {m \in Nat : ~ \E g : g = [i \in 0 .. m |-> Body(g, i)]}
<1>1. SUFFICES ASSUME Bad # {} PROVE FALSE
  OBVIOUS
<1>2. PICK m \in Bad : \A k \in Bad : m <= k
  <2> HIDE DEF Bad
  <2>1. Bad \subseteq Nat
    BY DEF Bad
  <2> QED BY <1>1, <2>1, FirstPosition
<1>3. m # 0
  <2> DEFINE g == [i \in 0 .. 0 |-> ReplayStart]
  <2>1. g = [i \in 0 .. 0 |-> Body(g, i)]
    OBVIOUS
  <2>2. \E x : x = [i \in 0 .. 0 |-> Body(x, i)]
    BY <2>1
  <2> QED BY <2>2
<1>4. m - 1 \in Nat /\ m - 1 \notin Bad
  <2>1. m \in Nat /\ Bad \subseteq Nat
    BY <1>2
  <2>2. m - 1 \in Nat /\ ~ (m <= m - 1)
    BY <1>3, <2>1
  <2> HIDE DEF Bad
  <2> QED BY <1>2, <2>2
<1>5. PICK g : g = [i \in 0 .. m - 1 |-> Body(g, i)]
  BY <1>4
<1> DEFINE h == [i \in 0 .. m |-> IF i < m THEN g[i] ELSE Body(g, m)]
<1>6. h = [i \in 0 .. m |-> Body(h, i)]
  <2>1. ASSUME NEW i \in 0 .. m
        PROVE  h[i] = Body(h, i)
    <3>1. CASE i = 0
      <4>1. h[i] = g[i] /\ 0 \in 0 .. m - 1
        BY <1>3, <3>1
      <4>2. g[0] = ReplayStart
        BY <1>5, <4>1
      <4> QED BY <3>1, <4>1, <4>2
    <3>2. CASE i # 0
      <4>1. i - 1 \in 0 .. m /\ i - 1 < m /\ h[i - 1] = g[i - 1]
        BY <3>2
      <4>2. h[i] = Body(g, i)
        <5>1. CASE i = m
          BY <5>1
        <5>2. CASE i # m
          <6>1. i \in 0 .. m - 1
            BY <5>2
          <6>2. g[i] = Body(g, i)
            BY <1>5, <6>1
          <6> QED BY <5>2, <6>1, <6>2
        <5> QED BY <5>1, <5>2
      <4> QED BY <3>2, <4>1, <4>2
    <3> QED BY <3>1, <3>2
  <2>2. h = [i \in 0 .. m |-> h[i]]
    OBVIOUS
  <2> HIDE DEF h, Body
  <2> QED BY <2>1, <2>2
<1>7. \E x : x = [i \in 0 .. m |-> Body(x, i)]
  BY <1>6
<1> QED BY <1>7

\* Replay(log) is the last of these states.
LEMMA ReplayUnfolds ==
  ASSUME NEW log, Len(log) \in Nat
  PROVE  \E g : ReplayStates(g, Len(log), log) /\ Replay(log) = g[Len(log)]
<1> DEFINE N == Len(log)
           start == [findings |-> <<>>, scans |-> {}, requestIds |-> <<>>, violations |-> {}]
           Turn(g) == [n \in 0 .. N |->
                         IF n = 0 THEN start
                         ELSE IF IsEvent(log[n]) THEN ReplayEvent(g[n - 1], n, log[n])
                         ELSE [g[n - 1] EXCEPT !.scans = @ \cup {n}]]
           Plainly(g) == ReplayTurn(g, N, log)
           after == CHOOSE g : g = Turn(g)
<1>1. Replay(log) = after[N]
  BY DEF Replay
<1>2. ASSUME NEW g
      PROVE  Turn(g) = Plainly(g)
  <2>1. ASSUME NEW n \in 0 .. N
        PROVE  Turn(g)[n] = Plainly(g)[n]
    BY DEF ReplayStart, ReplayStep, ReplayTurn
  <2>2. Turn(g) = [n \in 0 .. N |-> Turn(g)[n]] /\ Plainly(g) = [n \in 0 .. N |-> Plainly(g)[n]]
    BY DEF ReplayTurn
  <2> HIDE DEF Turn, Plainly
  <2> QED BY <2>1, <2>2
<1>3. after = Plainly(after)
  <2>1. \E g : g = Plainly(g)
    BY ReplayStatesExist
  <2>2. \E g : g = Turn(g)
    <3> HIDE DEF Turn, Plainly
    <3> QED BY <1>2, <2>1
  <2>3. after = Turn(after)
    <3> HIDE DEF Turn
    <3> QED BY <2>2
  <2> HIDE DEF after, Turn, Plainly
  <2> QED BY <1>2, <2>3
<1> HIDE DEF after
<1>4. ReplayStates(after, N, log)
  <2>1. DOMAIN after = 0 .. N
    BY <1>3 DEF ReplayTurn
  <2>2. \A i \in 0 .. N : after[i] = IF i = 0 THEN ReplayStart
                                     ELSE ReplayStep(after[i - 1], i, log[i])
    <3> DEFINE Q(i) == IF i = 0 THEN ReplayStart ELSE ReplayStep(after[i - 1], i, log[i])
    <3>1. after = [i \in 0 .. N |-> Q(i)]
      BY <1>3 DEF ReplayTurn
    <3> HIDE DEF Q
    <3>2. \A i \in 0 .. N : after[i] = Q(i)
      BY <3>1
    <3> QED BY <3>2 DEF Q
  <2> QED BY <2>1, <2>2 DEF ReplayStates
<1> QED BY <1>1, <1>4

\* Two lists of states over ledgers that agree so far agree so far.
LEMMA ReplayStatesAgree ==
  ASSUME NEW log, NEW more, NEW n \in Nat, NEW m \in Nat, NEW g, NEW h,
         ReplayStates(g, n, log), ReplayStates(h, m, more),
         n <= m, \A i \in 1 .. n : log[i] = more[i]
  PROVE  g[n] = h[n]
<1> DEFINE Bad == {i \in 0 .. n : g[i] # h[i]}
<1>1. SUFFICES ASSUME Bad # {} PROVE FALSE
  OBVIOUS
<1>2. PICK i \in Bad : \A j \in Bad : i <= j
  <2>1. Bad \in SUBSET Nat
    OBVIOUS
  <2> HIDE DEF Bad
  <2> QED BY <1>1, <2>1, FirstPosition
<1>3. i # 0
  BY <1>2 DEF ReplayStates
<1>4. i - 1 \in 0 .. n /\ i - 1 \notin Bad /\ i \in 1 .. n /\ i \in 1 .. m
  BY <1>2, <1>3
<1>5. g[i - 1] = h[i - 1]
  BY <1>4
<1>6. g[i] = ReplayStep(g[i - 1], i, log[i]) /\ h[i] = ReplayStep(h[i - 1], i, more[i])
  BY <1>4 DEF ReplayStates
<1> QED BY <1>2, <1>4, <1>5, <1>6

\* The audit of an empty ledger.
THEOREM ReplayEmpty == Replay(<<>>) = ReplayStart
<1>1. Len(<<>>) = 0
  OBVIOUS
<1>2. PICK g : ReplayStates(g, Len(<<>>), <<>>) /\ Replay(<<>>) = g[Len(<<>>)]
  BY <1>1, ReplayUnfolds
<1> QED BY <1>1, <1>2 DEF ReplayStates

\* One more record is one more event checked and applied: what the SDK's daemon
\* notes after an append is what a restart would rebuild.
THEOREM ReplayAppend ==
  ASSUME NEW S, NEW log \in Seq(S), NEW record \in S
  PROVE  Replay(Append(log, record)) = ReplayStep(Replay(log), Len(log) + 1, record)
<1> DEFINE more == Append(log, record)
<1>1. /\ Len(log) \in Nat /\ Len(more) = Len(log) + 1 /\ more[Len(log) + 1] = record
      /\ \A i \in 1 .. Len(log) : log[i] = more[i]
  BY LenProperties, AppendProperties
<1> HIDE DEF more
<1>2. PICK g : ReplayStates(g, Len(log), log) /\ Replay(log) = g[Len(log)]
  BY <1>1, ReplayUnfolds
<1>3. PICK h : ReplayStates(h, Len(more), more) /\ Replay(more) = h[Len(more)]
  BY <1>1, ReplayUnfolds
<1>4. g[Len(log)] = h[Len(log)]
  <2>1. Len(log) <= Len(more) /\ Len(more) \in Nat
    BY <1>1
  <2>2. ReplayStates(g, Len(log), log) /\ ReplayStates(h, Len(more), more)
    BY <1>2, <1>3
  <2>3. \A i \in 1 .. Len(log) : log[i] = more[i]
    BY <1>1
  <2>4. Len(log) \in Nat
    BY <1>1
  <2> QED BY <2>1, <2>2, <2>3, <2>4, ReplayStatesAgree
<1>5. h[Len(more)] = ReplayStep(h[Len(log)], Len(log) + 1, record)
  <2>1. Len(more) \in 1 .. Len(more) /\ Len(more) - 1 = Len(log)
    BY <1>1
  <2> QED BY <1>1, <1>3, <2>1 DEF ReplayStates
<1> QED BY <1>2, <1>3, <1>4, <1>5 DEF more

-----------------------------------------------------------------------------
(***************************************************************************)
(* What a fold says about the log it read, in terms of the log alone.      *)
(***************************************************************************)
Events(log) == {n \in 1 .. Len(log) : IsEvent(log[n])}

\* The records an approval may name, and those it named.
Asked(log) == {n \in 1 .. Len(log) : log[n].action \in {"override", "release"}}
Approvals(log) == {n \in 1 .. Len(log) : log[n].action = "approve"}

\* The records that went to their target: a quarantine or a release, and the
\* approval of a release that came before it.
ToTarget(log) ==
  {n \in Events(log) :
     \/ log[n].action \in TargetLevel
     \/ /\ log[n].action = "approve"
        /\ log[n].refs \in Asked(log) /\ log[n].refs < n
        /\ log[log[n].refs].action = "release"}

Mentions(log, f)  == {n \in Events(log) : log[n].finding = f}
OnFinding(log, f) == {n \in Events(log) \ ToTarget(log) : log[n].finding = f}
OnTarget(log, t)  == {n \in ToTarget(log) : log[n].target = t}
Overrides(log, f) == {n \in Events(log) : log[n].action = "override" /\ log[n].finding = f}
Levels(log, t)    == {n \in Events(log) : log[n].action \in TargetLevel /\ log[n].target = t}
Rids(log)         == {log[n].rid : n \in Events(log)}

\* What approvals named, the targets and the findings events went to.
Named(log)           == {log[n].refs : n \in Approvals(log)}
Targets(log)         == {log[n].target : n \in ToTarget(log)}
Mentioned(log)       == {log[n].finding : n \in Events(log)}
Findings(log, track) == {f \in {log[n].finding : n \in Events(log) \ ToTarget(log)} : track}

\* k is the last of a set of positions, 0 if there is none.
Latest(k, S) == /\ k \in S \cup {0} /\ (k = 0 => S = {})
                /\ \A n \in S : n <= k

FindingSound(st, log, f) ==
  /\ st = [effective |-> st.effective, cited |-> st.cited, pending |-> st.pending,
           last |-> st.last]
  /\ st.effective \in Disposition
  /\ Latest(st.last, OnFinding(log, f))
  /\ st.pending # NoChange =>
       \E k \in Overrides(log, f) :
         /\ st.pending = Change(k, log[k]) /\ Latest(k, Overrides(log, f))
         /\ log[k].disposition \in Disposition

TargetSound(st, log, t) ==
  /\ st = [status |-> st.status, cited |-> st.cited, pending |-> st.pending,
           last |-> st.last]
  /\ Latest(st.last, OnTarget(log, t))
  /\ st.pending # NoChange =>
       \E k \in Levels(log, t) :
         /\ st.pending = Change(k, log[k]) /\ Latest(k, Levels(log, t))
         /\ log[k].action = "release"

\* `names' are the findings of the report, `track' whether others are followed.
FindingsSound(findings, log, names, track) ==
  /\ DOMAIN findings = names \cup Findings(log, track)
  /\ \A f \in DOMAIN findings : FindingSound(findings[f], log, f)

TargetsSound(targets, log) ==
  /\ DOMAIN targets = Targets(log)
  /\ \A t \in DOMAIN targets : TargetSound(targets[t], log, t)

RequestsSound(approvable, approved, log) ==
  /\ DOMAIN approvable = Asked(log)
  /\ \A n \in Asked(log) : approvable[n] = log[n]
  /\ approved = Named(log)

FoldSound(s, log, names, track) ==
  /\ s = [findings |-> s.findings, targets |-> s.targets, approvable |-> s.approvable,
          approved |-> s.approved]
  /\ FindingsSound(s.findings, log, names, track)
  /\ TargetsSound(s.targets, log)
  /\ RequestsSound(s.approvable, s.approved, log)

HistorySound(st, log, f) ==
  /\ st = [last |-> st.last, disposition |-> st.disposition, overrides |-> st.overrides,
           approved |-> st.approved]
  /\ Latest(st.last, Mentions(log, f))
  /\ DOMAIN st.overrides = Overrides(log, f)
  /\ \A n \in Overrides(log, f) : st.overrides[n] = log[n].actor

HistoriesSound(findings, log) ==
  /\ DOMAIN findings = Mentioned(log)
  /\ \A f \in DOMAIN findings : HistorySound(findings[f], log, f)

\* Each violation is of an event that broke a rule on what came before it.
ViolationsSound(violations, log) ==
  \A v \in violations :
    /\ v.seq \in Events(log) /\ v.finding = log[v.seq].finding
    /\ v.code \in Codes(Replay(SubSeq(log, 1, v.seq - 1)), log[v.seq])

ReplaySound(read, log) ==
  /\ read = [findings |-> read.findings, scans |-> read.scans,
             requestIds |-> read.requestIds, violations |-> read.violations]
  /\ HistoriesSound(read.findings, log)
  /\ DOMAIN read.requestIds = Rids(log)
  /\ ViolationsSound(read.violations, log)

\* `more' is `log' and one record after it.
Grown(log, more) ==
  /\ Len(log) \in Nat /\ Len(more) = Len(log) + 1
  /\ \A n \in 1 .. Len(log) : more[n] = log[n]

\* Whether a record goes to its target when it is read after `log'.
Targeted(record, log) ==
  \/ record.action \in TargetLevel
  \/ /\ record.action = "approve" /\ record.refs \in Asked(log)
     /\ log[record.refs].action = "release"

\* A log that grows by a record.
LEMMA AppendGrows ==
  ASSUME NEW S, NEW log \in Seq(S), NEW record \in S
  PROVE  /\ Grown(log, Append(log, record))
         /\ Append(log, record)[Len(log) + 1] = record
  BY LenProperties, AppendProperties DEF Grown

\* The next position is later than all before it.
LEMMA LatestNext ==
  ASSUME NEW N \in Nat, NEW S, S \subseteq 1 .. N
  PROVE  Latest(N + 1, S \cup {N + 1})
  BY DEF Latest

\* What one more record adds to the positions of each kind.
LEMMA GrownEvents ==
  ASSUME NEW log, NEW more, Grown(log, more)
  PROVE  LET new == {n \in {Len(more)} : IsEvent(more[n])}
         IN  /\ Events(more) = Events(log) \cup new
             /\ \A f : Mentions(more, f) = Mentions(log, f) \cup {n \in new : more[n].finding = f}
             /\ \A f : Overrides(more, f) =
                  Overrides(log, f) \cup {n \in new : more[n].action = "override" /\ more[n].finding = f}
             /\ \A t : Levels(more, t) =
                  Levels(log, t) \cup {n \in new : more[n].action \in TargetLevel /\ more[n].target = t}
<1>1. Events(more) = Events(log) \cup {n \in {Len(more)} : IsEvent(more[n])}
  BY DEF Grown, Events
<1>2. \A n \in Events(log) : more[n] = log[n]
  BY DEF Grown, Events
<1>3. ASSUME NEW f
      PROVE  Mentions(more, f) = Mentions(log, f)
               \cup {n \in {m \in {Len(more)} : IsEvent(more[m])} : more[n].finding = f}
  BY <1>1, <1>2 DEF Mentions
<1>4. ASSUME NEW f
      PROVE  Overrides(more, f) = Overrides(log, f)
               \cup {n \in {m \in {Len(more)} : IsEvent(more[m])} :
                      more[n].action = "override" /\ more[n].finding = f}
  BY <1>1, <1>2 DEF Overrides
<1>5. ASSUME NEW t
      PROVE  Levels(more, t) = Levels(log, t)
               \cup {n \in {m \in {Len(more)} : IsEvent(more[m])} :
                      more[n].action \in TargetLevel /\ more[n].target = t}
  BY <1>1, <1>2 DEF Levels
<1> QED BY <1>1, <1>3, <1>4, <1>5

\* One more record asks, approves, or does neither.
LEMMA GrownAsked ==
  ASSUME NEW log, NEW more, Grown(log, more)
  PROVE  /\ Asked(more) = Asked(log)
              \cup {n \in {Len(more)} : more[n].action \in {"override", "release"}}
         /\ Approvals(more) = Approvals(log) \cup {n \in {Len(more)} : more[n].action = "approve"}
         /\ \A n \in Asked(log) : more[n] = log[n]
         /\ \A n \in Approvals(log) : more[n] = log[n]
  BY DEF Grown, Asked, Approvals

\* Whether a record goes to a target is told by the log before it.
LEMMA GrownTargeted ==
  ASSUME NEW log, NEW more, Grown(log, more)
  PROVE  ToTarget(more) = ToTarget(log)
           \cup {n \in {Len(more)} : IsEvent(more[n]) /\ Targeted(more[n], log)}
<1>1. /\ Events(more) = Events(log) \cup {n \in {Len(more)} : IsEvent(more[n])}
      /\ Events(log) \subseteq 1 .. Len(log) /\ Len(log) \in Nat /\ Len(more) = Len(log) + 1
      /\ \A n \in 1 .. Len(log) : more[n] = log[n]
  BY GrownEvents DEF Grown, Events
<1>2. \A m \in 1 .. Len(log) : m \in Asked(more) <=> m \in Asked(log)
  BY <1>1 DEF Asked
<1>3. Asked(log) \subseteq 1 .. Len(log) /\ Asked(more) \subseteq 1 .. Len(log) + 1
  BY <1>1 DEF Asked
<1>4. ASSUME NEW n \in Events(log)
      PROVE  n \in ToTarget(more) <=> n \in ToTarget(log)
  <2>1. n \in 1 .. Len(log) /\ more[n] = log[n] /\ n \in Events(more)
    BY <1>1, <1>4
  <2>2. log[n].refs \in Asked(more) /\ log[n].refs < n
          <=> log[n].refs \in Asked(log) /\ log[n].refs < n
    BY <1>1, <1>2, <1>3, <2>1
  <2>3. ASSUME log[n].refs \in Asked(log)
        PROVE  more[log[n].refs] = log[log[n].refs]
    BY <1>1, <1>3, <2>3
  <2> QED BY <1>4, <2>1, <2>2, <2>3 DEF ToTarget
<1>5. ASSUME Len(more) \in Events(more)
      PROVE  Len(more) \in ToTarget(more) <=> Targeted(more[Len(more)], log)
  <2> DEFINE r == more[Len(more)].refs
  <2>1. r \in Asked(more) /\ r < Len(more) <=> r \in Asked(log)
    BY <1>1, <1>2, <1>3
  <2>2. ASSUME r \in Asked(log)
        PROVE  more[r] = log[r]
    BY <1>1, <1>3, <2>2
  <2> QED BY <1>5, <2>1, <2>2 DEF ToTarget, Targeted
<1>6. ToTarget(more) \subseteq Events(more) /\ ToTarget(log) \subseteq Events(log)
  BY DEF ToTarget
<1>7. Len(more) \in Events(more) <=> IsEvent(more[Len(more)])
  BY <1>1
<1> QED BY <1>1, <1>4, <1>5, <1>6, <1>7

\* One more event is on its finding or on its target.
LEMMA GrownPlaces ==
  ASSUME NEW log, NEW more, Grown(log, more)
  PROVE  LET n == Len(more)
             r == more[n]
         IN  /\ \A f : OnFinding(more, f) = OnFinding(log, f)
                  \cup {m \in {n} : IsEvent(r) /\ ~Targeted(r, log) /\ r.finding = f}
             /\ \A t : OnTarget(more, t) = OnTarget(log, t)
                  \cup {m \in {n} : IsEvent(r) /\ Targeted(r, log) /\ r.target = t}
             /\ \A f : OnFinding(log, f) \subseteq 1 .. Len(log)
             /\ \A t : OnTarget(log, t) \subseteq 1 .. Len(log)
             /\ \A f : Overrides(log, f) \subseteq 1 .. Len(log)
             /\ \A t : Levels(log, t) \subseteq 1 .. Len(log)
<1> DEFINE n == Len(more)
           r == more[n]
<1>1. /\ Events(more) = Events(log) \cup {m \in {n} : IsEvent(r)}
      /\ Events(log) \subseteq 1 .. Len(log) /\ n \notin 1 .. Len(log)
      /\ \A m \in Events(log) : more[m] = log[m]
  BY GrownEvents DEF Grown, Events
<1>2. ToTarget(more) = ToTarget(log) \cup {m \in {n} : IsEvent(r) /\ Targeted(r, log)}
  BY GrownTargeted
<1>3. ToTarget(log) \subseteq Events(log)
  BY DEF ToTarget
<1>4. ASSUME NEW f
      PROVE  /\ OnFinding(log, f) \subseteq Events(log) /\ Overrides(log, f) \subseteq Events(log)
             /\ OnFinding(more, f) = OnFinding(log, f)
                   \cup {m \in {n} : IsEvent(r) /\ ~Targeted(r, log) /\ r.finding = f}
  BY <1>1, <1>2, <1>3 DEF OnFinding, Overrides
<1>5. ASSUME NEW t
      PROVE  /\ OnTarget(log, t) \subseteq Events(log) /\ Levels(log, t) \subseteq Events(log)
             /\ OnTarget(more, t) = OnTarget(log, t)
                   \cup {m \in {n} : IsEvent(r) /\ Targeted(r, log) /\ r.target = t}
  BY <1>1, <1>2, <1>3 DEF OnTarget, Levels
<1> QED BY <1>1, <1>4, <1>5

\* A record about something else leaves a finding and a target as they were.
LEMMA FindingKept ==
  ASSUME NEW log, NEW more, NEW f, NEW st, Grown(log, more), FindingSound(st, log, f),
         Len(more) \notin OnFinding(more, f) \cup Overrides(more, f)
  PROVE  FindingSound(st, more, f)
<1>1. OnFinding(more, f) = OnFinding(log, f) /\ Overrides(more, f) = Overrides(log, f)
  <2> DEFINE n == Len(more)
             r == more[n]
  <2>1. OnFinding(more, f) = OnFinding(log, f)
                  \cup {m \in {n} : IsEvent(r) /\ ~Targeted(r, log) /\ r.finding = f}
    BY GrownPlaces
  <2>2. Overrides(more, f) = Overrides(log, f)
           \cup {m \in {i \in {Len(more)} : IsEvent(more[i])} :
                  more[m].action = "override" /\ more[m].finding = f}
    BY GrownEvents
  <2> QED BY <2>1, <2>2
<1>2. \A k \in Overrides(log, f) : more[k] = log[k]
  BY GrownPlaces DEF Grown
<1> QED BY <1>1, <1>2 DEF FindingSound, Change

\* A target that a record is not about keeps its state.
LEMMA TargetKept ==
  ASSUME NEW log, NEW more, NEW t, NEW st, Grown(log, more), TargetSound(st, log, t),
         Len(more) \notin OnTarget(more, t) \cup Levels(more, t)
  PROVE  TargetSound(st, more, t)
<1>1. OnTarget(more, t) = OnTarget(log, t) /\ Levels(more, t) = Levels(log, t)
  <2> DEFINE n == Len(more)
             r == more[n]
  <2>1. OnTarget(more, t) = OnTarget(log, t)
                  \cup {m \in {n} : IsEvent(r) /\ Targeted(r, log) /\ r.target = t}
    BY GrownPlaces
  <2>2. Levels(more, t) = Levels(log, t)
           \cup {m \in {i \in {Len(more)} : IsEvent(more[i])} :
                  more[m].action \in TargetLevel /\ more[m].target = t}
    BY GrownEvents
  <2> QED BY <2>1, <2>2
<1>2. \A k \in Levels(log, t) : more[k] = log[k]
  BY GrownPlaces DEF Grown
<1> QED BY <1>1, <1>2 DEF TargetSound, Change

\* One turn of the loop on the finding an event is about.
LEMMA FindingTurn ==
  ASSUME NEW log, NEW more, NEW st, Grown(log, more),
         IsEvent(more[Len(more)]), ~Targeted(more[Len(more)], log),
         more[Len(more)].action = "override" => more[Len(more)].disposition \in Disposition,
         FindingSound(st, log, more[Len(more)].finding)
  PROVE  FindingSound(ApplyFinding(st, Len(more), more[Len(more)]), more,
                      more[Len(more)].finding)
<1> DEFINE n == Len(more)
           r == more[n]
           f == r.finding
           touched == [st EXCEPT !.last = n]
           on == OnFinding(log, f)
           asks == Overrides(log, f)
<1>1. n = Len(log) + 1 /\ Len(log) \in Nat
  BY DEF Grown
<1>2. /\ OnFinding(more, f) = on \cup {n} /\ on \subseteq 1 .. Len(log)
      /\ asks \subseteq 1 .. Len(log)
  BY GrownPlaces
<1>3. Overrides(more, f) = asks \cup {m \in {n} : r.action = "override"}
  BY GrownEvents
<1>4. \A k \in asks : more[k] = log[k]
  BY <1>2 DEF Grown
<1>5. /\ Latest(n, OnFinding(more, f))
      /\ r.action = "override" => Latest(n, Overrides(more, f))
  BY <1>1, <1>2, <1>3, LatestNext
<1>6. st = [effective |-> st.effective, cited |-> st.cited, pending |-> st.pending,
            last |-> st.last]
  BY DEF FindingSound
<1>7. touched = [effective |-> st.effective, cited |-> st.cited, pending |-> st.pending,
                 last |-> n]
  BY <1>6
<1>8. st.effective \in Disposition
  BY DEF FindingSound
<1>9. ASSUME st.pending # NoChange
      PROVE  \E k \in asks : /\ st.pending = Change(k, log[k]) /\ Latest(k, asks)
                            /\ log[k].disposition \in Disposition
  BY <1>9 DEF FindingSound
<1> HIDE DEF n, r, f, on, asks, touched
<1>a. ASSUME r.action = "override", Raises(st.effective, r.disposition) \/ ~FourEyes
      PROVE  FindingSound(ApplyFinding(st, n, r), more, f)
  <2> DEFINE is == [effective |-> r.disposition, cited |-> n, pending |-> NoChange, last |-> n]
  <2>1. ApplyFinding(st, n, r)
          = [touched EXCEPT !.effective = r.disposition, !.cited = n, !.pending = NoChange]
    BY <1>a DEF ApplyFinding, touched, Blesses
  <2>2. ApplyFinding(st, n, r) = is
    BY <1>7, <2>1
  <2>3. r.disposition \in Disposition
    BY <1>a DEF n, r
  <2>4. FindingSound(is, more, f)
    BY <1>a, <1>5, <2>3 DEF FindingSound
  <2> QED BY <2>2, <2>4
<1>b. ASSUME r.action = "override", ~ (Raises(st.effective, r.disposition) \/ ~FourEyes)
      PROVE  FindingSound(ApplyFinding(st, n, r), more, f)
  <2> DEFINE is == [effective |-> st.effective, cited |-> st.cited, pending |-> Change(n, r),
                    last |-> n]
  <2>1. ApplyFinding(st, n, r) = [touched EXCEPT !.pending = Change(n, r)]
    BY <1>b DEF ApplyFinding, touched, Blesses
  <2>2. ApplyFinding(st, n, r) = is
    BY <1>7, <2>1
  <2>3. n \in Overrides(more, f) /\ r.disposition \in Disposition /\ more[n] = r
    BY <1>3, <1>b DEF n, r
  <2>4. FindingSound(is, more, f)
    BY <1>b, <1>5, <1>8, <2>3 DEF FindingSound
  <2> QED BY <2>2, <2>4
<1>c. ASSUME r.action # "override", Blesses(r, st.pending)
      PROVE  FindingSound(ApplyFinding(st, n, r), more, f)
  <2> DEFINE is == [effective |-> st.pending.disposition, cited |-> n, pending |-> NoChange,
                    last |-> n]
  <2>1. ApplyFinding(st, n, r)
          = [touched EXCEPT !.effective = st.pending.disposition, !.cited = n,
                            !.pending = NoChange]
    BY <1>c DEF ApplyFinding, touched
  <2>2. ApplyFinding(st, n, r) = is
    BY <1>7, <2>1
  <2>3. st.pending.disposition \in Disposition
    <3>1. st.pending # NoChange
      BY <1>c DEF Blesses
    <3>2. PICK k \in asks : /\ st.pending = Change(k, log[k])
                           /\ log[k].disposition \in Disposition
      BY <3>1, <1>9
    <3> QED BY <3>2 DEF Change
  <2>4. FindingSound(is, more, f)
    BY <1>5, <1>c, <2>3 DEF FindingSound
  <2> QED BY <2>2, <2>4
<1>d. ASSUME r.action # "override", ~Blesses(r, st.pending)
      PROVE  FindingSound(ApplyFinding(st, n, r), more, f)
  <2>1. ApplyFinding(st, n, r) = touched
    BY <1>d DEF ApplyFinding, touched
  <2>2. Overrides(more, f) = asks
    BY <1>3, <1>d
  <2>3. FindingSound(touched, more, f)
    BY <1>4, <1>5, <1>7, <1>8, <1>9, <2>2 DEF FindingSound, Change
  <2> QED BY <2>1, <2>3
<1> QED BY <1>a, <1>b, <1>c, <1>d DEF n, r, f

\* One turn of the loop on the target an event goes to.
LEMMA TargetTurn ==
  ASSUME NEW log, NEW more, NEW st, Grown(log, more),
         IsEvent(more[Len(more)]), Targeted(more[Len(more)], log),
         TargetSound(st, log, more[Len(more)].target)
  PROVE  TargetSound(ApplyTarget(st, Len(more), more[Len(more)]), more,
                     more[Len(more)].target)
<1> DEFINE n == Len(more)
           r == more[n]
           t == r.target
           touched == [st EXCEPT !.last = n]
           on == OnTarget(log, t)
           levels == Levels(log, t)
<1>1. n = Len(log) + 1 /\ Len(log) \in Nat
  BY DEF Grown
<1>2. /\ OnTarget(more, t) = on \cup {n} /\ on \subseteq 1 .. Len(log)
      /\ levels \subseteq 1 .. Len(log)
  BY GrownPlaces
<1>3. Levels(more, t) = levels \cup {m \in {n} : r.action \in TargetLevel}
  BY GrownEvents
<1>4. \A k \in levels : more[k] = log[k]
  BY <1>2 DEF Grown
<1>5. /\ Latest(n, OnTarget(more, t))
      /\ r.action \in TargetLevel => Latest(n, Levels(more, t))
  BY <1>1, <1>2, <1>3, LatestNext
<1>6. st = [status |-> st.status, cited |-> st.cited, pending |-> st.pending,
            last |-> st.last]
  BY DEF TargetSound
<1>7. touched = [status |-> st.status, cited |-> st.cited, pending |-> st.pending,
                 last |-> n]
  BY <1>6
<1>8. ASSUME st.pending # NoChange
      PROVE  \E k \in levels : /\ st.pending = Change(k, log[k]) /\ Latest(k, levels)
                              /\ log[k].action = "release"
  BY <1>8 DEF TargetSound
<1>9. more[n] = r
  OBVIOUS
<1> HIDE DEF n, r, t, on, levels, touched
<1>a. ASSUME NEW status, NEW is,
             is = [status |-> status, cited |-> n, pending |-> NoChange, last |-> n]
      PROVE  TargetSound(is, more, t)
  BY <1>a, <1>5 DEF TargetSound
<1>b. ASSUME r.action = "quarantine"
      PROVE  TargetSound(ApplyTarget(st, n, r), more, t)
  <2>1. ApplyTarget(st, n, r)
          = [touched EXCEPT !.status = "quarantined", !.cited = n, !.pending = NoChange]
    BY <1>b DEF ApplyTarget, touched, Blesses
  <2>2. ApplyTarget(st, n, r)
          = [status |-> "quarantined", cited |-> n, pending |-> NoChange, last |-> n]
    BY <1>7, <2>1
  <2> QED BY <1>a, <2>2
<1>c. ASSUME \/ r.action = "release" /\ ~FourEyes
             \/ r.action \notin TargetLevel /\ Blesses(r, st.pending)
      PROVE  TargetSound(ApplyTarget(st, n, r), more, t)
  <2>1. ApplyTarget(st, n, r)
          = [touched EXCEPT !.status = "active", !.cited = n, !.pending = NoChange]
    BY <1>c DEF ApplyTarget, touched, Blesses, TargetLevel
  <2>2. ApplyTarget(st, n, r)
          = [status |-> "active", cited |-> n, pending |-> NoChange, last |-> n]
    BY <1>7, <2>1
  <2> QED BY <1>a, <2>2
<1>d. ASSUME r.action = "release", FourEyes
      PROVE  TargetSound(ApplyTarget(st, n, r), more, t)
  <2> DEFINE is == [status |-> st.status, cited |-> st.cited, pending |-> Change(n, r),
                    last |-> n]
  <2>1. ApplyTarget(st, n, r) = [touched EXCEPT !.pending = Change(n, r)]
    BY <1>d DEF ApplyTarget, touched, Blesses
  <2>2. ApplyTarget(st, n, r) = is
    BY <1>7, <2>1
  <2>3. n \in Levels(more, t)
    BY <1>3, <1>d DEF TargetLevel
  <2>4. TargetSound(is, more, t)
    BY <1>d, <1>5, <1>9, <2>3 DEF TargetSound, TargetLevel
  <2> QED BY <2>2, <2>4
<1>e. ASSUME r.action \notin TargetLevel, ~Blesses(r, st.pending)
      PROVE  TargetSound(ApplyTarget(st, n, r), more, t)
  <2>1. ApplyTarget(st, n, r) = touched
    BY <1>e DEF ApplyTarget, touched, TargetLevel
  <2>2. Levels(more, t) = levels
    BY <1>3, <1>e
  <2>3. TargetSound(touched, more, t)
    BY <1>4, <1>5, <1>7, <1>8, <2>2 DEF TargetSound, Change
  <2> QED BY <2>1, <2>3
<1> QED BY <1>b, <1>c, <1>d, <1>e DEF n, r, t, TargetLevel

\* A record that is no decision, or goes elsewhere, leaves all targets as they were.
LEMMA TargetsKept ==
  ASSUME NEW log, NEW more, NEW targets, Grown(log, more),
         IsEvent(more[Len(more)]) => ~Targeted(more[Len(more)], log),
         TargetsSound(targets, log)
  PROVE  TargetsSound(targets, more)
<1> DEFINE n == Len(more)
           r == more[n]
<1>1. ToTarget(more) = ToTarget(log)
  BY GrownTargeted
<1>2. \A m \in ToTarget(log) : more[m] = log[m]
  BY DEF ToTarget, Events, Grown
<1>3. Targets(more) = Targets(log)
  BY <1>1, <1>2 DEF Targets
<1>4. ASSUME NEW t \in DOMAIN targets
      PROVE  TargetSound(targets[t], more, t)
  <2>1. n \notin ToTarget(more) /\ n \notin Levels(more, t)
    BY <1>1 DEF ToTarget, Levels, Events, Targeted, Grown
  <2>2. n \notin OnTarget(more, t) \cup Levels(more, t)
    BY <2>1 DEF OnTarget
  <2>3. TargetSound(targets[t], log, t)
    BY DEF TargetsSound
  <2> QED BY <2>2, <2>3, TargetKept
<1> QED BY <1>3, <1>4 DEF TargetsSound

\* Findings that a record is not about keep their states.
LEMMA FindingsKept ==
  ASSUME NEW log, NEW more, NEW findings, NEW names, NEW track, Grown(log, more),
         IsEvent(more[Len(more)]) =>
           \/ Targeted(more[Len(more)], log)
           \/ ~track /\ more[Len(more)].finding \notin names,
         FindingsSound(findings, log, names, track)
  PROVE  FindingsSound(findings, more, names, track)
<1> DEFINE n == Len(more)
           r == more[n]
<1>1. /\ ToTarget(more) = ToTarget(log) \cup {m \in {n} : IsEvent(r) /\ Targeted(r, log)}
      /\ Events(more) = Events(log) \cup {m \in {n} : IsEvent(r)}
      /\ n \notin Events(log)
  BY GrownTargeted, GrownEvents DEF Grown, Events
<1>2. \A m \in Events(log) : more[m] = log[m]
  BY DEF Events, Grown
<1>3. Findings(more, track) = Findings(log, track)
  <2>1. CASE track
    <3>1. Events(more) \ ToTarget(more) = Events(log) \ ToTarget(log)
      BY <1>1, <2>1 DEF ToTarget
    <3> QED BY <1>2, <3>1 DEF Findings
  <2>2. CASE ~track
    BY <2>2 DEF Findings
  <2> QED BY <2>1, <2>2
<1>4. ASSUME NEW f \in DOMAIN findings
      PROVE  FindingSound(findings[f], more, f)
  <2>1. FindingSound(findings[f], log, f) /\ f \in names \cup Findings(log, track)
    BY DEF FindingsSound
  <2>2. n \notin OnFinding(more, f)
    BY <1>1, <2>1 DEF OnFinding, Findings
  <2>3. n \notin Overrides(more, f)
    BY <1>1, <2>1 DEF Overrides, Targeted, TargetLevel, Findings
  <2> QED BY <2>1, <2>2, <2>3, FindingKept
<1> QED BY <1>3, <1>4 DEF FindingsSound

\* A record that goes to its target changes that one only, and the same for a finding.
LEMMA TargetsTurned ==
  ASSUME NEW log, NEW more, NEW targets, NEW r, NEW t, Grown(log, more),
         r = more[Len(more)], t = r.target,
         IsEvent(r), Targeted(r, log), TargetsSound(targets, log)
  PROVE  TargetsSound(Put(targets, t, ApplyTarget(IF t \in DOMAIN targets THEN targets[t]
                                                  ELSE FreshTarget, Len(more), r)), more)
<1> DEFINE n == Len(more)
           old == IF t \in DOMAIN targets THEN targets[t] ELSE FreshTarget
           new == Put(targets, t, ApplyTarget(old, n, r))
<1>1. /\ ToTarget(more) = ToTarget(log) \cup {n} /\ n \notin ToTarget(log)
      /\ \A m \in ToTarget(log) : more[m] = log[m]
  <2>1. ToTarget(more) = ToTarget(log) \cup {n}
    BY GrownTargeted
  <2>2. n \notin ToTarget(log) /\ \A m \in ToTarget(log) : more[m] = log[m]
    BY DEF Grown, ToTarget, Events
  <2> QED BY <2>1, <2>2
<1>2. DOMAIN targets = Targets(log) /\ \A x \in DOMAIN targets : TargetSound(targets[x], log, x)
  BY DEF TargetsSound
<1>3. TargetSound(old, log, t)
  <2>1. CASE t \in DOMAIN targets
    BY <1>2, <2>1
  <2>2. CASE t \notin DOMAIN targets
    <3>1. OnTarget(log, t) = {}
      BY <1>2, <2>2 DEF OnTarget, Targets
    <3>2. TargetSound(FreshTarget, log, t)
      BY <3>1 DEF TargetSound, FreshTarget, Latest
    <3> QED BY <2>2, <3>2
  <2> QED BY <2>1, <2>2
<1> HIDE DEF old
<1>4. TargetSound(ApplyTarget(old, n, r), more, t)
  BY <1>3, TargetTurn
<1>5. DOMAIN new = Targets(log) \cup {t} /\ Targets(more) = Targets(log) \cup {t}
  <2>1. DOMAIN new = Targets(log) \cup {t}
    BY <1>2 DEF Put
  <2>2. Targets(more) = Targets(log) \cup {t}
    BY <1>1 DEF Targets
  <2> QED BY <2>1, <2>2
<1>6. ASSUME NEW x \in DOMAIN targets, x # t
      PROVE  new[x] = targets[x] /\ TargetSound(targets[x], more, x)
  <2>1. n \notin OnTarget(more, x)
    BY <1>1, <1>6 DEF OnTarget
  <2>2. n \notin Levels(more, x)
    BY <1>6 DEF Levels
  <2>3. TargetSound(targets[x], log, x)
    BY <1>2
  <2>4. TargetSound(targets[x], more, x)
    BY <2>1, <2>2, <2>3, TargetKept
  <2> QED BY <1>6, <2>4 DEF Put
<1>7. new[t] = ApplyTarget(old, n, r)
  BY DEF Put
<1> HIDE DEF new
<1>8. TargetsSound(new, more)
  BY <1>2, <1>4, <1>5, <1>6, <1>7 DEF TargetsSound
<1> QED BY <1>8 DEF new, old

\* The finding an event is about takes its state from it.
LEMMA FindingsTurned ==
  ASSUME NEW log, NEW more, NEW findings, NEW names, NEW track \in BOOLEAN, NEW r, NEW f,
         Grown(log, more), r = more[Len(more)], f = r.finding,
         IsEvent(r), ~Targeted(r, log), track \/ f \in DOMAIN findings,
         r.action = "override" => r.disposition \in Disposition,
         FindingsSound(findings, log, names, track)
  PROVE  FindingsSound(Put(findings, f, ApplyFinding(IF f \in DOMAIN findings THEN findings[f]
                                                     ELSE FreshFinding("accept"), Len(more), r)),
                       more, names, track)
<1> DEFINE n == Len(more)
           old == IF f \in DOMAIN findings THEN findings[f] ELSE FreshFinding("accept")
           new == Put(findings, f, ApplyFinding(old, n, r))
<1>1. /\ ToTarget(more) = ToTarget(log) /\ Events(more) = Events(log) \cup {n}
      /\ n \notin Events(log) /\ ToTarget(log) \subseteq Events(log)
      /\ \A m \in Events(log) : more[m] = log[m]
  BY SMTT(30), GrownTargeted, GrownEvents DEF Grown, ToTarget, Events
<1>2. /\ DOMAIN findings = names \cup Findings(log, track)
      /\ \A x \in DOMAIN findings : FindingSound(findings[x], log, x)
  BY DEF FindingsSound
<1>3. FindingSound(old, log, f)
  <2>1. CASE f \in DOMAIN findings
    BY <1>2, <2>1
  <2>2. CASE f \notin DOMAIN findings
    <3>1. OnFinding(log, f) = {}
      BY <1>2, <2>2 DEF OnFinding, Findings
    <3>2. FindingSound(FreshFinding("accept"), log, f)
      BY <3>1 DEF FindingSound, FreshFinding, Latest, Disposition
    <3> QED BY <2>2, <3>2
  <2> QED BY <2>1, <2>2
<1> HIDE DEF old
<1>4. FindingSound(ApplyFinding(old, n, r), more, f)
  BY <1>3, FindingTurn
<1>5. DOMAIN new = names \cup Findings(more, track)
  <2>1. DOMAIN new = names \cup Findings(log, track) \cup {f}
    BY <1>2 DEF Put
  <2>2. CASE track
    <3>1. Events(more) \ ToTarget(more) = (Events(log) \ ToTarget(log)) \cup {n}
      BY <1>1
    <3>2. Findings(more, track) = Findings(log, track) \cup {f}
      BY <1>1, <2>2, <3>1 DEF Findings
    <3> QED BY <2>1, <3>2
  <2>3. CASE ~track
    BY <1>2, <2>1, <2>3 DEF Findings
  <2> QED BY <2>2, <2>3
<1>6. ASSUME NEW x \in DOMAIN findings, x # f
      PROVE  new[x] = findings[x] /\ FindingSound(findings[x], more, x)
  <2>1. n \notin OnFinding(more, x)
    BY <1>6 DEF OnFinding
  <2>2. n \notin Overrides(more, x)
    BY <1>6 DEF Overrides
  <2>3. FindingSound(findings[x], log, x)
    BY <1>2
  <2>4. FindingSound(findings[x], more, x)
    BY <2>1, <2>2, <2>3, FindingKept
  <2> QED BY <1>6, <2>4 DEF Put
<1>7. new[f] = ApplyFinding(old, n, r) /\ DOMAIN new = DOMAIN findings \cup {f}
  BY DEF Put
<1> HIDE DEF new
<1>8. FindingsSound(new, more, names, track)
  BY <1>4, <1>5, <1>6, <1>7 DEF FindingsSound
<1> QED BY <1>8 DEF new, old

\* The fold notes what is asked and what is approved.
LEMMA RequestsNoted ==
  ASSUME NEW log, NEW more, NEW approvable, NEW approved, NEW asks, NEW appr,
         Grown(log, more), RequestsSound(approvable, approved, log),
         asks = IF more[Len(more)].action \in {"override", "release"}
                  THEN Put(approvable, Len(more), more[Len(more)]) ELSE approvable,
         appr = IF more[Len(more)].action = "approve"
                  THEN approved \cup {more[Len(more)].refs} ELSE approved
  PROVE  /\ RequestsSound(asks, appr, more)
         /\ GoesToTarget(asks, more[Len(more)]) <=> Targeted(more[Len(more)], log)
<1> DEFINE n == Len(more)
           r == more[n]
<1>1. /\ Asked(more) = Asked(log) \cup {m \in {n} : r.action \in {"override", "release"}}
      /\ Approvals(more) = Approvals(log) \cup {m \in {n} : r.action = "approve"}
      /\ \A m \in Asked(log) \cup Approvals(log) : more[m] = log[m]
      /\ n \notin Asked(log)
  BY GrownAsked DEF Grown, Asked
<1>2. DOMAIN approvable = Asked(log) /\ \A m \in Asked(log) : approvable[m] = log[m]
  BY DEF RequestsSound
<1>3. DOMAIN asks = Asked(more) /\ \A m \in Asked(more) : asks[m] = more[m]
  <2>1. CASE r.action \in {"override", "release"}
    <3>1. asks = Put(approvable, n, r) /\ Asked(more) = Asked(log) \cup {n} /\ more[n] = r
      BY <1>1, <2>1
    <3> HIDE DEF n, r
    <3>2. DOMAIN asks = Asked(log) \cup {n} /\ asks[n] = r
      BY <1>2, <3>1 DEF Put
    <3>3. ASSUME NEW m \in Asked(log)
          PROVE  asks[m] = more[m]
      BY <1>1, <1>2, <3>1, <3>3 DEF Put
    <3> QED BY <3>1, <3>2, <3>3
  <2>2. CASE r.action \notin {"override", "release"}
    BY <1>1, <1>2, <2>2
  <2> QED BY <2>1, <2>2
<1>4. GoesToTarget(asks, r) <=> Targeted(r, log)
  <2>1. CASE r.action = "approve"
    <3>1. asks = approvable
      BY <2>1
    <3> QED BY <1>2, <2>1, <3>1 DEF GoesToTarget, Targeted
  <2>2. CASE r.action # "approve"
    BY <2>2 DEF GoesToTarget, Targeted
  <2> QED BY <2>1, <2>2
<1>5. appr = Named(more)
  BY <1>1 DEF Named, RequestsSound
<1> QED BY <1>3, <1>4, <1>5 DEF RequestsSound

\* One turn of the loop keeps what the fold says of its log true.
LEMMA FoldTurnSound ==
  ASSUME NEW log, NEW more, NEW names, NEW track \in BOOLEAN, NEW s,
         Grown(log, more), FoldSound(s, log, names, track),
         more[Len(more)].action = "override" => more[Len(more)].disposition \in Disposition
  PROVE  FoldSound(FoldStep(s, Len(more), more[Len(more)], track), more, names, track)
<1> DEFINE n == Len(more)
           r == more[n]
           asks == IF r.action \in {"override", "release"} THEN Put(s.approvable, n, r)
                                                            ELSE s.approvable
           appr == IF r.action = "approve" THEN s.approved \cup {r.refs} ELSE s.approved
<1>1. s = [findings |-> s.findings, targets |-> s.targets, approvable |-> s.approvable,
           approved |-> s.approved]
  BY DEF FoldSound
<1>2. RequestsSound(asks, appr, more) /\ (GoesToTarget(asks, r) <=> Targeted(r, log))
  <2>1. RequestsSound(s.approvable, s.approved, log)
    BY DEF FoldSound
  <2> QED BY <2>1, RequestsNoted
<1>3. ASSUME IsEvent(r) => ~Targeted(r, log)
      PROVE  TargetsSound(s.targets, more)
  BY <1>3, TargetsKept DEF FoldSound
<1>4. ASSUME IsEvent(r) => Targeted(r, log) \/ (~track /\ r.finding \notin names)
      PROVE  FindingsSound(s.findings, more, names, track)
  BY <1>4, FindingsKept DEF FoldSound
<1>5. ASSUME NEW findings, NEW targets, FindingsSound(findings, more, names, track),
             TargetsSound(targets, more)
      PROVE  FoldSound([findings |-> findings, targets |-> targets, approvable |-> asks,
                        approved |-> appr], more, names, track)
  BY <1>2, <1>5 DEF FoldSound
<1> HIDE DEF n, r, asks, appr
<1>6. CASE ~IsEvent(r)
  <2>1. asks = s.approvable /\ appr = s.approved
    BY <1>6 DEF asks, appr, IsEvent
  <2>2. FoldStep(s, n, r, track) = s
    BY <1>6 DEF FoldStep
  <2> QED BY <1>1, <1>3, <1>4, <1>5, <1>6, <2>1, <2>2 DEF n, r
<1> DEFINE noted == [findings |-> s.findings, targets |-> s.targets, approvable |-> asks,
                     approved |-> appr]
           tgt == IF r.target \in DOMAIN s.targets THEN s.targets[r.target] ELSE FreshTarget
           fnd == IF r.finding \in DOMAIN s.findings THEN s.findings[r.finding]
                                                      ELSE FreshFinding("accept")
           here == GoesToTarget(asks, r)
           known == track \/ r.finding \in DOMAIN s.findings
<1>e. Apply(s, n, r, track) =
        CASE here -> [noted EXCEPT !.targets = Put(@, r.target, ApplyTarget(tgt, n, r))]
          [] ~here /\ known ->
               [noted EXCEPT !.findings = Put(@, r.finding, ApplyFinding(fnd, n, r))]
          [] OTHER -> noted
  <2>1. [s EXCEPT !.approvable = asks,
                  !.approved = IF r.action = "approve" THEN @ \cup {r.refs} ELSE @] = noted
    <3>1. [[s EXCEPT !.approvable = asks] EXCEPT !.approved = appr] = noted
      <4> DEFINE p == [findings |-> s.findings, targets |-> s.targets, approvable |-> asks,
                       approved |-> s.approved]
      <4>1. [s EXCEPT !.approvable = asks] = p
        BY <1>1
      <4>2. [p EXCEPT !.approved = appr] = noted
        OBVIOUS
      <4> QED BY <4>1, <4>2
    <3> QED BY <3>1 DEF appr
  <2> HIDE DEF noted
  <2> QED BY <2>1 DEF Apply, asks
<1> HIDE DEF here, known
<1>7. CASE IsEvent(r) /\ Targeted(r, log)
  <2> DEFINE targets == Put(s.targets, r.target, ApplyTarget(tgt, n, r))
  <2>1. here
    BY <1>2, <1>7 DEF here
  <2>2. Apply(s, n, r, track) = [noted EXCEPT !.targets = Put(@, r.target, ApplyTarget(tgt, n, r))]
    BY <1>e, <2>1
  <2>3. FoldStep(s, n, r, track) = [findings |-> s.findings, targets |-> targets,
                                    approvable |-> asks, approved |-> appr]
    BY <1>7, <2>2 DEF FoldStep
  <2>4. TargetsSound(targets, more)
    BY <1>7, TargetsTurned DEF n, r, FoldSound
  <2>5. FindingsSound(s.findings, more, names, track)
    <3>1. IsEvent(r) => Targeted(r, log) \/ (~track /\ r.finding \notin names)
      BY <1>7
    <3> QED BY <1>4, <3>1
  <2> QED BY <1>5, <2>3, <2>4, <2>5 DEF n, r
<1>8. CASE IsEvent(r) /\ ~Targeted(r, log) /\ known
  <2> DEFINE findings == Put(s.findings, r.finding, ApplyFinding(fnd, n, r))
  <2>1. ~here
    BY <1>2, <1>8 DEF here
  <2>2. Apply(s, n, r, track)
          = [noted EXCEPT !.findings = Put(@, r.finding, ApplyFinding(fnd, n, r))]
    BY <1>e, <1>8, <2>1
  <2>3. FoldStep(s, n, r, track) = [findings |-> findings, targets |-> s.targets,
                                    approvable |-> asks, approved |-> appr]
    BY <1>8, <2>2 DEF FoldStep
  <2>4. FindingsSound(findings, more, names, track)
    BY <1>8, FindingsTurned DEF n, r, FoldSound, known
  <2>5. TargetsSound(s.targets, more)
    BY <1>3, <1>8
  <2> QED BY <1>5, <2>3, <2>4, <2>5 DEF n, r
<1>9. CASE IsEvent(r) /\ ~Targeted(r, log) /\ ~known
  <2>1. ~here
    BY <1>2, <1>9 DEF here
  <2>2. FoldStep(s, n, r, track) = noted
    BY <1>e, <1>9, <2>1 DEF FoldStep
  <2>3. ~track /\ r.finding \notin names
    BY <1>9 DEF known, FoldSound, FindingsSound
  <2>4. FindingsSound(s.findings, more, names, track) /\ TargetsSound(s.targets, more)
    BY <1>3, <1>4, <1>9, <2>3
  <2> QED BY <1>5, <2>2, <2>4 DEF n, r
<1> QED BY <1>6, <1>7, <1>8, <1>9 DEF n, r

-----------------------------------------------------------------------------
(* Ledgers of any length: what one more record keeps true holds of all.    *)

\* A prefix and the next record make the next prefix.
LEMMA PrefixNext ==
  ASSUME NEW S, NEW log \in Seq(S), NEW n \in 0 .. Len(log) - 1
  PROVE  /\ SubSeq(log, 1, n) \in Seq(S) /\ Len(SubSeq(log, 1, n)) = n
         /\ log[n + 1] \in S
         /\ SubSeq(log, 1, n + 1) = Append(SubSeq(log, 1, n), log[n + 1])
         /\ Grown(SubSeq(log, 1, n), SubSeq(log, 1, n + 1))
         /\ SubSeq(log, 1, n + 1)[Len(SubSeq(log, 1, n + 1))] = log[n + 1]
<1> DEFINE before == SubSeq(log, 1, n)
           upto   == SubSeq(log, 1, n + 1)
<1>1. Len(log) \in Nat /\ \A i \in 1 .. Len(log) : log[i] \in S
  BY LenProperties, ElementOfSeq
<1>2. before \in Seq(S) /\ Len(before) = n /\ \A i \in 1 .. n : before[i] = log[i]
  BY <1>1, SubSeqProperties
<1>3. /\ upto \in Seq(S) /\ Len(upto) = n + 1
      /\ \A i \in 1 .. n + 1 : upto[i] = log[i]
  BY <1>1, SubSeqProperties
<1>4. log[n + 1] \in S
  BY <1>1
<1>5. upto = Append(before, log[n + 1])
  <2> DEFINE grown == Append(before, log[n + 1])
  <2>1. /\ grown \in Seq(S) /\ Len(grown) = n + 1 /\ grown[n + 1] = log[n + 1]
        /\ \A i \in 1 .. n : grown[i] = log[i]
    BY <1>2, <1>4, AppendProperties
  <2> HIDE DEF grown, before, upto
  <2>2. \A i \in 1 .. n + 1 : upto[i] = grown[i]
    BY <1>3, <2>1
  <2> QED BY <1>3, <2>1, <2>2, SeqEqual DEF grown
<1> HIDE DEF before, upto
<1>6. Grown(before, upto) /\ upto[Len(upto)] = log[n + 1]
  BY <1>2, <1>3 DEF Grown
<1> QED BY <1>2, <1>4, <1>5, <1>6 DEF before, upto

\* What holds at the start and is kept from each position to the next holds at
\* the end.
LEMMA Positions ==
  ASSUME NEW N \in Nat, NEW G, 0 \in G, \A n \in 0 .. N - 1 : n \in G => n + 1 \in G
  PROVE  \A n \in 0 .. N : n \in G
<1> DEFINE Bad == {n \in 0 .. N : n \notin G}
<1>1. SUFFICES ASSUME Bad # {} PROVE FALSE
  OBVIOUS
<1>2. PICK n \in Bad : \A m \in Bad : n <= m
  <2>1. Bad \in SUBSET Nat
    OBVIOUS
  <2> HIDE DEF Bad
  <2> QED BY <1>1, <2>1, FirstPosition
<1>3. n - 1 \in 0 .. N - 1 /\ n - 1 \notin Bad
  BY <1>2
<1> QED BY <1>2, <1>3

\* The fold, read off any ledger, says what the ledger says: who may approve what,
\* what is pending and when a finding or a target was touched last.
THEOREM FoldReads ==
  ASSUME NEW S, NEW log \in Seq(S), NEW originals, NEW track \in BOOLEAN,
         \A f \in DOMAIN originals : originals[f] \in Disposition,
         \A n \in 1 .. Len(log) : log[n].action = "override" => log[n].disposition \in Disposition
  PROVE  FoldSound(Fold(originals, track, log), log, DOMAIN originals, track)
<1> DEFINE Of(n) == Fold(originals, track, SubSeq(log, 1, n))
           G == {n \in 0 .. Len(log) :
                   FoldSound(Of(n), SubSeq(log, 1, n), DOMAIN originals, track)}
<1>1. Len(log) \in Nat
  BY LenProperties
<1>2. 0 \in G
  <2>1. SubSeq(log, 1, 0) = <<>>
    BY SubSeqEmpty
  <2>2. FoldSound(FoldStart(originals), <<>>, DOMAIN originals, track)
    <3>1. /\ Events(<<>>) = {} /\ ToTarget(<<>>) = {} /\ Asked(<<>>) = {} /\ Approvals(<<>>) = {}
      BY DEF Events, ToTarget, Asked, Approvals
    <3>2. FindingsSound(FoldStart(originals).findings, <<>>, DOMAIN originals, track)
      BY <3>1 DEF FindingsSound, FindingSound, FoldStart, FreshFinding, Findings, OnFinding, Latest
    <3>3. TargetsSound(FoldStart(originals).targets, <<>>)
      BY <3>1 DEF TargetsSound, FoldStart, Targets
    <3>4. RequestsSound(FoldStart(originals).approvable, FoldStart(originals).approved, <<>>)
      BY <3>1 DEF RequestsSound, FoldStart, Named
    <3> DEFINE start == FoldStart(originals)
    <3>5. start = [findings |-> start.findings, targets |-> start.targets,
                   approvable |-> start.approvable, approved |-> start.approved]
      BY DEF FoldStart
    <3> HIDE DEF start
    <3> QED BY <3>2, <3>3, <3>4, <3>5 DEF FoldSound, start
  <2>3. Of(0) = FoldStart(originals)
    BY <2>1, FoldEmpty
  <2> HIDE DEF Of
  <2>4. FoldSound(Of(0), SubSeq(log, 1, 0), DOMAIN originals, track)
    BY <2>1, <2>2, <2>3, Zenon
  <2> QED BY <1>1, <2>4
<1>3. ASSUME NEW n \in 0 .. Len(log) - 1, n \in G
      PROVE  n + 1 \in G
  <2> DEFINE before == SubSeq(log, 1, n)
             upto   == SubSeq(log, 1, n + 1)
  <2>1. /\ Grown(before, upto) /\ upto[Len(upto)] = log[n + 1] /\ Len(upto) = n + 1
        /\ before \in Seq(S) /\ Len(before) = n /\ log[n + 1] \in S
        /\ upto = Append(before, log[n + 1])
    BY PrefixNext DEF Grown
  <2>2. FoldSound(Of(n), before, DOMAIN originals, track)
    BY <1>3
  <2>3. Of(n + 1) = FoldStep(Of(n), n + 1, log[n + 1], track)
    <3> HIDE DEF before
    <3>1. Fold(originals, track, Append(before, log[n + 1]))
            = FoldStep(Fold(originals, track, before), Len(before) + 1, log[n + 1], track)
      BY <2>1, FoldAppend
    <3>2. Of(n) = Fold(originals, track, before)
      BY DEF before
    <3>3. Of(n + 1) = Fold(originals, track, upto)
      OBVIOUS
    <3> QED BY <2>1, <3>1, <3>2, <3>3
  <2>4. log[n + 1].action = "override" => log[n + 1].disposition \in Disposition
    BY <1>1
  <2> HIDE DEF before, upto, Of
  <2>5. FoldSound(Of(n + 1), upto, DOMAIN originals, track)
    BY <2>1, <2>2, <2>3, <2>4, FoldTurnSound
  <2> QED BY <1>1, <2>5 DEF upto
<1>4. Len(log) \in G
  <2> HIDE DEF G
  <2> QED BY <1>1, <1>2, <1>3, Positions
<1>5. SubSeq(log, 1, Len(log)) = log
  BY SubSeqFull
<1> QED BY <1>4, <1>5

-----------------------------------------------------------------------------
(* The same for the audit.                                                 *)

\* One event on the history of the finding it mentions.
LEMMA HistoryTurn ==
  ASSUME NEW log, NEW more, NEW st, NEW r, NEW f, Grown(log, more),
         r = more[Len(more)], f = r.finding, IsEvent(r), HistorySound(st, log, f)
  PROVE  HistorySound(Touch(st, Len(more), r), more, f)
<1> DEFINE n == Len(more)
           touched == [st EXCEPT !.last = n]
<1>1. n = Len(log) + 1 /\ Len(log) \in Nat /\ more[n] = r
  BY DEF Grown
<1>2. /\ Mentions(log, f) \subseteq 1 .. Len(log) /\ Overrides(log, f) \subseteq 1 .. Len(log)
      /\ \A k \in Overrides(log, f) : more[k] = log[k]
  BY DEF Mentions, Overrides, Events, Grown
<1>3. Mentions(more, f) = Mentions(log, f) \cup {n}
  BY GrownEvents
<1>4. Overrides(more, f) = Overrides(log, f) \cup {k \in {n} : r.action = "override"}
  BY GrownEvents
<1>5. Latest(n, Mentions(more, f))
  BY <1>1, <1>2, <1>3, LatestNext
<1>6. st = [last |-> st.last, disposition |-> st.disposition, overrides |-> st.overrides,
            approved |-> st.approved]
  BY DEF HistorySound
<1>7. touched = [last |-> n, disposition |-> st.disposition, overrides |-> st.overrides,
                 approved |-> st.approved]
  BY <1>6
<1>8. /\ DOMAIN st.overrides = Overrides(log, f)
      /\ \A k \in Overrides(log, f) : st.overrides[k] = log[k].actor
  BY DEF HistorySound
<1> HIDE DEF n, touched
<1>9. ASSUME NEW disposition, NEW overrides, NEW approved,
             DOMAIN overrides = Overrides(more, f),
             \A k \in Overrides(more, f) : overrides[k] = more[k].actor
      PROVE  HistorySound([last |-> n, disposition |-> disposition, overrides |-> overrides,
                           approved |-> approved], more, f)
  BY <1>5, <1>9 DEF HistorySound
<1>a. CASE r.action = "override"
  <2> DEFINE overrides == Put(st.overrides, n, r.actor)
  <2>1. Touch(st, n, r) = [touched EXCEPT !.overrides = overrides, !.disposition = r.disposition]
    <3>1. touched.overrides = st.overrides
      BY <1>7
    <3>2. Touch(st, n, r) = [touched EXCEPT !.overrides = Put(@, n, r.actor),
                                            !.disposition = r.disposition]
      BY <1>a DEF Touch, touched
    <3> QED BY <3>1, <3>2
  <2>2. Touch(st, n, r) = [last |-> n, disposition |-> r.disposition, overrides |-> overrides,
                           approved |-> st.approved]
    BY <1>7, <2>1
  <2>3. DOMAIN overrides = Overrides(more, f)
    BY <1>4, <1>8, <1>a DEF Put
  <2>4. \A k \in Overrides(more, f) : overrides[k] = more[k].actor
    BY <1>1, <1>2, <1>4, <1>8, <1>a DEF Put
  <2> HIDE DEF overrides
  <2> QED BY <1>9, <2>2, <2>3, <2>4 DEF n
<1>b. CASE r.action # "override"
  <2>1. Overrides(more, f) = Overrides(log, f)
    BY <1>4, <1>b
  <2>2. /\ DOMAIN st.overrides = Overrides(more, f)
        /\ \A k \in Overrides(more, f) : st.overrides[k] = more[k].actor
    BY <1>2, <1>8, <2>1
  <2>3. \E disposition, approved :
          Touch(st, n, r) = [last |-> n, disposition |-> disposition,
                             overrides |-> st.overrides, approved |-> approved]
    <3>1. CASE r.action = "approve" /\ r.refs \in DOMAIN st.overrides
      <4>1. Touch(st, n, r) = [touched EXCEPT !.approved = Put(@, r.refs, r.actor)]
        BY <1>b, <3>1 DEF Touch, touched
      <4> QED BY <1>7, <4>1
    <3>2. CASE r.action = "quarantine"
      <4>1. Touch(st, n, r) = [touched EXCEPT !.disposition = "quarantine"]
        BY <1>b, <3>2 DEF Touch, touched
      <4> QED BY <1>7, <4>1
    <3>3. CASE r.action = "release"
      <4>1. Touch(st, n, r) = [touched EXCEPT !.disposition = "accept"]
        BY <1>b, <3>3 DEF Touch, touched
      <4> QED BY <1>7, <4>1
    <3>4. CASE /\ ~ (r.action = "approve" /\ r.refs \in DOMAIN st.overrides)
               /\ r.action \notin {"quarantine", "release"}
      <4>1. Touch(st, n, r) = touched
        BY <1>b, <3>4 DEF Touch, touched
      <4> QED BY <1>7, <4>1
    <3> QED BY <3>1, <3>2, <3>3, <3>4
  <2> QED BY <1>9, <2>2, <2>3 DEF n
<1> QED BY <1>a, <1>b

\* What is recorded after a position leaves the ledger up to it as it was.
LEMMA PrefixKept ==
  ASSUME NEW S, NEW log \in Seq(S), NEW r \in S, NEW n \in 0 .. Len(log)
  PROVE  SubSeq(Append(log, r), 1, n) = SubSeq(log, 1, n)
<1> DEFINE more == Append(log, r)
<1>1. /\ Len(log) \in Nat /\ more \in Seq(S)
      /\ \A i \in 1 .. Len(log) : log[i] \in S /\ more[i] = log[i]
  BY LenProperties, ElementOfSeq, AppendProperties
<1> HIDE DEF more
<1>2. /\ SubSeq(log, 1, n) \in Seq(S) /\ Len(SubSeq(log, 1, n)) = n
      /\ \A i \in 1 .. n : SubSeq(log, 1, n)[i] = log[i]
  BY <1>1, SubSeqProperties
<1>3. /\ SubSeq(more, 1, n) \in Seq(S) /\ Len(SubSeq(more, 1, n)) = n
      /\ \A i \in 1 .. n : SubSeq(more, 1, n)[i] = more[i]
  BY <1>1, SubSeqProperties
<1>4. \A i \in 1 .. n : SubSeq(more, 1, n)[i] = SubSeq(log, 1, n)[i]
  BY <1>1, <1>2, <1>3
<1> QED BY <1>2, <1>3, <1>4, SeqEqual DEF more

\* A record that is no decision leaves every history as it was.
LEMMA HistoryKept ==
  ASSUME NEW log, NEW more, NEW f, NEW st, Grown(log, more), HistorySound(st, log, f),
         ~IsEvent(more[Len(more)]) \/ more[Len(more)].finding # f
  PROVE  HistorySound(st, more, f)
<1>1. Mentions(more, f) = Mentions(log, f)
  <2>1. Mentions(more, f) = Mentions(log, f)
          \cup {m \in {i \in {Len(more)} : IsEvent(more[i])} : more[m].finding = f}
    BY GrownEvents
  <2> QED BY <2>1
<1>2. Overrides(more, f) = Overrides(log, f)
  <2>1. Overrides(more, f) = Overrides(log, f)
           \cup {m \in {i \in {Len(more)} : IsEvent(more[i])} :
                  more[m].action = "override" /\ more[m].finding = f}
    BY GrownEvents
  <2> QED BY <2>1
<1>3. \A k \in Overrides(log, f) : more[k] = log[k]
  BY DEF Overrides, Events, Grown
<1> QED BY <1>1, <1>2, <1>3 DEF HistorySound

\* One more record is an event, or is none.
LEMMA EventsGrown ==
  ASSUME NEW log, NEW more, Grown(log, more)
  PROVE  /\ Events(more) = Events(log) \cup {m \in {Len(more)} : IsEvent(more[m])}
         /\ \A m \in Events(log) : more[m] = log[m]
  BY DEF Events, Grown

\* A record that is no event leaves the histories.
LEMMA HistoriesKept ==
  ASSUME NEW log, NEW more, NEW findings, Grown(log, more), HistoriesSound(findings, log),
         ~IsEvent(more[Len(more)])
  PROVE  HistoriesSound(findings, more)
<1>1. Mentioned(more) = Mentioned(log)
  BY EventsGrown DEF Mentioned
<1>2. \A f \in DOMAIN findings : HistorySound(findings[f], log, f)
  BY DEF HistoriesSound
<1>3. \A f \in DOMAIN findings : HistorySound(findings[f], more, f)
  BY <1>2, HistoryKept
<1> QED BY <1>1, <1>3 DEF HistoriesSound

\* An event goes to the history of its finding.
LEMMA HistoriesTurned ==
  ASSUME NEW log, NEW more, NEW findings, NEW r, NEW f, Grown(log, more),
         HistoriesSound(findings, log), r = more[Len(more)], f = r.finding, IsEvent(r)
  PROVE  HistoriesSound(Put(findings, f, Touch(IF f \in DOMAIN findings THEN findings[f]
                                                ELSE NoState, Len(more), r)), more)
<1> DEFINE n == Len(more)
           old == IF f \in DOMAIN findings THEN findings[f] ELSE NoState
           new == Put(findings, f, Touch(old, n, r))
<1>1. /\ DOMAIN findings = Mentioned(log)
      /\ \A x \in DOMAIN findings : HistorySound(findings[x], log, x)
  BY DEF HistoriesSound
<1>2. HistorySound(old, log, f)
  <2>1. CASE f \in DOMAIN findings
    BY <1>1, <2>1
  <2>2. CASE f \notin DOMAIN findings
    <3>1. Mentions(log, f) = {} /\ Overrides(log, f) = {}
      BY <1>1, <2>2 DEF Mentions, Overrides, Mentioned
    <3>2. HistorySound(NoState, log, f)
      BY <3>1 DEF HistorySound, NoState, Latest
    <3> QED BY <2>2, <3>2
  <2> QED BY <2>1, <2>2
<1> HIDE DEF old
<1>3. HistorySound(Touch(old, n, r), more, f)
  BY <1>2, HistoryTurn
<1>4. DOMAIN new = Mentioned(log) \cup {f} /\ Mentioned(more) = Mentioned(log) \cup {f}
  <2>1. DOMAIN new = Mentioned(log) \cup {f}
    BY <1>1 DEF Put
  <2>2. Mentioned(more) = Mentioned(log) \cup {f}
    BY EventsGrown DEF Mentioned
  <2> QED BY <2>1, <2>2
<1>5. ASSUME NEW x \in DOMAIN findings, x # f
      PROVE  new[x] = findings[x] /\ HistorySound(findings[x], more, x)
  <2>1. HistorySound(findings[x], log, x)
    BY <1>1
  <2>2. HistorySound(findings[x], more, x)
    BY <1>5, <2>1, HistoryKept
  <2> QED BY <1>5, <2>2 DEF Put
<1>6. new[f] = Touch(old, n, r)
  BY DEF Put
<1> HIDE DEF new
<1>7. HistoriesSound(new, more)
  BY <1>1, <1>3, <1>4, <1>5, <1>6 DEF HistoriesSound
<1> QED BY <1>7 DEF new, old

\* One more record keeps what the audit says of its ledger true.
LEMMA ReplayTurnSound ==
  ASSUME NEW log, NEW more, NEW r, Grown(log, more), r = more[Len(more)],
         Replay(more) = ReplayStep(Replay(log), Len(more), r),
         SubSeq(more, 1, Len(log)) = log,
         \A m \in 1 .. Len(log) : SubSeq(more, 1, m - 1) = SubSeq(log, 1, m - 1),
         ReplaySound(Replay(log), log)
  PROVE  ReplaySound(Replay(more), more)
<1> DEFINE n == Len(more)
           was == Replay(log)
           f == r.finding
<1>1. more[n] = r /\ n = Len(log) + 1 /\ Len(log) \in Nat
  BY DEF Grown
<1>2. /\ Events(more) = Events(log) \cup {m \in {n} : IsEvent(r)}
      /\ Events(log) \subseteq 1 .. Len(log)
      /\ \A m \in Events(log) : more[m] = log[m]
  <2>1. Events(more) = Events(log) \cup {m \in {Len(more)} : IsEvent(more[m])}
    BY EventsGrown
  <2>2. \A m \in Events(log) : m \in 1 .. Len(log) /\ more[m] = log[m]
    BY <1>1 DEF Events, Grown
  <2> QED BY <1>1, <2>1, <2>2
<1>3. was = [findings |-> was.findings, scans |-> was.scans,
             requestIds |-> was.requestIds, violations |-> was.violations]
  BY DEF ReplaySound
<1>4. ASSUME NEW m \in Events(log)
      PROVE  SubSeq(more, 1, m - 1) = SubSeq(log, 1, m - 1)
  BY <1>2
<1>5. ViolationsSound(was.violations, more)
  BY <1>2, <1>4 DEF ReplaySound, ViolationsSound
<1>6. CASE ~IsEvent(r)
  <2>1. Replay(more) = [findings |-> was.findings, scans |-> was.scans \cup {n},
                        requestIds |-> was.requestIds, violations |-> was.violations]
    <3>1. Replay(more) = [was EXCEPT !.scans = @ \cup {n}]
      BY <1>6 DEF ReplayStep
    <3> HIDE DEF was
    <3> QED BY <1>3, <3>1
  <2>2. HistoriesSound(was.findings, more)
    BY <1>6, HistoriesKept DEF ReplaySound
  <2>3. DOMAIN was.requestIds = Rids(more)
    BY <1>2, <1>6 DEF ReplaySound, Rids
  <2> QED BY <1>5, <2>1, <2>2, <2>3 DEF ReplaySound
<1>7. CASE IsEvent(r)
  <2> DEFINE findings == Put(was.findings, f, Touch(StateOf(was, f), n, r))
             rids == IF r.rid \in DOMAIN was.requestIds THEN was.requestIds
                                                        ELSE Put(was.requestIds, r.rid, n)
             found == {[code |-> code, seq |-> n, finding |-> f] : code \in Codes(was, r)}
  <2>1. Replay(more) = [findings |-> findings, scans |-> was.scans, requestIds |-> rids,
                        violations |-> was.violations \cup found]
    <3>1. Replay(more) = [was EXCEPT !.findings = findings, !.requestIds = rids,
                                     !.violations = was.violations \cup found]
      BY <1>7 DEF ReplayStep, ReplayEvent
    <3> HIDE DEF was, findings, rids, found
    <3> DEFINE a == [findings |-> findings, scans |-> was.scans,
                     requestIds |-> was.requestIds, violations |-> was.violations]
               b == [findings |-> findings, scans |-> was.scans,
                     requestIds |-> rids, violations |-> was.violations]
    <3>2. [was EXCEPT !.findings = findings] = a
      BY <1>3
    <3>3. [a EXCEPT !.requestIds = rids] = b
      OBVIOUS
    <3>4. [[[was EXCEPT !.findings = findings] EXCEPT !.requestIds = rids]
             EXCEPT !.violations = was.violations \cup found]
           = [b EXCEPT !.violations = was.violations \cup found]
      BY <3>2, <3>3
    <3> QED BY <3>1, <3>4
  <2>2. HistoriesSound(findings, more)
    BY <1>7, HistoriesTurned DEF ReplaySound, StateOf
  <2>3. DOMAIN rids = Rids(more)
    <3>1. Rids(more) = Rids(log) \cup {r.rid}
      BY <1>1, <1>2, <1>7 DEF Rids
    <3>2. DOMAIN rids = DOMAIN was.requestIds \cup {r.rid}
      BY DEF Put
    <3>3. DOMAIN was.requestIds = Rids(log)
      BY DEF ReplaySound
    <3> QED BY <3>1, <3>2, <3>3
  <2>4. ViolationsSound(found, more)
    <3>1. SubSeq(more, 1, n - 1) = log
      BY <1>1
    <3>2. n \in Events(more)
      BY <1>2, <1>7
    <3> SUFFICES ASSUME NEW v \in found
                 PROVE  /\ v.seq \in Events(more) /\ v.finding = more[v.seq].finding
                        /\ v.code \in Codes(Replay(SubSeq(more, 1, v.seq - 1)), more[v.seq])
      BY DEF ViolationsSound
    <3>3. PICK code \in Codes(was, r) : v = [code |-> code, seq |-> n, finding |-> f]
      OBVIOUS
    <3>4. v.seq = n /\ v.finding = f /\ v.code \in Codes(was, r) /\ more[n] = r
      BY <1>1, <3>3
    <3> HIDE DEF found, n
    <3> QED BY <3>1, <3>2, <3>4
  <2>5. ViolationsSound(was.violations \cup found, more)
    BY <1>5, <2>4 DEF ViolationsSound
  <2> HIDE DEF findings, rids, found
  <2> QED BY <2>1, <2>2, <2>3, <2>5 DEF ReplaySound
<1> QED BY <1>6, <1>7

\* The audit, read off any ledger, says what the ledger says: which overrides of a
\* finding there are and whose, when it was mentioned last, which request ids are
\* taken, and a violation only where an event broke a rule.
THEOREM ReplayReads ==
  ASSUME NEW S, NEW log \in Seq(S)
  PROVE  ReplaySound(Replay(log), log)
<1> DEFINE G == {n \in 0 .. Len(log) : ReplaySound(Replay(SubSeq(log, 1, n)), SubSeq(log, 1, n))}
<1>1. Len(log) \in Nat
  BY LenProperties
<1>2. 0 \in G
  <2>1. SubSeq(log, 1, 0) = <<>>
    BY SubSeqEmpty
  <2>2. ReplaySound(ReplayStart, <<>>)
    <3> DEFINE start == ReplayStart
    <3>1. Events(<<>>) = {}
      BY DEF Events
    <3>2. start = [findings |-> <<>>, scans |-> {}, requestIds |-> <<>>, violations |-> {}]
      BY DEF ReplayStart
    <3>3. start = [findings |-> start.findings, scans |-> start.scans,
                   requestIds |-> start.requestIds, violations |-> start.violations]
      BY <3>2
    <3>4. HistoriesSound(start.findings, <<>>)
      <4>1. Mentioned(<<>>) = {}
        BY <3>1 DEF Mentioned
      <4>2. DOMAIN start.findings = {}
        BY <3>2
      <4> HIDE DEF start
      <4> QED BY <4>1, <4>2 DEF HistoriesSound
    <3>5. DOMAIN start.requestIds = Rids(<<>>)
      <4>1. Rids(<<>>) = {}
        BY <3>1 DEF Rids
      <4> QED BY <3>2, <4>1
    <3>6. ViolationsSound(start.violations, <<>>)
      BY <3>2 DEF ViolationsSound
    <3> HIDE DEF start
    <3>7. ReplaySound(start, <<>>)
      BY <3>3, <3>4, <3>5, <3>6 DEF ReplaySound
    <3> QED BY <3>7 DEF start
  <2>3. ReplaySound(Replay(SubSeq(log, 1, 0)), SubSeq(log, 1, 0))
    BY <2>1, <2>2, ReplayEmpty, Zenon
  <2> QED BY <1>1, <2>3
<1>3. ASSUME NEW n \in 0 .. Len(log) - 1, n \in G
      PROVE  n + 1 \in G
  <2> DEFINE before == SubSeq(log, 1, n)
             upto   == SubSeq(log, 1, n + 1)
             r      == log[n + 1]
  <2>1. /\ Grown(before, upto) /\ upto[Len(upto)] = r /\ Len(upto) = n + 1
        /\ before \in Seq(S) /\ Len(before) = n /\ r \in S /\ upto = Append(before, r)
    BY PrefixNext DEF Grown
  <2>2. ReplaySound(Replay(before), before)
    BY <1>3
  <2> HIDE DEF before, upto, r
  <2>3. Replay(upto) = ReplayStep(Replay(before), Len(upto), r)
    BY <2>1, ReplayAppend
  <2>4. SubSeq(upto, 1, Len(before)) = before
    <3>1. SubSeq(upto, 1, Len(before)) = SubSeq(before, 1, Len(before))
      BY <2>1, PrefixKept
    <3> QED BY <2>1, <3>1, SubSeqFull
  <2>5. \A m \in 1 .. Len(before) : SubSeq(upto, 1, m - 1) = SubSeq(before, 1, m - 1)
    BY <2>1, PrefixKept
  <2>6. ReplaySound(Replay(upto), upto)
    BY <2>1, <2>2, <2>3, <2>4, <2>5, ReplayTurnSound
  <2> QED BY <1>1, <2>6 DEF upto
<1>4. Len(log) \in G
  <2> DEFINE N == Len(log)
  <2>1. N \in Nat /\ 0 \in G /\ \A n \in 0 .. N - 1 : n \in G => n + 1 \in G
    BY <1>1, <1>2, <1>3
  <2> HIDE DEF G, N
  <2>2. \A n \in 0 .. N : n \in G
    BY <2>1, Positions, Zenon
  <2> QED BY <2>1, <2>2 DEF N
<1>5. SubSeq(log, 1, Len(log)) = log
  BY SubSeqFull
<1> QED BY <1>4, <1>5

-----------------------------------------------------------------------------
\* The daemons.

Prefix(n) == SubSeq(records, 1, n)

\* What api.act and api.target_act can ask for.
Decision ==
  {ev \in Event :
     /\ ev.action = "override" => ev.disposition \in Disposition
     /\ ev.action \in {"override"} \cup TargetLevel => ev.expected # NoSeq
     /\ ev.action = "approve" => ev.expected = NoSeq}

Phases == {"idle", "received", "new", "admitted", "recorded"}

HandlerType == [phase : Phases, ev : Decision \cup {NoEvent}, seq : Nat,
                client : Actor \cup {Nobody}]

WindowType == [rid : Nat, phase : {"open", "viewing", "waiting"}, view : Nat, recorded : Nat]

HandlersTyped ==
  /\ handler \in [Handler -> HandlerType]
  /\ \A h \in Handler : /\ handler[h].phase = "idle" <=> handler[h].ev = NoEvent
                        /\ handler[h].seq \in 0 .. Len(records)

WindowsTyped ==
  /\ window \in [Actor -> WindowType]
  /\ \A a \in Actor : /\ window[a].rid \in 0 .. issued
                      /\ window[a].view \in 0 .. Len(records)
                      /\ window[a].recorded \in 0 .. Len(records)

TypeInv ==
  /\ shift \in Shifts
  /\ records \in Seq(Decision \cup {ScanRecord})
  /\ up \in BOOLEAN
  /\ issued \in 0 .. MaxRequests
  /\ crashes \in 0 .. shift.crashes
  /\ HandlersTyped
  /\ WindowsTyped

\* Every entry of the idempotency map is of an event with that request id.
SeenSound ==
  \A rid \in DOMAIN seen :
    seen[rid] \in Events(records) /\ records[seen[rid]].rid = rid

\* A handler that recorded its event knows where.
RecordedSound ==
  \A h \in Handler : handler[h].phase = "recorded" =>
    handler[h].seq \in Events(records) /\ records[handler[h].seq] = handler[h].ev

\* Whoever a handler will answer waits for just that request, and for no other handler.
ClientsSound ==
  /\ \A h \in Handler : handler[h].client \in Actor =>
       /\ window[handler[h].client].phase = "waiting"
       /\ handler[h].ev # NoEvent /\ handler[h].ev.rid = window[handler[h].client].rid
  /\ \A h \in Handler : \A g \in Handler :
       handler[h].client = handler[g].client /\ handler[h].client # Nobody => h = g

AnswerInv ==
  /\ TypeInv /\ SeenSound /\ RecordedSound /\ ClientsSound /\ AnsweredWithItsRecord

\* Handlers of the two daemons, and when none is busy.
PhasesSound ==
  /\ ~up => \A h \in Handler : handler[h].phase = "idle"
  /\ Sdk => \A h \in Handler : handler[h].phase \in {"idle", "received"}
  /\ Serial => \A h \in Busy : \A g \in Busy : h = g

RecordedRids == {handler[h].ev.rid : h \in {g \in Handler : handler[g].phase = "recorded"}}

RidsKnown ==
  /\ up => Rids(records) \subseteq DOMAIN seen \cup RecordedRids
  /\ Serial => \A h \in Handler : handler[h].phase \in {"new", "admitted"} =>
       handler[h].ev.rid \notin Rids(records)

AdmittedOn(ev, log) ==
  \E m \in 0 .. Len(log) :
    /\ Serial => m = Len(log)
    /\ Admissible(DaemonFold(SubSeq(log, 1, m)), ev, FALSE)

AdmittedSound ==
  \A h \in Handler : handler[h].phase = "admitted" => AdmittedOn(handler[h].ev, records)

MemorySound == Sdk /\ up => memory = Memory(Replay(records))

\* Every event of the ledger was decided by what came before it.
Decided(ev, log) ==
  IF Sdk THEN Codes(Replay(log), ev) = {}
  ELSE /\ AdmittedOn(ev, log)
       /\ Serial => ev.rid \notin Rids(log)

EachDecided == \A n \in Events(records) : Decided(records[n], Prefix(n - 1))

DaemonInv ==
  /\ PhasesSound /\ RidsKnown /\ AdmittedSound /\ MemorySound /\ EachDecided

-----------------------------------------------------------------------------
(* The requests have their type.                                           *)

Log == Seq(Decision \cup {ScanRecord})

\* The bounds of a shift are numbers.
LEMMA ShiftTyped ==
  ASSUME shift \in Shifts
  PROVE  /\ MaxRequests \in Nat /\ MaxRecords \in Nat /\ shift.connections \in Nat \ {0}
         /\ shift.crashes \in Nat /\ shift.scans \in Nat
         /\ shift.daemon \in {"cva-ledgerd", "sdk"}
<1>1. Cardinality(Handler) \in Nat
  BY DaemonAssumption, FS_CardinalityType
<1> QED BY <1>1, DaemonAssumption DEF MaxRequests, MaxRecords

\* The folds of any ledger of decisions say what the ledger says.
LEMMA FoldsRead ==
  ASSUME NEW log \in Log
  PROVE  /\ FoldSound(WebFold(log), log, Reported, FALSE)
         /\ FoldSound(DaemonFold(log), log, {}, TRUE)
         /\ ReplaySound(Replay(log), log)
<1>1. \A n \in 1 .. Len(log) : log[n].action = "override" => log[n].disposition \in Disposition
  <2>1. \A n \in 1 .. Len(log) : log[n] \in Decision \cup {ScanRecord}
    BY ElementOfSeq DEF Log
  <2> QED BY <2>1 DEF Decision, ScanRecord
<1>2. DOMAIN Original = Reported /\ \A f \in DOMAIN Original : Original[f] \in Disposition
  BY DecisionsAssumption
<1>3. DOMAIN <<>> = {}
  OBVIOUS
<1>4. FoldSound(Fold(Original, FALSE, log), log, DOMAIN Original, FALSE)
  BY <1>1, <1>2, FoldReads DEF Log
<1>5. FoldSound(Fold(<<>>, TRUE, log), log, DOMAIN <<>>, TRUE)
  BY <1>1, <1>3, FoldReads DEF Log
<1>6. ReplaySound(Replay(log), log)
  BY ReplayReads DEF Log
<1> QED BY <1>2, <1>3, <1>4, <1>5, <1>6 DEF WebFold, DaemonFold

\* What the view a request is built from holds.
LEMMA ViewTyped ==
  ASSUME NEW log \in Log
  PROVE  LET view == WebFold(log) IN
         /\ DOMAIN view.findings = Reported
         /\ \A f \in Reported : view.findings[f].last \in Nat
         /\ \A t \in DOMAIN view.targets : view.targets[t].last \in Nat
         /\ DOMAIN view.approvable \subseteq Nat
<1> DEFINE view == WebFold(log)
<1>1. FoldSound(view, log, Reported, FALSE)
  BY FoldsRead
<1>2. Len(log) \in Nat
  BY LenProperties DEF Log
<1> HIDE DEF view
<1>3. DOMAIN view.findings = Reported
  BY <1>1 DEF FoldSound, FindingsSound, Findings
<1>4. ASSUME NEW f \in Reported PROVE view.findings[f].last \in Nat
  <2>1. FindingSound(view.findings[f], log, f)
    BY <1>1, <1>3 DEF FoldSound, FindingsSound
  <2> QED BY <1>2, <2>1 DEF FindingSound, Latest, OnFinding, Events
<1>5. ASSUME NEW t \in DOMAIN view.targets PROVE view.targets[t].last \in Nat
  <2>1. TargetSound(view.targets[t], log, t)
    BY <1>1 DEF FoldSound, TargetsSound
  <2> QED BY <1>2, <2>1 DEF TargetSound, Latest, OnTarget, ToTarget, Events
<1>6. DOMAIN view.approvable \subseteq Nat
  BY <1>1, <1>2 DEF FoldSound, RequestsSound, Asked
<1> QED BY <1>3, <1>4, <1>5, <1>6 DEF view

\* A request as a record with all of its fields.
Asking(a, rid, action, f, t, d, refs, expected) ==
  [actor |-> a, role |-> RoleOf[a], action |-> action, finding |-> f, target |-> t,
   disposition |-> d, refs |-> refs, expected |-> expected, rid |-> rid]

\* A request with fields of these types is a decision.
LEMMA AskingTyped ==
  ASSUME NEW a \in Actor, NEW rid \in 1 .. MaxRequests,
         NEW action \in WorkflowActions \cup {"approve"}, NEW f \in Finding, NEW t \in Target,
         NEW d \in Disposition \cup {NoDisposition}, NEW refs \in Nat \cup {NoSeq},
         NEW expected \in Nat \cup {NoSeq},
         action = "override" => d \in Disposition,
         action \in {"override"} \cup TargetLevel => expected # NoSeq,
         action = "approve" => expected = NoSeq
  PROVE  Asking(a, rid, action, f, t, d, refs, expected) \in Decision
<1> DEFINE ev == Asking(a, rid, action, f, t, d, refs, expected)
<1>1. RoleOf[a] \in DOMAIN RoleActions
  BY DaemonAssumption
<1>2. ev \in Event
  BY <1>1 DEF Asking, Event
<1>3. ev.action = action /\ ev.disposition = d /\ ev.expected = expected
  BY DEF Asking
<1> HIDE DEF ev
<1>4. ev \in Decision
  BY <1>2, <1>3 DEF Decision
<1> QED BY <1>4 DEF ev

\* What a client can ask for a finding is a decision.
LEMMA FindingRequestsTyped ==
  ASSUME NEW a \in Actor, NEW rid \in 1 .. MaxRequests, NEW log \in Log,
         NEW ev \in FindingRequests(a, rid, WebFold(log))
  PROVE  ev \in Decision /\ ev.rid = rid
<1> DEFINE view == WebFold(log)
<1>1. /\ DOMAIN view.approvable \subseteq Nat
      /\ \A f \in Reported : view.findings[f].last \in Nat
  BY ViewTyped
<1>2. PICK f \in Reported :
        \/ \E action \in {"assign", "acknowledge"} :
             ev = Base(a, rid, action, f, TargetOf[f])
        \/ \E d \in Choices :
             ev = [Base(a, rid, "override", f, TargetOf[f])
                     EXCEPT !.disposition = d, !.expected = view.findings[f].last]
        \/ \E n \in DOMAIN view.approvable :
             ev = [Base(a, rid, "approve", f, TargetOf[f]) EXCEPT !.refs = n]
        \/ \E action \in TargetLevel :
             ev = [Base(a, rid, action, f, TargetOf[f])
                     EXCEPT !.expected = view.findings[f].last]
  <2>1. PICK f \in Reported :
          ev \in LET last == view.findings[f].last
                     New(action) == Base(a, rid, action, f, TargetOf[f])
                 IN  {New(action) : action \in {"assign", "acknowledge"}}
                     \cup {[New("override") EXCEPT !.disposition = d, !.expected = last] :
                              d \in Choices}
                     \cup {[New("approve") EXCEPT !.refs = n] : n \in DOMAIN view.approvable}
                     \cup {[New(action) EXCEPT !.expected = last] : action \in TargetLevel}
    BY DEF FindingRequests, view
  <2> QED BY <2>1
<1> HIDE DEF view
<1>3. f \in Finding /\ TargetOf[f] \in Target
  BY DaemonAssumption DEF Finding
<1>4. CASE \E action \in {"assign", "acknowledge"} :
             ev = Base(a, rid, action, f, TargetOf[f])
  <2>1. PICK action \in {"assign", "acknowledge"} : ev = Base(a, rid, action, f, TargetOf[f])
    BY <1>4
  <2>2. ev = Asking(a, rid, action, f, TargetOf[f], NoDisposition, NoSeq, NoSeq)
    BY <2>1 DEF Base, Asking
  <2>3. /\ action \in WorkflowActions \cup {"approve"}
        /\ action \notin {"override", "approve"} \cup TargetLevel
    BY DEF WorkflowActions, TargetLevel
  <2>4. ev.rid = rid
    BY <2>2 DEF Asking
  <2> QED BY <1>3, <2>2, <2>3, <2>4, AskingTyped
<1>5. CASE \E d \in Choices :
             ev = [Base(a, rid, "override", f, TargetOf[f])
                     EXCEPT !.disposition = d, !.expected = view.findings[f].last]
  <2> DEFINE last == view.findings[f].last
  <2>1. PICK d \in Choices : ev = [Base(a, rid, "override", f, TargetOf[f])
                                     EXCEPT !.disposition = d, !.expected = last]
    BY <1>5
  <2>2. last \in Nat /\ last # NoSeq /\ d \in Disposition
    BY <1>1, DaemonAssumption DEF NoSeq
  <2> HIDE DEF last
  <2>3. ev = Asking(a, rid, "override", f, TargetOf[f], d, NoSeq, last)
    BY <2>1 DEF Base, Asking
  <2>4. "override" \in WorkflowActions \cup {"approve"}
    BY DEF WorkflowActions
  <2>5. ev.rid = rid
    BY <2>3 DEF Asking
  <2> QED BY <1>3, <2>2, <2>3, <2>4, <2>5, AskingTyped
<1>6. CASE \E n \in DOMAIN view.approvable :
             ev = [Base(a, rid, "approve", f, TargetOf[f]) EXCEPT !.refs = n]
  <2>1. PICK n \in DOMAIN view.approvable :
               ev = [Base(a, rid, "approve", f, TargetOf[f]) EXCEPT !.refs = n]
    BY <1>6
  <2>2. ev = Asking(a, rid, "approve", f, TargetOf[f], NoDisposition, n, NoSeq)
    BY <2>1 DEF Base, Asking
  <2>3. "approve" \notin {"override"} \cup TargetLevel /\ n \in Nat
    BY <1>1 DEF TargetLevel
  <2>4. ev.rid = rid
    BY <2>2 DEF Asking
  <2> QED BY <1>3, <2>2, <2>3, <2>4, AskingTyped
<1>7. CASE \E action \in TargetLevel :
             ev = [Base(a, rid, action, f, TargetOf[f])
                     EXCEPT !.expected = view.findings[f].last]
  <2> DEFINE last == view.findings[f].last
  <2>1. PICK action \in TargetLevel : ev = [Base(a, rid, action, f, TargetOf[f])
                                              EXCEPT !.expected = last]
    BY <1>7
  <2>2. last \in Nat /\ last # NoSeq
    BY <1>1 DEF NoSeq
  <2> HIDE DEF last
  <2>3. ev = Asking(a, rid, action, f, TargetOf[f], NoDisposition, NoSeq, last)
    BY <2>1 DEF Base, Asking
  <2>4. action \in WorkflowActions \cup {"approve"} /\ action \notin {"override", "approve"}
    BY DEF WorkflowActions, TargetLevel
  <2>5. ev.rid = rid
    BY <2>3 DEF Asking
  <2> QED BY <1>3, <2>2, <2>3, <2>4, <2>5, AskingTyped
<1> QED BY <1>2, <1>4, <1>5, <1>6, <1>7

\* What a client can ask for a target is a decision.
LEMMA TargetRequestsTyped ==
  ASSUME NEW a \in Actor, NEW rid \in 1 .. MaxRequests, NEW log \in Log,
         NEW ev \in TargetRequests(a, rid, WebFold(log))
  PROVE  ev \in Decision /\ ev.rid = rid
<1> DEFINE view == WebFold(log)
           Last(t) == IF t \in DOMAIN view.targets THEN view.targets[t].last ELSE 0
<1>1. /\ DOMAIN view.approvable \subseteq Nat
      /\ \A t : Last(t) \in Nat
  BY ViewTyped
<1>2. PICK t \in Target, f \in Finding :
        \/ ev = Base(a, rid, "acknowledge", f, t)
        \/ \E n \in DOMAIN view.approvable :
             ev = [Base(a, rid, "approve", f, t) EXCEPT !.refs = n]
        \/ \E action \in TargetLevel :
             ev = [Base(a, rid, action, f, t) EXCEPT !.expected = Last(t)]
  <2>1. PICK about \in Target \X Finding :
          ev \in LET t == about[1]
                     New(action) == Base(a, rid, action, about[2], t)
                     last == IF t \in DOMAIN view.targets THEN view.targets[t].last ELSE 0
                 IN  {New("acknowledge")}
                     \cup {[New("approve") EXCEPT !.refs = n] : n \in DOMAIN view.approvable}
                     \cup {[New(action) EXCEPT !.expected = last] : action \in TargetLevel}
    BY DEF TargetRequests, view
  <2>2. about[1] \in Target /\ about[2] \in Finding
    OBVIOUS
  <2> QED BY <2>1, <2>2
<1> HIDE DEF view, Last
<1>3. CASE ev = Base(a, rid, "acknowledge", f, t)
  <2>1. ev = Asking(a, rid, "acknowledge", f, t, NoDisposition, NoSeq, NoSeq)
    BY <1>3 DEF Base, Asking
  <2>2. /\ "acknowledge" \in WorkflowActions \cup {"approve"}
        /\ "acknowledge" \notin {"override", "approve"} \cup TargetLevel
    BY DEF WorkflowActions, TargetLevel
  <2>3. ev.rid = rid
    BY <2>1 DEF Asking
  <2> QED BY <2>1, <2>2, <2>3, AskingTyped
<1>4. CASE \E n \in DOMAIN view.approvable :
             ev = [Base(a, rid, "approve", f, t) EXCEPT !.refs = n]
  <2>1. PICK n \in DOMAIN view.approvable :
               ev = [Base(a, rid, "approve", f, t) EXCEPT !.refs = n]
    BY <1>4
  <2>2. ev = Asking(a, rid, "approve", f, t, NoDisposition, n, NoSeq)
    BY <2>1 DEF Base, Asking
  <2>3. "approve" \notin {"override"} \cup TargetLevel /\ n \in Nat
    BY <1>1 DEF TargetLevel
  <2>4. ev.rid = rid
    BY <2>2 DEF Asking
  <2> QED BY <2>2, <2>3, <2>4, AskingTyped
<1>5. CASE \E action \in TargetLevel :
             ev = [Base(a, rid, action, f, t) EXCEPT !.expected = Last(t)]
  <2> DEFINE last == Last(t)
  <2>1. PICK action \in TargetLevel : ev = [Base(a, rid, action, f, t) EXCEPT !.expected = last]
    BY <1>5
  <2>2. last \in Nat /\ last # NoSeq
    BY <1>1 DEF NoSeq
  <2> HIDE DEF last
  <2>3. ev = Asking(a, rid, action, f, t, NoDisposition, NoSeq, last)
    BY <2>1 DEF Base, Asking
  <2>4. action \in WorkflowActions \cup {"approve"} /\ action \notin {"override", "approve"}
    BY DEF WorkflowActions, TargetLevel
  <2>5. ev.rid = rid
    BY <2>3 DEF Asking
  <2> QED BY <2>2, <2>3, <2>4, <2>5, AskingTyped
<1> QED BY <1>2, <1>3, <1>4, <1>5

\* Whatever a person can ask for has its type, and is of that person.
LEMMA RequestsTyped ==
  ASSUME NEW a \in Actor, NEW rid \in 1 .. MaxRequests, NEW log \in Log,
         NEW ev \in Requests(a, rid, log)
  PROVE  ev \in Decision /\ ev.rid = rid
<1>1. ev \in FindingRequests(a, rid, WebFold(log)) \cup TargetRequests(a, rid, WebFold(log))
  BY DEF Requests
<1> QED BY <1>1, FindingRequestsTyped, TargetRequestsTyped

-----------------------------------------------------------------------------
(* A window that is told of a record finds its request there.              *)

\* A non-empty set of positions has a last one.
LEMMA Largest ==
  ASSUME NEW N \in Nat, NEW S, S \subseteq 1 .. N, S # {}
  PROVE  \E n \in S : \A m \in S : m <= n
<1> DEFINE G == {n \in 0 .. N : S \cap (1 .. n) = {} \/ \E k \in S : \A m \in S \cap (1 .. n) : m <= k}
<1>1. 0 \in G
  OBVIOUS
<1>2. ASSUME NEW n \in 0 .. N - 1, n \in G PROVE n + 1 \in G
  <2>1. CASE n + 1 \in S
    <3>1. \A m \in S \cap (1 .. n + 1) : m <= n + 1
      OBVIOUS
    <3> QED BY <2>1, <3>1
  <2>2. CASE n + 1 \notin S
    <3>1. S \cap (1 .. n + 1) = S \cap (1 .. n)
      BY <2>2
    <3> QED BY <1>2, <3>1
  <2> QED BY <2>1, <2>2
<1>3. \A n \in 0 .. N - 1 : n \in G => n + 1 \in G
  BY <1>2
<1>4. N \in G
  <2> HIDE DEF G
  <2>1. \A n \in 0 .. N : n \in G
    BY <1>1, <1>3, Positions, Zenon
  <2> QED BY <2>1
<1>5. S \cap (1 .. N) = S
  OBVIOUS
<1> QED BY <1>4, <1>5

\* A restart finds every request id of the ledger, and for each an event under it.
LEMMA RebuildSound ==
  ASSUME TypeInv
  PROVE  /\ DOMAIN Rebuild(records) = Rids(records)
         /\ \A rid \in DOMAIN Rebuild(records) :
              Rebuild(records)[rid] \in Events(records)
              /\ records[Rebuild(records)[rid]].rid = rid
<1> DEFINE At(rid) == {n \in 1 .. Len(records) : IsEvent(records[n]) /\ records[n].rid = rid}
<1>1. Rebuild(records) = [rid \in {r \in 1 .. MaxRequests : At(r) # {}} |->
                            CHOOSE n \in At(rid) : \A m \in At(rid) : m <= n]
  BY DEF Rebuild
<1>2. Len(records) \in Nat /\ \A n \in 1 .. Len(records) : records[n] \in Decision \cup {ScanRecord}
  BY LenProperties, ElementOfSeq DEF TypeInv
<1>3. {r \in 1 .. MaxRequests : At(r) # {}} = Rids(records)
  <2>1. \A n \in Events(records) : records[n].rid \in 1 .. MaxRequests
    BY <1>2 DEF Events, IsEvent, ScanRecord, Decision, Event
  <2> QED BY <2>1 DEF Rids, Events
<1>4. ASSUME NEW rid \in Rids(records)
      PROVE  (CHOOSE n \in At(rid) : \A m \in At(rid) : m <= n) \in At(rid)
  <2> DEFINE S == At(rid)
  <2>1. S \subseteq 1 .. Len(records) /\ S # {}
    BY <1>3
  <2> HIDE DEF S
  <2>2. \E n \in S : \A m \in S : m <= n
    BY <1>2, <2>1, Largest
  <2>3. (CHOOSE n \in S : \A m \in S : m <= n) \in S
    BY <2>2
  <2> QED BY <2>3 DEF S
<1>5. ASSUME NEW rid \in DOMAIN Rebuild(records)
      PROVE  Rebuild(records)[rid] \in At(rid)
  <2> DEFINE Pick(r) == CHOOSE n \in At(r) : \A m \in At(r) : m <= n
  <2>1. Rebuild(records) = [r \in Rids(records) |-> Pick(r)]
    BY <1>1, <1>3
  <2>2. \A r \in Rids(records) : Pick(r) \in At(r)
    BY <1>4
  <2> HIDE DEF At, Pick
  <2> QED BY <1>5, <2>1, <2>2
<1>6. DOMAIN Rebuild(records) = Rids(records)
  BY <1>1, <1>3
<1> QED BY <1>5, <1>6 DEF Events

\* The types do not depend on what a step changes.
LEMMA TypesStay ==
  ASSUME shift' = shift
  PROVE  /\ Decision' = Decision /\ HandlerType' = HandlerType
         /\ MaxRequests' = MaxRequests /\ Sdk' = Sdk /\ Serial' = Serial
  BY DEF Decision, Event, HandlerType, MaxRequests, Sdk, Serial

\* What a ledger holds, a longer one holds at the same places.
Kept ==
  /\ Len(records) \in Nat /\ Len(records') \in Nat /\ Len(records) <= Len(records')
  /\ \A n \in 1 .. Len(records) : records'[n] = records[n]

\* A ledger that does not change keeps its records.
LEMMA KeptSame ==
  ASSUME TypeInv, records' = records
  PROVE  Kept
  BY LenProperties DEF TypeInv, Kept

\* A ledger that grows by a record keeps the records it had.
LEMMA KeptGrown ==
  ASSUME TypeInv, NEW r \in Decision \cup {ScanRecord}, records' = Append(records, r)
  PROVE  /\ Kept /\ records' \in Seq(Decision \cup {ScanRecord})
         /\ Len(records') = Len(records) + 1 /\ records'[Len(records) + 1] = r
  BY LenProperties, AppendProperties DEF TypeInv, Kept

\* Events stay events.
LEMMA EventsKept ==
  ASSUME Kept
  PROVE  Events(records) \subseteq Events(records')
  BY DEF Kept, Events

\* The idempotency map stays right about a ledger that keeps its records.
LEMMA SeenKept ==
  ASSUME SeenSound, Kept, seen' = seen
  PROVE  SeenSound'
<1>1. Events(records) \subseteq Events(records')
  BY EventsKept
<1> QED BY <1>1 DEF SeenSound, Kept, Events

\* What a handler recorded stays where it is.
LEMMA RecordedKept ==
  ASSUME RecordedSound, Kept,
         \A h \in Handler : handler'[h].phase = "recorded" =>
           handler[h].phase = "recorded" /\ handler'[h].seq = handler[h].seq
           /\ handler'[h].ev = handler[h].ev
  PROVE  RecordedSound'
<1>1. Events(records) \subseteq Events(records')
  BY EventsKept
<1> QED BY <1>1 DEF RecordedSound, Kept, Events

\* What a window was told stays true.
LEMMA AnsweredKept ==
  ASSUME AnsweredWithItsRecord, TypeInv, Kept,
         \A a \in Actor : window'[a].recorded # 0 =>
           window'[a].recorded = window[a].recorded /\ window'[a].rid = window[a].rid
  PROVE  AnsweredWithItsRecord'
<1>1. ASSUME NEW a \in Actor, window'[a].recorded # 0
      PROVE  /\ IsEvent(records'[window'[a].recorded])
             /\ records'[window'[a].recorded].rid = window'[a].rid
  <2>1. window[a].recorded \in 1 .. Len(records)
    BY <1>1 DEF TypeInv, WindowsTyped, Kept
  <2>2. /\ IsEvent(records[window[a].recorded])
        /\ records[window[a].recorded].rid = window[a].rid
    BY <1>1 DEF AnsweredWithItsRecord
  <2> QED BY <1>1, <2>1, <2>2 DEF Kept
<1> QED BY <1>1 DEF AnsweredWithItsRecord

\* An answer, with the seq of a record or with none.
LEMMA AnswerStep ==
  ASSUME TypeInv, RecordedSound, ClientsSound, AnsweredWithItsRecord,
         NEW h \in Handler, NEW seq \in 0 .. Len(records'), Answer(h, seq),
         Kept, shift' = shift, issued' = issued,
         seq # 0 => IsEvent(records'[seq]) /\ records'[seq].rid = handler[h].ev.rid,
         handler[h].phase # "idle"
  PROVE  /\ HandlersTyped' /\ WindowsTyped'
         /\ RecordedSound' /\ ClientsSound' /\ AnsweredWithItsRecord'
<1>1. handler' = [handler EXCEPT ![h] = Idle]
      /\ window' = [a \in Actor |-> IF handler[h].client = a
                                      THEN [window[a] EXCEPT !.phase = "open",
                                                             !.recorded = seq]
                                      ELSE window[a]]
  BY DEF Answer
<1>2. HandlerType' = HandlerType
  BY TypesStay
<1>3. HandlersTyped'
  <2>1. Idle \in HandlerType
    BY DEF Idle, Phases, HandlerType
  <2>2. handler \in [Handler -> HandlerType]
    BY DEF TypeInv, HandlersTyped
  <2>3. handler' \in [Handler -> HandlerType]
    BY <1>1, <2>1, <2>2
  <2>4. ASSUME NEW g \in Handler
        PROVE  /\ handler'[g].phase = "idle" <=> handler'[g].ev = NoEvent
               /\ handler'[g].seq \in 0 .. Len(records')
    <3>1. CASE g = h
      <4>1. handler'[g] = Idle
        BY <1>1, <2>2, <3>1
      <4>2. Idle.phase = "idle" /\ Idle.ev = NoEvent /\ Idle.seq = 0
        BY DEF Idle
      <4> QED BY <4>1, <4>2 DEF Kept
    <3>2. CASE g # h
      <4>1. handler'[g] = handler[g]
        BY <1>1, <2>2, <3>2
      <4>2. (handler[g].phase = "idle" <=> handler[g].ev = NoEvent)
            /\ handler[g].seq \in 0 .. Len(records)
        BY DEF TypeInv, HandlersTyped
      <4> QED BY <4>1, <4>2 DEF Kept
    <3> QED BY <3>1, <3>2
  <2> QED BY <1>2, <2>3, <2>4 DEF HandlersTyped
<1>4. WindowsTyped'
  <2>1. ASSUME NEW a \in Actor
        PROVE  /\ window'[a] \in WindowType
               /\ window'[a].rid = window[a].rid /\ window'[a].view = window[a].view
               /\ window'[a].recorded \in {seq, window[a].recorded}
    <3>1. window[a] \in WindowType
      BY DEF TypeInv, WindowsTyped
    <3>2. window'[a] = IF handler[h].client = a
                         THEN [window[a] EXCEPT !.phase = "open", !.recorded = seq]
                         ELSE window[a]
      BY <1>1
    <3>3. seq \in Nat
      BY DEF Kept
    <3> QED BY <3>1, <3>2, <3>3 DEF WindowType
  <2>2. window' = [a \in Actor |-> window'[a]]
    BY <1>1
  <2> QED BY <2>1, <2>2 DEF TypeInv, WindowsTyped, Kept
<1>5. RecordedSound'
  BY <1>1, RecordedKept DEF Idle, TypeInv, HandlersTyped
<1>6. ClientsSound'
  <2>1. handler \in [Handler -> HandlerType]
    BY DEF TypeInv, HandlersTyped
  <2>2. handler'[h].client = Nobody /\ \A g \in Handler : g # h => handler'[g] = handler[g]
    BY <1>1, <2>1 DEF Idle
  <2>3. ASSUME NEW g \in Handler, handler'[g].client \in Actor
        PROVE  /\ g # h /\ handler'[g] = handler[g]
               /\ window'[handler[g].client] = window[handler[g].client]
    <3>1. g # h
      BY <2>2, <2>3, DaemonAssumption
    <3>2. handler[g].client # handler[h].client
      BY <2>2, <2>3, <3>1, DaemonAssumption DEF ClientsSound
    <3> QED BY <1>1, <2>2, <2>3, <3>1, <3>2
  <2>4. ASSUME NEW g \in Handler, NEW k \in Handler,
               handler'[g].client = handler'[k].client, handler'[g].client # Nobody
        PROVE  g = k
    BY <2>2, <2>4 DEF ClientsSound
  <2>5. ASSUME NEW g \in Handler, handler'[g].client \in Actor
        PROVE  /\ window'[handler'[g].client].phase = "waiting"
               /\ handler'[g].ev # NoEvent
               /\ handler'[g].ev.rid = window'[handler'[g].client].rid
    BY <2>3, <2>5 DEF ClientsSound
  <2> QED BY <2>4, <2>5 DEF ClientsSound
<1>7. ASSUME NEW a \in Actor, window'[a].recorded # 0
      PROVE  /\ IsEvent(records'[window'[a].recorded])
             /\ records'[window'[a].recorded].rid = window'[a].rid
  <2>1. CASE handler[h].client = a
    <3>1. window'[a].recorded = seq /\ window'[a].rid = window[a].rid
      <4>1. window[a] \in WindowType
        BY DEF TypeInv, WindowsTyped
      <4> QED BY <1>1, <2>1, <4>1 DEF WindowType
    <3>2. handler[h].ev.rid = window[a].rid
      BY <2>1 DEF ClientsSound
    <3> QED BY <1>7, <3>1, <3>2
  <2>2. CASE handler[h].client # a
    <3>1. window'[a] = window[a]
      BY <1>1, <2>2
    <3>2. window[a].recorded \in 1 .. Len(records)
      BY <1>7, <3>1 DEF TypeInv, WindowsTyped, Kept
    <3> QED BY <1>7, <3>1, <3>2 DEF AnsweredWithItsRecord, Kept
  <2> QED BY <2>1, <2>2
<1>8. AnsweredWithItsRecord'
  BY <1>7 DEF AnsweredWithItsRecord
<1> QED BY <1>3, <1>4, <1>5, <1>6, <1>8

\* One handler goes on.
LEMMA HandlerTurned ==
  ASSUME TypeInv, Kept, shift' = shift, NEW h \in Handler, NEW hd \in HandlerType,
         hd.phase = "idle" <=> hd.ev = NoEvent, hd.seq \in 0 .. Len(records'),
         handler' = [handler EXCEPT ![h] = hd]
  PROVE  HandlersTyped'
<1>1. HandlerType' = HandlerType
  BY TypesStay
<1>2. handler \in [Handler -> HandlerType]
  BY DEF TypeInv, HandlersTyped
<1>3. handler' \in [Handler -> HandlerType]
  BY <1>2
<1>4. ASSUME NEW g \in Handler
      PROVE  /\ handler'[g].phase = "idle" <=> handler'[g].ev = NoEvent
             /\ handler'[g].seq \in 0 .. Len(records')
  <2>1. CASE g = h
    BY <1>2, <2>1
  <2>2. CASE g # h
    <3>1. handler'[g] = handler[g]
      BY <1>2, <2>2
    <3>2. (handler[g].phase = "idle" <=> handler[g].ev = NoEvent)
          /\ handler[g].seq \in 0 .. Len(records)
      BY DEF TypeInv, HandlersTyped
    <3> QED BY <3>1, <3>2 DEF Kept
  <2> QED BY <2>1, <2>2
<1> QED BY <1>1, <1>3, <1>4 DEF HandlersTyped

\* No handler does anything.
LEMMA HandlersStay ==
  ASSUME TypeInv, Kept, shift' = shift, handler' = handler
  PROVE  HandlersTyped'
<1>1. HandlerType' = HandlerType
  BY TypesStay
<1>2. ASSUME NEW g \in Handler
      PROVE  handler[g].seq \in 0 .. Len(records')
  BY DEF TypeInv, HandlersTyped, Kept
<1> QED BY <1>1, <1>2 DEF TypeInv, HandlersTyped

\* One window goes on.
LEMMA WindowTurned ==
  ASSUME TypeInv, Kept, NEW a \in Actor, NEW w \in WindowType, issued' \in Nat,
         issued <= issued', w.rid <= issued', w.view <= Len(records'),
         w.recorded <= Len(records'), window' = [window EXCEPT ![a] = w]
  PROVE  WindowsTyped'
<1>1. window \in [Actor -> WindowType]
  BY DEF TypeInv, WindowsTyped
<1>2. window' \in [Actor -> WindowType]
  BY <1>1
<1>3. ASSUME NEW b \in Actor
      PROVE  /\ window'[b].rid \in 0 .. issued' /\ window'[b].view \in 0 .. Len(records')
             /\ window'[b].recorded \in 0 .. Len(records')
  <2>1. CASE b = a
    BY <1>1, <2>1 DEF Kept, WindowType
  <2>2. CASE b # a
    <3>1. window'[b] = window[b]
      BY <1>1, <2>2
    <3>2. /\ window[b].rid \in 0 .. issued /\ window[b].view \in 0 .. Len(records)
          /\ window[b].recorded \in 0 .. Len(records)
      BY DEF TypeInv, WindowsTyped
    <3>3. issued \in Nat
      BY ShiftTyped DEF TypeInv
    <3> QED BY <3>1, <3>2, <3>3 DEF Kept
  <2> QED BY <2>1, <2>2
<1> QED BY <1>2, <1>3 DEF WindowsTyped

\* No window does anything.
LEMMA WindowsStay ==
  ASSUME TypeInv, Kept, issued' = issued, window' = window
  PROVE  WindowsTyped'
<1>1. ASSUME NEW b \in Actor
      PROVE  /\ window[b].rid \in 0 .. issued /\ window[b].view \in 0 .. Len(records')
             /\ window[b].recorded \in 0 .. Len(records')
  BY DEF TypeInv, WindowsTyped, Kept
<1> QED BY <1>1 DEF TypeInv, WindowsTyped

\* Who is answered, and for what, stays sound while no handler changes its client and
\* the windows that wait go on waiting.
LEMMA ClientsKept ==
  ASSUME ClientsSound,
         \A h \in Handler : handler'[h].client # Nobody =>
           handler'[h].client = handler[h].client /\ handler'[h].ev = handler[h].ev,
         \A a \in Actor : (\E h \in Handler : handler'[h].client = a) =>
           (window[a].phase = "waiting" =>
              window'[a].phase = "waiting" /\ window'[a].rid = window[a].rid)
  PROVE  ClientsSound'
<1>1. ASSUME NEW h \in Handler, handler'[h].client \in Actor
      PROVE  /\ window'[handler'[h].client].phase = "waiting"
             /\ handler'[h].ev # NoEvent
             /\ handler'[h].ev.rid = window'[handler'[h].client].rid
  <2>1. handler'[h].client # Nobody
    BY <1>1, DaemonAssumption
  <2> QED BY <1>1, <2>1 DEF ClientsSound
<1>2. ASSUME NEW g \in Handler, NEW k \in Handler,
             handler'[g].client = handler'[k].client, handler'[g].client # Nobody
      PROVE  g = k
  BY <1>2 DEF ClientsSound
<1> QED BY <1>1, <1>2 DEF ClientsSound

\* No window was told anything at first.
LEMMA AnswerInit == Init => AnswerInv
<1> SUFFICES ASSUME Init PROVE AnswerInv
  OBVIOUS
<1>1. shift \in Shifts /\ records = <<>> /\ up = TRUE /\ seen = <<>> /\ issued = 0 /\ crashes = 0
  BY DEF Init
<1>2. handler = [h \in Handler |-> Idle]
  BY DEF Init
<1>3. window = [a \in Actor |-> [rid |-> 0, phase |-> "open", view |-> 0, recorded |-> 0]]
  BY DEF Init
<1>4. Len(records) = 0 /\ records \in Seq(Decision \cup {ScanRecord})
  BY <1>1
<1>5. HandlersTyped
  <2>1. Idle \in HandlerType /\ Idle.phase = "idle" /\ Idle.ev = NoEvent /\ Idle.seq = 0
    BY DEF Idle, HandlerType, Phases
  <2> QED BY <1>2, <1>4, <2>1 DEF HandlersTyped
<1>6. WindowsTyped
  BY <1>1, <1>3, <1>4 DEF WindowsTyped, WindowType
<1>7. TypeInv
  BY <1>1, <1>4, <1>5, <1>6, ShiftTyped DEF TypeInv
<1>8. SeenSound
  BY <1>1 DEF SeenSound
<1>9. RecordedSound
  BY <1>2 DEF RecordedSound, Idle
<1>10. ClientsSound
  BY <1>2, DaemonAssumption DEF ClientsSound, Idle
<1>11. AnsweredWithItsRecord
  BY <1>3 DEF AnsweredWithItsRecord
<1> QED BY <1>7, <1>8, <1>9, <1>10, <1>11 DEF AnswerInv

\* The rest of the typing, for every step.
LEMMA TypeRest ==
  ASSUME TypeInv, shift' = shift, records' \in Seq(Decision \cup {ScanRecord}), up' \in BOOLEAN,
         issued' \in 0 .. MaxRequests, crashes' \in 0 .. shift.crashes,
         HandlersTyped', WindowsTyped'
  PROVE  TypeInv'
<1>1. Decision' = Decision /\ MaxRequests' = MaxRequests
  BY TypesStay
<1> QED BY <1>1 DEF TypeInv

\* A client reads the ledger.
LEMMA AnswerView ==
  ASSUME AnswerInv, NEW a \in Actor, View(a)
  PROVE  AnswerInv'
<1>1. /\ shift' = shift /\ records' = records /\ up' = up /\ seen' = seen /\ handler' = handler
      /\ issued' = issued /\ crashes' = crashes /\ window[a].phase = "open"
  BY DEF View
<1>2. TypeInv /\ SeenSound /\ RecordedSound /\ ClientsSound /\ AnsweredWithItsRecord
  BY DEF AnswerInv
<1>3. Kept
  BY <1>1, <1>2, KeptSame
<1> DEFINE w == [rid |-> window[a].rid, phase |-> "viewing", view |-> Len(records),
                 recorded |-> 0]
<1>4. window' = [window EXCEPT ![a] = w]
  BY DEF View
<1>5. window[a].rid \in Nat /\ window[a].rid <= issued /\ issued \in Nat
      /\ window \in [Actor -> WindowType]
  BY <1>2, ShiftTyped DEF TypeInv, WindowsTyped, WindowType
<1>6. w \in WindowType /\ w.rid = window[a].rid /\ w.view = Len(records) /\ w.recorded = 0
  BY <1>3, <1>5 DEF WindowType, Kept
<1> HIDE DEF w
<1>7. WindowsTyped'
  <2>1. /\ issued' \in Nat /\ issued <= issued' /\ w.rid <= issued'
        /\ w.view <= Len(records') /\ w.recorded <= Len(records')
    BY <1>1, <1>3, <1>5, <1>6 DEF Kept
  <2> QED BY <1>2, <1>3, <1>4, <1>6, <2>1, WindowTurned
<1>8. TypeInv'
  BY <1>1, <1>2, <1>3, <1>7, HandlersStay, TypeRest DEF TypeInv
<1>9. SeenSound' /\ RecordedSound'
  BY <1>1, <1>2, <1>3, SeenKept, RecordedKept
<1>10. \A b \in Actor : b # a => window'[b] = window[b]
  BY <1>4, <1>5
<1>11. ClientsSound'
  BY <1>1, <1>2, <1>10, ClientsKept
<1>12. AnsweredWithItsRecord'
  BY <1>2, <1>3, <1>4, <1>5, <1>6, <1>10, AnsweredKept
<1> QED BY <1>8, <1>9, <1>11, <1>12 DEF AnswerInv

\* A request is turned away at the pool of connections.
LEMMA AnswerTurnAway ==
  ASSUME AnswerInv, NEW a \in Actor, TurnAway(a)
  PROVE  AnswerInv'
<1>1. /\ shift' = shift /\ records' = records /\ up' = up /\ seen' = seen /\ handler' = handler
      /\ issued' = issued /\ crashes' = crashes /\ window[a].phase = "viewing"
  BY DEF TurnAway, Viewing
<1>2. TypeInv /\ SeenSound /\ RecordedSound /\ ClientsSound /\ AnsweredWithItsRecord
  BY DEF AnswerInv
<1>3. Kept
  BY <1>1, <1>2, KeptSame
<1> DEFINE w == [[window[a] EXCEPT !.phase = "open"] EXCEPT !.view = 0]
<1>4. window' = [window EXCEPT ![a] = w]
  BY DEF TurnAway
<1>5. window[a] \in WindowType /\ window[a].rid <= issued /\ issued \in Nat
      /\ window \in [Actor -> WindowType] /\ window[a].recorded <= Len(records)
  BY <1>2, ShiftTyped DEF TypeInv, WindowsTyped, WindowType
<1>6. w \in WindowType /\ w.rid = window[a].rid /\ w.view = 0
      /\ w.recorded = window[a].recorded
  BY <1>5 DEF WindowType
<1> HIDE DEF w
<1>7. WindowsTyped'
  <2>1. /\ issued' \in Nat /\ issued <= issued' /\ w.rid <= issued'
        /\ w.view <= Len(records') /\ w.recorded <= Len(records')
    BY <1>1, <1>3, <1>5, <1>6 DEF Kept
  <2> QED BY <1>2, <1>3, <1>4, <1>6, <2>1, WindowTurned
<1>8. TypeInv'
  BY <1>1, <1>2, <1>3, <1>7, HandlersStay, TypeRest DEF TypeInv
<1>9. SeenSound' /\ RecordedSound'
  BY <1>1, <1>2, <1>3, SeenKept, RecordedKept
<1>10. \A b \in Actor : b # a => window'[b] = window[b]
  BY <1>4, <1>5
<1>11. ClientsSound'
  BY <1>1, <1>2, <1>10, ClientsKept
<1>12. AnsweredWithItsRecord'
  BY <1>2, <1>3, <1>4, <1>5, <1>6, <1>10, AnsweredKept
<1> QED BY <1>8, <1>9, <1>11, <1>12 DEF AnswerInv

\* A request goes to a handler that is free.
LEMMA AnswerSend ==
  ASSUME AnswerInv, NEW a \in Actor, Send(a)
  PROVE  AnswerInv'
<1>1. /\ shift' = shift /\ records' = records /\ up' = up /\ seen' = seen
      /\ crashes' = crashes /\ window[a].phase = "viewing"
  BY DEF Send, Viewing
<1>2. TypeInv /\ SeenSound /\ RecordedSound /\ ClientsSound /\ AnsweredWithItsRecord
  BY DEF AnswerInv
<1>3. Kept
  BY <1>1, <1>2, KeptSame
<1>4. window[a] \in WindowType /\ window[a].rid \in 0 .. issued /\ issued \in 0 .. MaxRequests
      /\ window \in [Actor -> WindowType] /\ handler \in [Handler -> HandlerType]
      /\ window[a].view \in 0 .. Len(records) /\ MaxRequests \in Nat
  BY <1>2, ShiftTyped DEF TypeInv, WindowsTyped, HandlersTyped
<1> DEFINE Made(rid) == Requests(a, rid, SubSeq(records, 1, window[a].view))
           Sent(rid, h, ev) ==
             /\ issued' = IF rid > issued THEN rid ELSE issued
             /\ handler' = [handler EXCEPT ![h] = [phase |-> "received", ev |-> ev, seq |-> 0,
                                                   client |-> a]]
             /\ window' = [window EXCEPT ![a] = [rid |-> rid, phase |-> "waiting", view |-> 0,
                                                 recorded |-> 0]]
<1>page. PICK rid \in PageIds(a) : \E h \in Handler \ Busy : \E ev \in Made(rid) : Sent(rid, h, ev)
  BY DEF Send
<1>line. PICK h \in Handler \ Busy : \E ev \in Made(rid) : Sent(rid, h, ev)
  BY <1>page
<1>5. PICK ev \in Made(rid) : Sent(rid, h, ev)
  BY <1>line
<1>6. rid \in 1 .. MaxRequests /\ issued' \in 0 .. MaxRequests /\ issued <= issued'
      /\ rid <= issued'
  <2>1. rid \in 1 .. MaxRequests
    BY <1>4 DEF PageIds
  <2> QED BY <1>4, <1>5, <2>1
<1>7. ev \in Decision /\ ev.rid = rid /\ ev # NoEvent
  <2>1. SubSeq(records, 1, window[a].view) \in Log
    BY <1>2, <1>4, SubSeqProperties DEF TypeInv, Log
  <2>2. ev \in Decision /\ ev.rid = rid
    BY <1>6, <2>1, RequestsTyped
  <2>3. NoEvent \notin Decision
    BY DEF NoEvent, Decision, Event, WorkflowActions
  <2> QED BY <2>2, <2>3
<1> DEFINE hd == [phase |-> "received", ev |-> ev, seq |-> 0, client |-> a]
           w  == [rid |-> rid, phase |-> "waiting", view |-> 0, recorded |-> 0]
<1>8. /\ hd \in HandlerType /\ hd.phase = "received" /\ hd.ev = ev /\ hd.seq = 0 /\ hd.client = a
      /\ w \in WindowType /\ w.phase = "waiting" /\ w.rid = rid /\ w.view = 0 /\ w.recorded = 0
  BY <1>6, <1>7 DEF HandlerType, Phases, WindowType
<1>9. handler' = [handler EXCEPT ![h] = hd] /\ window' = [window EXCEPT ![a] = w]
  BY <1>5
<1> HIDE DEF hd, w
<1>10. /\ handler'[h] = hd /\ window'[a] = w
       /\ \A g \in Handler : g # h => handler'[g] = handler[g]
       /\ \A b \in Actor : b # a => window'[b] = window[b]
  BY <1>4, <1>9
<1>11. HandlersTyped'
  <2>1. (hd.phase = "idle" <=> hd.ev = NoEvent) /\ hd.seq \in 0 .. Len(records')
    BY <1>3, <1>7, <1>8 DEF Kept
  <2> QED BY <1>1, <1>2, <1>3, <1>8, <1>9, <2>1, HandlerTurned
<1>12. WindowsTyped'
  <2>1. /\ issued' \in Nat /\ issued <= issued' /\ w.rid <= issued'
        /\ w.view <= Len(records') /\ w.recorded <= Len(records')
    BY <1>1, <1>3, <1>4, <1>6, <1>8 DEF Kept
  <2> QED BY <1>2, <1>3, <1>8, <1>9, <2>1, WindowTurned
<1>13. TypeInv'
  BY <1>1, <1>2, <1>6, <1>11, <1>12, TypeRest DEF TypeInv
<1>14. SeenSound'
  BY <1>1, <1>2, <1>3, SeenKept
<1>15. RecordedSound'
  <2>1. \A g \in Handler : handler'[g].phase = "recorded" => g # h /\ handler'[g] = handler[g]
    BY <1>8, <1>10
  <2> QED BY <1>2, <1>3, <2>1, RecordedKept
<1>16. ClientsSound'
  <2>1. \A g \in Handler : handler[g].client # a
    BY <1>1, <1>2 DEF ClientsSound
  <2>2. ASSUME NEW g \in Handler, handler'[g].client \in Actor
        PROVE  /\ window'[handler'[g].client].phase = "waiting"
               /\ handler'[g].ev # NoEvent
               /\ handler'[g].ev.rid = window'[handler'[g].client].rid
    <3>1. CASE g = h
      BY <1>7, <1>8, <1>10, <3>1
    <3>2. CASE g # h
      <4>1. handler'[g] = handler[g] /\ handler[g].client # a
        BY <1>10, <2>1, <3>2
      <4>2. window'[handler[g].client] = window[handler[g].client]
        BY <1>10, <2>2, <4>1
      <4> QED BY <1>2, <2>2, <4>1, <4>2 DEF ClientsSound
    <3> QED BY <3>1, <3>2
  <2>3. ASSUME NEW g \in Handler, NEW k \in Handler,
               handler'[g].client = handler'[k].client, handler'[g].client # Nobody
        PROVE  g = k
    BY <1>2, <1>8, <1>10, <2>1, <2>3 DEF ClientsSound
  <2> QED BY <2>2, <2>3 DEF ClientsSound
<1>17. AnsweredWithItsRecord'
  BY <1>2, <1>3, <1>8, <1>10, AnsweredKept
<1> QED BY <1>13, <1>14, <1>15, <1>16, <1>17 DEF AnswerInv

\* A client stops waiting; the handler has nobody to answer any more.
LEMMA AnswerTimeOut ==
  ASSUME AnswerInv, NEW a \in Actor, TimeOut(a)
  PROVE  AnswerInv'
<1>1. /\ shift' = shift /\ records' = records /\ up' = up /\ seen' = seen
      /\ issued' = issued /\ crashes' = crashes
  BY DEF TimeOut
<1>2. TypeInv /\ SeenSound /\ RecordedSound /\ ClientsSound /\ AnsweredWithItsRecord
  BY DEF AnswerInv
<1>3. Kept
  BY <1>1, <1>2, KeptSame
<1>4. window[a] \in WindowType /\ window[a].rid <= issued /\ issued \in Nat
      /\ window \in [Actor -> WindowType] /\ handler \in [Handler -> HandlerType]
      /\ window[a].recorded <= Len(records) /\ window[a].view <= Len(records)
  BY <1>2, ShiftTyped DEF TypeInv, WindowsTyped, WindowType, HandlersTyped
<1> DEFINE w == [window[a] EXCEPT !.phase = "open"]
<1>5. window' = [window EXCEPT ![a] = w]
  BY DEF TimeOut
<1>6. w \in WindowType /\ w.rid = window[a].rid /\ w.view = window[a].view
      /\ w.recorded = window[a].recorded
  BY <1>4 DEF WindowType
<1> HIDE DEF w
<1>7. window'[a] = w /\ \A b \in Actor : b # a => window'[b] = window[b]
  BY <1>4, <1>5
<1>8. handler' = [h \in Handler |-> IF handler[h].client = a
                                     THEN [handler[h] EXCEPT !.client = Nobody]
                                     ELSE handler[h]]
  BY DEF TimeOut
<1>9. ASSUME NEW h \in Handler
      PROVE  /\ handler'[h] \in HandlerType /\ handler'[h].phase = handler[h].phase
             /\ handler'[h].ev = handler[h].ev /\ handler'[h].seq = handler[h].seq
             /\ handler'[h].client # Nobody =>
                  handler'[h].client = handler[h].client /\ handler[h].client # a
  <2>1. handler[h] \in HandlerType
    BY <1>4
  <2>2. CASE handler[h].client = a
    BY <1>8, <2>1, <2>2 DEF HandlerType
  <2>3. CASE handler[h].client # a
    BY <1>8, <2>1, <2>3
  <2> QED BY <2>2, <2>3
<1>10. HandlersTyped'
  <2>1. HandlerType' = HandlerType
    BY <1>1, TypesStay
  <2>2. handler' \in [Handler -> HandlerType]
    BY <1>8, <1>9
  <2>3. ASSUME NEW h \in Handler
        PROVE  (handler'[h].phase = "idle" <=> handler'[h].ev = NoEvent)
               /\ handler'[h].seq \in 0 .. Len(records')
    <3>1. (handler[h].phase = "idle" <=> handler[h].ev = NoEvent)
          /\ handler[h].seq \in 0 .. Len(records)
      BY <1>2 DEF TypeInv, HandlersTyped
    <3> QED BY <1>1, <1>9, <3>1
  <2> QED BY <2>1, <2>2, <2>3 DEF HandlersTyped
<1>11. WindowsTyped'
  <2>1. /\ issued' \in Nat /\ issued <= issued' /\ w.rid <= issued'
        /\ w.view <= Len(records') /\ w.recorded <= Len(records')
    BY <1>1, <1>3, <1>4, <1>6 DEF Kept
  <2> QED BY <1>2, <1>3, <1>5, <1>6, <2>1, WindowTurned
<1>12. TypeInv'
  BY <1>1, <1>2, <1>10, <1>11, TypeRest DEF TypeInv
<1>13. SeenSound'
  BY <1>1, <1>2, <1>3, SeenKept
<1>14. RecordedSound'
  BY <1>2, <1>3, <1>9, RecordedKept
<1>15. ClientsSound'
  <2>1. \A h \in Handler : handler'[h].client # Nobody =>
          handler'[h].client = handler[h].client /\ handler'[h].ev = handler[h].ev
    BY <1>9
  <2>2. \A b \in Actor : (\E h \in Handler : handler'[h].client = b) => b # a
    BY <1>9, DaemonAssumption
  <2> QED BY <1>2, <1>7, <2>1, <2>2, ClientsKept
<1>16. AnsweredWithItsRecord'
  BY <1>2, <1>3, <1>6, <1>7, AnsweredKept
<1> QED BY <1>12, <1>13, <1>14, <1>15, <1>16 DEF AnswerInv

\* A handler goes on to its next phase.
LEMMA AnswerPhase ==
  ASSUME AnswerInv, NEW h \in Handler, NEW phase \in {"new", "admitted"},
         handler[h].phase # "idle", handler' = [handler EXCEPT ![h].phase = phase],
         UNCHANGED <<shift, records, up, seen, window, issued, crashes>>
  PROVE  AnswerInv'
<1>1. /\ shift' = shift /\ records' = records /\ up' = up /\ seen' = seen /\ window' = window
      /\ issued' = issued /\ crashes' = crashes
  OBVIOUS
<1>2. TypeInv /\ SeenSound /\ RecordedSound /\ ClientsSound /\ AnsweredWithItsRecord
  BY DEF AnswerInv
<1>3. Kept
  BY <1>1, <1>2, KeptSame
<1>4. handler[h] \in HandlerType /\ handler \in [Handler -> HandlerType]
      /\ handler[h].ev # NoEvent /\ handler[h].seq \in 0 .. Len(records)
  BY <1>2 DEF TypeInv, HandlersTyped
<1> DEFINE hd == [handler[h] EXCEPT !.phase = phase]
<1>5. hd \in HandlerType /\ hd.phase = phase /\ hd.ev = handler[h].ev
      /\ hd.seq = handler[h].seq /\ hd.client = handler[h].client
  BY <1>4 DEF HandlerType, Phases
<1>6. handler' = [handler EXCEPT ![h] = hd]
  OBVIOUS
<1> HIDE DEF hd
<1>7. handler'[h] = hd /\ \A g \in Handler : g # h => handler'[g] = handler[g]
  BY <1>4, <1>6
<1>8. HandlersTyped'
  <2>1. (hd.phase = "idle" <=> hd.ev = NoEvent) /\ hd.seq \in 0 .. Len(records')
    BY <1>1, <1>4, <1>5
  <2> QED BY <1>1, <1>2, <1>3, <1>5, <1>6, <2>1, HandlerTurned
<1>9. TypeInv'
  BY <1>1, <1>2, <1>3, <1>8, WindowsStay, TypeRest DEF TypeInv
<1>10. SeenSound'
  BY <1>1, <1>2, <1>3, SeenKept
<1>11. RecordedSound'
  <2>1. \A g \in Handler : handler'[g].phase = "recorded" => g # h /\ handler'[g] = handler[g]
    BY <1>5, <1>7
  <2> QED BY <1>2, <1>3, <2>1, RecordedKept
<1>12. ClientsSound'
  <2>1. \A g \in Handler : handler'[g].client = handler[g].client
                           /\ handler'[g].ev = handler[g].ev
    BY <1>5, <1>7
  <2> QED BY <1>1, <1>2, <2>1, ClientsKept
<1>13. AnsweredWithItsRecord'
  BY <1>1, <1>2, <1>3, AnsweredKept
<1> QED BY <1>9, <1>10, <1>11, <1>12, <1>13 DEF AnswerInv

\* A retry is answered from the map, with the record it names.
LEMMA AnswerLookUp ==
  ASSUME AnswerInv, NEW h \in Handler, LookUp(h)
  PROVE  AnswerInv'
<1>1. /\ shift' = shift /\ records' = records /\ up' = up /\ seen' = seen
      /\ issued' = issued /\ crashes' = crashes /\ handler[h].phase = "received"
  BY DEF LookUp
<1>2. TypeInv /\ SeenSound /\ RecordedSound /\ ClientsSound /\ AnsweredWithItsRecord
  BY DEF AnswerInv
<1>3. Kept
  BY <1>1, <1>2, KeptSame
<1>4. CASE handler[h].ev.rid \in DOMAIN seen
  <2> DEFINE seq == seen[handler[h].ev.rid]
  <2>1. Answer(h, seq)
    BY <1>4 DEF LookUp
  <2>2. seq \in 0 .. Len(records') /\ IsEvent(records'[seq]) /\ records'[seq].rid = handler[h].ev.rid
    BY <1>1, <1>2, <1>3, <1>4 DEF SeenSound, Events, Kept
  <2> HIDE DEF seq
  <2>3. HandlersTyped' /\ WindowsTyped' /\ RecordedSound' /\ ClientsSound' /\ AnsweredWithItsRecord'
    BY <1>1, <1>2, <1>3, <2>1, <2>2, AnswerStep
  <2> QED BY <1>1, <1>2, <1>3, <2>3, SeenKept, TypeRest DEF AnswerInv, TypeInv
<1>5. CASE handler[h].ev.rid \notin DOMAIN seen
  <2>1. handler' = [handler EXCEPT ![h].phase = "new"] /\ window' = window
    BY <1>5 DEF LookUp
  <2> QED BY <1>1, <2>1, AnswerPhase
<1> QED BY <1>4, <1>5

\* The workflow is checked.
LEMMA AnswerCheck ==
  ASSUME AnswerInv, NEW h \in Handler, Check(h)
  PROVE  AnswerInv'
<1>1. /\ shift' = shift /\ records' = records /\ up' = up /\ seen' = seen
      /\ issued' = issued /\ crashes' = crashes /\ handler[h].phase = "new"
  BY DEF Check
<1>2. TypeInv /\ SeenSound /\ RecordedSound /\ ClientsSound /\ AnsweredWithItsRecord
  BY DEF AnswerInv
<1>3. Kept
  BY <1>1, <1>2, KeptSame
<1>4. CASE Answer(h, 0)
  <2>1. HandlersTyped' /\ WindowsTyped' /\ RecordedSound' /\ ClientsSound' /\ AnsweredWithItsRecord'
    <3>1. 0 \in 0 .. Len(records')
      BY <1>3 DEF Kept
    <3> QED BY <1>1, <1>2, <1>3, <1>4, <3>1, AnswerStep
  <2> QED BY <1>1, <1>2, <1>3, <2>1, SeenKept, TypeRest DEF AnswerInv, TypeInv
<1>5. CASE handler' = [handler EXCEPT ![h].phase = "admitted"] /\ window' = window
  BY <1>1, <1>5, AnswerPhase
<1> QED BY <1>4, <1>5 DEF Check

\* The event is appended, and its handler keeps the seq.
LEMMA AnswerAppendEvent ==
  ASSUME AnswerInv, NEW h \in Handler, AppendEvent(h)
  PROVE  AnswerInv'
<1>1. /\ shift' = shift /\ up' = up /\ seen' = seen /\ window' = window
      /\ issued' = issued /\ crashes' = crashes /\ handler[h].phase = "admitted"
      /\ records' = Append(records, handler[h].ev)
  BY DEF AppendEvent
<1>2. TypeInv /\ SeenSound /\ RecordedSound /\ ClientsSound /\ AnsweredWithItsRecord
  BY DEF AnswerInv
<1>3. handler[h] \in HandlerType /\ handler \in [Handler -> HandlerType]
      /\ handler[h].ev # NoEvent /\ handler[h].ev \in Decision
  <2>1. handler[h] \in HandlerType /\ handler \in [Handler -> HandlerType]
        /\ handler[h].ev # NoEvent
    BY <1>1, <1>2 DEF TypeInv, HandlersTyped
  <2> QED BY <2>1 DEF HandlerType
<1>4. /\ Kept /\ records' \in Seq(Decision \cup {ScanRecord})
      /\ Len(records') = Len(records) + 1 /\ records'[Len(records) + 1] = handler[h].ev
  BY <1>1, <1>2, <1>3, KeptGrown
<1> DEFINE hd == [[handler[h] EXCEPT !.phase = "recorded"] EXCEPT !.seq = Len(records) + 1]
<1>5. hd \in HandlerType /\ hd.phase = "recorded" /\ hd.ev = handler[h].ev
      /\ hd.seq = Len(records) + 1 /\ hd.client = handler[h].client
  <2>1. Len(records) + 1 \in Nat
    BY <1>4 DEF Kept
  <2> QED BY <1>3, <2>1 DEF HandlerType, Phases
<1>6. handler' = [handler EXCEPT ![h] = hd]
  BY DEF AppendEvent
<1> HIDE DEF hd
<1>7. handler'[h] = hd /\ \A g \in Handler : g # h => handler'[g] = handler[g]
  BY <1>3, <1>6
<1>8. HandlersTyped'
  <2>1. (hd.phase = "idle" <=> hd.ev = NoEvent) /\ hd.seq \in 0 .. Len(records')
    BY <1>3, <1>4, <1>5 DEF Kept
  <2> QED BY <1>1, <1>2, <1>4, <1>5, <1>6, <2>1, HandlerTurned
<1>9. TypeInv'
  BY <1>1, <1>2, <1>4, <1>8, WindowsStay, TypeRest DEF TypeInv
<1>10. SeenSound'
  BY <1>1, <1>2, <1>4, SeenKept
<1>11. RecordedSound'
  <2>1. Len(records) + 1 \in Events(records')
    BY <1>3, <1>4 DEF Kept, Events, IsEvent, Decision, Event, WorkflowActions
  <2>2. Events(records) \subseteq Events(records')
    BY <1>4, EventsKept
  <2>3. ASSUME NEW g \in Handler, handler'[g].phase = "recorded"
        PROVE  handler'[g].seq \in Events(records') /\ records'[handler'[g].seq] = handler'[g].ev
    <3>1. CASE g = h
      BY <1>4, <1>5, <1>7, <2>1, <3>1
    <3>2. CASE g # h
      <4>1. handler'[g] = handler[g]
        BY <1>7, <3>2
      <4>2. handler[g].seq \in Events(records) /\ records[handler[g].seq] = handler[g].ev
        BY <1>2, <2>3, <4>1 DEF RecordedSound
      <4> QED BY <1>4, <2>2, <4>1, <4>2 DEF Kept, Events
    <3> QED BY <3>1, <3>2
  <2> QED BY <2>3 DEF RecordedSound
<1>12. ClientsSound'
  <2>1. \A g \in Handler : handler'[g].client = handler[g].client
                           /\ handler'[g].ev = handler[g].ev
    BY <1>5, <1>7
  <2> QED BY <1>1, <1>2, <2>1, ClientsKept
<1>13. AnsweredWithItsRecord'
  BY <1>1, <1>2, <1>4, AnsweredKept
<1> QED BY <1>9, <1>10, <1>11, <1>12, <1>13 DEF AnswerInv

\* The map learns the seq, and the client is told.
LEMMA AnswerRemember ==
  ASSUME AnswerInv, NEW h \in Handler, Remember(h)
  PROVE  AnswerInv'
<1> DEFINE seq == handler[h].seq
           rid == handler[h].ev.rid
<1>1. /\ shift' = shift /\ records' = records /\ up' = up /\ seen' = Put(seen, rid, seq)
      /\ issued' = issued /\ crashes' = crashes /\ handler[h].phase = "recorded"
      /\ Answer(h, seq)
  BY DEF Remember
<1>2. TypeInv /\ SeenSound /\ RecordedSound /\ ClientsSound /\ AnsweredWithItsRecord
  BY DEF AnswerInv
<1>3. Kept
  BY <1>1, <1>2, KeptSame
<1>4. seq \in Events(records) /\ records[seq].rid = rid
  BY <1>1, <1>2 DEF RecordedSound
<1>5. seq \in 0 .. Len(records') /\ IsEvent(records'[seq]) /\ records'[seq].rid = rid
  BY <1>1, <1>3, <1>4 DEF Events, Kept
<1>6. HandlersTyped' /\ WindowsTyped' /\ RecordedSound' /\ ClientsSound' /\ AnsweredWithItsRecord'
  <2> HIDE DEF seq
  <2> QED BY <1>1, <1>2, <1>3, <1>5, AnswerStep
<1>7. SeenSound'
  <2> HIDE DEF seq, rid
  <2> QED BY <1>1, <1>2, <1>4 DEF SeenSound, Put
<1> QED BY <1>1, <1>2, <1>6, <1>7, TypeRest DEF AnswerInv, TypeInv

\* The scanner appends a record of its own.
LEMMA AnswerAppendScan ==
  ASSUME AnswerInv, AppendScan
  PROVE  AnswerInv'
<1>1. /\ shift' = shift /\ up' = up /\ seen' = seen /\ window' = window /\ handler' = handler
      /\ issued' = issued /\ crashes' = crashes /\ records' = Append(records, ScanRecord)
  BY DEF AppendScan
<1>2. TypeInv /\ SeenSound /\ RecordedSound /\ ClientsSound /\ AnsweredWithItsRecord
  BY DEF AnswerInv
<1>3. Kept /\ records' \in Seq(Decision \cup {ScanRecord})
  BY <1>1, <1>2, KeptGrown
<1>4. TypeInv'
  BY <1>1, <1>2, <1>3, HandlersStay, WindowsStay, TypeRest DEF TypeInv
<1> QED BY <1>1, <1>2, <1>3, <1>4, SeenKept, RecordedKept, ClientsKept, AnsweredKept DEF AnswerInv

\* A crash ends the handlers and empties the map.
LEMMA AnswerCrash ==
  ASSUME AnswerInv, Crash
  PROVE  AnswerInv'
<1>1. /\ shift' = shift /\ records' = records /\ up' = FALSE /\ seen' = <<>>
      /\ issued' = issued /\ crashes' = crashes + 1 /\ crashes < shift.crashes
      /\ handler' = [h \in Handler |-> Idle]
      /\ window' = [a \in Actor |-> IF window[a].phase = "waiting"
                                      THEN [window[a] EXCEPT !.phase = "open"]
                                      ELSE window[a]]
  BY DEF Crash, Waiting
<1>2. TypeInv /\ SeenSound /\ RecordedSound /\ ClientsSound /\ AnsweredWithItsRecord
  BY DEF AnswerInv
<1>3. Kept
  BY <1>1, <1>2, KeptSame
<1>4. ASSUME NEW a \in Actor
      PROVE  /\ window'[a] \in WindowType /\ window'[a].rid = window[a].rid
             /\ window'[a].view = window[a].view /\ window'[a].recorded = window[a].recorded
  <2>1. window[a] \in WindowType
    BY <1>2 DEF TypeInv, WindowsTyped
  <2>2. window'[a] = IF window[a].phase = "waiting"
                       THEN [window[a] EXCEPT !.phase = "open"] ELSE window[a]
    BY <1>1
  <2> QED BY <2>1, <2>2 DEF WindowType
<1>5. WindowsTyped'
  <2>1. window' = [a \in Actor |-> window'[a]]
    BY <1>1
  <2> QED BY <1>1, <1>2, <1>4, <2>1 DEF TypeInv, WindowsTyped
<1>6. HandlersTyped'
  <2>1. HandlerType' = HandlerType
    BY <1>1, TypesStay
  <2>2. Idle \in HandlerType /\ Idle.phase = "idle" /\ Idle.ev = NoEvent /\ Idle.seq = 0
    BY DEF Idle, HandlerType, Phases
  <2>3. 0 \in 0 .. Len(records')
    BY <1>3 DEF Kept
  <2> QED BY <1>1, <2>1, <2>2, <2>3 DEF HandlersTyped
<1>7. TypeInv'
  <2>1. crashes' \in 0 .. shift.crashes
    BY <1>1, <1>2, ShiftTyped DEF TypeInv
  <2> QED BY <1>1, <1>2, <1>5, <1>6, <2>1, TypeRest DEF TypeInv
<1>8. SeenSound'
  BY <1>1 DEF SeenSound
<1>9. \A h \in Handler : handler'[h].phase = "idle" /\ handler'[h].client = Nobody
  BY <1>1 DEF Idle
<1>10. RecordedSound'
  BY <1>9 DEF RecordedSound
<1>11. ClientsSound'
  BY <1>9, DaemonAssumption DEF ClientsSound
<1>12. AnsweredWithItsRecord'
  BY <1>2, <1>3, <1>4, AnsweredKept
<1> QED BY <1>7, <1>8, <1>10, <1>11, <1>12 DEF AnswerInv

\* A restart rebuilds the map from the ledger.
LEMMA AnswerRestart ==
  ASSUME AnswerInv, Restart
  PROVE  AnswerInv'
<1>1. /\ shift' = shift /\ records' = records /\ up' = TRUE /\ seen' = Rebuild(records)
      /\ issued' = issued /\ crashes' = crashes /\ handler' = handler /\ window' = window
  BY DEF Restart
<1>2. TypeInv /\ SeenSound /\ RecordedSound /\ ClientsSound /\ AnsweredWithItsRecord
  BY DEF AnswerInv
<1>3. Kept
  BY <1>1, <1>2, KeptSame
<1>4. TypeInv'
  BY <1>1, <1>2, <1>3, HandlersStay, WindowsStay, TypeRest DEF TypeInv
<1>5. SeenSound'
  BY <1>1, <1>2, RebuildSound DEF SeenSound
<1> QED BY <1>1, <1>2, <1>3, <1>4, <1>5, RecordedKept, ClientsKept, AnsweredKept DEF AnswerInv

\* What the SDK's daemon does with a request, by the case it falls under.
Known(h) ==
  /\ handler[h].ev.rid \in DOMAIN seen
  /\ Answer(h, IF records[seen[handler[h].ev.rid]] = handler[h].ev
                 THEN seen[handler[h].ev.rid] ELSE 0)
  /\ UNCHANGED <<records, seen, memory>>

TurnedDown(h) == Answer(h, 0) /\ UNCHANGED <<records, seen, memory>>

Accepted(h) ==
  LET ev == handler[h].ev
      n  == Len(records) + 1
  IN  /\ ev.rid \notin DOMAIN seen /\ ~Refused(memory, ev)
      /\ records' = Append(records, ev)
      /\ memory' = Noted(memory, n, ev)
      /\ seen' = Put(seen, ev.rid, n)
      /\ Answer(h, n)

\* The SDK daemon answers, refuses, or appends and answers, in one step.
LEMMA HandleCases ==
  ASSUME NEW h \in Handler, Handle(h)
  PROVE  /\ Sdk /\ handler[h].phase = "received"
         /\ UNCHANGED <<shift, up, issued, crashes>>
         /\ Known(h) \/ TurnedDown(h) \/ Accepted(h)
  BY DEF Handle, Known, TurnedDown, Accepted

\* The SDK daemon handles a request.
LEMMA AnswerHandle ==
  ASSUME AnswerInv, NEW h \in Handler, Handle(h)
  PROVE  AnswerInv'
<1>1. /\ shift' = shift /\ up' = up /\ issued' = issued /\ crashes' = crashes
      /\ handler[h].phase = "received"
      /\ Known(h) \/ TurnedDown(h) \/ Accepted(h)
  BY HandleCases
<1>2. TypeInv /\ SeenSound /\ RecordedSound /\ ClientsSound /\ AnsweredWithItsRecord
  BY DEF AnswerInv
<1>3. handler[h].ev \in Decision
  BY <1>1, <1>2 DEF TypeInv, HandlersTyped, HandlerType
<1>4. CASE Known(h)
  <2> DEFINE seq == IF records[seen[handler[h].ev.rid]] = handler[h].ev
                      THEN seen[handler[h].ev.rid] ELSE 0
  <2>1. Answer(h, seq) /\ records' = records /\ seen' = seen
    BY <1>4 DEF Known
  <2>2. Kept
    BY <1>2, <2>1, KeptSame
  <2>3. /\ seq \in 0 .. Len(records')
        /\ seq # 0 => IsEvent(records'[seq]) /\ records'[seq].rid = handler[h].ev.rid
    BY <1>2, <1>4, <2>1, <2>2 DEF Known, SeenSound, Events, Kept
  <2> HIDE DEF seq
  <2>4. HandlersTyped' /\ WindowsTyped' /\ RecordedSound' /\ ClientsSound'
        /\ AnsweredWithItsRecord'
    BY <1>1, <1>2, <2>1, <2>2, <2>3, AnswerStep
  <2> QED BY <1>1, <1>2, <2>1, <2>2, <2>4, SeenKept, TypeRest DEF AnswerInv, TypeInv
<1>5. CASE TurnedDown(h)
  <2>1. Answer(h, 0) /\ records' = records /\ seen' = seen
    BY <1>5 DEF TurnedDown
  <2>2. Kept
    BY <1>2, <2>1, KeptSame
  <2>3. 0 \in 0 .. Len(records')
    BY <2>2 DEF Kept
  <2>4. HandlersTyped' /\ WindowsTyped' /\ RecordedSound' /\ ClientsSound'
        /\ AnsweredWithItsRecord'
    BY <1>1, <1>2, <2>1, <2>2, <2>3, AnswerStep
  <2> QED BY <1>1, <1>2, <2>1, <2>2, <2>4, SeenKept, TypeRest DEF AnswerInv, TypeInv
<1>6. CASE Accepted(h)
  <2> DEFINE ev == handler[h].ev
             n  == Len(records) + 1
  <2>1. Answer(h, n) /\ records' = Append(records, ev) /\ seen' = Put(seen, ev.rid, n)
    BY <1>6 DEF Accepted
  <2>2. /\ Kept /\ records' \in Seq(Decision \cup {ScanRecord})
        /\ Len(records') = n /\ records'[n] = ev
    BY <1>2, <1>3, <2>1, KeptGrown
  <2>3. n \in 0 .. Len(records') /\ n \in Events(records') /\ IsEvent(records'[n])
    <3>1. IsEvent(ev)
      BY <1>3 DEF IsEvent, Decision, Event, WorkflowActions
    <3> QED BY <2>2, <3>1 DEF Kept, Events
  <2>4. HandlersTyped' /\ WindowsTyped' /\ RecordedSound' /\ ClientsSound'
        /\ AnsweredWithItsRecord'
    <3> HIDE DEF n
    <3> QED BY <1>1, <1>2, <2>1, <2>2, <2>3, AnswerStep
  <2>5. SeenSound'
    <3>1. Events(records) \subseteq Events(records')
      BY <2>2, EventsKept
    <3>2. ASSUME NEW rid \in DOMAIN seen'
          PROVE  seen'[rid] \in Events(records') /\ records'[seen'[rid]].rid = rid
      <4>1. CASE rid = ev.rid
        <5>1. seen'[rid] = n
          BY <2>1, <4>1 DEF Put
        <5> QED BY <2>2, <2>3, <4>1, <5>1
      <4>2. CASE rid # ev.rid
        <5>1. rid \in DOMAIN seen /\ seen'[rid] = seen[rid]
          BY <2>1, <3>2, <4>2 DEF Put
        <5>2. seen[rid] \in Events(records) /\ records[seen[rid]].rid = rid
          BY <1>2, <5>1 DEF SeenSound
        <5> QED BY <2>2, <3>1, <5>1, <5>2 DEF Kept, Events
      <4> QED BY <4>1, <4>2
    <3> QED BY <3>2 DEF SeenSound
  <2> QED BY <1>1, <1>2, <2>2, <2>4, <2>5, TypeRest DEF AnswerInv, TypeInv
<1> QED BY <1>1, <1>4, <1>5, <1>6

\* Every step keeps the invariant of the answers.
LEMMA AnswerNext ==
  ASSUME AnswerInv, [Next]_vars
  PROVE  AnswerInv'
<1>1. ASSUME NEW a \in Actor, View(a) \/ Send(a) \/ TimeOut(a) \/ TurnAway(a)
      PROVE  AnswerInv'
  BY <1>1, AnswerView, AnswerSend, AnswerTimeOut, AnswerTurnAway
<1>2. ASSUME NEW h \in Handler, HandlerStep(h)
      PROVE  AnswerInv'
  BY <1>2, AnswerLookUp, AnswerCheck, AnswerAppendEvent, AnswerRemember, AnswerHandle
     DEF HandlerStep
<1>3. CASE UNCHANGED vars
  <2>1. Decision' = Decision /\ HandlerType' = HandlerType /\ MaxRequests' = MaxRequests
    BY <1>3, TypesStay DEF vars
  <2> QED BY <1>3, <2>1 DEF vars, AnswerInv, TypeInv, HandlersTyped, WindowsTyped, SeenSound,
             RecordedSound, ClientsSound, AnsweredWithItsRecord
<1> QED BY <1>1, <1>2, <1>3, AnswerAppendScan, AnswerCrash, AnswerRestart DEF Next

\* The invariant of the answers holds in every state.
LEMMA AlwaysAnswerInv == Spec => []AnswerInv
<1>1. AnswerInv /\ [Next]_vars => AnswerInv'
  BY AnswerNext
<1> QED BY <1>1, AnswerInit, PTL DEF Spec

\* Every variable has its type: whatever people ask for over whatever ledger they saw
\* is an event with its fields, and no seq lies beyond the ledger.
THEOREM DaemonTypeCorrect == Spec => []TypeOK
<1>1. AnswerInv => TypeOK
  <2> SUFFICES ASSUME AnswerInv PROVE TypeOK
    OBVIOUS
  <2>1. TypeInv /\ SeenSound
    BY DEF AnswerInv
  <2>2. \A n \in 1 .. Len(records) : IsEvent(records[n]) => records[n] \in Event
    <3>1. \A n \in 1 .. Len(records) : records[n] \in Decision \cup {ScanRecord}
      BY <2>1, ElementOfSeq DEF TypeInv
    <3> QED BY <3>1 DEF IsEvent, ScanRecord, Decision
  <2>3. \A rid \in DOMAIN seen : seen[rid] \in 1 .. Len(records)
    BY <2>1 DEF SeenSound, Events
  <2>4. ASSUME NEW h \in Handler
        PROVE  /\ handler[h].phase \in {"idle", "received", "new", "admitted", "recorded"}
               /\ handler[h].phase = "idle" <=> handler[h].ev = NoEvent
               /\ handler[h].ev \in Event \cup {NoEvent}
               /\ handler[h].seq \in 0 .. Len(records)
               /\ handler[h].client \in Actor \cup {Nobody}
    BY <2>1 DEF TypeInv, HandlersTyped, HandlerType, Phases, Decision
  <2>5. ASSUME NEW a \in Actor
        PROVE  /\ window[a].rid \in 0 .. issued
               /\ window[a].phase \in {"open", "viewing", "waiting"}
               /\ {window[a].view, window[a].recorded} \subseteq 0 .. Len(records)
    BY <2>1 DEF TypeInv, WindowsTyped, WindowType
  <2> QED BY <2>1, <2>2, <2>3, <2>4, <2>5 DEF TypeOK, TypeInv
<1> QED BY <1>1, AlwaysAnswerInv, PTL

\* Whoever is told of a record finds it under the request id that was sent: through
\* overtaking handlers, answers nobody waited for, retries, crashes and restarts.
THEOREM AlwaysAnsweredWithItsRecord == Spec => []AnsweredWithItsRecord
<1>1. AnswerInv => AnsweredWithItsRecord
  BY DEF AnswerInv
<1> QED BY <1>1, AlwaysAnswerInv, PTL

-----------------------------------------------------------------------------
(* Every event was decided by what the ledger held before it.              *)

\* One more record brings the request id of an event, or none.
LEMMA RidsGrown ==
  ASSUME NEW log \in Log, NEW r \in Decision \cup {ScanRecord}
  PROVE  Rids(Append(log, r)) = Rids(log) \cup {e.rid : e \in {x \in {r} : IsEvent(x)}}
<1> DEFINE more == Append(log, r)
<1>1. Grown(log, more) /\ more[Len(log) + 1] = r
  BY AppendGrows DEF Log
<1> HIDE DEF more
<1>2. Len(log) \in Nat /\ Len(more) = Len(log) + 1 /\ \A n \in 1 .. Len(log) : more[n] = log[n]
  BY <1>1 DEF Grown
<1>3. Events(more) = Events(log) \cup {n \in {Len(more)} : IsEvent(more[n])}
  BY <1>1, GrownEvents
<1>4. \A n \in Events(log) : more[n] = log[n]
  BY <1>2 DEF Events
<1>5. Rids(more) = Rids(log) \cup {e.rid : e \in {x \in {r} : IsEvent(x)}}
  BY <1>1, <1>2, <1>3, <1>4 DEF Rids
<1> QED BY <1>5 DEF more

\* The workflow passes over the scanner's records.
LEMMA ScanPassedOver ==
  ASSUME NEW log \in Log
  PROVE  DaemonFold(Append(log, ScanRecord)) = DaemonFold(log)
<1>1. Fold(<<>>, TRUE, Append(log, ScanRecord))
        = FoldStep(Fold(<<>>, TRUE, log), Len(log) + 1, ScanRecord, TRUE)
  BY FoldAppend DEF Log
<1> QED BY <1>1 DEF DaemonFold, FoldStep, IsEvent, ScanRecord

\* What was admissible stays so in the sense of the register.
LEMMA AdmittedGrown ==
  ASSUME NEW log \in Log, NEW r \in Decision \cup {ScanRecord}, NEW ev,
         AdmittedOn(ev, log), Serial => r = ScanRecord
  PROVE  AdmittedOn(ev, Append(log, r))
<1> DEFINE more == Append(log, r)
<1>1. /\ Len(log) \in Nat /\ Len(more) = Len(log) + 1 /\ more \in Log
      /\ \A n \in 0 .. Len(log) : SubSeq(more, 1, n) = SubSeq(log, 1, n)
  <2>1. Len(log) \in Nat /\ Len(more) = Len(log) + 1 /\ more \in Log
    BY LenProperties, AppendProperties DEF Log
  <2> QED BY <2>1, PrefixKept DEF Log
<1>2. PICK m \in 0 .. Len(log) : /\ Serial => m = Len(log)
                                 /\ Admissible(DaemonFold(SubSeq(log, 1, m)), ev, FALSE)
  BY DEF AdmittedOn
<1>3. CASE ~Serial
  <2> HIDE DEF more
  <2>1. m \in 0 .. Len(more) /\ SubSeq(more, 1, m) = SubSeq(log, 1, m)
    BY <1>1
  <2>2. AdmittedOn(ev, more)
    BY <1>2, <1>3, <2>1 DEF AdmittedOn
  <2> QED BY <2>2 DEF more
<1>4. CASE Serial
  <2>1. SubSeq(log, 1, m) = log /\ SubSeq(more, 1, Len(more)) = more
    BY <1>1, <1>2, <1>4, SubSeqFull DEF Log
  <2>2. DaemonFold(more) = DaemonFold(log)
    BY <1>4, ScanPassedOver
  <2> HIDE DEF more
  <2>3. AdmittedOn(ev, more)
    <3>1. Len(more) \in 0 .. Len(more)
      BY <1>1
    <3>2. Admissible(DaemonFold(SubSeq(more, 1, Len(more))), ev, FALSE)
      BY <1>2, <2>1, <2>2
    <3> QED BY <3>1, <3>2 DEF AdmittedOn
  <2> QED BY <2>3 DEF more
<1> QED BY <1>3, <1>4

\* The ledger after a step, with the prefixes spelled out.
LEMMA EachDecidedNext ==
  ASSUME shift' = shift,
         \A n \in Events(records') : Decided(records'[n], SubSeq(records', 1, n - 1))
  PROVE  EachDecided'
  BY DEF EachDecided, Prefix, Decided, AdmittedOn, Sdk, Serial

\* The same, the other way round.
LEMMA EachDecidedThen ==
  ASSUME shift' = shift, EachDecided', NEW n \in Events(records')
  PROVE  Decided(records'[n], SubSeq(records', 1, n - 1))
  BY DEF EachDecided, Prefix, Decided, AdmittedOn, Sdk, Serial

\* One more record, and an event only if it was decided.
LEMMA DecidedGrown ==
  ASSUME AnswerInv, EachDecided, shift' = shift, NEW r \in Decision \cup {ScanRecord},
         records' = Append(records, r), IsEvent(r) => Decided(r, records)
  PROVE  EachDecided'
<1>1. records \in Log
  BY DEF AnswerInv, TypeInv, Log
<1>2. Grown(records, records') /\ records'[Len(records) + 1] = r
  BY <1>1, AppendGrows DEF Log
<1>3. Len(records) \in Nat /\ Len(records') = Len(records) + 1
      /\ \A n \in 1 .. Len(records) : records'[n] = records[n]
  BY <1>2 DEF Grown
<1>4. \A n \in 0 .. Len(records) : SubSeq(records', 1, n) = SubSeq(records, 1, n)
  BY <1>1, PrefixKept DEF Log
<1>5. SubSeq(records, 1, Len(records)) = records
  BY <1>1, SubSeqFull DEF Log
<1>6. ASSUME NEW n \in Events(records')
      PROVE  Decided(records'[n], SubSeq(records', 1, n - 1))
  <2>1. CASE n = Len(records) + 1
    <3>1. records'[n] = r /\ IsEvent(r)
      BY <1>2, <2>1 DEF Events
    <3>2. n - 1 = Len(records)
      BY <1>3, <2>1
    <3>3. SubSeq(records', 1, n - 1) = records
      BY <1>3, <1>4, <1>5, <3>2
    <3> QED BY <3>1, <3>3
  <2>2. CASE n # Len(records) + 1
    <3>1. n \in Events(records) /\ records'[n] = records[n] /\ n - 1 \in 0 .. Len(records)
      BY <1>3, <2>2 DEF Events
    <3>2. Decided(records[n], SubSeq(records, 1, n - 1))
      BY <3>1 DEF EachDecided, Prefix
    <3>3. SubSeq(records', 1, n - 1) = SubSeq(records, 1, n - 1)
      BY <1>4, <3>1
    <3> QED BY <3>1, <3>2, <3>3
  <2> QED BY <2>1, <2>2
<1> QED BY <1>6, EachDecidedNext

\* A ledger that does not change was decided as before.
LEMMA DecidedStays ==
  ASSUME EachDecided, shift' = shift, records' = records
  PROVE  EachDecided'
  BY DEF EachDecided, Prefix, Decided, AdmittedOn, Sdk, Serial

\* Which handlers are busy, and with what, while none takes a connection.
LEMMA PhasesKept ==
  ASSUME PhasesSound, shift' = shift, Busy' \subseteq Busy,
         up' \/ ~up \/ Busy' = {},
         Sdk => \A h \in Handler : handler'[h].phase \in {handler[h].phase, "idle"}
  PROVE  PhasesSound'
<1>1. Sdk' = Sdk /\ Serial' = Serial
  BY TypesStay
<1>2. ~up' => \A h \in Handler : handler'[h].phase = "idle"
  BY DEF PhasesSound, Busy
<1>3. Sdk => \A h \in Handler : handler'[h].phase \in {"idle", "received"}
  BY DEF PhasesSound
<1>4. Serial => \A h \in Busy' : \A g \in Busy' : h = g
  BY DEF PhasesSound
<1> QED BY <1>1, <1>2, <1>3, <1>4 DEF PhasesSound

\* No record is written and none is remembered.
LEMMA DaemonStays ==
  ASSUME DaemonInv, PhasesSound',
         UNCHANGED <<shift, records, seen, memory, up>>,
         \A h \in Handler : handler[h].phase = "recorded" =>
           handler'[h].phase = "recorded" /\ handler'[h].ev = handler[h].ev,
         \A h \in Handler : handler'[h].phase \in {"new", "admitted"} =>
           \/ handler[h].phase \in {"new", "admitted"} /\ handler'[h].ev = handler[h].ev
           \/ Serial => handler'[h].ev.rid \notin Rids(records),
         \A h \in Handler : handler'[h].phase = "admitted" =>
           \/ handler[h].phase = "admitted" /\ handler'[h].ev = handler[h].ev
           \/ AdmittedOn(handler'[h].ev, records)
  PROVE  DaemonInv'
<1>1. Sdk' = Sdk /\ Serial' = Serial
  BY TypesStay
<1>2. RidsKnown'
  <2>1. RecordedRids \subseteq RecordedRids'
    BY DEF RecordedRids
  <2>2. up' => Rids(records') \subseteq DOMAIN seen' \cup RecordedRids'
    BY <2>1 DEF DaemonInv, RidsKnown
  <2>3. ASSUME Serial, NEW h \in Handler, handler'[h].phase \in {"new", "admitted"}
        PROVE  handler'[h].ev.rid \notin Rids(records')
    BY <2>3 DEF DaemonInv, RidsKnown
  <2> QED BY <1>1, <2>2, <2>3 DEF RidsKnown
<1>3. AdmittedSound'
  <2>1. ASSUME NEW h \in Handler, handler'[h].phase = "admitted"
        PROVE  AdmittedOn(handler'[h].ev, records)
    BY <2>1 DEF DaemonInv, AdmittedSound
  <2> QED BY <1>1, <2>1 DEF AdmittedSound, AdmittedOn
<1>4. MemorySound'
  BY <1>1 DEF DaemonInv, MemorySound
<1>5. EachDecided'
  BY DecidedStays DEF DaemonInv
<1> QED BY <1>2, <1>3, <1>4, <1>5 DEF DaemonInv

\* Where an answer leaves the handlers.
LEMMA AnswerShape ==
  ASSUME TypeInv, NEW h \in Handler, NEW seq, Answer(h, seq)
  PROVE  /\ handler'[h] = Idle /\ handler'[h].phase = "idle"
         /\ \A g \in Handler : g # h => handler'[g] = handler[g]
         /\ Busy' = Busy \ {h}
<1>1. handler \in [Handler -> HandlerType] /\ handler' = [handler EXCEPT ![h] = Idle]
  BY DEF TypeInv, HandlersTyped, Answer
<1>2. Idle.phase = "idle"
  BY DEF Idle
<1>3. handler'[h] = Idle /\ \A g \in Handler : g # h => handler'[g] = handler[g]
  BY <1>1
<1> QED BY <1>2, <1>3 DEF Busy

\* An answer without a record changes nothing the daemon knows.
LEMMA DaemonAnswers ==
  ASSUME AnswerInv, DaemonInv, NEW h \in Handler, NEW seq, Answer(h, seq),
         handler[h].phase # "recorded",
         UNCHANGED <<shift, records, seen, memory, up>>
  PROVE  DaemonInv'
<1>1. /\ handler'[h].phase = "idle"
      /\ \A g \in Handler : g # h => handler'[g] = handler[g]
      /\ Busy' = Busy \ {h}
  BY AnswerShape DEF AnswerInv
<1>2. \A g \in Handler : handler'[g].phase # "idle" => g # h /\ handler'[g] = handler[g]
  BY <1>1
<1>3. PhasesSound'
  BY <1>1, PhasesKept DEF DaemonInv
<1>4. \A g \in Handler : handler[g].phase = "recorded" =>
        handler'[g].phase = "recorded" /\ handler'[g].ev = handler[g].ev
  BY <1>1
<1> QED BY <1>2, <1>3, <1>4, DaemonStays

\* The empty ledger was decided.
LEMMA DaemonInit == Init => DaemonInv
<1> SUFFICES ASSUME Init PROVE DaemonInv
  OBVIOUS
<1>1. /\ records = <<>> /\ seen = <<>> /\ up = TRUE /\ memory = Memory(Replay(<<>>))
      /\ handler = [h \in Handler |-> Idle]
  BY DEF Init
<1>2. \A h \in Handler : handler[h].phase = "idle"
  BY <1>1 DEF Idle
<1>3. Events(records) = {}
  BY <1>1 DEF Events
<1>4. PhasesSound
  BY <1>2 DEF PhasesSound, Busy
<1>5. RidsKnown
  BY <1>2, <1>3 DEF RidsKnown, Rids
<1>6. AdmittedSound
  BY <1>2 DEF AdmittedSound
<1>7. MemorySound
  BY <1>1 DEF MemorySound
<1>8. EachDecided
  BY <1>3 DEF EachDecided
<1> QED BY <1>4, <1>5, <1>6, <1>7, <1>8 DEF DaemonInv

\* The steps of the people.
LEMMA DaemonView ==
  ASSUME AnswerInv, DaemonInv, NEW a \in Actor, View(a) \/ TurnAway(a) \/ TimeOut(a)
  PROVE  DaemonInv'
<1>1. UNCHANGED <<shift, records, seen, memory, up>>
  BY DEF View, TurnAway, TimeOut
<1>2. \A h \in Handler : handler'[h].phase = handler[h].phase /\ handler'[h].ev = handler[h].ev
  <2>1. CASE View(a) \/ TurnAway(a)
    BY <2>1 DEF View, TurnAway
  <2>2. CASE TimeOut(a)
    <3>1. \A h \in Handler : handler[h] \in HandlerType
      BY DEF AnswerInv, TypeInv, HandlersTyped
    <3>2. \A h \in Handler : handler'[h] = IF handler[h].client = a
                                            THEN [handler[h] EXCEPT !.client = Nobody]
                                            ELSE handler[h]
      BY <2>2 DEF TimeOut
    <3> QED BY <3>1, <3>2 DEF HandlerType
  <2> QED BY <2>1, <2>2
<1>3. PhasesSound'
  BY <1>1, <1>2, PhasesKept DEF DaemonInv, Busy
<1> QED BY <1>1, <1>2, <1>3, DaemonStays

\* A request waits for a handler.
LEMMA DaemonSend ==
  ASSUME AnswerInv, DaemonInv, NEW a \in Actor, Send(a)
  PROVE  DaemonInv'
<1>1. UNCHANGED <<shift, records, seen, memory, up>> /\ up
      /\ Cardinality(Busy) < shift.connections
  BY DEF Send
<1>2. PICK h \in Handler \ Busy : \E ev : 
        handler' = [handler EXCEPT ![h] = [phase |-> "received", ev |-> ev, seq |-> 0,
                                           client |-> a]]
  BY DEF Send
<1>3. PICK ev :
        handler' = [handler EXCEPT ![h] = [phase |-> "received", ev |-> ev, seq |-> 0,
                                           client |-> a]]
  BY <1>2
<1>4. /\ handler[h].phase = "idle" /\ handler'[h].phase = "received"
      /\ \A g \in Handler : g # h => handler'[g] = handler[g]
  BY <1>3 DEF AnswerInv, TypeInv, HandlersTyped, Busy
<1>5. Serial => Busy = {}
  <2>1. IsFiniteSet(Busy)
    BY DaemonAssumption, FS_Subset DEF Busy
  <2>2. Cardinality(Busy) \in Nat /\ (Cardinality(Busy) = 0 <=> Busy = {})
    BY <2>1, FS_CardinalityType, FS_EmptySet
  <2> QED BY <1>1, <2>2 DEF Serial
<1>6. PhasesSound'
  <2>1. Sdk' = Sdk /\ Serial' = Serial
    BY <1>1, TypesStay
  <2>2. Busy' = Busy \cup {h}
    BY <1>4 DEF Busy
  <2>3. Serial => \A k \in Busy' : \A g \in Busy' : k = g
    BY <1>5, <2>2
  <2>4. Sdk => \A g \in Handler : handler'[g].phase \in {"idle", "received"}
    BY <1>4 DEF DaemonInv, PhasesSound
  <2> QED BY <1>1, <2>1, <2>3, <2>4 DEF PhasesSound
<1>7. \A g \in Handler : handler'[g].phase \notin {"idle", "received"} =>
                           g # h /\ handler'[g] = handler[g]
  BY <1>4
<1>8. \A g \in Handler : handler[g].phase = "recorded" =>
        handler'[g].phase = "recorded" /\ handler'[g].ev = handler[g].ev
  BY <1>4
<1> QED BY <1>1, <1>6, <1>7, <1>8, DaemonStays

\* The steps of cva-ledgerd's handlers.
LEMMA DaemonLookUp ==
  ASSUME AnswerInv, DaemonInv, NEW h \in Handler, LookUp(h)
  PROVE  DaemonInv'
<1>1. UNCHANGED <<shift, records, seen, memory, up>> /\ ~Sdk /\ handler[h].phase = "received"
  BY DEF LookUp
<1>2. CASE handler[h].ev.rid \in DOMAIN seen
  <2>1. Answer(h, seen[handler[h].ev.rid])
    BY <1>2 DEF LookUp
  <2> QED BY <1>1, <2>1, DaemonAnswers
<1>3. CASE handler[h].ev.rid \notin DOMAIN seen
  <2>1. handler \in [Handler -> HandlerType] /\ handler' = [handler EXCEPT ![h].phase = "new"]
    BY <1>3 DEF LookUp, AnswerInv, TypeInv, HandlersTyped
  <2>2. /\ handler'[h].phase = "new" /\ handler'[h].ev = handler[h].ev
        /\ \A g \in Handler : g # h => handler'[g] = handler[g]
    BY <2>1 DEF HandlerType
  <2>3. h \in Busy /\ up
    BY <1>1 DEF Busy, DaemonInv, PhasesSound
  <2>4. PhasesSound'
    <3>1. Busy' \subseteq Busy
      BY <2>2, <2>3 DEF Busy
    <3> QED BY <1>1, <3>1, <2>3, PhasesKept DEF DaemonInv
  <2>5. Serial => handler[h].ev.rid \notin Rids(records)
    <3>1. ASSUME Serial PROVE RecordedRids = {}
      <4>1. \A g \in Handler : handler[g].phase = "recorded" => g = h
        BY <2>3, <3>1 DEF DaemonInv, PhasesSound, Busy
      <4> QED BY <1>1, <4>1 DEF RecordedRids
    <3> QED BY <1>3, <2>3, <3>1 DEF DaemonInv, RidsKnown
  <2>6. \A g \in Handler : handler[g].phase = "recorded" =>
          handler'[g].phase = "recorded" /\ handler'[g].ev = handler[g].ev
    BY <1>1, <2>2
  <2>7. \A g \in Handler : handler'[g].phase \in {"new", "admitted"} =>
          \/ handler[g].phase \in {"new", "admitted"} /\ handler'[g].ev = handler[g].ev
          \/ Serial => handler'[g].ev.rid \notin Rids(records)
    BY <2>2, <2>5
  <2>8. \A g \in Handler : handler'[g].phase = "admitted" =>
          handler[g].phase = "admitted" /\ handler'[g].ev = handler[g].ev
    BY <2>2
  <2> QED BY <1>1, <2>4, <2>6, <2>7, <2>8, DaemonStays
<1> QED BY <1>2, <1>3

\* A handler goes on with a decision that the fold of the ledger admits.
LEMMA DaemonCheck ==
  ASSUME AnswerInv, DaemonInv, NEW h \in Handler, Check(h)
  PROVE  DaemonInv'
<1>1. UNCHANGED <<shift, records, seen, memory, up>> /\ handler[h].phase = "new"
  BY DEF Check
<1>2. CASE Answer(h, 0)
  BY <1>1, <1>2, DaemonAnswers
<1>3. CASE /\ Admissible(DaemonFold(records), handler[h].ev, FALSE)
           /\ handler' = [handler EXCEPT ![h].phase = "admitted"]
  <2>1. handler \in [Handler -> HandlerType]
    BY DEF AnswerInv, TypeInv, HandlersTyped
  <2>2. /\ handler'[h].phase = "admitted" /\ handler'[h].ev = handler[h].ev
        /\ \A g \in Handler : g # h => handler'[g] = handler[g]
    BY <1>3, <2>1 DEF HandlerType
  <2>3. h \in Busy /\ up /\ ~Sdk
    BY <1>1 DEF Busy, DaemonInv, PhasesSound
  <2>4. PhasesSound'
    <3>1. Busy' \subseteq Busy
      BY <2>2, <2>3 DEF Busy
    <3> QED BY <1>1, <3>1, <2>3, PhasesKept DEF DaemonInv
  <2>5. AdmittedOn(handler[h].ev, records)
    <3>1. records \in Log
      BY DEF AnswerInv, TypeInv, Log
    <3>2. SubSeq(records, 1, Len(records)) = records /\ Len(records) \in 0 .. Len(records)
      BY <3>1, SubSeqFull, LenProperties DEF Log
    <3> QED BY <1>3, <3>2 DEF AdmittedOn
  <2>6. \A g \in Handler : handler[g].phase = "recorded" =>
          handler'[g].phase = "recorded" /\ handler'[g].ev = handler[g].ev
    BY <1>1, <2>2
  <2>7. \A g \in Handler : handler'[g].phase \in {"new", "admitted"} =>
          handler[g].phase \in {"new", "admitted"} /\ handler'[g].ev = handler[g].ev
    BY <1>1, <2>2
  <2>8. \A g \in Handler : handler'[g].phase = "admitted" =>
          \/ handler[g].phase = "admitted" /\ handler'[g].ev = handler[g].ev
          \/ AdmittedOn(handler'[g].ev, records)
    BY <2>2, <2>5
  <2> QED BY <1>1, <2>4, <2>6, <2>7, <2>8, DaemonStays
<1> QED BY <1>2, <1>3 DEF Check

\* What is appended was admitted on some prefix, and on the last if serial.
LEMMA DaemonAppendEvent ==
  ASSUME AnswerInv, DaemonInv, NEW h \in Handler, AppendEvent(h)
  PROVE  DaemonInv'
<1> DEFINE ev == handler[h].ev
<1>1. UNCHANGED <<shift, seen, memory, up>> /\ handler[h].phase = "admitted"
      /\ records' = Append(records, ev)
  BY DEF AppendEvent
<1>2. handler \in [Handler -> HandlerType] /\ records \in Log
      /\ ev \in Decision /\ IsEvent(ev)
  <2>1. handler \in [Handler -> HandlerType] /\ records \in Log /\ ev # NoEvent
    BY <1>1 DEF AnswerInv, TypeInv, HandlersTyped, Log
  <2> QED BY <2>1 DEF HandlerType, IsEvent, Decision, Event, WorkflowActions
<1>3. /\ handler'[h].phase = "recorded" /\ handler'[h].ev = ev
      /\ \A g \in Handler : g # h => handler'[g] = handler[g]
  <2>1. handler' = [handler EXCEPT ![h] =
                     [[handler[h] EXCEPT !.phase = "recorded"] EXCEPT !.seq = Len(records) + 1]]
    BY DEF AppendEvent
  <2> QED BY <1>2, <2>1 DEF HandlerType
<1>4. h \in Busy /\ up /\ ~Sdk /\ (Serial => \A g \in Handler : handler[g].phase # "idle" => g = h)
  BY <1>1 DEF Busy, DaemonInv, PhasesSound
<1>5. Sdk' = Sdk /\ Serial' = Serial
  BY <1>1, TypesStay
<1>6. PhasesSound'
  <2>1. Busy' \subseteq Busy
    BY <1>3, <1>4 DEF Busy
  <2> QED BY <1>1, <1>4, <2>1, PhasesKept DEF DaemonInv
<1>7. Rids(records') = Rids(records) \cup {ev.rid}
  <2>1. Rids(Append(records, ev)) = Rids(records) \cup {e.rid : e \in {x \in {ev} : IsEvent(x)}}
    BY <1>2, RidsGrown
  <2> QED BY <1>1, <1>2, <2>1
<1>8. RidsKnown'
  <2>1. RecordedRids \cup {ev.rid} \subseteq RecordedRids'
    BY <1>1, <1>3 DEF RecordedRids
  <2>2. Rids(records') \subseteq DOMAIN seen' \cup RecordedRids'
    BY <1>1, <1>4, <1>7, <2>1 DEF DaemonInv, RidsKnown
  <2>3. ASSUME Serial, NEW g \in Handler, handler'[g].phase \in {"new", "admitted"}
        PROVE  FALSE
    BY <1>3, <1>4, <2>3
  <2> QED BY <1>5, <2>2, <2>3 DEF RidsKnown
<1>9. AdmittedSound'
  <2>1. ASSUME NEW g \in Handler, handler'[g].phase = "admitted"
        PROVE  AdmittedOn(handler'[g].ev, records')
    <3>1. g # h /\ handler'[g] = handler[g] /\ ~Serial
      BY <1>3, <1>4, <2>1
    <3>2. AdmittedOn(handler[g].ev, records)
      BY <2>1, <3>1 DEF DaemonInv, AdmittedSound
    <3>3. AdmittedOn(handler[g].ev, Append(records, ev))
      <4> HIDE DEF ev
      <4> QED BY <1>2, <3>1, <3>2, AdmittedGrown
    <3> QED BY <1>1, <3>1, <3>3
  <2> QED BY <1>5, <2>1 DEF AdmittedSound, AdmittedOn
<1>10. MemorySound'
  BY <1>4, <1>5 DEF MemorySound
<1>11. EachDecided'
  <2>1. Decided(ev, records)
    BY <1>1, <1>4 DEF Decided, DaemonInv, AdmittedSound, RidsKnown
  <2> HIDE DEF ev
  <2> QED BY <1>1, <1>2, <2>1, DecidedGrown DEF DaemonInv
<1> QED BY <1>6, <1>8, <1>9, <1>10, <1>11 DEF DaemonInv

\* The map learns what the ledger already holds.
LEMMA DaemonRemember ==
  ASSUME AnswerInv, DaemonInv, NEW h \in Handler, Remember(h)
  PROVE  DaemonInv'
<1> DEFINE rid == handler[h].ev.rid
           seq == handler[h].seq
<1>1. UNCHANGED <<shift, records, memory, up>> /\ handler[h].phase = "recorded"
      /\ Answer(h, seq) /\ seen' = Put(seen, rid, seq)
  BY DEF Remember
<1>2. /\ handler'[h].phase = "idle" /\ Busy' = Busy \ {h}
      /\ \A g \in Handler : g # h => handler'[g] = handler[g]
  BY <1>1, AnswerShape DEF AnswerInv
<1>3. Sdk' = Sdk /\ Serial' = Serial
  BY <1>1, TypesStay
<1>4. PhasesSound'
  BY <1>1, <1>2, PhasesKept DEF DaemonInv
<1>5. RidsKnown'
  <2>1. DOMAIN seen' = DOMAIN seen \cup {rid}
    BY <1>1 DEF Put
  <2>2. RecordedRids \subseteq RecordedRids' \cup {rid}
    BY <1>2 DEF RecordedRids
  <2>3. up' => Rids(records') \subseteq DOMAIN seen' \cup RecordedRids'
    BY <1>1, <2>1, <2>2 DEF DaemonInv, RidsKnown
  <2>4. ASSUME Serial, NEW g \in Handler, handler'[g].phase \in {"new", "admitted"}
        PROVE  handler'[g].ev.rid \notin Rids(records')
    <3>1. handler'[g] = handler[g]
      BY <1>2, <2>4
    <3> QED BY <1>1, <2>4, <3>1 DEF DaemonInv, RidsKnown
  <2> QED BY <1>3, <2>3, <2>4 DEF RidsKnown
<1>6. AdmittedSound'
  <2>1. ASSUME NEW g \in Handler, handler'[g].phase = "admitted"
        PROVE  AdmittedOn(handler'[g].ev, records)
    <3>1. handler'[g] = handler[g]
      BY <1>2, <2>1
    <3> QED BY <2>1, <3>1 DEF DaemonInv, AdmittedSound
  <2> QED BY <1>1, <1>3, <2>1 DEF AdmittedSound, AdmittedOn
<1>7. MemorySound' /\ EachDecided'
  BY <1>1, <1>3, DecidedStays DEF DaemonInv, MemorySound
<1> QED BY <1>4, <1>5, <1>6, <1>7 DEF DaemonInv

\* The fields of the audit state.
LEMMA ReplayShape ==
  ASSUME NEW log \in Log
  PROVE  LET read == Replay(log)
         IN  read = [findings |-> read.findings, scans |-> read.scans,
                     requestIds |-> read.requestIds, violations |-> read.violations]
  BY FoldsRead DEF ReplaySound

\* A record of the scanner decides nothing.
LEMMA DaemonAppendScan ==
  ASSUME AnswerInv, DaemonInv, AppendScan
  PROVE  DaemonInv'
<1>1. UNCHANGED <<shift, seen, handler, up>> /\ up /\ records' = Append(records, ScanRecord)
      /\ memory' = IF Sdk THEN [memory EXCEPT !.scans = @ \cup {Len(records) + 1}] ELSE memory
  BY DEF AppendScan
<1>2. records \in Log
  BY DEF AnswerInv, TypeInv, Log
<1>3. Sdk' = Sdk /\ Serial' = Serial
  BY <1>1, TypesStay
<1>4. PhasesSound'
  BY <1>1, PhasesKept DEF DaemonInv, Busy
<1>5. Rids(records') = Rids(records)
  <2>1. Rids(Append(records, ScanRecord))
          = Rids(records) \cup {e.rid : e \in {x \in {ScanRecord} : IsEvent(x)}}
    BY <1>2, RidsGrown
  <2>2. ~IsEvent(ScanRecord)
    BY DEF IsEvent, ScanRecord
  <2> QED BY <1>1, <2>1, <2>2
<1>6. RidsKnown'
  BY <1>1, <1>3, <1>5 DEF DaemonInv, RidsKnown, RecordedRids
<1>7. AdmittedSound'
  <2>1. ASSUME NEW g \in Handler, handler[g].phase = "admitted"
        PROVE  AdmittedOn(handler[g].ev, records')
    <3>1. AdmittedOn(handler[g].ev, records)
      BY <2>1 DEF DaemonInv, AdmittedSound
    <3> QED BY <1>1, <1>2, <3>1, AdmittedGrown
  <2> QED BY <1>1, <1>3, <2>1 DEF AdmittedSound, AdmittedOn
<1>8. MemorySound'
  <2> SUFFICES ASSUME Sdk PROVE memory' = Memory(Replay(records'))
    BY <1>3 DEF MemorySound
  <2> DEFINE read == Replay(records)
             n == Len(records) + 1
  <2>1. memory = Memory(read) /\ memory' = [memory EXCEPT !.scans = @ \cup {n}]
    BY <1>1 DEF DaemonInv, MemorySound
  <2>2. read = [findings |-> read.findings, scans |-> read.scans,
                requestIds |-> read.requestIds, violations |-> read.violations]
    BY <1>2, ReplayShape
  <2>3. Replay(records') = [read EXCEPT !.scans = @ \cup {n}]
    <3>1. Replay(Append(records, ScanRecord)) = ReplayStep(read, n, ScanRecord)
      BY <1>2, ReplayAppend DEF Log
    <3> QED BY <1>1, <3>1 DEF ReplayStep, IsEvent, ScanRecord
  <2> HIDE DEF read, n
  <2>4. /\ Replay(records').findings = read.findings
        /\ Replay(records').scans = read.scans \cup {n}
        /\ Replay(records').requestIds = read.requestIds
    BY <2>2, <2>3
  <2>5. memory = [findings |-> read.findings, scans |-> read.scans,
                  requestIds |-> read.requestIds]
    BY <2>1 DEF Memory
  <2>6. memory' = [findings |-> read.findings, scans |-> read.scans \cup {n},
                   requestIds |-> read.requestIds]
    BY <2>1, <2>5
  <2> QED BY <2>4, <2>6 DEF Memory
<1>9. EachDecided'
  BY <1>1, DecidedGrown DEF DaemonInv, IsEvent, ScanRecord
<1> QED BY <1>4, <1>6, <1>7, <1>8, <1>9 DEF DaemonInv

\* A crash leaves no handler busy.
LEMMA DaemonCrash ==
  ASSUME AnswerInv, DaemonInv, Crash
  PROVE  DaemonInv'
<1>1. UNCHANGED <<shift, records, memory>> /\ up' = FALSE
      /\ \A h \in Handler : handler'[h].phase = "idle"
  BY DEF Crash, Idle
<1>2. Sdk' = Sdk /\ Serial' = Serial
  BY <1>1, TypesStay
<1>3. PhasesSound'
  BY <1>1, PhasesKept DEF DaemonInv, Busy
<1>4. RidsKnown'
  BY <1>1 DEF RidsKnown
<1>5. AdmittedSound'
  BY <1>1 DEF AdmittedSound
<1>6. MemorySound' /\ EachDecided'
  BY <1>1, <1>2, DecidedStays DEF DaemonInv, MemorySound
<1> QED BY <1>3, <1>4, <1>5, <1>6 DEF DaemonInv

\* A restart reads everything the ledger holds.
LEMMA DaemonRestart ==
  ASSUME AnswerInv, DaemonInv, Restart
  PROVE  DaemonInv'
<1>1. UNCHANGED <<shift, records, handler>> /\ ~up /\ seen' = Rebuild(records)
      /\ memory' = IF Sdk THEN Memory(Replay(records)) ELSE memory
  BY DEF Restart
<1>2. \A h \in Handler : handler'[h].phase = "idle"
  BY <1>1 DEF DaemonInv, PhasesSound
<1>3. Sdk' = Sdk /\ Serial' = Serial
  BY <1>1, TypesStay
<1>4. PhasesSound'
  BY <1>1, PhasesKept DEF DaemonInv, Busy
<1>5. RidsKnown'
  BY <1>1, <1>2, RebuildSound DEF RidsKnown, AnswerInv
<1>6. AdmittedSound'
  BY <1>2 DEF AdmittedSound
<1>7. MemorySound' /\ EachDecided'
  BY <1>1, <1>3, DecidedStays DEF DaemonInv, MemorySound
<1> QED BY <1>4, <1>5, <1>6, <1>7 DEF DaemonInv

\* The SDK's daemon, which looks request ids up before, refuses what the audit would
\* report, and notes what the audit would.
LEMMA NotRefused ==
  ASSUME NEW read, NEW ev, ev.rid \notin DOMAIN read.requestIds, ~Refused(Memory(read), ev)
  PROVE  Codes(read, ev) = {}
<1> DEFINE forgot == [Memory(read) EXCEPT !.requestIds = <<>>]
<1>1. Codes(forgot, ev) = {}
  BY DEF Refused
<1>2. forgot.findings = read.findings /\ forgot.requestIds = <<>>
  BY DEF Memory
<1> HIDE DEF forgot
<1>3. StateOf(forgot, ev.finding) = StateOf(read, ev.finding)
  BY <1>2 DEF StateOf
<1>4. ev.rid \notin DOMAIN forgot.requestIds
  BY <1>2
<1>5. Codes(read, ev) = Codes(forgot, ev)
  BY <1>3, <1>4 DEF Codes
<1> QED BY <1>1, <1>5

\* What the SDK daemon notes of its event is what a replay would make of it.
LEMMA MemoryNoted ==
  ASSUME NEW read, NEW n, NEW ev, ev.rid \notin DOMAIN read.requestIds,
         read = [findings |-> read.findings, scans |-> read.scans,
                 requestIds |-> read.requestIds, violations |-> read.violations]
  PROVE  Memory(ReplayEvent(read, n, ev)) = Noted(Memory(read), n, ev)
<1> DEFINE f   == ev.finding
           now == Put(read.findings, f, Touch(StateOf(read, f), n, ev))
           ids == Put(read.requestIds, ev.rid, n)
           noted == ReplayEvent(read, n, ev)
           memo == Memory(read)
<1>1. noted.findings = now /\ noted.scans = read.scans /\ noted.requestIds = ids
  BY DEF ReplayEvent
<1>2. memo = [findings |-> read.findings, scans |-> read.scans, requestIds |-> read.requestIds]
  BY DEF Memory
<1>3. StateOf(memo, f) = StateOf(read, f)
  BY <1>2 DEF StateOf
<1>4. Noted(memo, n, ev) = [[memo EXCEPT !.findings = now] EXCEPT !.requestIds = ids]
  <2>1. memo.findings = read.findings /\ memo.requestIds = read.requestIds
    BY <1>2
  <2> HIDE DEF memo
  <2> QED BY <1>3, <2>1 DEF Noted
<1> HIDE DEF now, ids, noted, memo
<1>5. [memo EXCEPT !.findings = now]
        = [findings |-> now, scans |-> read.scans, requestIds |-> read.requestIds]
  BY <1>2
<1>6. Noted(memo, n, ev) = [findings |-> now, scans |-> read.scans, requestIds |-> ids]
  BY <1>4, <1>5
<1>7. Memory(noted) = [findings |-> now, scans |-> read.scans, requestIds |-> ids]
  BY <1>1 DEF Memory
<1> QED BY <1>6, <1>7 DEF noted, memo

\* The SDK daemon appends only what it does not refuse.
LEMMA DaemonHandle ==
  ASSUME AnswerInv, DaemonInv, NEW h \in Handler, Handle(h)
  PROVE  DaemonInv'
<1>1. /\ Sdk /\ handler[h].phase = "received" /\ UNCHANGED <<shift, up>>
      /\ Known(h) \/ TurnedDown(h) \/ Accepted(h)
  BY HandleCases
<1>2. CASE Known(h)
  BY <1>1, <1>2, DaemonAnswers DEF Known
<1>3. CASE TurnedDown(h)
  BY <1>1, <1>3, DaemonAnswers DEF TurnedDown
<1>4. CASE Accepted(h)
  <2> DEFINE ev == handler[h].ev
             n  == Len(records) + 1
             read == Replay(records)
  <2>1. /\ Answer(h, n) /\ records' = Append(records, ev) /\ seen' = Put(seen, ev.rid, n)
        /\ memory' = Noted(memory, n, ev) /\ ev.rid \notin DOMAIN seen /\ ~Refused(memory, ev)
    BY <1>4 DEF Accepted
  <2>2. records \in Log /\ ev \in Decision /\ IsEvent(ev)
    <3>1. handler[h] \in HandlerType /\ records \in Log /\ ev # NoEvent
      BY <1>1 DEF AnswerInv, TypeInv, HandlersTyped, Log
    <3> QED BY <3>1 DEF HandlerType, IsEvent, Decision, Event, WorkflowActions
  <2>3. up /\ \A g \in Handler : handler[g].phase \in {"idle", "received"}
    BY <1>1 DEF DaemonInv, PhasesSound
  <2>4. RecordedRids = {}
    BY <2>3 DEF RecordedRids
  <2>5. ev.rid \notin Rids(records)
    BY <2>1, <2>3, <2>4 DEF DaemonInv, RidsKnown
  <2>6. memory = Memory(read)
    BY <1>1, <2>3 DEF DaemonInv, MemorySound
  <2>7. ev.rid \notin DOMAIN read.requestIds
    BY <2>2, <2>5, FoldsRead DEF ReplaySound
  <2>8. Codes(read, ev) = {}
    <3> HIDE DEF ev, read
    <3> QED BY <2>1, <2>6, <2>7, NotRefused
  <2>9. /\ handler'[h].phase = "idle" /\ Busy' = Busy \ {h}
        /\ \A g \in Handler : g # h => handler'[g] = handler[g]
    <3> HIDE DEF n
    <3> QED BY <2>1, AnswerShape DEF AnswerInv
  <2>10. Sdk' = Sdk /\ Serial' = Serial
    BY <1>1, TypesStay
  <2>11. PhasesSound'
    BY <1>1, <2>3, <2>9, PhasesKept DEF DaemonInv
  <2>12. \A g \in Handler : handler'[g].phase \in {"idle", "received"}
    BY <2>3, <2>9
  <2>13. RidsKnown'
    <3>1. Rids(Append(records, ev))
            = Rids(records) \cup {e.rid : e \in {x \in {ev} : IsEvent(x)}}
      BY <2>2, RidsGrown
    <3>2. Rids(records') = Rids(records) \cup {ev.rid}
      BY <2>1, <2>2, <3>1
    <3>3. DOMAIN seen' = DOMAIN seen \cup {ev.rid}
      BY <2>1 DEF Put
    <3>4. Rids(records) \subseteq DOMAIN seen
      BY <2>3, <2>4 DEF DaemonInv, RidsKnown
    <3> QED BY <2>12, <3>2, <3>3, <3>4 DEF RidsKnown
  <2>14. AdmittedSound'
    BY <2>12 DEF AdmittedSound
  <2>15. MemorySound'
    <3>1. Replay(Append(records, ev)) = ReplayStep(read, n, ev)
      BY <2>2, ReplayAppend DEF Log
    <3>2. Replay(records') = ReplayEvent(read, n, ev)
      BY <2>1, <2>2, <3>1 DEF ReplayStep
    <3>3. read = [findings |-> read.findings, scans |-> read.scans,
                  requestIds |-> read.requestIds, violations |-> read.violations]
      BY <2>2, ReplayShape
    <3> HIDE DEF read, n, ev
    <3>4. Memory(ReplayEvent(read, n, ev)) = Noted(Memory(read), n, ev)
      BY <2>7, <3>3, MemoryNoted
    <3> QED BY <2>1, <2>6, <3>2, <3>4 DEF MemorySound
  <2>16. EachDecided'
    <3>1. Decided(ev, records)
      BY <1>1, <2>8 DEF Decided
    <3> HIDE DEF ev
    <3> QED BY <1>1, <2>1, <2>2, <3>1, DecidedGrown DEF DaemonInv
  <2> QED BY <2>11, <2>13, <2>14, <2>15, <2>16 DEF DaemonInv
<1> QED BY <1>1, <1>2, <1>3, <1>4

\* Every step keeps the invariant of the daemon.
LEMMA DaemonNext ==
  ASSUME AnswerInv, DaemonInv, [Next]_vars
  PROVE  DaemonInv'
<1>1. ASSUME NEW a \in Actor, View(a) \/ Send(a) \/ TimeOut(a) \/ TurnAway(a)
      PROVE  DaemonInv'
  BY <1>1, DaemonView, DaemonSend
<1>2. ASSUME NEW h \in Handler, HandlerStep(h)
      PROVE  DaemonInv'
  BY <1>2, DaemonLookUp, DaemonCheck, DaemonAppendEvent, DaemonRemember, DaemonHandle
     DEF HandlerStep
<1>3. CASE UNCHANGED vars
  <2>1. PhasesSound'
    BY <1>3, PhasesKept DEF vars, DaemonInv, Busy
  <2>2. UNCHANGED <<shift, records, seen, memory, up, handler>>
    BY <1>3 DEF vars
  <2> QED BY <2>1, <2>2, DaemonStays
<1> QED BY <1>1, <1>2, <1>3, DaemonAppendScan, DaemonCrash, DaemonRestart DEF Next

\* The invariant of the daemon holds in every state.
LEMMA AlwaysDaemonInv == Spec => [](AnswerInv /\ DaemonInv)
<1>1. AnswerInv /\ DaemonInv /\ [Next]_vars => AnswerInv' /\ DaemonInv'
  BY AnswerNext, DaemonNext
<1> QED BY <1>1, AnswerInit, DaemonInit, PTL DEF Spec

-----------------------------------------------------------------------------
(* What follows for approvals.                                             *)

\* Each event of the ledger, against the ledger before it.
LEMMA AtDecision ==
  ASSUME AnswerInv, DaemonInv, NEW n \in Events(records)
  PROVE  /\ Prefix(n - 1) \in Log /\ n \in Nat /\ n >= 1 /\ Len(Prefix(n - 1)) = n - 1
         /\ \A m \in 1 .. n - 1 : Prefix(n - 1)[m] = records[m]
         /\ Decided(records[n], Prefix(n - 1))
         /\ records[n] \in Decision /\ IsEvent(records[n])
<1>1. records \in Log /\ Len(records) \in Nat
      /\ \A m \in 1 .. Len(records) : records[m] \in Decision \cup {ScanRecord}
  BY LenProperties, ElementOfSeq DEF AnswerInv, TypeInv, Log
<1>2. n \in 1 .. Len(records) /\ IsEvent(records[n])
  BY DEF Events
<1>3. records[n] \in Decision
  BY <1>1, <1>2 DEF IsEvent, ScanRecord
<1>4. /\ Prefix(n - 1) \in Log /\ Len(Prefix(n - 1)) = n - 1
      /\ \A m \in 1 .. n - 1 : Prefix(n - 1)[m] = records[m]
  <2>1. 1 \in 1 .. Len(records) + 1 /\ n - 1 \in 1 - 1 .. Len(records)
    BY <1>1, <1>2
  <2> QED BY <1>1, <1>2, <2>1, SubSeqProperties DEF Prefix, Log
<1> QED BY <1>1, <1>2, <1>3, <1>4 DEF DaemonInv, EachDecided

\* The audit's state of a finding, from the ledger.
LEMMA StateReads ==
  ASSUME NEW log \in Log, NEW f
  PROVE  LET st == StateOf(Replay(log), f) IN
         /\ Latest(st.last, Mentions(log, f))
         /\ DOMAIN st.overrides = Overrides(log, f)
         /\ \A n \in Overrides(log, f) : st.overrides[n] = log[n].actor
<1> DEFINE read == Replay(log)
<1>1. HistoriesSound(read.findings, log)
  BY FoldsRead DEF ReplaySound
<1> HIDE DEF read
<1>2. CASE f \in DOMAIN read.findings
  BY <1>1, <1>2 DEF HistoriesSound, HistorySound, StateOf, read
<1>3. CASE f \notin DOMAIN read.findings
  <2>1. StateOf(read, f) = NoState
    BY <1>3 DEF StateOf
  <2>2. NoState.last = 0 /\ DOMAIN NoState.overrides = {}
    BY DEF NoState
  <2>3. Mentions(log, f) = {}
    BY <1>1, <1>3 DEF HistoriesSound, Mentioned, Mentions
  <2>4. Overrides(log, f) = {}
    BY <2>3 DEF Overrides, Mentions
  <2> QED BY <2>1, <2>2, <2>3, <2>4 DEF Latest, read
<1> QED BY <1>2, <1>3

\* What the audit lets pass.
LEMMA AuditedReads ==
  ASSUME NEW log \in Log, NEW ev, Codes(Replay(log), ev) = {}
  PROVE  /\ ev.action = "approve" =>
              ev.refs \in Overrides(log, ev.finding) /\ log[ev.refs].actor # ev.actor
         /\ ev.action \in {"override"} \cup TargetLevel =>
              \/ ev.expected = NoSeq
              \/ Latest(ev.expected, Mentions(log, ev.finding))
         /\ ev.rid \notin Rids(log)
<1> DEFINE read == Replay(log)
           st == StateOf(read, ev.finding)
<1>1. /\ Latest(st.last, Mentions(log, ev.finding))
      /\ DOMAIN st.overrides = Overrides(log, ev.finding)
      /\ \A n \in Overrides(log, ev.finding) : st.overrides[n] = log[n].actor
  BY StateReads
<1>2. DOMAIN read.requestIds = Rids(log)
  BY FoldsRead DEF ReplaySound
<1> HIDE DEF read
<1>3. /\ ev.rid \notin DOMAIN read.requestIds
      /\ ev.action \in {"override", "approve"} \cup TargetLevel => ev.expected \in {NoSeq, st.last}
      /\ ev.action = "approve" => ev.refs \in DOMAIN st.overrides
      /\ ev.action = "approve" /\ ev.refs \in DOMAIN st.overrides => st.overrides[ev.refs] # ev.actor
  <2>1. Codes(read, ev) = {}
    BY DEF read
  <2>2. "request_id_conflict" \notin Codes(read, ev) /\ "stale_write" \notin Codes(read, ev)
        /\ "approve_without_override" \notin Codes(read, ev) /\ "self_approval" \notin Codes(read, ev)
    BY <2>1
  <2> HIDE DEF st
  <2>3. StateOf(read, ev.finding) = st
    BY DEF st
  <2>4. ev.rid \notin DOMAIN read.requestIds
    BY <2>2 DEF Codes
  <2>5. ev.action \in {"override", "approve"} \cup TargetLevel => ev.expected \in {NoSeq, st.last}
    BY <2>2, <2>3 DEF Codes
  <2>6. ev.action = "approve" => ev.refs \in DOMAIN st.overrides
    BY <2>2, <2>3 DEF Codes
  <2>7. ev.action = "approve" /\ ev.refs \in DOMAIN st.overrides => st.overrides[ev.refs] # ev.actor
    BY <2>2, <2>3 DEF Codes
  <2> QED BY <2>4, <2>5, <2>6, <2>7
<1> HIDE DEF st
<1> QED BY <1>1, <1>2, <1>3

\* What cva-ledgerd lets pass as an approval.
LEMMA AdmittedReads ==
  ASSUME NEW log \in Log, NEW ev, AdmittedOn(ev, log), ev.action = "approve"
  PROVE  /\ ev.refs \in Asked(log)
         /\ log[ev.refs].finding = ev.finding
         /\ FourEyes => log[ev.refs].actor # ev.actor
<1>1. PICK m \in 0 .. Len(log) : Admissible(DaemonFold(SubSeq(log, 1, m)), ev, FALSE)
  BY DEF AdmittedOn
<1> DEFINE before == SubSeq(log, 1, m)
           state  == DaemonFold(before)
<1>2. /\ before \in Log /\ Len(before) = m /\ Len(log) \in Nat
      /\ \A n \in 1 .. m : before[n] = log[n]
  <2>1. Len(log) \in Nat
    BY LenProperties DEF Log
  <2>2. 1 \in 1 .. Len(log) + 1 /\ m \in 1 - 1 .. Len(log)
    BY <2>1
  <2> QED BY <2>1, <2>2, SubSeqProperties DEF Log
<1> HIDE DEF before
<1>3. DOMAIN state.approvable = Asked(before)
      /\ \A n \in Asked(before) : state.approvable[n] = before[n]
  BY <1>2, FoldsRead DEF FoldSound, RequestsSound
<1>4. MayApprove(state, ev)
  BY <1>1 DEF Admissible, before
<1> HIDE DEF state
<1>5. ev.refs \in Asked(before) /\ before[ev.refs].finding = ev.finding
      /\ (FourEyes => before[ev.refs].actor # ev.actor)
  BY <1>3, <1>4 DEF MayApprove
<1>6. ev.refs \in 1 .. m /\ before[ev.refs] = log[ev.refs]
  BY <1>2, <1>5 DEF Asked
<1> QED BY <1>2, <1>5, <1>6 DEF Asked

\* An approval names an open request of another analyst.
LEMMA ApprovalsNamed ==
  ASSUME AnswerInv, DaemonInv
  PROVE  ApprovalsNameARequest
<1> SUFFICES ASSUME NEW n \in 1 .. Len(records), records[n].action = "approve"
             PROVE  /\ records[n].refs \in 1 .. n - 1
                    /\ records[records[n].refs].action \in {"override", "release"}
                    /\ records[records[n].refs].finding = records[n].finding
                    /\ FourEyes => records[records[n].refs].actor # records[n].actor
  BY DEF ApprovalsNameARequest
<1> DEFINE ev == records[n]
           log == Prefix(n - 1)
<1>1. n \in Events(records)
  BY DEF Events, IsEvent
<1>2. /\ log \in Log /\ Len(log) = n - 1 /\ \A m \in 1 .. n - 1 : log[m] = records[m]
      /\ Decided(ev, log)
  BY <1>1, AtDecision
<1> HIDE DEF log, ev
<1>3. /\ ev.refs \in Asked(log) /\ log[ev.refs].finding = ev.finding
      /\ FourEyes => log[ev.refs].actor # ev.actor
  <2>1. CASE Sdk
    <3>1. ev.refs \in Overrides(log, ev.finding) /\ log[ev.refs].actor # ev.actor
      BY <1>2, <2>1, AuditedReads DEF Decided, ev
    <3> QED BY <3>1 DEF Overrides, Events, Asked
  <2>2. CASE ~Sdk
    BY <1>2, <2>2, AdmittedReads DEF Decided, ev
  <2> QED BY <2>1, <2>2
<1>4. ev.refs \in 1 .. n - 1 /\ log[ev.refs].action \in {"override", "release"}
  BY <1>2, <1>3 DEF Asked
<1> QED BY <1>2, <1>3, <1>4 DEF ev

\* Nobody's approval is recorded that names no override or release before it, or one of
\* another finding, or with four eyes his own.
THEOREM AlwaysApprovalsNameARequest == Spec => []ApprovalsNameARequest
<1>1. AnswerInv /\ DaemonInv => ApprovalsNameARequest
  BY ApprovalsNamed
<1> QED BY <1>1, AlwaysDaemonInv, PTL

-----------------------------------------------------------------------------
(* What follows for decisions that others overtook, and for the audit.     *)

\* With one connection nothing comes between a check and the append.
LEMMA SerialAdmits ==
  ASSUME NEW log \in Log, NEW ev, Serial, AdmittedOn(ev, log)
  PROVE  Admissible(DaemonFold(log), ev, FALSE)
<1>1. SubSeq(log, 1, Len(log)) = log
  BY SubSeqFull DEF Log
<1>2. Admissible(DaemonFold(SubSeq(log, 1, Len(log))), ev, FALSE)
  BY DEF AdmittedOn
<1> QED BY <1>1, <1>2

\* A decision that is not stale expects the latest event on what it is about.
LEMMA TouchReads ==
  ASSUME NEW log \in Log, NEW ev, NotStale(DaemonFold(log), ev), ev.expected # NoSeq
  PROVE  /\ ev.action \notin TargetLevel => Latest(ev.expected, OnFinding(log, ev.finding))
         /\ ev.action \in TargetLevel => \A m \in OnTarget(log, ev.target) : m <= ev.expected
<1> DEFINE state == DaemonFold(log)
           f == ev.finding
           t == ev.target
<1>1. FindingsSound(state.findings, log, {}, TRUE) /\ TargetsSound(state.targets, log)
  BY FoldsRead DEF FoldSound
<1>2. ev.expected = LastTouch(state, ev)
  BY DEF NotStale
<1> HIDE DEF state
<1>3. CASE ev.action \notin TargetLevel
  <2>1. CASE f \in DOMAIN state.findings
    <3>1. ev.expected = state.findings[f].last
      BY <1>2, <1>3, <2>1 DEF LastTouch
    <3>2. FindingSound(state.findings[f], log, f)
      BY <1>1, <2>1 DEF FindingsSound
    <3> QED BY <1>3, <3>1, <3>2 DEF FindingSound
  <2>2. CASE f \notin DOMAIN state.findings
    <3>1. ev.expected = 0
      BY <1>2, <1>3, <2>2 DEF LastTouch
    <3>2. OnFinding(log, f) = {}
      BY <1>1, <2>2 DEF FindingsSound, Findings, OnFinding
    <3> QED BY <1>3, <3>1, <3>2 DEF Latest
  <2> QED BY <2>1, <2>2
<1>4. CASE ev.action \in TargetLevel
  <2>1. CASE t \in DOMAIN state.targets
    <3>1. ev.expected = state.targets[t].last
      BY <1>2, <1>4, <2>1 DEF LastTouch
    <3>2. TargetSound(state.targets[t], log, t)
      BY <1>1, <2>1 DEF TargetsSound
    <3> QED BY <1>4, <3>1, <3>2 DEF TargetSound, Latest
  <2>2. CASE t \notin DOMAIN state.targets
    <3>1. OnTarget(log, t) = {}
      BY <1>1, <2>2 DEF TargetsSound, Targets, OnTarget
    <3> QED BY <1>4, <3>1
  <2> QED BY <2>1, <2>2
<1> QED BY <1>3, <1>4

\* Which records went to their target.
WentToTarget(m) ==
  \/ records[m].action \in TargetLevel
  \/ records[m].action = "approve" /\ records[records[m].refs].action = "release"

\* Which events went to a target is told by the prefix before them.
LEMMA TargetedReads ==
  ASSUME AnswerInv, DaemonInv, NEW n \in Events(records), NEW m \in 1 .. n - 1,
         IsEvent(records[m])
  PROVE  m \in Events(Prefix(n - 1)) /\ (m \in ToTarget(Prefix(n - 1)) <=> WentToTarget(m))
<1> DEFINE log == Prefix(n - 1)
<1>1. /\ n \in Nat /\ Len(log) = n - 1 /\ \A k \in 1 .. n - 1 : log[k] = records[k]
  BY AtDecision
<1>2. n \in 1 .. Len(records) /\ Len(records) \in Nat
  BY LenProperties DEF AnswerInv, TypeInv, Events
<1> HIDE DEF log
<1>3. m \in Events(log) /\ log[m] = records[m]
  BY <1>1 DEF Events
<1>4. ASSUME records[m].action = "approve"
      PROVE  records[m].refs \in Asked(log) /\ records[m].refs < m
             /\ log[records[m].refs] = records[records[m].refs]
  <2>1. m \in 1 .. Len(records)
    BY <1>1, <1>2
  <2>2. records[m].refs \in 1 .. m - 1
        /\ records[records[m].refs].action \in {"override", "release"}
    BY <1>4, <2>1, ApprovalsNamed DEF ApprovalsNameARequest
  <2> QED BY <1>1, <2>2 DEF Asked
<1>5. m \in ToTarget(log) <=> WentToTarget(m)
  BY <1>3, <1>4 DEF ToTarget, WentToTarget
<1> QED BY <1>3, <1>5 DEF log

\* A decision names the latest decision on what it is about.
LEMMA LatestDecided ==
  ASSUME AnswerInv, DaemonInv
  PROVE  DecidedOnLatest
<1> SUFFICES ASSUME Serial \/ Sdk, NEW n \in 1 .. Len(records),
                    records[n].action \in TargetLevel \cup {"override"},
                    NEW m \in records[n].expected + 1 .. n - 1, IsEvent(records[m])
             PROVE  IF records[n].action = "override"
                      THEN records[m].finding = records[n].finding => WentToTarget(m)
                      ELSE Sdk \/ (records[m].target = records[n].target => ~WentToTarget(m))
  BY DEF DecidedOnLatest, WentToTarget
<1> DEFINE ev == records[n]
           log == Prefix(n - 1)
<1>1. n \in Events(records)
  BY DEF Events, IsEvent, TargetLevel
<1>2. /\ log \in Log /\ n \in Nat /\ Len(log) = n - 1 /\ \A k \in 1 .. n - 1 : log[k] = records[k]
      /\ Decided(ev, log) /\ ev \in Decision
  BY <1>1, AtDecision
<1>3. ev.expected \in Nat /\ ev.expected # NoSeq
  BY <1>2 DEF Decision, Event, NoSeq
<1>4. m \in 1 .. n - 1 /\ m > ev.expected
  BY <1>2, <1>3
<1>5. m \in Events(log) /\ (m \in ToTarget(log) <=> WentToTarget(m)) /\ log[m] = records[m]
  BY <1>1, <1>2, <1>4, TargetedReads
<1> HIDE DEF log, ev
<1>6. CASE Sdk
  <2>1. Latest(ev.expected, Mentions(log, ev.finding))
    BY <1>2, <1>3, <1>6, AuditedReads DEF Decided, ev
  <2>2. m \notin Mentions(log, ev.finding)
    BY <1>2, <1>3, <1>4, <2>1 DEF Latest
  <2> QED BY <1>5, <1>6, <2>2 DEF Mentions, ev
<1>7. CASE ~Sdk
  <2>1. NotStale(DaemonFold(log), ev)
    <3>1. Admissible(DaemonFold(log), ev, FALSE)
      BY <1>2, <1>7, SerialAdmits DEF Decided
    <3> QED BY <3>1 DEF Admissible
  <2>2. CASE ev.action = "override"
    <3>1. ev.action \notin TargetLevel
      BY <2>2 DEF TargetLevel
    <3>2. Latest(ev.expected, OnFinding(log, ev.finding))
      BY <1>2, <1>3, <2>1, <3>1, TouchReads
    <3>3. m \notin OnFinding(log, ev.finding)
      BY <1>2, <1>3, <1>4, <3>2 DEF Latest
    <3> QED BY <1>5, <2>2, <3>3 DEF OnFinding, ev
  <2>3. CASE ev.action \in TargetLevel
    <3>1. \A k \in OnTarget(log, ev.target) : k <= ev.expected
      BY <1>2, <1>3, <2>1, <2>3, TouchReads
    <3>2. m \notin OnTarget(log, ev.target)
      BY <1>2, <1>3, <1>4, <3>1
    <3>3. ev.action # "override"
      BY <2>3 DEF TargetLevel
    <3> QED BY <1>5, <3>2, <3>3 DEF OnTarget, ev
  <2> QED BY <2>2, <2>3 DEF ev
<1> QED BY <1>6, <1>7

\* No decision is recorded that others overtook, where the daemon can know of them: the
\* seq the web process had read is that of the latest event on what it decides.
THEOREM AlwaysDecidedOnLatest == Spec => []DecidedOnLatest
<1>1. AnswerInv /\ DaemonInv => DecidedOnLatest
  BY LatestDecided
<1> QED BY <1>1, AlwaysDaemonInv, PTL

\* Why a violation on a finding is one of the three that overlapping connections
\* allow, or an action on the target cited the finding.
LEMMA ViolationExplained ==
  ASSUME AnswerInv, DaemonInv, FourEyes, NEW n \in Events(records), ~Sdk,
         NEW code \in Codes(Replay(Prefix(n - 1)), records[n]),
         \A m \in 1 .. n : IsEvent(records[m]) /\ records[m].finding = records[n].finding
                             => ~WentToTarget(m)
  PROVE  ~Serial /\ code \in {"stale_write", "request_id_conflict"}
<1> DEFINE ev == records[n]
           log == Prefix(n - 1)
           f == ev.finding
           st == StateOf(Replay(log), f)
<1>1. /\ log \in Log /\ n \in Nat /\ n >= 1 /\ Len(log) = n - 1
      /\ \A k \in 1 .. n - 1 : log[k] = records[k]
      /\ Decided(ev, log) /\ ev \in Decision /\ IsEvent(ev)
  BY AtDecision
<1>2. AdmittedOn(ev, log) /\ (Serial => ev.rid \notin Rids(log))
  BY <1>1 DEF Decided
<1>3. /\ Latest(st.last, Mentions(log, f))
      /\ DOMAIN st.overrides = Overrides(log, f)
      /\ \A k \in Overrides(log, f) : st.overrides[k] = log[k].actor
  BY <1>1, StateReads
<1>4. ~WentToTarget(n)
  BY <1>1
<1>5. Mentions(log, f) = OnFinding(log, f)
  <2>1. ASSUME NEW m \in Mentions(log, f) PROVE m \notin ToTarget(log)
    <3>1. m \in 1 .. n - 1 /\ IsEvent(records[m]) /\ records[m].finding = f
      BY <1>1 DEF Mentions, Events
    <3> QED BY <1>1, <3>1, TargetedReads
  <2> QED BY <2>1 DEF Mentions, OnFinding
<1>6. code \in {"request_id_conflict", "stale_write", "approve_without_override", "self_approval"}
  BY DEF Codes
<1>7. ASSUME ev.action = "approve"
      PROVE  ev.refs \in Overrides(log, f) /\ log[ev.refs].actor # ev.actor
  <2>1. ev.refs \in Asked(log) /\ log[ev.refs].finding = f /\ log[ev.refs].actor # ev.actor
    <3> HIDE DEF log, ev
    <3> QED BY <1>1, <1>2, <1>7, AdmittedReads
  <2>2. ev.refs \in 1 .. n - 1 /\ log[ev.refs] = records[ev.refs]
    BY <1>1, <2>1 DEF Asked
  <2>3. log[ev.refs].action # "release"
    BY <1>1, <1>4, <1>7, <2>2 DEF WentToTarget
  <2>4. log[ev.refs].action = "override" /\ IsEvent(log[ev.refs])
    BY <2>1, <2>3 DEF Asked, IsEvent
  <2> QED BY <1>1, <2>1, <2>2, <2>4 DEF Overrides, Events
<1>8. CASE code = "request_id_conflict"
  <2>1. ev.rid \in DOMAIN Replay(log).requestIds
    BY <1>8 DEF Codes
  <2>2. ev.rid \in Rids(log)
    BY <1>1, <2>1, FoldsRead DEF ReplaySound
  <2> QED BY <1>2, <1>8, <2>2
<1>9. CASE code = "stale_write"
  <2>1. ev.action \in {"override", "approve"} \cup TargetLevel /\ ev.expected \notin {NoSeq, st.last}
    BY <1>9 DEF Codes
  <2>2. ev.action = "override"
    BY <1>1, <1>4, <2>1 DEF Decision, WentToTarget
  <2>3. ASSUME Serial PROVE FALSE
    <3> HIDE DEF log, ev, st
    <3>1. NotStale(DaemonFold(log), ev)
      BY <1>1, <1>2, <2>3, SerialAdmits DEF Admissible
    <3>2. Latest(ev.expected, OnFinding(log, f))
      BY <1>1, <2>1, <2>2, <3>1, TouchReads DEF TargetLevel
    <3>3. ev.expected = st.last
      BY SMTT(30), <1>1, <1>3, <1>5, <3>2 DEF Latest, Mentions, Events
    <3> QED BY <2>1, <3>3
  <2> QED BY <1>9, <2>3
<1>10. CASE code = "approve_without_override"
  <2>1. ev.action = "approve" /\ ev.refs \notin DOMAIN st.overrides
    BY <1>10 DEF Codes
  <2> QED BY <1>3, <1>7, <2>1
<1>11. CASE code = "self_approval"
  <2>1. ev.action = "approve" /\ ev.refs \in DOMAIN st.overrides
        /\ st.overrides[ev.refs] = ev.actor
    BY <1>11 DEF Codes
  <2> QED BY <1>3, <1>7, <2>1
<1> QED BY <1>6, <1>8, <1>9, <1>10, <1>11

\* What the audit finds was decided while another decision overtook.
LEMMA AuditExplained ==
  ASSUME AnswerInv, DaemonInv
  PROVE  AuditReads
<1> DEFINE read == Replay(records)
<1>1. records \in Log
  BY DEF AnswerInv, TypeInv, Log
<1>2. ViolationsSound(read.violations, records)
  BY <1>1, FoldsRead DEF ReplaySound
<1>3. ASSUME NEW v \in read.violations
      PROVE  /\ v.seq \in Events(records) /\ v.finding = records[v.seq].finding
             /\ v.code \in Codes(Replay(Prefix(v.seq - 1)), records[v.seq])
  BY <1>2 DEF ViolationsSound, Prefix
<1>4. Sdk => read.violations = {}
  <2>1. ASSUME Sdk, NEW v \in read.violations PROVE FALSE
    BY <1>3, <2>1, AtDecision DEF Decided
  <2> QED BY <2>1
<1>5. Sdk => (up => memory = Memory(read))
  BY DEF DaemonInv, MemorySound
<1>6. ASSUME FourEyes, NEW v \in read.violations
      PROVE  \/ \E m \in 1 .. v.seq :
                  /\ IsEvent(records[m]) /\ records[m].finding = v.finding
                  /\ WentToTarget(m)
             \/ ~Serial /\ v.code \in {"stale_write", "request_id_conflict"}
  <2>1. ~Sdk
    BY <1>4
  <2>2. CASE \E m \in 1 .. v.seq : /\ IsEvent(records[m]) /\ records[m].finding = v.finding
                                   /\ WentToTarget(m)
    BY <2>2
  <2>3. CASE \A m \in 1 .. v.seq :
               IsEvent(records[m]) /\ records[m].finding = v.finding => ~WentToTarget(m)
    <3> HIDE DEF read
    <3>1. ~Serial /\ v.code \in {"stale_write", "request_id_conflict"}
      BY <1>3, <1>6, <2>1, <2>3, ViolationExplained
    <3> QED BY <3>1
  <2> QED BY <2>2, <2>3
<1> QED BY <1>4, <1>5, <1>6 DEF AuditReads, WentToTarget

\* What the daemons record reads back clean from the ledger, but for what overlapping
\* connections and actions on a target let through; and the memory of the SDK's daemon
\* is what a restart would rebuild.
THEOREM AlwaysAuditReads == Spec => []AuditReads
<1>1. AnswerInv /\ DaemonInv => AuditReads
  BY AuditExplained
<1> QED BY <1>1, AlwaysDaemonInv, PTL

-----------------------------------------------------------------------------
(* What follows from one more turn of the fold, and for the web process.    *)

Shaped(state) ==
  state = [findings |-> state.findings, targets |-> state.targets,
           approvable |-> state.approvable, approved |-> state.approved]

Approvable(state, n, ev) ==
  IF ev.action \in {"override", "release"} THEN Put(state.approvable, n, ev) ELSE state.approvable

TargetState(state, t) == IF t \in DOMAIN state.targets THEN state.targets[t] ELSE FreshTarget

\* What one event does to the targets and to a finding of the report.
TargetsAfter(state, n, ev) ==
  IF GoesToTarget(Approvable(state, n, ev), ev)
    THEN Put(state.targets, ev.target, ApplyTarget(TargetState(state, ev.target), n, ev))
    ELSE state.targets

FindingAfter(state, n, ev, f) ==
  IF ~GoesToTarget(Approvable(state, n, ev), ev) /\ f = ev.finding
    THEN ApplyFinding(state.findings[f], n, ev) ELSE state.findings[f]

\* The parts of the state after one turn of the fold.
LEMMA ApplyParts ==
  ASSUME NEW state, NEW n, NEW ev, NEW track, Shaped(state)
  PROVE  /\ Apply(state, n, ev, track).approvable = Approvable(state, n, ev)
         /\ Apply(state, n, ev, track).targets = TargetsAfter(state, n, ev)
         /\ \A f \in DOMAIN state.findings :
              Apply(state, n, ev, track).findings[f] = FindingAfter(state, n, ev, f)
<1> DEFINE after == Apply(state, n, ev, track)
           approvable == Approvable(state, n, ev)
           approved == IF ev.action = "approve" THEN state.approved \cup {ev.refs}
                                                ELSE state.approved
           noted == [findings |-> state.findings, targets |-> state.targets,
                     approvable |-> approvable, approved |-> approved]
           goes == GoesToTarget(approvable, ev)
           target == TargetState(state, ev.target)
           finding == IF ev.finding \in DOMAIN state.findings
                        THEN state.findings[ev.finding] ELSE FreshFinding("accept")
           targets == Put(state.targets, ev.target, ApplyTarget(target, n, ev))
           findings == Put(state.findings, ev.finding, ApplyFinding(finding, n, ev))
<1>1. [state EXCEPT !.approvable = approvable,
                    !.approved = IF ev.action = "approve" THEN @ \cup {ev.refs} ELSE @] = noted
  <2> HIDE DEF approvable
  <2> DEFINE mid == [state EXCEPT !.approvable = approvable]
  <2>1. mid = [findings |-> state.findings, targets |-> state.targets,
               approvable |-> approvable, approved |-> state.approved]
    BY DEF Shaped
  <2>2. [state EXCEPT !.approvable = approvable,
                      !.approved = IF ev.action = "approve" THEN @ \cup {ev.refs} ELSE @]
          = [mid EXCEPT !.approved =
               IF ev.action = "approve" THEN mid.approved \cup {ev.refs} ELSE mid.approved]
    OBVIOUS
  <2>3. (IF ev.action = "approve" THEN mid.approved \cup {ev.refs} ELSE mid.approved) = approved
    BY <2>1
  <2>4. [mid EXCEPT !.approved = approved] = noted
    <3> HIDE DEF approved, mid
    <3> QED BY <2>1
  <2> HIDE DEF mid, approved
  <2> QED BY <2>2, <2>3, <2>4
<1>2. after = CASE goes -> [noted EXCEPT !.targets = targets]
                [] ~goes /\ (track \/ ev.finding \in DOMAIN state.findings) ->
                     [noted EXCEPT !.findings = findings]
                [] OTHER -> noted
  BY <1>1 DEF Apply, Approvable, TargetState
<1> HIDE DEF after, approvable, approved, goes, target, finding, targets, findings
<1>3. CASE goes
  <2>1. after = [noted EXCEPT !.targets = targets]
    BY <1>2, <1>3
  <2>2. after.approvable = approvable /\ after.targets = targets /\ after.findings = state.findings
    BY <2>1
  <2> QED BY <1>3, <2>2 DEF after, approvable, goes, target, targets, TargetsAfter, FindingAfter
<1>4. CASE ~goes /\ (track \/ ev.finding \in DOMAIN state.findings)
  <2>1. after = [noted EXCEPT !.findings = findings]
    BY <1>2, <1>4
  <2>2. after.approvable = approvable /\ after.targets = state.targets /\ after.findings = findings
    BY <2>1
  <2>3. \A f \in DOMAIN state.findings :
          findings[f] = IF f = ev.finding THEN ApplyFinding(state.findings[f], n, ev)
                                          ELSE state.findings[f]
    BY DEF findings, finding, Put
  <2> QED BY <1>4, <2>2, <2>3 DEF after, approvable, goes, TargetsAfter, FindingAfter
<1>5. CASE ~goes /\ ~(track \/ ev.finding \in DOMAIN state.findings)
  <2>1. after = noted
    BY <1>2, <1>5
  <2>2. after.approvable = approvable /\ after.targets = state.targets
        /\ after.findings = state.findings
    BY <2>1
  <2> QED BY <1>5, <2>2 DEF after, approvable, goes, TargetsAfter, FindingAfter
<1> QED BY <1>3, <1>4, <1>5

\* One more record, for the folds.
LEMMA WebTurn ==
  ASSUME NEW log \in Log, NEW r \in Decision \cup {ScanRecord}
  PROVE  /\ WebFold(Append(log, r)) = FoldStep(WebFold(log), Len(log) + 1, r, FALSE)
         /\ DaemonFold(Append(log, r)) = FoldStep(DaemonFold(log), Len(log) + 1, r, TRUE)
         /\ Shaped(WebFold(log)) /\ Shaped(DaemonFold(log))
<1>1. Fold(Original, FALSE, Append(log, r))
        = FoldStep(Fold(Original, FALSE, log), Len(log) + 1, r, FALSE)
  BY FoldAppend DEF Log
<1>2. Fold(<<>>, TRUE, Append(log, r)) = FoldStep(Fold(<<>>, TRUE, log), Len(log) + 1, r, TRUE)
  BY FoldAppend DEF Log
<1>3. Shaped(WebFold(log)) /\ Shaped(DaemonFold(log))
  BY FoldsRead DEF FoldSound, Shaped
<1> QED BY <1>1, <1>2, <1>3 DEF WebFold, DaemonFold

\* The web process and the daemon see the same targets and the same requests, though
\* only one of them has the report.
LEMMA FoldsAgree ==
  ASSUME NEW log \in Log
  PROVE  /\ WebFold(log).targets = DaemonFold(log).targets
         /\ WebFold(log).approvable = DaemonFold(log).approvable
<1> DEFINE Agree(l) == /\ WebFold(l).targets = DaemonFold(l).targets
                       /\ WebFold(l).approvable = DaemonFold(l).approvable
           N == Len(log)
           G == {n \in 0 .. N : Agree(SubSeq(log, 1, n))}
<1>1. N \in Nat
  BY LenProperties DEF Log
<1>2. 0 \in G
  <2>1. SubSeq(log, 1, 0) = <<>>
    BY SubSeqEmpty
  <2>2. Agree(<<>>)
    <3>1. WebFold(<<>>) = FoldStart(Original) /\ DaemonFold(<<>>) = FoldStart(<<>>)
      BY FoldEmpty DEF WebFold, DaemonFold
    <3> QED BY <3>1 DEF FoldStart
  <2> HIDE DEF Agree
  <2>3. Agree(SubSeq(log, 1, 0))
    BY <2>1, <2>2, Zenon
  <2> QED BY <1>1, <2>3
<1>3. ASSUME NEW n \in 0 .. N - 1, n \in G
      PROVE  n + 1 \in G
  <2> DEFINE before == SubSeq(log, 1, n)
             upto   == SubSeq(log, 1, n + 1)
             r      == log[n + 1]
             k      == Len(before) + 1
  <2>1. before \in Log /\ r \in Decision \cup {ScanRecord} /\ upto = Append(before, r)
    BY PrefixNext DEF Log
  <2>2. Agree(before)
    BY <1>3
  <2> HIDE DEF before, upto, r, k
  <2>3. /\ WebFold(upto) = FoldStep(WebFold(before), k, r, FALSE)
        /\ DaemonFold(upto) = FoldStep(DaemonFold(before), k, r, TRUE)
        /\ Shaped(WebFold(before)) /\ Shaped(DaemonFold(before))
    BY <2>1, WebTurn DEF k
  <2>4. Agree(upto)
    <3> DEFINE web == WebFold(before)
               daemon == DaemonFold(before)
    <3>1. CASE IsEvent(r)
      <4>1. WebFold(upto) = Apply(web, k, r, FALSE) /\ DaemonFold(upto) = Apply(daemon, k, r, TRUE)
        BY <2>3, <3>1 DEF FoldStep
      <4>s. Shaped(web) /\ Shaped(daemon)
        BY <2>3
      <4>2. Approvable(web, k, r) = Approvable(daemon, k, r)
        BY <2>2 DEF Approvable
      <4>3. TargetState(web, r.target) = TargetState(daemon, r.target)
        BY <2>2 DEF TargetState
      <4>4. web.targets = daemon.targets
        BY <2>2
      <4> HIDE DEF web, daemon
      <4>5. /\ Apply(web, k, r, FALSE).approvable = Approvable(web, k, r)
            /\ Apply(web, k, r, FALSE).targets = TargetsAfter(web, k, r)
        BY <4>s, ApplyParts
      <4>6. /\ Apply(daemon, k, r, TRUE).approvable = Approvable(daemon, k, r)
            /\ Apply(daemon, k, r, TRUE).targets = TargetsAfter(daemon, k, r)
        BY <4>s, ApplyParts
      <4>7. TargetsAfter(web, k, r) = TargetsAfter(daemon, k, r)
        BY <4>2, <4>3, <4>4 DEF TargetsAfter
      <4> QED BY <4>1, <4>2, <4>5, <4>6, <4>7
    <3>2. CASE ~IsEvent(r)
      BY <2>2, <2>3, <3>2 DEF FoldStep
    <3> QED BY <3>1, <3>2
  <2> HIDE DEF Agree
  <2> QED BY <1>1, <2>4 DEF upto
<1>4. Agree(SubSeq(log, 1, N))
  <2>1. \A n \in 0 .. N - 1 : n \in G => n + 1 \in G
    BY <1>3
  <2> HIDE DEF G
  <2>2. \A n \in 0 .. N : n \in G
    BY <1>1, <1>2, <2>1, Positions, Zenon
  <2>3. N \in G
    BY <1>1, <2>2
  <2> HIDE DEF Agree
  <2> QED BY <2>3 DEF G
<1>5. SubSeq(log, 1, N) = log
  BY SubSeqFull DEF Log
<1> HIDE DEF Agree
<1>6. Agree(log)
  BY <1>4, <1>5
<1> QED BY <1>6 DEF Agree

\* What the web process admits for a reported finding, the daemon admits.
LEMMA WebAgrees ==
  ASSUME NEW log \in Log, NEW ev, Admissible(WebFold(log), ev, TRUE), ev.finding \in Reported
  PROVE  Admissible(DaemonFold(log), ev, FALSE)
<1> DEFINE web == WebFold(log)
           daemon == DaemonFold(log)
           f == ev.finding
<1>1. /\ FindingsSound(web.findings, log, Reported, FALSE)
      /\ FindingsSound(daemon.findings, log, {}, TRUE)
      /\ web.approved = daemon.approved
  BY FoldsRead DEF FoldSound, RequestsSound
<1>2. web.targets = daemon.targets /\ web.approvable = daemon.approvable
  BY FoldsAgree
<1>3. Len(log) \in Nat
  BY LenProperties DEF Log
<1> HIDE DEF web, daemon
<1>4. f \in DOMAIN web.findings /\ Latest(web.findings[f].last, OnFinding(log, f))
  BY <1>1 DEF FindingsSound, FindingSound
<1>5. CASE f \in DOMAIN daemon.findings
  <2>1. Latest(daemon.findings[f].last, OnFinding(log, f))
    BY <1>1, <1>5 DEF FindingsSound, FindingSound
  <2>2. web.findings[f].last = daemon.findings[f].last
    BY <1>3, <1>4, <2>1 DEF Latest, OnFinding, Events
  <2>3. LastTouch(web, ev) = LastTouch(daemon, ev)
    BY <1>2, <1>4, <1>5, <2>2 DEF LastTouch
  <2> QED BY <1>1, <1>2, <2>3 DEF Admissible, NotStale, MayApprove, web, daemon
<1>6. CASE f \notin DOMAIN daemon.findings
  <2>1. OnFinding(log, f) = {}
    BY <1>1, <1>6 DEF FindingsSound, Findings, OnFinding
  <2>2. web.findings[f].last = 0
    BY <1>4, <2>1 DEF Latest
  <2>3. LastTouch(web, ev) = LastTouch(daemon, ev)
    BY <1>2, <1>4, <1>6, <2>2 DEF LastTouch
  <2> QED BY <1>1, <1>2, <2>3 DEF Admissible, NotStale, MayApprove, web, daemon
<1> QED BY <1>5, <1>6

\* Whatever the web process lets a person send about a finding of the report, the
\* daemon would record on the same ledger, although it does not have the report.
THEOREM AlwaysDaemonAgrees == Spec => []DaemonAgrees
<1>1. AnswerInv => DaemonAgrees
  <2> SUFFICES ASSUME AnswerInv, ~Sdk, NEW a \in Actor, NEW ev \in Requests(a, 1, records),
                      ev.finding \in Reported
               PROVE  Admissible(DaemonFold(records), ev, FALSE)
    BY DEF DaemonAgrees
  <2>1. records \in Log
    BY DEF AnswerInv, TypeInv, Log
  <2>2. Admissible(WebFold(records), ev, TRUE)
    BY DEF Requests
  <2> QED BY <2>1, <2>2, WebAgrees
<1> QED BY <1>1, AlwaysAnswerInv, PTL

-----------------------------------------------------------------------------
(* What a step does to the ledger, and what that does to its state.         *)

\* A step adds at most one record, and an event only if it was decided.
LEMMA LedgerGrows ==
  ASSUME AnswerInv, DaemonInv, [Next]_vars, records' # records
  PROVE  \E r \in Decision \cup {ScanRecord} :
           records' = Append(records, r) /\ (IsEvent(r) => Decided(r, records))
<1>1. \A h \in Handler : handler[h].ev # NoEvent => handler[h].ev \in Decision
  BY DEF AnswerInv, TypeInv, HandlersTyped, HandlerType
<1>2. PICK r \in Decision \cup {ScanRecord} : records' = Append(records, r)
  <2>1. ASSUME NEW h \in Handler, AppendEvent(h)
        PROVE  handler[h].ev \in Decision /\ records' = Append(records, handler[h].ev)
    BY <1>1, <2>1 DEF AppendEvent, AnswerInv, TypeInv, HandlersTyped
  <2>2. ASSUME NEW h \in Handler, Handle(h)
        PROVE  handler[h].ev \in Decision /\ records' = Append(records, handler[h].ev)
    <3>1. handler[h].phase = "received" /\ (Known(h) \/ TurnedDown(h) \/ Accepted(h))
      BY <2>2, HandleCases
    <3>2. records' = Append(records, handler[h].ev)
      BY <3>1 DEF Known, TurnedDown, Accepted
    <3> QED BY <1>1, <3>1, <3>2 DEF AnswerInv, TypeInv, HandlersTyped
  <2>3. ASSUME AppendScan PROVE records' = Append(records, ScanRecord)
    BY <2>3 DEF AppendScan
  <2>4. ASSUME NEW a \in Actor PROVE ~(View(a) \/ Send(a) \/ TimeOut(a) \/ TurnAway(a))
    BY DEF View, Send, TimeOut, TurnAway
  <2>5. ~Crash /\ ~Restart /\ ~UNCHANGED vars
    BY DEF Crash, Restart, vars
  <2>6. ASSUME NEW h \in Handler PROVE ~(LookUp(h) \/ Check(h) \/ Remember(h))
    BY DEF LookUp, Check, Remember
  <2> QED BY <2>1, <2>2, <2>3, <2>4, <2>5, <2>6 DEF Next, HandlerStep
<1>3. shift' = shift
  BY DEF Next, HandlerStep, View, Send, TimeOut, TurnAway, LookUp, Check, AppendEvent,
         Remember, Handle, AppendScan, Crash, Restart, vars
<1>4. ASSUME IsEvent(r) PROVE Decided(r, records)
  <2>1. EachDecided'
    BY DaemonNext DEF DaemonInv
  <2>2. records \in Log
    BY DEF AnswerInv, TypeInv, Log
  <2>3. Grown(records, records') /\ records'[Len(records) + 1] = r
    BY <1>2, <2>2, AppendGrows DEF Log
  <2>4. Len(records) + 1 \in Events(records')
    BY <1>4, <2>3 DEF Grown, Events
  <2>5. SubSeq(records', 1, Len(records)) = records
    <3>1. Len(records) \in 0 .. Len(records)
      BY <2>3 DEF Grown
    <3>2. SubSeq(records', 1, Len(records)) = SubSeq(records, 1, Len(records))
      BY <1>2, <2>2, <3>1, PrefixKept DEF Log
    <3> QED BY <2>2, <3>2, SubSeqFull DEF Log
  <2>6. Len(records) + 1 - 1 = Len(records)
    BY <2>3 DEF Grown
  <2>7. Decided(records'[Len(records) + 1], SubSeq(records', 1, Len(records) + 1 - 1))
    BY <1>3, <2>1, <2>4, EachDecidedThen
  <2> QED BY <2>3, <2>5, <2>6, <2>7
<1> QED BY <1>2, <1>4

\* How the finding that an event is about comes to be lowered.
LEMMA Lowered ==
  ASSUME NEW st, NEW n, NEW ev, FourEyes, st.effective \in Disposition,
         st = [effective |-> st.effective, cited |-> st.cited, pending |-> st.pending,
               last |-> st.last],
         ev.action = "override" => ev.disposition \in Disposition,
         Raises(ApplyFinding(st, n, ev).effective, st.effective)
  PROVE  /\ Blesses(ev, st.pending)
         /\ ApplyFinding(st, n, ev).effective = st.pending.disposition
<1> DEFINE touched == [st EXCEPT !.last = n]
<1>1. \A d \in Disposition : Rank[d] \in Int
  BY DEF Disposition, Rank
<1>t. touched = [effective |-> st.effective, cited |-> st.cited, pending |-> st.pending,
                 last |-> n]
  OBVIOUS
<1> HIDE DEF touched
<1>2. CASE ev.action = "override" /\ (Raises(st.effective, ev.disposition) \/ ~FourEyes)
  <2>1. ApplyFinding(st, n, ev)
          = [touched EXCEPT !.effective = ev.disposition, !.cited = n, !.pending = NoChange]
    BY <1>2 DEF ApplyFinding, touched, Blesses
  <2>2. ApplyFinding(st, n, ev).effective = ev.disposition
    BY <1>t, <2>1
  <2> QED BY <1>1, <1>2, <2>2 DEF Raises
<1>3. CASE ev.action = "override" /\ ~(Raises(st.effective, ev.disposition) \/ ~FourEyes)
  <2>1. ApplyFinding(st, n, ev) = [touched EXCEPT !.pending = Change(n, ev)]
    BY <1>3 DEF ApplyFinding, touched, Blesses
  <2>2. ApplyFinding(st, n, ev).effective = st.effective
    BY <1>t, <2>1
  <2> QED BY <1>1, <2>2 DEF Raises
<1>4. CASE ev.action # "override" /\ Blesses(ev, st.pending)
  <2>1. ApplyFinding(st, n, ev)
          = [touched EXCEPT !.effective = st.pending.disposition, !.cited = n,
                            !.pending = NoChange]
    BY <1>4 DEF ApplyFinding, touched
  <2>2. ApplyFinding(st, n, ev).effective = st.pending.disposition
    BY <1>t, <2>1
  <2> QED BY <1>4, <2>2
<1>5. CASE ev.action # "override" /\ ~Blesses(ev, st.pending)
  <2>1. ApplyFinding(st, n, ev) = touched
    BY <1>5 DEF ApplyFinding, touched
  <2> QED BY <1>1, <1>t, <2>1 DEF Raises
<1> QED BY <1>2, <1>3, <1>4, <1>5

\* How the target that an event is about comes to be active again.
LEMMA Lifted ==
  ASSUME NEW t, NEW n, NEW ev, FourEyes,
         t = [status |-> t.status, cited |-> t.cited, pending |-> t.pending, last |-> t.last],
         t.status = "quarantined", ApplyTarget(t, n, ev).status = "active"
  PROVE  Blesses(ev, t.pending)
<1> DEFINE touched == [t EXCEPT !.last = n]
<1>t. touched = [status |-> t.status, cited |-> t.cited, pending |-> t.pending, last |-> n]
  OBVIOUS
<1> HIDE DEF touched
<1>1. CASE ev.action = "quarantine"
  <2>1. ApplyTarget(t, n, ev)
          = [touched EXCEPT !.status = "quarantined", !.cited = n, !.pending = NoChange]
    BY <1>1 DEF ApplyTarget, touched, Blesses
  <2> QED BY <1>t, <2>1
<1>2. CASE ev.action = "release"
  <2>1. ApplyTarget(t, n, ev) = [touched EXCEPT !.pending = Change(n, ev)]
    BY <1>2 DEF ApplyTarget, touched, Blesses
  <2> QED BY <1>t, <2>1
<1>3. CASE ev.action \notin {"quarantine", "release"} /\ ~Blesses(ev, t.pending)
  <2>1. ApplyTarget(t, n, ev) = touched
    BY <1>3 DEF ApplyTarget, touched
  <2> QED BY <1>t, <2>1
<1> QED BY <1>1, <1>2, <1>3

\* Only an approval of another analyst's override lowers a finding.
LEMMA LoweringStep ==
  ASSUME NEW log \in Log, NEW ev \in Decision \cup {ScanRecord}, NEW f \in Reported, FourEyes,
         Raises(WebFold(Append(log, ev)).findings[f].effective,
                WebFold(log).findings[f].effective)
  PROVE  /\ ev.action = "approve"
         /\ log[ev.refs].action = "override"
         /\ log[ev.refs].finding = f
         /\ log[ev.refs].disposition = WebFold(Append(log, ev)).findings[f].effective
         /\ log[ev.refs].actor # ev.actor
         /\ \A n \in ev.refs + 1 .. Len(log) :
              ~(log[n].action = "override" /\ log[n].finding = f)
<1> DEFINE web == WebFold(log)
           after == WebFold(Append(log, ev))
           st == web.findings[f]
           k == Len(log) + 1
<1>1. Len(log) \in Nat
  BY LenProperties DEF Log
<1>2. Shaped(web) /\ after = FoldStep(web, k, ev, FALSE)
  BY WebTurn
<1>3. DOMAIN web.findings = Reported \cup Findings(log, FALSE) /\ FindingSound(st, log, f)
  BY FoldsRead DEF FoldSound, FindingsSound
<1>4. st.effective \in Disposition
      /\ st = [effective |-> st.effective, cited |-> st.cited, pending |-> st.pending,
               last |-> st.last]
  BY <1>3, Zenon DEF FindingSound
<1>5. Rank[st.effective] \in Int
  BY <1>4 DEF Disposition, Rank
<1>6. Raises(after.findings[f].effective, st.effective)
  OBVIOUS
<1> HIDE DEF web, after, st, k
<1>7. after.findings[f] # st
  BY <1>5, <1>6 DEF Raises
<1>8. IsEvent(ev) /\ after = Apply(web, k, ev, FALSE)
  BY <1>2, <1>7 DEF FoldStep, st
<1>9. after.findings[f] = FindingAfter(web, k, ev, f)
  <2>1. \A g \in DOMAIN web.findings :
          Apply(web, k, ev, FALSE).findings[g] = FindingAfter(web, k, ev, g)
    BY <1>2, ApplyParts, Zenon
  <2> QED BY <1>3, <1>8, <2>1
<1>10. f = ev.finding /\ after.findings[f] = ApplyFinding(st, k, ev)
  BY <1>7, <1>9 DEF FindingAfter, st
<1>11. ev.action = "override" => ev.disposition \in Disposition
  BY <1>8 DEF Decision, IsEvent, ScanRecord
<1>12. Raises(ApplyFinding(st, k, ev).effective, st.effective)
  BY <1>6, <1>10
<1>13. Blesses(ev, st.pending) /\ ApplyFinding(st, k, ev).effective = st.pending.disposition
  BY <1>4, <1>11, <1>12, Lowered
<1>14. after.findings[f].effective = st.pending.disposition
  BY <1>10, <1>13
<1>15. PICK m \in Overrides(log, f) :
         st.pending = Change(m, log[m]) /\ Latest(m, Overrides(log, f))
  BY <1>3, <1>13 DEF FindingSound, Blesses
<1>16. /\ ev.action = "approve" /\ ev.refs = m
       /\ ev.actor # log[m].actor /\ st.pending.disposition = log[m].disposition
  BY <1>13, <1>15 DEF Blesses, Change
<1>17. m \in Nat /\ log[m].action = "override" /\ log[m].finding = f
  BY <1>1 DEF Overrides, Events
<1>18. ASSUME NEW n \in m + 1 .. Len(log), log[n].action = "override", log[n].finding = f
       PROVE  FALSE
  <2>1. n \in Overrides(log, f)
    BY <1>1, <1>17, <1>18 DEF Overrides, Events, IsEvent
  <2> QED BY <1>15, <1>17, <2>1 DEF Latest
<1> QED BY <1>14, <1>16, <1>17, <1>18 DEF after

\* Only an approval of another analyst's release lifts a quarantine.
LEMMA LiftingStep ==
  ASSUME NEW log \in Log, NEW ev \in Decision \cup {ScanRecord}, FourEyes,
         NEW t \in DOMAIN WebFold(log).targets,
         WebFold(log).targets[t].status = "quarantined",
         WebFold(Append(log, ev)).targets[t].status = "active"
  PROVE  /\ ev.action = "approve"
         /\ log[ev.refs].action = "release"
         /\ log[ev.refs].target = t
         /\ log[ev.refs].actor # ev.actor
         /\ \A n \in ev.refs + 1 .. Len(log) :
              ~(log[n].action \in TargetLevel /\ log[n].target = t)
<1> DEFINE web == WebFold(log)
           after == WebFold(Append(log, ev))
           st == web.targets[t]
           k == Len(log) + 1
<1>1. Len(log) \in Nat
  BY LenProperties DEF Log
<1>2. Shaped(web) /\ after = FoldStep(web, k, ev, FALSE)
  BY WebTurn
<1>3. TargetSound(st, log, t)
  BY FoldsRead DEF FoldSound, TargetsSound
<1>4. st = [status |-> st.status, cited |-> st.cited, pending |-> st.pending, last |-> st.last]
  BY <1>3, Zenon DEF TargetSound
<1>5. st.status = "quarantined" /\ after.targets[t].status = "active" /\ t \in DOMAIN web.targets
  OBVIOUS
<1> HIDE DEF web, after, st, k
<1>6. IsEvent(ev) /\ after = Apply(web, k, ev, FALSE)
  BY <1>2, <1>5 DEF FoldStep, st
<1>7. after.targets = TargetsAfter(web, k, ev)
  <2>1. Apply(web, k, ev, FALSE).targets = TargetsAfter(web, k, ev)
    BY <1>2, ApplyParts, ZenonT(60)
  <2> QED BY <1>6, <2>1
<1>8. t = ev.target /\ after.targets[t] = ApplyTarget(st, k, ev)
  BY <1>5, <1>7 DEF TargetsAfter, TargetState, Put, st
<1>9. Blesses(ev, st.pending)
  BY <1>4, <1>5, <1>8, Lifted
<1>10. PICK m \in Levels(log, t) :
         /\ st.pending = Change(m, log[m]) /\ Latest(m, Levels(log, t))
         /\ log[m].action = "release"
  BY <1>3, <1>9 DEF TargetSound, Blesses
<1>11. ev.action = "approve" /\ ev.refs = m /\ ev.actor # log[m].actor
  BY <1>9, <1>10 DEF Blesses, Change
<1>12. m \in Nat /\ log[m].target = t
  BY <1>1 DEF Levels, Events
<1>13. ASSUME NEW n \in m + 1 .. Len(log), log[n].action \in TargetLevel, log[n].target = t
       PROVE  FALSE
  <2>1. n \in Levels(log, t)
    BY <1>1, <1>12, <1>13 DEF Levels, Events, IsEvent, TargetLevel
  <2> QED BY <1>10, <1>12, <2>1 DEF Latest
<1> QED BY <1>10, <1>11, <1>12, <1>13

\* With four eyes, only the approval of the latest override of a finding, by somebody
\* else than who asked for it, lowers the finding, and to just what was asked for.
THEOREM AlwaysLoweringNeedsTwo == Spec => LoweringNeedsTwo
<1> DEFINE A == Serial /\ records' # records => \A f \in Reported :
         LET was == WebFold(records).findings[f].effective
             is == WebFold(records').findings[f].effective
             ev == records'[Len(records')]
         IN  FourEyes /\ Raises(is, was) =>
               /\ ev.action = "approve"
               /\ records[ev.refs].action = "override"
               /\ records[ev.refs].finding = f
               /\ records[ev.refs].disposition = is
               /\ records[ev.refs].actor # ev.actor
               /\ \A n \in ev.refs + 1 .. Len(records) :
                    ~(records[n].action = "override" /\ records[n].finding = f)
<1>1. AnswerInv /\ DaemonInv /\ [Next]_vars => [A]_records
  <2> SUFFICES ASSUME AnswerInv, DaemonInv, [Next]_vars, records' # records PROVE A
    OBVIOUS
  <2>1. PICK r \in Decision \cup {ScanRecord} : records' = Append(records, r)
    BY LedgerGrows
  <2>2. records \in Log
    BY DEF AnswerInv, TypeInv, Log
  <2>3. records'[Len(records')] = r
    BY <2>1, <2>2, AppendGrows DEF Log, Grown
  <2> QED BY <2>1, <2>2, <2>3, LoweringStep
<1> HIDE DEF A
<1>2. Spec => [][A]_records
  BY <1>1, AlwaysDaemonInv, PTL DEF Spec
<1> QED BY <1>2 DEF A, LoweringNeedsTwo

\* With four eyes, only the approval of the latest release of a quarantined target, by
\* somebody else than who asked for it, makes the target active again.
THEOREM AlwaysLiftingNeedsTwo == Spec => LiftingNeedsTwo
<1> DEFINE A == Serial /\ records' # records => \A t \in DOMAIN WebFold(records).targets :
         LET ev == records'[Len(records')]
         IN  /\ FourEyes
             /\ WebFold(records).targets[t].status = "quarantined"
             /\ WebFold(records').targets[t].status = "active"
             =>
               /\ ev.action = "approve"
               /\ records[ev.refs].action = "release"
               /\ records[ev.refs].target = t
               /\ records[ev.refs].actor # ev.actor
               /\ \A n \in ev.refs + 1 .. Len(records) :
                    ~(records[n].action \in TargetLevel /\ records[n].target = t)
<1>1. AnswerInv /\ DaemonInv /\ [Next]_vars => [A]_records
  <2> SUFFICES ASSUME AnswerInv, DaemonInv, [Next]_vars, records' # records PROVE A
    OBVIOUS
  <2>1. PICK r \in Decision \cup {ScanRecord} : records' = Append(records, r)
    BY LedgerGrows
  <2>2. records \in Log
    BY DEF AnswerInv, TypeInv, Log
  <2>3. records'[Len(records')] = r
    BY <2>1, <2>2, AppendGrows DEF Log, Grown
  <2> QED BY <2>1, <2>2, <2>3, LiftingStep
<1> HIDE DEF A
<1>2. Spec => [][A]_records
  BY <1>1, AlwaysDaemonInv, PTL DEF Spec
<1> QED BY <1>2 DEF A, LiftingNeedsTwo

-----------------------------------------------------------------------------
(* The daemons implement the register of decisions.                        *)

\* The register's gate and folds are those of the daemons.
LEMMA SameGate ==
  ASSUME NEW state, NEW ev, NEW known
  PROVE  Register!Admissible(state, ev, known) = Admissible(state, ev, known)
  BY DEF Admissible, Register!Admissible, NotStale, Register!NotStale, MayApprove,
         Register!MayApprove, LastTouch, Register!LastTouch, RoleActions, Register!RoleActions,
         WorkflowActions, Register!WorkflowActions, TargetLevel, Register!TargetLevel, NoSeq,
         Register!NoSeq

\* The register reads a ledger with the same fold.
LEMMA SameFold ==
  ASSUME NEW log
  PROVE  Register!DaemonFold(log) = DaemonFold(log)
  BY DEF DaemonFold, Register!DaemonFold, Fold, Register!Fold, Apply, Register!Apply, IsEvent,
         Register!IsEvent, FreshFinding, Register!FreshFinding, FreshTarget,
         Register!FreshTarget, NoChange, Register!NoChange, Put, Register!Put, GoesToTarget,
         Register!GoesToTarget, TargetLevel, Register!TargetLevel, ApplyTarget,
         Register!ApplyTarget, ApplyFinding, Register!ApplyFinding, Blesses, Register!Blesses,
         Change, Register!Change, Raises, Register!Raises, Rank, Register!Rank

\* The register refuses for the same reasons.
LEMMA SameCodes ==
  ASSUME NEW read, NEW ev
  PROVE  Register!Codes(read, ev) = Codes(read, ev)
  BY DEF Codes, Register!Codes, StateOf, Register!StateOf, NoState, Register!NoState, NoSeq,
         Register!NoSeq, NoDisposition, Register!NoDisposition, TargetLevel,
         Register!TargetLevel

\* The register replays a ledger in the same way.
LEMMA SameReplay ==
  ASSUME NEW log
  PROVE  Register!Replay(log) = Replay(log)
  BY DEF Replay, Register!Replay, IsEvent, Register!IsEvent, ReplayEvent, Register!ReplayEvent,
         Put, Register!Put, Touch, Register!Touch, StateOf, Register!StateOf, NoState,
         Register!NoState, NoDisposition, Register!NoDisposition, Codes, Register!Codes, NoSeq,
         Register!NoSeq, TargetLevel, Register!TargetLevel

\* An event that was decided is one the register may record.
LEMMA DecidedIsRecorded ==
  ASSUME AnswerInv, NEW ev \in Decision, IsEvent(ev), Decided(ev, records),
         records' = Append(records, ev), shift' = shift
  PROVE  Register!Record(ev)
<1>1. Len(records) \in Nat
  BY LenProperties DEF AnswerInv, TypeInv
<1>2. Register!IsEvent(ev) /\ (~Sdk => (Serial => ev.rid \notin Register!RequestIds))
  <2>1. Register!RequestIds = Rids(records)
    BY DEF Register!RequestIds, Register!IsEvent, Rids, Events, IsEvent
  <2> QED BY <2>1 DEF Register!IsEvent, IsEvent, Decided
<1>3. UNCHANGED <<Serial, IF Sdk THEN "audit" ELSE "workflow">>
  BY TypesStay DEF Serial, Sdk
<1>4. CASE Sdk
  <2>1. Codes(Replay(records), ev) = {}
    BY <1>4 DEF Decided
  <2>2. Register!Codes(Register!Replay(records), ev) = {}
    BY <2>1, SameCodes, SameReplay
  <2>3. ev.rid \notin Register!RequestIds
    <3>1. ev.rid \notin DOMAIN Replay(records).requestIds
      BY <2>1 DEF Codes
    <3>2. records \in Log
      BY DEF AnswerInv, TypeInv, Log
    <3>3. Register!RequestIds = Rids(records)
      BY DEF Register!RequestIds, Register!IsEvent, Rids, Events, IsEvent
    <3> QED BY <3>1, <3>2, <3>3, FoldsRead DEF ReplaySound
  <2> QED BY <1>2, <1>3, <1>4, <2>2, <2>3 DEF Register!Record
<1>5. CASE ~Sdk
  <2>1. PICK m \in 0 .. Len(records) :
          /\ Serial => m = Len(records)
          /\ Admissible(DaemonFold(SubSeq(records, 1, m)), ev, FALSE)
    BY <1>5 DEF Decided, AdmittedOn
  <2>2. Register!Admissible(Register!DaemonFold(SubSeq(records, 1, m)), ev, FALSE)
    BY <2>1, SameGate, SameFold
  <2>3. m \in (IF Serial THEN {} ELSE 0 .. Len(records)) \cup {Len(records)}
    BY <2>1
  <2> QED BY <1>2, <1>3, <1>5, <2>2, <2>3 DEF Register!Record
<1> QED BY <1>4, <1>5

\* However requests, retries, timeouts, crashes and restarts interleave, the ledger grows
\* as a register of decisions: each is decided by what was recorded before it, over one
\* connection at a time by all of it and under a request id of its own.
THEOREM DaemonImplementsRegister == Spec => ImplementsRegister
<1>1. Init => Register!Init
  BY DEF Init, Register!Init, Serial, Sdk
<1>2. ASSUME AnswerInv, DaemonInv, [Next]_vars
      PROVE  [Register!Next]_<<records, Serial, IF Sdk THEN "audit" ELSE "workflow">>
  <2>1. shift' = shift
    BY <1>2 DEF Next, HandlerStep, View, Send, TimeOut, TurnAway, LookUp, Check, AppendEvent,
           Remember, Handle, AppendScan, Crash, Restart, vars
  <2>2. UNCHANGED <<Serial, IF Sdk THEN "audit" ELSE "workflow">>
    BY <2>1, TypesStay DEF Serial, Sdk
  <2>3. CASE records' = records
    BY <2>2, <2>3
  <2>4. CASE records' # records
    <3>1. PICK r \in Decision \cup {ScanRecord} :
            records' = Append(records, r) /\ (IsEvent(r) => Decided(r, records))
      BY <1>2, <2>4, LedgerGrows
    <3>2. CASE r \in Decision /\ IsEvent(r)
      <4>1. Register!Record(r)
        BY <1>2, <2>1, <3>1, <3>2, DecidedIsRecorded
      <4>2. r \in {records'[n] : n \in DOMAIN records'}
        <5>1. records \in Seq(Decision \cup {ScanRecord})
          BY <1>2 DEF AnswerInv, TypeInv
        <5>2. DOMAIN records' = 1 .. Len(records) + 1 /\ records'[Len(records) + 1] = r
              /\ Len(records) \in Nat
          BY <3>1, <5>1, AppendProperties, LenProperties
        <5> QED BY <5>2
      <4> QED BY <4>1, <4>2 DEF Register!Next
    <3>3. CASE ~(r \in Decision /\ IsEvent(r))
      <4>1. r = ScanRecord
        BY <3>3 DEF Decision, Event, WorkflowActions, IsEvent, ScanRecord
      <4>2. Register!SealScan
        BY <2>2, <3>1, <4>1 DEF Register!SealScan, Register!ScanRecord, ScanRecord
      <4> QED BY <4>2 DEF Register!Next
    <3> QED BY <3>2, <3>3
  <2> QED BY <2>3, <2>4
<1>3. AnswerInv /\ DaemonInv /\ [Next]_vars
        => [Register!Next]_<<records, Serial, IF Sdk THEN "audit" ELSE "workflow">>
  BY <1>2
<1> QED BY <1>1, <1>3, AlwaysDaemonInv, PTL DEF Spec, ImplementsRegister, Register!Spec
===============================================================================
