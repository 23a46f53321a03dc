------------------------------ MODULE Recursion ------------------------------
(***************************************************************************)
(* Functions defined by recursion over natural numbers.  Turn gives the    *)
(* value at a number from the values at smaller ones; c is whatever else   *)
(* the definition depends on.  A module that defines such a function       *)
(* instantiates this one with its own Turn, and learns that the function   *)
(* satisfies its equation: tlapm knows of `f[n \in S] == e' only that f is *)
(* some function that does, if there is one.                               *)
(***************************************************************************)
EXTENDS Integers, WellFoundedInduction, TLAPS

CONSTANT Turn(_, _, _)

\* What Turn makes of n depends on the function at smaller numbers alone.
Local(c, S) ==
  \A n \in S : \A f, g :
    (\A i \in S : i < n => f[i] = g[i]) => Turn(c, f, n) = Turn(c, g, n)

Solves(f, c, S) == f = [n \in S |-> Turn(c, f, n)]

\* A non-empty set of numbers has a least one.
LEMMA Least ==
  ASSUME NEW S \in SUBSET Nat, S # {}
  PROVE  \E i \in S : \A j \in S : i <= j
<1>1. PICK i \in S : \A j \in S : ~ (<<j, i>> \in OpToRel(<, Nat))
  BY WFMin, NatLessThanWellFounded, Zenon
<1>2. \A j \in S : ~ (j < i)
  BY <1>1, Zenon DEF OpToRel
<1> QED BY <1>2

\* Two solutions agree wherever both have everything below.
THEOREM Unique ==
  ASSUME NEW c, NEW S \in SUBSET Nat, NEW T \in SUBSET Nat, NEW f, NEW g,
         Local(c, S), Solves(f, c, S), Solves(g, c, T),
         T \subseteq S, \A n \in T : \A i \in S : i < n => i \in T
  PROVE  \A n \in T : f[n] = g[n]
<1> DEFINE Differ == {n \in T : f[n] # g[n]}
<1>1. SUFFICES ASSUME Differ # {} PROVE FALSE
  OBVIOUS
<1>2. PICK n \in Differ : \A m \in Differ : n <= m
  <2>1. Differ \in SUBSET Nat
    OBVIOUS
  <2> HIDE DEF Differ
  <2> QED BY <1>1, <2>1, Least
<1>3. \A i \in S : i < n => f[i] = g[i]
  <2> SUFFICES ASSUME NEW i \in S, i < n PROVE f[i] = g[i]
    OBVIOUS
  <2>1. i \in T
    OBVIOUS
  <2>2. ~ (n <= i)
    BY <2>1
  <2> QED BY <1>2, <2>1, <2>2
<1>4. Turn(c, f, n) = Turn(c, g, n)
  BY <1>3 DEF Local
<1>5. f[n] = Turn(c, f, n) /\ g[n] = Turn(c, g, n)
  BY DEF Solves
<1> QED BY <1>4, <1>5

\* There is a solution below every bound, and so on all of S.
LEMMA ExistsBelow ==
  ASSUME NEW c, NEW S \in SUBSET Nat, Local(c, S), NEW b \in Nat
  PROVE  \E f : Solves(f, c, {i \in S : i < b})
<1> DEFINE Below(n) == {i \in S : i < n}
           Bad == {n \in Nat : ~ \E f : Solves(f, c, Below(n))}
<1>1. SUFFICES ASSUME Bad # {} PROVE FALSE
  OBVIOUS
<1>2. PICK n \in Bad : \A m \in Bad : n <= m
  <2>1. Bad \in SUBSET Nat
    OBVIOUS
  <2> HIDE DEF Bad
  <2> QED BY <1>1, <2>1, Least
<1>3. n # 0
  <2>1. ASSUME n = 0 PROVE Solves([i \in {} |-> 0], c, Below(n))
    <3>1. \A i \in S : i \in Nat /\ ~ (i < 0)
      OBVIOUS
    <3>2. Below(n) = {}
      BY <2>1, <3>1, Zenon
    <3> QED BY <3>2 DEF Solves
  <2> QED BY <2>1
<1>4. n - 1 \in Nat /\ n - 1 \notin Bad
  <2>1. n \in Nat
    OBVIOUS
  <2>2. n - 1 \in Nat /\ ~ (n <= n - 1)
    BY <1>3, <2>1
  <2> HIDE DEF Bad
  <2> QED BY <1>2, <2>2
<1>5. PICK g : Solves(g, c, Below(n - 1))
  BY <1>4
<1> DEFINE h == [i \in Below(n) |-> IF i < n - 1 THEN g[i] ELSE Turn(c, g, i)]
<1>6. \A i \in Below(n) : h[i] = Turn(c, h, i)
  <2> SUFFICES ASSUME NEW i \in Below(n) PROVE h[i] = Turn(c, h, i)
    OBVIOUS
  <2>1. h[i] = Turn(c, g, i)
    <3>1. CASE i < n - 1
      BY <1>5, <3>1 DEF Solves
    <3>2. CASE ~ (i < n - 1)
      BY <3>2
    <3> QED BY <3>1, <3>2
  <2>2. \A j \in S : j < i => g[j] = h[j]
    OBVIOUS
  <2>3. i \in S
    OBVIOUS
  <2> HIDE DEF h
  <2> QED BY <2>1, <2>2, <2>3 DEF Local
<1>7. Solves(h, c, Below(n))
  <2>1. h = [i \in Below(n) |-> h[i]]
    OBVIOUS
  <2> HIDE DEF h
  <2> QED BY <1>6, <2>1 DEF Solves
<1> QED BY <1>7

\* There is a solution on every set of numbers.
THEOREM Exists ==
  ASSUME NEW c, NEW S \in SUBSET Nat, Local(c, S)
  PROVE  \E f : Solves(f, c, S)
<1> DEFINE Below(n) == {i \in S : i < n}
           part(n) == CHOOSE f : Solves(f, c, Below(n + 1))
           h == [n \in S |-> part(n)[n]]
<1>1. \A n \in S : Solves(part(n), c, Below(n + 1))
  BY ExistsBelow
<1>2. ASSUME NEW n \in S, NEW i \in S, i < n
      PROVE  part(n)[i] = part(i)[i]
  <2>1. Local(c, Below(n + 1))
    BY DEF Local
  <2>2. i \in Below(i + 1) /\ Below(i + 1) \subseteq Below(n + 1)
    <3>1. i \in Nat /\ n \in Nat /\ i < i + 1
      OBVIOUS
    <3>2. \A j \in S : j < i + 1 => j < n + 1
      BY <1>2, <3>1
    <3> QED BY <3>1, <3>2, Zenon
  <2>3. \A m \in Below(i + 1) : \A j \in Below(n + 1) : j < m => j \in Below(i + 1)
    OBVIOUS
  <2>4. Below(n + 1) \in SUBSET Nat /\ Below(i + 1) \in SUBSET Nat
    OBVIOUS
  <2>5. Solves(part(n), c, Below(n + 1)) /\ Solves(part(i), c, Below(i + 1))
    BY <1>1
  <2> HIDE DEF Below, part
  <2> QED BY <2>1, <2>2, <2>3, <2>4, <2>5, Unique
<1>3. \A n \in S : h[n] = Turn(c, h, n)
  <2> SUFFICES ASSUME NEW n \in S PROVE h[n] = Turn(c, h, n)
    OBVIOUS
  <2>1. n \in Below(n + 1)
    OBVIOUS
  <2>2. part(n)[n] = Turn(c, part(n), n)
    <3> HIDE DEF part
    <3> QED BY <1>1, <2>1 DEF Solves
  <2>3. \A i \in S : i < n => part(n)[i] = h[i]
    <3>1. \A i \in S : h[i] = part(i)[i]
      OBVIOUS
    <3> HIDE DEF part, h
    <3> QED BY <1>2, <3>1
  <2>4. h[n] = part(n)[n]
    OBVIOUS
  <2> HIDE DEF h, part
  <2> QED BY <2>2, <2>3, <2>4 DEF Local
<1>4. Solves(h, c, S)
  <2>1. h = [n \in S |-> h[n]]
    OBVIOUS
  <2> HIDE DEF h
  <2> QED BY <1>3, <2>1 DEF Solves
<1> QED BY <1>4

\* A function defined up to some bound is, up to there, the one defined for all
\* numbers.
THEOREM Prefixes ==
  ASSUME NEW c, Local(c, Nat)
  PROVE  \E F : /\ \A n \in Nat : F[n] = Turn(c, F, n)
                /\ \A n \in Nat : \E f : Solves(f, c, 0 .. n)
                /\ \A n \in Nat : \A f : Solves(f, c, 0 .. n) => \A i \in 0 .. n : f[i] = F[i]
<1>1. PICK F : Solves(F, c, Nat)
  BY Exists
<1>2. \A n \in Nat : F[n] = Turn(c, F, n)
  BY <1>1 DEF Solves
<1>3. ASSUME NEW n \in Nat
      PROVE  /\ \E f : Solves(f, c, 0 .. n)
             /\ \A f : Solves(f, c, 0 .. n) => \A i \in 0 .. n : f[i] = F[i]
  <2> DEFINE T == 0 .. n
  <2>1. T \in SUBSET Nat /\ Nat \in SUBSET Nat /\ T \subseteq Nat
    OBVIOUS
  <2>2. \A m \in T : \A i \in Nat : i < m => i \in T
    OBVIOUS
  <2>3. Local(c, T)
    BY <2>2 DEF Local
  <2> HIDE DEF T
  <2>4. \E f : Solves(f, c, T)
    BY <2>1, <2>3, Exists
  <2>5. ASSUME NEW f, Solves(f, c, T) PROVE \A i \in T : F[i] = f[i]
    BY <1>1, <2>1, <2>2, <2>5, Unique
  <2> QED BY <2>4, <2>5 DEF T
<1> QED BY <1>2, <1>3
=============================================================================
