---------------------------- MODULE VerifierProofs ----------------------------
(***************************************************************************)
(* Proofs about what the ledger is verified with, for trees and ledgers of *)
(* any size.                                                               *)
(*                                                                         *)
(* The Merkle tree: the node store that grows leaf by leaf, the range      *)
(* hashes computed from it, the streaming accumulator and the RFC's        *)
(* recursive definition give one and the same hash; and the verifiers      *)
(* accept every inclusion and every consistency proof the store makes.     *)
(* RangeOf is the RFC's hash of a range of leaves, to which each of them   *)
(* is compared.                                                            *)
(*                                                                         *)
(* The two verifiers: Twin relates the states of their walks, and each     *)
(* check of the one is shown to keep to the check of the other.            *)
(*                                                                         *)
(* The first verifier's findings: it only ever adds to them, so what a     *)
(* check reports stays reported.                                           *)
(***************************************************************************)
EXTENDS TamperLab, SequenceTheorems, TLAPS

Pow2Turn(c, f, k) == IF k = 0 THEN 1 ELSE 2 * f[k - 1]

Pow2Rec == INSTANCE Recursion WITH Turn <- Pow2Turn

LEMMA Pow2Unfolds == Pow2[0] = 1 /\ \A k \in Nat : Pow2[k + 1] = 2 * Pow2[k]
<1>1. Pow2Rec!Local(0, Nat)
  BY DEF Pow2Rec!Local, Pow2Turn
<1>2. \E f : Pow2Rec!Solves(f, 0, Nat)
  BY <1>1, Pow2Rec!Exists
<1>3. \E f : f = [k \in Nat |-> IF k = 0 THEN 1 ELSE 2 * f[k - 1]]
  BY <1>2 DEF Pow2Rec!Solves, Pow2Turn
<1>4. Pow2 = [k \in Nat |-> IF k = 0 THEN 1 ELSE 2 * Pow2[k - 1]]
  BY <1>3 DEF Pow2
<1> HIDE DEF Pow2
<1>5. ASSUME NEW k \in Nat PROVE Pow2[k] = IF k = 0 THEN 1 ELSE 2 * Pow2[k - 1]
  BY <1>4
<1>6. ASSUME NEW k \in Nat PROVE Pow2[k + 1] = 2 * Pow2[k]
  <2>1. k + 1 \in Nat /\ k + 1 # 0 /\ (k + 1) - 1 = k
    OBVIOUS
  <2>2. Pow2[k + 1] = IF k + 1 = 0 THEN 1 ELSE 2 * Pow2[(k + 1) - 1]
    BY <1>5, <2>1, Zenon
  <2> QED BY <2>1, <2>2
<1> QED BY <1>5, <1>6

LEMMA Induct ==
  ASSUME NEW S, 0 \in S, \A n \in Nat : n \in S => n + 1 \in S
  PROVE  \A n \in Nat : n \in S
<1> DEFINE Bad == {n \in Nat : n \notin S}
<1>1. SUFFICES ASSUME Bad # {} PROVE FALSE
  OBVIOUS
<1>2. PICK n \in Bad : \A m \in Bad : n <= m
  <2>1. Bad \in SUBSET Nat
    OBVIOUS
  <2> HIDE DEF Bad
  <2> QED BY <1>1, <2>1, Pow2Rec!Least
<1>3. n \in Nat /\ n # 0
  OBVIOUS
<1>4. n - 1 \in Nat /\ ~ (n <= n - 1)
  BY <1>3
<1>5. n - 1 \in S
  BY <1>2, <1>4
<1> QED BY <1>3, <1>4, <1>5

LEMMA Pow2Positive == \A k \in Nat : Pow2[k] \in Nat /\ Pow2[k] > k
<1> DEFINE S == {k \in Nat : Pow2[k] \in Nat /\ Pow2[k] > k}
<1>1. 0 \in S
  BY Pow2Unfolds
<1>2. \A k \in Nat : k \in S => k + 1 \in S
  BY Pow2Unfolds
<1>3. \A k \in Nat : k \in S
  <2> HIDE DEF S
  <2> QED BY <1>1, <1>2, Induct
<1> QED BY <1>3

LEMMA Pow2Grows == \A j, k \in Nat : j < k => 2 * Pow2[j] <= Pow2[k]
<1> SUFFICES ASSUME NEW j \in Nat PROVE \A k \in Nat : j < k => 2 * Pow2[j] <= Pow2[k]
  OBVIOUS
<1> DEFINE S == {k \in Nat : j < k => 2 * Pow2[j] <= Pow2[k]}
<1>1. 0 \in S
  OBVIOUS
<1>2. \A k \in Nat : k \in S => k + 1 \in S
  BY Pow2Unfolds, Pow2Positive
<1>3. \A k \in Nat : k \in S
  <2> HIDE DEF S
  <2> QED BY <1>1, <1>2, Induct
<1> QED BY <1>3

ShrTurn(n, f, j) == IF j = 0 THEN n ELSE f[j - 1] \div 2

ShrRec == INSTANCE Recursion WITH Turn <- ShrTurn

LEMMA ShrUnfolds ==
  ASSUME NEW n
  PROVE  /\ Shr(n, 0) = n
         /\ \A k \in Nat : Shr(n, k + 1) = Shr(n, k) \div 2
<1> DEFINE at(k) == CHOOSE f : f = [j \in 0 .. k |-> IF j = 0 THEN n ELSE f[j - 1] \div 2]
<1>1. ShrRec!Local(n, Nat)
  BY DEF ShrRec!Local, ShrTurn
<1>2. PICK F : /\ \A k \in Nat : F[k] = ShrTurn(n, F, k)
               /\ \A k \in Nat : \E f : ShrRec!Solves(f, n, 0 .. k)
               /\ \A k \in Nat : \A f : ShrRec!Solves(f, n, 0 .. k) => \A i \in 0 .. k : f[i] = F[i]
  BY <1>1, ShrRec!Prefixes
<1>3. ASSUME NEW k \in Nat PROVE Shr(n, k) = F[k]
  <2>1. \A f : ShrRec!Solves(f, n, 0 .. k) <=> f = [j \in 0 .. k |-> IF j = 0 THEN n ELSE f[j - 1] \div 2]
    BY DEF ShrRec!Solves, ShrTurn
  <2>2. ShrRec!Solves(at(k), n, 0 .. k)
    BY <1>2, <2>1
  <2>3. Shr(n, k) = at(k)[k]
    BY DEF Shr
  <2> HIDE DEF at
  <2> QED BY <1>2, <2>2, <2>3
<1>4. F[0] = n /\ \A k \in Nat : F[k + 1] = F[k] \div 2
  BY <1>2 DEF ShrTurn
<1> QED BY <1>3, <1>4

LEMMA ShrRange ==
  ASSUME NEW n \in Nat
  PROVE  \A k \in Nat : /\ Shr(n, k) \in Nat
                        /\ Shr(n, k) * Pow2[k] <= n
                        /\ n < (Shr(n, k) + 1) * Pow2[k]
<1> DEFINE P(k) == /\ Shr(n, k) \in Nat
                   /\ Shr(n, k) * Pow2[k] <= n
                   /\ n < (Shr(n, k) + 1) * Pow2[k]
           S == {k \in Nat : P(k)}
<1>1. 0 \in S
  BY ShrUnfolds, Pow2Unfolds
<1>2. ASSUME NEW k \in Nat, P(k) PROVE P(k + 1)
  <2> DEFINE a == Shr(n, k)
             p == Pow2[k]
             b == Shr(n, k + 1)
             q == Pow2[k + 1]
  <2>1. b = a \div 2 /\ q = 2 * p
    BY ShrUnfolds, Pow2Unfolds
  <2>2. a \in Nat /\ p \in Nat /\ a * p <= n /\ n < (a + 1) * p
    BY <1>2, Pow2Positive
  <2> HIDE DEF a, b, p, q
  <2>3. b \in Nat /\ b * q <= n /\ n < (b + 1) * q
    BY <2>1, <2>2
  <2> QED BY <2>3 DEF b, q
<1>3. \A k \in Nat : k \in S
  <2>1. \A k \in Nat : k \in S => k + 1 \in S
    BY <1>2
  <2> HIDE DEF S
  <2> QED BY <1>1, <2>1, Induct
<1> QED BY <1>3

\* A half is either half: what is at an index of level k is in the tree of n
\* leaves when its last leaf is.
LEMMA ShrBelow ==
  ASSUME NEW n \in Nat, NEW k \in Nat, NEW j \in Nat
  PROVE  (j < Shr(n, k)) <=> ((j + 1) * Pow2[k] <= n)
<1> DEFINE a == Shr(n, k)
           p == Pow2[k]
<1>1. a \in Nat /\ p \in Nat /\ p > 0 /\ a * p <= n /\ n < (a + 1) * p
  <2>1. a \in Nat /\ a * p <= n /\ n < (a + 1) * p
    BY ShrRange, Zenon
  <2>2. p \in Nat /\ p > k
    BY Pow2Positive, Zenon
  <2> QED BY <2>1, <2>2
<1> HIDE DEF a, p
<1>2. ASSUME j < a PROVE (j + 1) * p <= n
  <2>1. (j + 1) * p <= a * p
    BY <1>1, <1>2
  <2>2. (j + 1) * p \in Nat /\ a * p \in Nat
    BY <1>1
  <2> QED BY <1>1, <2>1, <2>2
<1>3. ASSUME ~ (j < a) PROVE ~ ((j + 1) * p <= n)
  <2>1. (a + 1) * p <= (j + 1) * p
    BY <1>1, <1>3
  <2>2. (j + 1) * p \in Nat /\ (a + 1) * p \in Nat
    BY <1>1
  <2> QED BY <1>1, <2>1, <2>2
<1> QED BY <1>2, <1>3 DEF a, p

\* Adding one carries as far as the odd levels go.
LEMMA ShrNext ==
  ASSUME NEW n \in Nat
  PROVE  \A k \in Nat : /\ Completes(n, k) => Shr(n + 1, k) = Shr(n, k) + 1
                        /\ ~ Completes(n, k) => Shr(n + 1, k) = Shr(n, k)
<1> DEFINE P(k) == /\ Completes(n, k) => Shr(n + 1, k) = Shr(n, k) + 1
                   /\ ~ Completes(n, k) => Shr(n + 1, k) = Shr(n, k)
           S == {k \in Nat : P(k)}
<1>1. 0 \in S
  BY ShrUnfolds DEF Completes
<1>2. ASSUME NEW k \in Nat, P(k) PROVE P(k + 1)
  <2>1. Completes(n, k + 1) <=> Completes(n, k) /\ Shr(n, k) % 2 = 1
    BY DEF Completes
  <2>2. Shr(n, k) \in Nat
    BY ShrRange
  <2>3. Shr(n, k + 1) = Shr(n, k) \div 2 /\ Shr(n + 1, k + 1) = Shr(n + 1, k) \div 2
    BY ShrUnfolds
  <2> QED BY <1>2, <2>1, <2>2, <2>3
<1>3. \A k \in Nat : k \in S
  <2>1. \A k \in Nat : k \in S => k + 1 \in S
    BY <1>2
  <2> HIDE DEF S
  <2> QED BY <1>1, <2>1, Induct
<1> QED BY <1>3

-----------------------------------------------------------------------------
\* Where ranges split.

LEMMA PowerBetween ==
  ASSUME NEW n \in Nat, n >= 2
  PROVE  \E k \in Nat : Pow2[k] < n /\ n <= 2 * Pow2[k]
<1> DEFINE S == {k \in Nat : n <= 2 * Pow2[k]}
<1>1. n \in S
  BY Pow2Positive
<1>2. PICK k \in S : \A j \in S : k <= j
  <2>1. S \in SUBSET Nat /\ S # {}
    BY <1>1
  <2> HIDE DEF S
  <2> QED BY <2>1, Pow2Rec!Least
<1>3. Pow2[k] < n
  <2>1. CASE k = 0
    BY <2>1, Pow2Unfolds
  <2>2. CASE k # 0
    <3>1. k - 1 \in Nat /\ Pow2[(k - 1) + 1] = 2 * Pow2[k - 1] /\ (k - 1) + 1 = k
      BY <2>2, Pow2Unfolds
    <3>2. k - 1 \notin S
      <4>1. k \in Nat /\ ~ (k <= k - 1)
        OBVIOUS
      <4> HIDE DEF S
      <4> QED BY <1>2, <4>1
    <3>3. ~ (n <= 2 * Pow2[k - 1])
      BY <3>1, <3>2
    <3>4. Pow2[k] \in Nat /\ Pow2[k] = 2 * Pow2[k - 1]
      BY <3>1, Pow2Positive
    <3> QED BY <3>3, <3>4
  <2> QED BY <2>1, <2>2
<1> QED BY <1>2, <1>3

LEMMA PowersArePowers ==
  ASSUME NEW k \in Nat
  PROVE  IsPowerOf2(Pow2[k]) /\ Level(Pow2[k]) = k
<1>1. k \in 0 .. Pow2[k] /\ Pow2[k] \in Nat
  BY Pow2Positive
<1>2. \A j \in 0 .. Pow2[k] : Pow2[j] = Pow2[k] => j = k
  <2> SUFFICES ASSUME NEW j \in Nat, Pow2[j] = Pow2[k], j # k PROVE FALSE
    BY <1>1
  <2>1. j < k \/ k < j
    OBVIOUS
  <2>2. Pow2[j] \in Nat /\ Pow2[j] > 0
    BY Pow2Positive
  <2> QED BY <1>1, <2>1, <2>2, Pow2Grows
<1> QED BY <1>1, <1>2 DEF IsPowerOf2, Level

LEMMA SplitAt ==
  ASSUME NEW n \in Nat, NEW k \in Nat, Pow2[k] < n, n <= 2 * Pow2[k]
  PROVE  Split(n) = Pow2[k]
<1>1. Pow2[k] \in Nat /\ Pow2[k] > k
  BY Pow2Positive
<1>2. Pow2[k] \in 1 .. n - 1 /\ IsPowerOf2(Pow2[k]) /\ 2 * Pow2[k] >= n
  BY <1>1, PowersArePowers
<1>3. ASSUME NEW m \in 1 .. n - 1, IsPowerOf2(m), 2 * m >= n
      PROVE  m = Pow2[k]
  <2>1. PICK j \in 0 .. m : Pow2[j] = m
    BY <1>3 DEF IsPowerOf2
  <2>2. CASE j < k
    BY <1>1, <1>3, <2>1, <2>2, Pow2Grows
  <2>3. CASE k < j
    BY <1>1, <1>3, <2>1, <2>3, Pow2Grows
  <2> QED BY <2>1, <2>2, <2>3
<1> QED BY <1>2, <1>3 DEF Split

LEMMA SplitWithin ==
  ASSUME NEW n \in Nat, n >= 2
  PROVE  Split(n) \in 1 .. n - 1 /\ n - Split(n) \in 1 .. n - 1
<1>1. PICK k \in Nat : Pow2[k] < n /\ n <= 2 * Pow2[k]
  BY PowerBetween
<1>2. Split(n) = Pow2[k] /\ Pow2[k] \in Nat /\ Pow2[k] > k
  BY <1>1, SplitAt, Pow2Positive
<1> QED BY <1>1, <1>2

-----------------------------------------------------------------------------
\* The hash of the leaves from .. from + size - 1 of a sequence, as the RFC
\* defines it.

RangeTurn(leaves, f, size) ==
  [from \in Nat |->
     IF size = 1 THEN leaves[from + 1]
     ELSE Node(f[Split(size)][from], f[size - Split(size)][from + Split(size)])]

RangeRec == INSTANCE Recursion WITH Turn <- RangeTurn

AllRanges(leaves) == CHOOSE f : RangeRec!Solves(f, leaves, Nat \ {0})

RangeOf(leaves, from, size) == AllRanges(leaves)[size][from]

LEMMA RangeUnfolds ==
  ASSUME NEW leaves
  PROVE  /\ \A from \in Nat : RangeOf(leaves, from, 1) = leaves[from + 1]
         /\ \A size \in Nat : size >= 2 =>
              \A from \in Nat :
                RangeOf(leaves, from, size) =
                  Node(RangeOf(leaves, from, Split(size)),
                       RangeOf(leaves, from + Split(size), size - Split(size)))
<1> DEFINE S == Nat \ {0}
           F == AllRanges(leaves)
<1>1. RangeRec!Local(leaves, S)
  <2> SUFFICES ASSUME NEW n \in S, NEW f, NEW g, \A i \in S : i < n => f[i] = g[i]
               PROVE  RangeTurn(leaves, f, n) = RangeTurn(leaves, g, n)
    BY DEF RangeRec!Local
  <2>1. CASE n = 1
    BY <2>1 DEF RangeTurn
  <2>2. CASE n # 1
    <3>1. Split(n) \in 1 .. n - 1 /\ n - Split(n) \in 1 .. n - 1
      BY <2>2, SplitWithin
    <3>2. f[Split(n)] = g[Split(n)] /\ f[n - Split(n)] = g[n - Split(n)]
      BY <3>1
    <3> QED BY <2>2, <3>2 DEF RangeTurn
  <2> QED BY <2>1, <2>2
<1>2. RangeRec!Solves(F, leaves, S)
  <2>1. \E f : RangeRec!Solves(f, leaves, S)
    BY <1>1, RangeRec!Exists
  <2> QED BY <2>1 DEF AllRanges
<1> HIDE DEF F
<1>3. \A n \in S : F[n] = RangeTurn(leaves, F, n)
  BY <1>2 DEF RangeRec!Solves
<1>4. ASSUME NEW n \in S, NEW from \in Nat
      PROVE  F[n][from] = IF n = 1 THEN leaves[from + 1]
                          ELSE Node(F[Split(n)][from], F[n - Split(n)][from + Split(n)])
  BY <1>3 DEF RangeTurn
<1> QED BY <1>4 DEF RangeOf, F

\* Whatever satisfies the RFC's equation within a window of n leaves gives these
\* hashes there.
Ranges(leaves, lo, n, f) ==
  \A size \in 1 .. n : \A from \in lo .. lo + n - size : f[size][from] = RangeOf(leaves, from, size)

Splits(leaves, lo, n, f) ==
  \A size \in 1 .. n : \A from \in lo .. lo + n - size :
    \/ f[size][from] = RangeOf(leaves, from, size)
    \/ size = 1 /\ f[size][from] = leaves[from + 1]
    \/ size > 1 /\ f[size][from] = Node(f[Split(size)][from], f[size - Split(size)][from + Split(size)])

LEMMA RangesAgree ==
  ASSUME NEW leaves, NEW lo \in Nat, NEW n \in Nat, NEW f, Splits(leaves, lo, n, f)
  PROVE  Ranges(leaves, lo, n, f)
<1> USE DEF Splits, Ranges
<1> DEFINE Bad == {size \in 1 .. n : \E from \in lo .. lo + n - size : f[size][from] # RangeOf(leaves, from, size)}
<1>1. SUFFICES ASSUME Bad # {} PROVE FALSE
  OBVIOUS
<1>2. PICK size \in Bad : \A m \in Bad : size <= m
  <2>1. Bad \in SUBSET Nat
    OBVIOUS
  <2> HIDE DEF Bad
  <2> QED BY <1>1, <2>1, Pow2Rec!Least
<1>3. PICK from \in lo .. lo + n - size : f[size][from] # RangeOf(leaves, from, size)
  OBVIOUS
<1>4. size \in 1 .. n
  OBVIOUS
<1>5. size # 1
  BY <1>3, <1>4, RangeUnfolds
<1> DEFINE k == Split(size)
<1>6. k \in 1 .. size - 1 /\ size - k \in 1 .. size - 1
  BY <1>4, <1>5, SplitWithin
<1>7. \A m \in 1 .. size - 1 : m \notin Bad
  <2> HIDE DEF Bad
  <2> QED BY <1>2, <1>4
<1>8. f[k][from] = RangeOf(leaves, from, k)
  <2>1. k \in 1 .. n /\ from \in lo .. lo + n - k /\ k \notin Bad
    BY <1>4, <1>6, <1>7
  <2> QED BY <2>1
<1>9. f[size - k][from + k] = RangeOf(leaves, from + k, size - k)
  <2> DEFINE m == size - k
             to == from + k
  <2>1. m \in 1 .. n /\ to \in lo .. lo + n - m /\ m \notin Bad
    BY <1>4, <1>6, <1>7
  <2> HIDE DEF m, to
  <2>2. f[m][to] = RangeOf(leaves, to, m)
    BY <2>1
  <2> QED BY <2>2 DEF m, to
<1>10. f[size][from] = Node(f[k][from], f[size - k][from + k])
  BY <1>3, <1>4, <1>5
<1>11. RangeOf(leaves, from, size) = Node(RangeOf(leaves, from, k), RangeOf(leaves, from + k, size - k))
  <2>1. size \in Nat /\ size >= 2 /\ from \in Nat
    BY <1>4, <1>5
  <2> QED BY <2>1, RangeUnfolds
<1> QED BY <1>3, <1>8, <1>9, <1>10, <1>11

\* A hash depends on the leaves of its range alone.
LEMMA RangePrefix ==
  ASSUME NEW a, NEW b, NEW n \in Nat, \A i \in 1 .. n : a[i] = b[i]
  PROVE  \A size \in 1 .. n : \A from \in 0 .. n - size : RangeOf(a, from, size) = RangeOf(b, from, size)
<1> DEFINE f == AllRanges(a)
<1>1. ASSUME NEW size \in 1 .. n, NEW from \in 0 .. n - size
      PROVE  f[size][from] = IF size = 1 THEN b[from + 1]
                             ELSE Node(f[Split(size)][from], f[size - Split(size)][from + Split(size)])
  <2>1. CASE size = 1
    <3>1. from + 1 \in 1 .. n /\ from \in Nat
      BY <2>1
    <3>2. f[1][from] = a[from + 1]
      BY <3>1, RangeUnfolds DEF RangeOf
    <3> QED BY <2>1, <3>1, <3>2
  <2>2. CASE size # 1
    <3>1. size \in Nat /\ size >= 2 /\ from \in Nat
      BY <2>2
    <3> QED BY <2>2, <3>1, RangeUnfolds DEF RangeOf
  <2> QED BY <2>1, <2>2
<1> HIDE DEF f
<1>2. Splits(b, 0, n, f)
  BY <1>1 DEF Splits
<1>3. Ranges(b, 0, n, f)
  BY <1>2, RangesAgree
<1> QED BY <1>3 DEF f, RangeOf, Ranges

-----------------------------------------------------------------------------
\* The RFC's definition, and perfect ranges.

MthTurn(c, f, size) ==
  [from \in 0 .. c[2] - size |->
     IF size = 1 THEN c[1][from + 1]
     ELSE Node(f[Split(size)][from], f[size - Split(size)][from + Split(size)])]

MthRec == INSTANCE Recursion WITH Turn <- MthTurn

LEMMA MthIsRange ==
  ASSUME NEW leaves, Len(leaves) \in Nat
  PROVE  MTH(leaves) = IF Len(leaves) = 0 THEN EmptyRoot ELSE RangeOf(leaves, 0, Len(leaves))
<1> DEFINE n == Len(leaves)
           c == <<leaves, n>>
           S == 1 .. n
           mth == CHOOSE f : f = [size \in 1 .. n |->
                    [from \in 0 .. n - size |->
                       IF size = 1 THEN leaves[from + 1]
                       ELSE Node(f[Split(size)][from], f[size - Split(size)][from + Split(size)])]]
<1>1. MthRec!Local(c, S)
  <2> SUFFICES ASSUME NEW m \in S, NEW f, NEW g, \A i \in S : i < m => f[i] = g[i]
               PROVE  MthTurn(c, f, m) = MthTurn(c, g, m)
    BY DEF MthRec!Local
  <2>1. CASE m = 1
    BY <2>1 DEF MthTurn
  <2>2. CASE m # 1
    <3>1. Split(m) \in 1 .. m - 1 /\ m - Split(m) \in 1 .. m - 1
      BY <2>2, SplitWithin
    <3>2. f[Split(m)] = g[Split(m)] /\ f[m - Split(m)] = g[m - Split(m)]
      BY <3>1
    <3> QED BY <2>2, <3>2 DEF MthTurn
  <2> QED BY <2>1, <2>2
<1>2. \E f : MthRec!Solves(f, c, S)
  <2>1. S \in SUBSET Nat
    OBVIOUS
  <2> HIDE DEF c, S
  <2> QED BY <1>1, <2>1, MthRec!Exists
<1>3. mth = [size \in 1 .. n |->
               [from \in 0 .. n - size |->
                  IF size = 1 THEN leaves[from + 1]
                  ELSE Node(mth[Split(size)][from], mth[size - Split(size)][from + Split(size)])]]
  <2>1. \E f : f = [size \in 1 .. n |-> MthTurn(c, f, size)]
    BY <1>2 DEF MthRec!Solves
  <2>2. c[1] = leaves /\ c[2] = n
    OBVIOUS
  <2> DEFINE row(f, size) ==
               [from \in 0 .. n - size |->
                  IF size = 1 THEN leaves[from + 1]
                  ELSE Node(f[Split(size)][from], f[size - Split(size)][from + Split(size)])]
  <2>3. \A f, size : MthTurn(c, f, size) = row(f, size)
    <3> HIDE DEF c, n
    <3> QED BY <2>2, Zenon DEF MthTurn
  <2>4. \E f : f = [size \in 1 .. n |-> row(f, size)]
    <3> HIDE DEF row, c, n
    <3> QED BY <2>1, <2>3
  <2> QED BY <2>4
<1>4. PICK g : /\ g = [size \in 1 .. n |->
                         [from \in 0 .. n - size |->
                            IF size = 1 THEN leaves[from + 1]
                            ELSE Node(g[Split(size)][from], g[size - Split(size)][from + Split(size)])]]
               /\ MTH(leaves) = IF n = 0 THEN EmptyRoot ELSE g[n][0]
  <2>1. MTH(leaves) = IF n = 0 THEN EmptyRoot ELSE mth[n][0]
    BY DEF MTH
  <2> HIDE DEF mth
  <2> QED BY <1>3, <2>1
<1>5. ASSUME NEW size \in 1 .. n, NEW from \in 0 .. n - size
      PROVE  g[size][from] = IF size = 1 THEN leaves[from + 1]
                ELSE Node(g[Split(size)][from], g[size - Split(size)][from + Split(size)])
  <2> DEFINE row(m) == [to \in 0 .. n - m |->
                          IF m = 1 THEN leaves[to + 1]
                          ELSE Node(g[Split(m)][to], g[m - Split(m)][to + Split(m)])]
  <2>2. g[size] = row(size)
    <3>1. g = [m \in 1 .. n |-> row(m)]
      BY <1>4
    <3> HIDE DEF row
    <3> QED BY <3>1
  <2> QED BY <2>2
<1>6. ASSUME n # 0 PROVE g[n][0] = RangeOf(leaves, 0, n)
  <2>1. n \in Nat /\ n \in 1 .. n /\ 0 \in 0 .. n - n
    BY <1>6
  <2> HIDE DEF n
  <2>2. Splits(leaves, 0, n, g)
    <3> SUFFICES ASSUME NEW size \in 1 .. n, NEW from \in 0 .. 0 + n - size
                 PROVE  \/ size = 1 /\ g[size][from] = leaves[from + 1]
                        \/ size > 1 /\ g[size][from] = Node(g[Split(size)][from], g[size - Split(size)][from + Split(size)])
      BY DEF Splits
    <3>1. from \in 0 .. n - size /\ (size = 1 \/ size > 1)
      BY <2>1
    <3> QED BY <1>5, <3>1
  <2>3. Ranges(leaves, 0, n, g)
    BY <2>1, <2>2, RangesAgree
  <2> QED BY <2>1, <2>3 DEF Ranges
<1> QED BY <1>4, <1>6

\* Two perfect subtrees side by side are one.
LEMMA Perfect ==
  ASSUME NEW leaves, NEW from \in Nat, NEW k \in Nat
  PROVE  RangeOf(leaves, from, Pow2[k + 1]) =
           Node(RangeOf(leaves, from, Pow2[k]), RangeOf(leaves, from + Pow2[k], Pow2[k]))
<1>1. Pow2[k] \in Nat /\ Pow2[k] > 0 /\ Pow2[k + 1] = 2 * Pow2[k]
  BY Pow2Unfolds, Pow2Positive
<1>2. Pow2[k + 1] \in Nat /\ Pow2[k + 1] >= 2 /\ Pow2[k + 1] - Pow2[k] = Pow2[k]
  BY <1>1
<1>3. Split(Pow2[k + 1]) = Pow2[k]
  BY <1>1, <1>2, SplitAt
<1>4. RangeOf(leaves, from, Pow2[k + 1]) =
        Node(RangeOf(leaves, from, Split(Pow2[k + 1])),
             RangeOf(leaves, from + Split(Pow2[k + 1]), Pow2[k + 1] - Split(Pow2[k + 1])))
  BY <1>2, RangeUnfolds
<1> QED BY <1>2, <1>3, <1>4

-----------------------------------------------------------------------------
\* The node store.

\* What merkle_nodes holds for the first n leaves.
IsStore(store, leaves, n) ==
  /\ DOMAIN store = TreeNodes(n)
  /\ \A at \in TreeNodes(n) : store[at] = RangeOf(leaves, at[2] * Pow2[at[1]], Pow2[at[1]])

\* What is there of it is right; nodes may be missing.
Holds(store, leaves) == \A at \in DOMAIN store : store[at] = RangeOf(leaves, at[2] * Pow2[at[1]], Pow2[at[1]])

\* The subtrees that leaf number n completes.
Completed(n) == {<<l, Shr(n, l)>> : l \in {k \in 0 .. n : Completes(n, k)}}

\* A leaf completes one more subtree at each level where its number was odd.
LEMMA TreeGrows ==
  ASSUME NEW n \in Nat
  PROVE  TreeNodes(n + 1) = TreeNodes(n) \cup {<<l, Shr(n, l)>> : l \in {k \in 0 .. n : Completes(n, k)}}
<1>1. \A l \in Nat : /\ Shr(n, l) \in Nat /\ Shr(n + 1, l) \in Nat
                     /\ Completes(n, l) => Shr(n + 1, l) = Shr(n, l) + 1
                     /\ ~ Completes(n, l) => Shr(n + 1, l) = Shr(n, l)
  <2>1. n + 1 \in Nat
    OBVIOUS
  <2>2. \A l \in Nat : Shr(n, l) \in Nat
    BY ShrRange
  <2>3. \A l \in Nat : Shr(n + 1, l) \in Nat
    BY <2>1, ShrRange
  <2> QED BY <2>2, <2>3, ShrNext
<1>2. \A l \in Nat : \A m \in {n, n + 1} : Shr(m, l) > 0 => l < m /\ Shr(m, l) <= m
  <2> SUFFICES ASSUME NEW l \in Nat, NEW m \in Nat, Shr(m, l) > 0 PROVE l < m /\ Shr(m, l) <= m
    OBVIOUS
  <2> DEFINE a == Shr(m, l)
             p == Pow2[l]
  <2>1. a \in Nat /\ a > 0 /\ p \in Nat /\ p > l /\ a * p <= m
    <3>1. a \in Nat /\ a * p <= m
      BY ShrRange, Zenon
    <3>2. p \in Nat /\ p > l
      BY Pow2Positive, Zenon
    <3> QED BY <3>1, <3>2
  <2> HIDE DEF a, p
  <2>2. p <= a * p /\ a <= a * p /\ a * p \in Nat
    BY <2>1
  <2>3. l < m /\ a <= m
    BY <2>1, <2>2
  <2> QED BY <2>3 DEF a
<1>3. ASSUME NEW at \in TreeNodes(n + 1)
      PROVE  at \in TreeNodes(n) \cup {<<l, Shr(n, l)>> : l \in {k \in 0 .. n : Completes(n, k)}}
  <2>1. PICK l \in 0 .. n + 1, i \in 0 .. n + 1 : at = <<l, i>> /\ i < Shr(n + 1, l)
    BY DEF TreeNodes
  <2>2. l < n + 1 /\ Shr(n + 1, l) <= n + 1
    BY <1>1, <1>2, <2>1
  <2>3. CASE i < Shr(n, l)
    <3>1. l < n /\ Shr(n, l) <= n
      BY <1>1, <1>2, <2>1, <2>3
    <3>2. l \in 0 .. n /\ i \in 0 .. n
      BY <1>1, <2>3, <3>1
    <3> QED BY <2>1, <2>3, <3>2 DEF TreeNodes
  <2>4. CASE ~ (i < Shr(n, l))
    <3>1. Completes(n, l) /\ i = Shr(n, l)
      BY <1>1, <2>1, <2>4
    <3> QED BY <2>1, <2>2, <3>1
  <2> QED BY <2>3, <2>4
<1>4. ASSUME NEW at \in TreeNodes(n) PROVE at \in TreeNodes(n + 1)
  <2>1. PICK l \in 0 .. n, i \in 0 .. n : at = <<l, i>> /\ i < Shr(n, l)
    BY DEF TreeNodes
  <2>2. i < Shr(n + 1, l)
    BY <1>1, <2>1
  <2> QED BY <2>1, <2>2 DEF TreeNodes
<1>5. ASSUME NEW l \in 0 .. n, Completes(n, l) PROVE <<l, Shr(n, l)>> \in TreeNodes(n + 1)
  <2>1. Shr(n, l) < Shr(n + 1, l) /\ Shr(n, l) \in Nat
    BY <1>1, <1>5
  <2>2. Shr(n, l) <= n + 1
    BY <1>1, <1>2, <2>1
  <2> QED BY <2>1, <2>2 DEF TreeNodes
<1> QED BY <1>3, <1>4, <1>5

AddTurn(c, f, l) == IF l = 0 THEN c[3] ELSE Node(c[1][<<l - 1, Shr(c[2], l - 1) - 1>>], f[l - 1])

AddRec == INSTANCE Recursion WITH Turn <- AddTurn

\* What AddLeaf computes, told without the recursion.
LEMMA AddLeafUnfolds ==
  ASSUME NEW store, NEW n \in Nat, NEW leaf
  PROVE  \E cur : /\ cur[0] = leaf
                  /\ \A l \in 1 .. n : cur[l] = Node(store[<<l - 1, Shr(n, l - 1) - 1>>], cur[l - 1])
                  /\ AddLeaf(store, n, leaf) = Over(store, NewNodes(n, cur))
<1> DEFINE c == <<store, n, leaf>>
           turn(f, l) == IF l = 0 THEN leaf ELSE Node(store[<<l - 1, Shr(n, l - 1) - 1>>], f[l - 1])
           cur == CHOOSE f : f = [l \in 0 .. n |-> IF l = 0 THEN leaf ELSE Node(store[<<l - 1, Shr(n, l - 1) - 1>>], f[l - 1])]
<1>1. AddRec!Local(c, Nat)
  BY DEF AddRec!Local, AddTurn
<1>2. \E f : f = [l \in 0 .. n |-> turn(f, l)]
  <2>1. \E f : AddRec!Solves(f, c, 0 .. n)
    BY <1>1, AddRec!Prefixes
  <2>2. \A f, l : AddTurn(c, f, l) = turn(f, l)
    <3>1. c[1] = store /\ c[2] = n /\ c[3] = leaf
      OBVIOUS
    <3> HIDE DEF c
    <3> QED BY <3>1, Zenon DEF AddTurn
  <2> HIDE DEF turn, c
  <2> QED BY <2>1, <2>2 DEF AddRec!Solves
<1>3. cur = [l \in 0 .. n |-> turn(cur, l)]
  BY <1>2
<1>4. AddLeaf(store, n, leaf) = Over(store, NewNodes(n, cur))
  BY DEF AddLeaf
<1> HIDE DEF cur
<1>5. cur[0] = leaf /\ \A l \in 1 .. n : cur[l] = Node(store[<<l - 1, Shr(n, l - 1) - 1>>], cur[l - 1])
  <2>1. \A l \in 0 .. n : cur[l] = turn(cur, l)
    <3> HIDE DEF turn
    <3> QED BY <1>3
  <2>2. turn(cur, 0) = leaf /\ \A l \in 1 .. n : turn(cur, l) = Node(store[<<l - 1, Shr(n, l - 1) - 1>>], cur[l - 1])
    <3>1. \A l \in 1 .. n : l # 0
      OBVIOUS
    <3> QED BY <3>1, Zenon
  <2>3. 0 \in 0 .. n /\ \A l \in 1 .. n : l \in 0 .. n
    OBVIOUS
  <2> HIDE DEF turn
  <2> QED BY <2>1, <2>2, <2>3
<1> QED BY <1>4, <1>5

\* What a leaf completes covers the leaves up to it.
LEMMA CompletedEnd ==
  ASSUME NEW n \in Nat, NEW k \in Nat, Completes(n, k)
  PROVE  (Shr(n, k) + 1) * Pow2[k] = n + 1
<1> DEFINE S == {j \in Nat : Completes(n, j) => (Shr(n, j) + 1) * Pow2[j] = n + 1}
<1>1. 0 \in S
  BY ShrUnfolds, Pow2Unfolds
<1>2. ASSUME NEW j \in Nat, j \in S PROVE j + 1 \in S
  <2> SUFFICES ASSUME Completes(n, j + 1) PROVE (Shr(n, j + 1) + 1) * Pow2[j + 1] = n + 1
    OBVIOUS
  <2>1. Completes(n, j) /\ Shr(n, j) % 2 = 1
    BY DEF Completes
  <2> DEFINE a == Shr(n, j)
             b == Shr(n, j + 1)
             p == Pow2[j]
             q == Pow2[j + 1]
  <2>2. a \in Nat /\ a % 2 = 1 /\ b = a \div 2 /\ p \in Nat /\ q = 2 * p /\ (a + 1) * p = n + 1
    BY <1>2, <2>1, ShrRange, ShrUnfolds, Pow2Unfolds, Pow2Positive
  <2> HIDE DEF a, b, p, q
  <2>3. a = 2 * b + 1 /\ b \in Nat
    BY <2>2
  <2>4. (b + 1) * q = (2 * b + 2) * p
    BY <2>2, <2>3
  <2>5. (b + 1) * q = n + 1
    BY <2>2, <2>3, <2>4
  <2> QED BY <2>5 DEF b, q
<1>3. \A j \in Nat : j \in S
  <2> HIDE DEF S
  <2> QED BY <1>1, <1>2, Induct
<1> QED BY <1>3

\* What a leaf adds to a store is right, if its siblings are there.
LEMMA AddLeafHolds ==
  ASSUME NEW store, NEW leaves, NEW n \in Nat, NEW leaf,
         Holds(store, leaves), CanAdd(store, n), leaf = leaves[n + 1]
  PROVE  /\ Holds(AddLeaf(store, n, leaf), leaves)
         /\ DOMAIN AddLeaf(store, n, leaf) = DOMAIN store \cup Completed(n)
<1>1. PICK cur : /\ cur[0] = leaf
                 /\ \A l \in 1 .. n : cur[l] = Node(store[<<l - 1, Shr(n, l - 1) - 1>>], cur[l - 1])
                 /\ AddLeaf(store, n, leaf) = Over(store, NewNodes(n, cur))
  BY AddLeafUnfolds
<1> DEFINE S == {k \in Nat : k <= n /\ Completes(n, k) => cur[k] = RangeOf(leaves, Shr(n, k) * Pow2[k], Pow2[k])}
<1>2. 0 \in S
  BY <1>1, ShrUnfolds, Pow2Unfolds, RangeUnfolds
<1>3. ASSUME NEW k \in Nat, k \in S PROVE k + 1 \in S
  <2> SUFFICES ASSUME k + 1 <= n, Completes(n, k + 1)
               PROVE  cur[k + 1] = RangeOf(leaves, Shr(n, k + 1) * Pow2[k + 1], Pow2[k + 1])
    OBVIOUS
  <2> DEFINE a == Shr(n, k)
             b == Shr(n, k + 1)
             p == Pow2[k]
             from == b * Pow2[k + 1]
  <2>1. Completes(n, k) /\ a % 2 = 1
    BY DEF Completes
  <2>2. a \in Nat /\ b = a \div 2 /\ p \in Nat /\ p > k /\ Pow2[k + 1] = 2 * p
    BY ShrRange, ShrUnfolds, Pow2Unfolds, Pow2Positive
  <2>3. b \in Nat /\ a = 2 * b + 1
    <3> HIDE DEF a, b
    <3> QED BY <2>1, <2>2
  <2>4. from \in Nat /\ from = (2 * b) * p /\ from + p = a * p
    <3> HIDE DEF a, b, p
    <3> QED BY <2>2, <2>3
  <2>5. cur[k] = RangeOf(leaves, a * p, p)
    BY <1>3, <2>1
  <2>6. store[<<k, 2 * b>>] = RangeOf(leaves, from, p)
    <3>1. <<k, 2 * b>> \in DOMAIN store
      <4>1. k \in {m \in 0 .. n : Completes(n, m + 1)}
        OBVIOUS
      <4>2. <<k, a - 1>> \in Siblings(n)
        BY <4>1 DEF Siblings
      <4>3. a - 1 = 2 * b
        <5> HIDE DEF a, b
        <5> QED BY <2>3
      <4> HIDE DEF a, b
      <4> QED BY <4>2, <4>3 DEF CanAdd
    <3> HIDE DEF from, b
    <3>2. store[<<k, 2 * b>>] = RangeOf(leaves, (2 * b) * p, p)
      BY <3>1 DEF Holds
    <3> QED BY <2>4, <3>2
  <2>7. cur[k + 1] = Node(store[<<k, 2 * b>>], cur[k])
    <3>1. k + 1 \in 1 .. n /\ (k + 1) - 1 = k
      OBVIOUS
    <3>2. cur[k + 1] = Node(store[<<k, a - 1>>], cur[k])
      BY <1>1, <3>1
    <3>3. a - 1 = 2 * b
      <4> HIDE DEF a, b
      <4> QED BY <2>3
    <3> QED BY <3>2, <3>3
  <2>8. RangeOf(leaves, from, Pow2[k + 1]) = Node(RangeOf(leaves, from, p), RangeOf(leaves, from + p, p))
    <3> HIDE DEF from
    <3> QED BY <2>4, Perfect
  <2>9. cur[k + 1] = RangeOf(leaves, from, Pow2[k + 1])
    <3> HIDE DEF from, a, b, p
    <3> QED BY <2>4, <2>5, <2>6, <2>7, <2>8
  <2> QED BY <2>9
<1>4. \A k \in Nat : k \in S
  <2>1. \A k \in Nat : k \in S => k + 1 \in S
    BY <1>3
  <2> HIDE DEF S
  <2> QED BY <1>2, <2>1, Induct
<1> DEFINE new == NewNodes(n, cur)
           Fresh == {<<l, Shr(n, l)>> : l \in {k \in 0 .. n : Completes(n, k)}}
<1>5. DOMAIN new = Fresh /\ \A at \in Fresh : new[at] = cur[at[1]]
  BY DEF NewNodes
<1>6. \A at \in Fresh : new[at] = RangeOf(leaves, at[2] * Pow2[at[1]], Pow2[at[1]])
  <2> SUFFICES ASSUME NEW l \in 0 .. n, Completes(n, l)
               PROVE  new[<<l, Shr(n, l)>>] = RangeOf(leaves, Shr(n, l) * Pow2[l], Pow2[l])
    OBVIOUS
  <2>1. new[<<l, Shr(n, l)>>] = cur[l]
    <3>1. <<l, Shr(n, l)>> \in Fresh /\ <<l, Shr(n, l)>>[1] = l
      OBVIOUS
    <3> HIDE DEF Fresh, new
    <3> QED BY <1>5, <3>1
  <2>2. l \in S /\ l <= n
    BY <1>4
  <2> HIDE DEF new
  <2> QED BY <2>1, <2>2
<1> HIDE DEF new, Fresh
<1>7. DOMAIN Over(store, new) = DOMAIN store \cup Fresh
  BY <1>5 DEF Over
<1>8. \A at \in DOMAIN store \cup Fresh :
        Over(store, new)[at] = RangeOf(leaves, at[2] * Pow2[at[1]], Pow2[at[1]])
  BY <1>5, <1>6, <1>7 DEF Over, Holds
<1>9. Fresh = Completed(n)
  BY DEF Fresh, Completed
<1> QED BY <1>1, <1>7, <1>8, <1>9 DEF Holds, new

\* A tree has the siblings of the leaf that follows it.
LEMMA TreeCanAdd ==
  ASSUME NEW n \in Nat
  PROVE  Siblings(n) \subseteq TreeNodes(n)
<1> SUFFICES ASSUME NEW k \in 0 .. n, Completes(n, k + 1) PROVE <<k, Shr(n, k) - 1>> \in TreeNodes(n)
  BY DEF Siblings
<1> DEFINE a == Shr(n, k)
           p == Pow2[k]
<1>1. a \in Nat /\ a * p <= n /\ p \in Nat /\ p > k
  <2>1. k \in Nat
    OBVIOUS
  <2>2. Shr(n, k) \in Nat /\ Shr(n, k) * Pow2[k] <= n
    BY <2>1, ShrRange
  <2>3. Pow2[k] \in Nat /\ Pow2[k] > k
    BY <2>1, Pow2Positive
  <2> QED BY <2>2, <2>3
<1>2. a % 2 = 1
  BY DEF Completes
<1> HIDE DEF a, p
<1>3. a - 1 \in Nat /\ a - 1 < a
  BY <1>1, <1>2
<1>4. a <= a * p /\ a * p \in Nat
  BY <1>1
<1>5. a - 1 \in 0 .. n
  BY <1>1, <1>3, <1>4
<1> QED BY <1>3, <1>5 DEF TreeNodes, a

\* The store of n leaves becomes that of n + 1.
LEMMA AddLeafGrows ==
  ASSUME NEW store, NEW leaves, NEW n \in Nat, NEW leaf,
         IsStore(store, leaves, n), leaf = leaves[n + 1]
  PROVE  IsStore(AddLeaf(store, n, leaf), leaves, n + 1)
<1>1. Holds(store, leaves) /\ CanAdd(store, n)
  BY TreeCanAdd DEF IsStore, Holds, CanAdd
<1>2. Holds(AddLeaf(store, n, leaf), leaves)
      /\ DOMAIN AddLeaf(store, n, leaf) = DOMAIN store \cup Completed(n)
  BY <1>1, AddLeafHolds
<1>3. TreeNodes(n + 1) = TreeNodes(n) \cup Completed(n)
  BY TreeGrows DEF Completed
<1> QED BY <1>2, <1>3 DEF IsStore, Holds

\* The hash of a range read from a store that covers it.
HashTurn(c, f, size) ==
  [from \in c[2] .. c[2] + c[3] - size |->
     IF IsPowerOf2(size) /\ from % size = 0 THEN c[1][<<Level(size), from \div size>>]
     ELSE Node(f[Split(size)][from], f[size - Split(size)][from + Split(size)])]

HashRec == INSTANCE Recursion WITH Turn <- HashTurn

LEMMA OneIsPower == IsPowerOf2(1)
<1>1. 0 \in 0 .. 1 /\ Pow2[0] = 1
  BY Pow2Unfolds
<1> QED BY <1>1 DEF IsPowerOf2

\* An aligned perfect range is a node of the tree that covers it.
LEMMA AlignedIsNode ==
  ASSUME NEW store, NEW leaves, NEW m \in Nat, IsStore(store, leaves, m),
         NEW size \in Nat \ {0}, NEW from \in Nat, from + size <= m,
         IsPowerOf2(size), from % size = 0
  PROVE  store[<<Level(size), from \div size>>] = RangeOf(leaves, from, size)
<1> DEFINE l == Level(size)
           i == from \div size
<1>1. l \in Nat /\ Pow2[l] = size /\ l < size
  <2>1. l \in 0 .. size /\ Pow2[l] = size
    BY DEF IsPowerOf2, Level
  <2> HIDE DEF l
  <2> QED BY <2>1, Pow2Positive
<1>2. i \in Nat /\ i * size = from
  OBVIOUS
<1> HIDE DEF l, i
<1>3. i < Shr(m, l)
  <2>1. (i + 1) * Pow2[l] <= m
    BY <1>1, <1>2
  <2> QED BY <1>1, <1>2, <2>1, ShrBelow
<1>4. <<l, i>> \in TreeNodes(m)
  <2>1. i <= i * size /\ i * size \in Nat
    BY <1>2
  <2>2. l \in 0 .. m /\ i \in 0 .. m
    BY <1>1, <1>2, <2>1
  <2> QED BY <1>3, <2>2 DEF TreeNodes
<1> QED BY <1>1, <1>2, <1>4 DEF IsStore, l, i

\* What RangeHash computes, told without the recursion.
Reads(g, store, start, n) ==
  \A size \in 1 .. n : \A from \in start .. start + n - size :
    g[size][from] = IF IsPowerOf2(size) /\ from % size = 0 THEN store[<<Level(size), from \div size>>]
                    ELSE Node(g[Split(size)][from], g[size - Split(size)][from + Split(size)])

LEMMA RangeHashUnfolds ==
  ASSUME NEW store, NEW start \in Nat, NEW n \in Nat \ {0}
  PROVE  \E g : Reads(g, store, start, n) /\ RangeHash(store, start, n) = g[n][start]
<1> DEFINE c == <<store, start, n>>
           S == 1 .. n
           row(f, size) ==
             [from \in start .. start + n - size |->
                IF IsPowerOf2(size) /\ from % size = 0 THEN store[<<Level(size), from \div size>>]
                ELSE Node(f[Split(size)][from], f[size - Split(size)][from + Split(size)])]
           hash == CHOOSE f : f = [size \in 1 .. n |->
             [from \in start .. start + n - size |->
                IF IsPowerOf2(size) /\ from % size = 0 THEN store[<<Level(size), from \div size>>]
                ELSE Node(f[Split(size)][from], f[size - Split(size)][from + Split(size)])]]
<1>1. \A f, size : HashTurn(c, f, size) = row(f, size)
  <2>1. c[1] = store /\ c[2] = start /\ c[3] = n
    OBVIOUS
  <2> HIDE DEF c
  <2> QED BY <2>1, Zenon DEF HashTurn
<1>2. HashRec!Local(c, S)
  <2> SUFFICES ASSUME NEW k \in S, NEW f, NEW g, \A i \in S : i < k => f[i] = g[i]
               PROVE  row(f, k) = row(g, k)
    <3> HIDE DEF row, c
    <3> QED BY <1>1 DEF HashRec!Local
  <2>1. CASE k = 1
    <3>1. \A from \in Nat : from % 1 = 0
      OBVIOUS
    <3> QED BY <2>1, <3>1, OneIsPower
  <2>2. CASE k # 1
    <3>1. Split(k) \in 1 .. k - 1 /\ k - Split(k) \in 1 .. k - 1
      BY <2>2, SplitWithin
    <3>2. f[Split(k)] = g[Split(k)] /\ f[k - Split(k)] = g[k - Split(k)]
      BY <3>1
    <3> QED BY <3>2
  <2> QED BY <2>1, <2>2
<1>3. \E f : f = [size \in 1 .. n |-> row(f, size)]
  <2>1. S \in SUBSET Nat
    OBVIOUS
  <2>2. \E f : HashRec!Solves(f, c, S)
    <3> HIDE DEF c, S
    <3> QED BY <1>2, <2>1, HashRec!Exists
  <2> HIDE DEF row, c
  <2> QED BY <1>1, <2>2 DEF HashRec!Solves
<1>4. PICK g : g = [size \in 1 .. n |-> row(g, size)] /\ RangeHash(store, start, n) = g[n][start]
  <2>1. hash = [size \in 1 .. n |-> row(hash, size)]
    BY <1>3
  <2>2. RangeHash(store, start, n) = hash[n][start]
    BY DEF RangeHash
  <2> HIDE DEF row, hash
  <2> QED BY <2>1, <2>2
<1>5. Reads(g, store, start, n)
  <2> SUFFICES ASSUME NEW size \in 1 .. n, NEW from \in start .. start + n - size
               PROVE  g[size][from] = IF IsPowerOf2(size) /\ from % size = 0 THEN store[<<Level(size), from \div size>>]
                        ELSE Node(g[Split(size)][from], g[size - Split(size)][from + Split(size)])
    BY DEF Reads
  <2>1. g[size] = row(g, size)
    <3> HIDE DEF row
    <3> QED BY <1>4
  <2> QED BY <2>1
<1> QED BY <1>4, <1>5

LEMMA RangeHashIsRange ==
  ASSUME NEW store, NEW leaves, NEW m \in Nat, IsStore(store, leaves, m),
         NEW start \in Nat, NEW n \in Nat \ {0}, start + n <= m
  PROVE  RangeHash(store, start, n) = RangeOf(leaves, start, n)
<1>4. PICK g : Reads(g, store, start, n) /\ RangeHash(store, start, n) = g[n][start]
  BY RangeHashUnfolds
<1>5. Splits(leaves, start, n, g)
  <2> SUFFICES ASSUME NEW size \in 1 .. n, NEW from \in start .. start + n - size
               PROVE  \/ g[size][from] = RangeOf(leaves, from, size)
                      \/ size > 1 /\ g[size][from] = Node(g[Split(size)][from], g[size - Split(size)][from + Split(size)])
    BY DEF Splits
  <2>2. g[size][from] = IF IsPowerOf2(size) /\ from % size = 0 THEN store[<<Level(size), from \div size>>]
                        ELSE Node(g[Split(size)][from], g[size - Split(size)][from + Split(size)])
    BY <1>4 DEF Reads
  <2>3. CASE IsPowerOf2(size) /\ from % size = 0
    <3>1. from \in Nat /\ size \in Nat \ {0} /\ from + size <= m
      OBVIOUS
    <3> QED BY <2>2, <2>3, <3>1, AlignedIsNode
  <2>4. CASE ~ (IsPowerOf2(size) /\ from % size = 0)
    <3>1. size # 1
      <4>1. from % 1 = 0
        OBVIOUS
      <4> QED BY <2>4, <4>1, OneIsPower
    <3> QED BY <2>2, <2>4, <3>1
  <2> QED BY <2>3, <2>4
<1>6. Ranges(leaves, start, n, g)
  BY <1>5, RangesAgree
<1>7. n \in 1 .. n /\ start \in start .. start + n - n
  OBVIOUS
<1> QED BY <1>4, <1>6, <1>7 DEF Ranges

LEMMA StoreRootIsRange ==
  ASSUME NEW store, NEW leaves, NEW m \in Nat, IsStore(store, leaves, m), NEW n \in Nat, n <= m
  PROVE  StoreRoot(store, n) = IF n = 0 THEN EmptyRoot ELSE RangeOf(leaves, 0, n)
<1>1. CASE n = 0
  BY <1>1 DEF StoreRoot
<1>2. CASE n # 0
  <2>1. n \in Nat \ {0} /\ 0 \in Nat /\ 0 + n <= m
    BY <1>2
  <2>2. RangeHash(store, 0, n) = RangeOf(leaves, 0, n)
    BY <2>1, RangeHashIsRange
  <2> QED BY <1>2, <2>2 DEF StoreRoot
<1> QED BY <1>1, <1>2

-----------------------------------------------------------------------------
\* A root read from a store that is short of other nodes.

LEMMA ShrIs ==
  ASSUME NEW n \in Nat, NEW k \in Nat, NEW q \in Nat, q * Pow2[k] <= n, n < (q + 1) * Pow2[k]
  PROVE  Shr(n, k) = q
<1>1. Shr(n, k) \in Nat
  BY ShrRange
<1>2. (q < Shr(n, k)) <=> ((q + 1) * Pow2[k] <= n)
  BY ShrBelow
<1>3. ~ (q < Shr(n, k))
  <2>1. (q + 1) * Pow2[k] \in Nat
    <3>1. Pow2[k] \in Nat
      BY Pow2Positive
    <3> QED BY <3>1
  <2> QED BY <1>2, <2>1
<1>4. CASE q = 0
  BY <1>1, <1>3, <1>4
<1>5. CASE q # 0
  <2>1. q - 1 \in Nat /\ (q - 1) + 1 = q
    BY <1>5
  <2>2. (q - 1 < Shr(n, k)) <=> (((q - 1) + 1) * Pow2[k] <= n)
    BY <2>1, ShrBelow
  <2>3. q - 1 < Shr(n, k)
    BY <2>1, <2>2
  <2> QED BY <1>1, <1>3, <2>1, <2>3
<1> QED BY <1>4, <1>5

LEMMA Pow2Adds == \A a, b \in Nat : Pow2[a + b] = Pow2[a] * Pow2[b]
<1> SUFFICES ASSUME NEW a \in Nat PROVE \A b \in Nat : Pow2[a + b] = Pow2[a] * Pow2[b]
  OBVIOUS
<1> DEFINE J == {b \in Nat : Pow2[a + b] = Pow2[a] * Pow2[b]}
<1>1. Pow2[a] \in Nat
  BY Pow2Positive
<1>2. 0 \in J
  BY <1>1, Pow2Unfolds
<1>3. ASSUME NEW b \in Nat, b \in J PROVE b + 1 \in J
  <2>1. Pow2[a + b] = Pow2[a] * Pow2[b] /\ Pow2[b] \in Nat /\ a + b \in Nat /\ a + (b + 1) = (a + b) + 1
    BY <1>3, Pow2Positive
  <2>2. Pow2[b + 1] = 2 * Pow2[b] /\ Pow2[(a + b) + 1] = 2 * Pow2[a + b]
    BY <2>1, Pow2Unfolds
  <2>3. Pow2[a] * (2 * Pow2[b]) = 2 * (Pow2[a] * Pow2[b])
    BY <1>1, <2>1
  <2> QED BY <2>1, <2>2, <2>3
<1>4. \A b \in Nat : b \in J
  <2>1. \A b \in Nat : b \in J => b + 1 \in J
    BY <1>3
  <2> HIDE DEF J
  <2> QED BY <1>2, <2>1, Induct
<1> QED BY <1>4

\* An aligned range is at its index.
LEMMA Divides ==
  ASSUME NEW p \in Nat \ {0}, NEW i \in Nat, NEW from \in Nat, from = i * p
  PROVE  from % p = 0 /\ from \div p = i
<1> DEFINE q == from \div p
           r == from % p
<1>1. from = p * q + r /\ r \in 0 .. p - 1 /\ q \in Nat
  OBVIOUS
<1> HIDE DEF q, r
<1>2. q = i
  <2>1. CASE q < i
    <3>1. PICK d \in Nat : i = q + 1 + d
      <4>1. i - q - 1 \in Nat /\ i = q + 1 + (i - q - 1)
        BY <1>1, <2>1
      <4> QED BY <4>1
    <3>2. i * p = q * p + p + d * p /\ d * p \in Nat /\ q * p = p * q
      BY <1>1, <3>1
    <3> QED BY <1>1, <3>2
  <2>2. CASE i < q
    <3>1. PICK d \in Nat : q = i + 1 + d
      <4>1. q - i - 1 \in Nat /\ q = i + 1 + (q - i - 1)
        BY <1>1, <2>2
      <4> QED BY <4>1
    <3>2. p * q = i * p + p + d * p /\ d * p \in Nat
      BY <1>1, <3>1
    <3> QED BY <1>1, <3>2
  <2> QED BY <1>1, <2>1, <2>2
<1> QED BY <1>1, <1>2 DEF q, r

LEMMA PeakIs ==
  ASSUME NEW n \in Nat, NEW l \in Nat, NEW h \in Nat, NEW rest \in Nat,
         rest < Pow2[l], n = (2 * h + 1) * Pow2[l] + rest
  PROVE  <<l, 2 * h>> \in Peaks(n)
<1> DEFINE p == Pow2[l]
           q == 2 * h + 1
<1>1. p \in Nat /\ p > l
  BY Pow2Positive
<1>2. q \in Nat /\ q % 2 = 1 /\ q - 1 = 2 * h /\ q > 0
  OBVIOUS
<1>3. q * p <= n /\ n < (q + 1) * p /\ l <= n
  <2> HIDE DEF p, q
  <2>1. n = q * p + rest /\ rest < p
    BY DEF p, q
  <2>2. (q + 1) * p = q * p + p /\ q * p \in Nat /\ p <= q * p
    BY <1>1, <1>2
  <2> QED BY <1>1, <2>1, <2>2
<1>4. Shr(n, l) = q
  <2> HIDE DEF q
  <2> QED BY <1>2, <1>3, ShrIs
<1>5. l \in {k \in 0 .. n : Shr(n, k) % 2 = 1}
  <2>1. l \in 0 .. n
    BY <1>3
  <2> QED BY <1>2, <1>4, <2>1
<1>6. <<l, q - 1>> \in Peaks(n)
  <2> HIDE DEF q
  <2> QED BY <1>4, <1>5 DEF Peaks
<1> QED BY <1>2, <1>6

\* A range at the end of n leaves that begins where a larger subtree may: its
\* first part is a peak, the rest is such a range again.
LEMMA EdgeSplits ==
  ASSUME NEW n \in Nat, NEW from \in Nat, NEW size \in Nat \ {0}, from + size = n,
         NEW k \in Nat, NEW a \in Nat, from = a * Pow2[k], size < Pow2[k]
  PROVE  \E l, h \in Nat : /\ Pow2[l] \in Nat \ {0} /\ Pow2[l] <= size /\ size < 2 * Pow2[l]
                           /\ from = (2 * h) * Pow2[l] /\ from + Pow2[l] = (2 * h + 1) * Pow2[l]
                           /\ <<l, 2 * h>> \in Peaks(n)
<1>1. PICK l \in Nat : Pow2[l] < size + 1 /\ size + 1 <= 2 * Pow2[l]
  <2>1. size + 1 \in Nat /\ size + 1 >= 2
    OBVIOUS
  <2> QED BY <2>1, PowerBetween
<1> DEFINE p == Pow2[l]
<1>2. p \in Nat \ {0} /\ p <= size /\ size < 2 * p
  <2>1. p \in Nat /\ p > l
    BY Pow2Positive
  <2> QED BY <1>1, <2>1
<1>3. l < k
  <2>1. Pow2[k] \in Nat /\ p < Pow2[k]
    <3>1. Pow2[k] \in Nat
      BY Pow2Positive
    <3> QED BY <1>2, <3>1
  <2>2. k < l => 2 * Pow2[k] <= p
    BY Pow2Grows
  <2>3. k # l
    BY <2>1
  <2> HIDE DEF p
  <2> QED BY <1>2, <2>1, <2>2, <2>3
<1>4. k - l - 1 \in Nat /\ (l + (k - l - 1)) + 1 = k /\ l + (k - l - 1) \in Nat
  BY <1>3
<1> DEFINE r == Pow2[k - l - 1]
           h == a * r
<1>5. r \in Nat /\ Pow2[k] = 2 * (p * r)
  <2>1. Pow2[l + (k - l - 1)] = p * r
    BY <1>4, Pow2Adds
  <2>2. Pow2[k] = 2 * Pow2[l + (k - l - 1)]
    BY <1>4, Pow2Unfolds
  <2>3. r \in Nat
    BY <1>4, Pow2Positive
  <2> QED BY <2>1, <2>2, <2>3
<1>6. h \in Nat /\ from = (2 * h) * p
  <2> HIDE DEF p, r
  <2>1. a * (2 * (p * r)) = (2 * (a * r)) * p
    BY <1>2, <1>5
  <2> QED BY <1>5, <2>1
<1> HIDE DEF h
<1>7. from + p = (2 * h + 1) * p
  <2> HIDE DEF p
  <2> QED BY <1>2, <1>6
<1>8. n = (2 * h + 1) * p + (size - p) /\ size - p \in Nat /\ size - p < p
  <2> HIDE DEF p
  <2>1. (2 * h + 1) * p \in Nat
    BY <1>2, <1>6
  <2> QED BY <1>2, <1>7, <2>1
<1>9. <<l, 2 * h>> \in Peaks(n)
  BY <1>6, <1>8, PeakIs
<1> QED BY <1>2, <1>6, <1>7, <1>9

\* A power of two is in its own binary place.
LEMMA NotPower ==
  ASSUME NEW size \in Nat, NEW l \in Nat, Pow2[l] < size, size < 2 * Pow2[l]
  PROVE  ~ IsPowerOf2(size)
<1> SUFFICES ASSUME NEW j \in Nat, Pow2[j] = size PROVE FALSE
  BY DEF IsPowerOf2
<1>1. Pow2[l] \in Nat
  BY Pow2Positive
<1>2. j < l => 2 * Pow2[j] <= Pow2[l]
  BY Pow2Grows
<1>3. l < j => 2 * Pow2[l] <= Pow2[j]
  BY Pow2Grows
<1> QED BY <1>1, <1>2, <1>3

\* A store of right nodes that has the peaks of n leaves makes their root.
LEMMA PeaksAnswer ==
  ASSUME NEW store, NEW leaves, Holds(store, leaves), NEW n \in Nat, HasRoot(store, n)
  PROVE  StoreRoot(store, n) = IF n = 0 THEN EmptyRoot ELSE RangeOf(leaves, 0, n)
<1>1. CASE n = 0
  BY <1>1 DEF StoreRoot
<1>2. CASE n # 0
  <2>1. PICK g : Reads(g, store, 0, n) /\ RangeHash(store, 0, n) = g[n][0]
    <3>1. n \in Nat \ {0} /\ 0 \in Nat
      BY <1>2
    <3> QED BY <3>1, RangeHashUnfolds
  <2> DEFINE Edge(from, size) == from + size = n /\ \E k, a \in Nat : from = a * Pow2[k] /\ size < Pow2[k]
             J == {b \in Nat : \A size \in Nat \ {0} : \A from \in Nat :
                     size <= b /\ Edge(from, size) => g[size][from] = RangeOf(leaves, from, size)}
  <2>2. 0 \in J
    OBVIOUS
  <2>3. ASSUME NEW b \in Nat, b \in J PROVE b + 1 \in J
    <3> SUFFICES ASSUME NEW size \in Nat \ {0}, NEW from \in Nat, size <= b + 1, Edge(from, size)
                 PROVE  g[size][from] = RangeOf(leaves, from, size)
      OBVIOUS
    <3>1. PICK l, h \in Nat :
            /\ Pow2[l] \in Nat \ {0} /\ Pow2[l] <= size /\ size < 2 * Pow2[l]
            /\ from = (2 * h) * Pow2[l] /\ from + Pow2[l] = (2 * h + 1) * Pow2[l]
            /\ <<l, 2 * h>> \in Peaks(n)
      <4>1. from + size = n
        OBVIOUS
      <4>2. PICK k \in Nat, a \in Nat : from = a * Pow2[k] /\ size < Pow2[k]
        OBVIOUS
      <4> HIDE DEF Edge, J
      <4> QED BY <4>1, <4>2, EdgeSplits
    <3> DEFINE p == Pow2[l]
    <3>2. g[p][from] = RangeOf(leaves, from, p)
      <4>1. IsPowerOf2(p) /\ Level(p) = l
        BY PowersArePowers
      <4>2. store[<<l, 2 * h>>] = RangeOf(leaves, from, p)
        BY <3>1 DEF HasRoot, Holds
      <4>3. p \in 1 .. n /\ from \in 0 .. 0 + n - p
        <5> HIDE DEF p
        <5> QED BY <3>1 DEF p
      <4>4. from % p = 0 /\ from \div p = 2 * h
        <5>1. p \in Nat \ {0} /\ from = (2 * h) * p
          BY <3>1
        <5> DEFINE c == 2 * h
        <5>2. c \in Nat
          OBVIOUS
        <5>3. from = c * p
          BY <5>1
        <5> HIDE DEF p, c, Edge, J
        <5>4. from % p = 0 /\ from \div p = c
          BY <5>1, <5>2, <5>3, Divides
        <5> QED BY <5>4 DEF c
      <4> HIDE DEF p
      <4> QED BY <2>1, <4>1, <4>2, <4>3, <4>4 DEF Reads
    <3>3. CASE size = p
      BY <3>2, <3>3
    <3>4. CASE size # p
      <4>1. p < size /\ size <= 2 * p /\ size - p \in Nat \ {0} /\ size - p <= b /\ size - p < p
            /\ from + p \in Nat
        <5>1. p \in Nat \ {0} /\ p <= size /\ size < 2 * p
          BY <3>1
        <5> HIDE DEF p
        <5> QED BY <3>4, <5>1
      <4>2. Split(size) = p /\ ~ IsPowerOf2(size)
        BY <3>1, <4>1, SplitAt, NotPower
      <4>3. g[size - p][from + p] = RangeOf(leaves, from + p, size - p)
        <5>1. (from + p) + (size - p) = n
          <6>1. p \in Nat /\ from + size = n
            BY <3>1
          <6> HIDE DEF p, Edge, J
          <6> QED BY <6>1
        <5>2. from + p = (2 * h + 1) * Pow2[l] /\ size - p < Pow2[l] /\ 2 * h + 1 \in Nat
          BY <3>1, <4>1
        <5>3. Edge(from + p, size - p)
          <6> DEFINE f == from + p
                     s == size - p
          <6>1. f + s = n /\ f = (2 * h + 1) * Pow2[l] /\ s < Pow2[l] /\ 2 * h + 1 \in Nat /\ l \in Nat
            BY <3>1, <5>1, <5>2
          <6> HIDE DEF f, s, p, J
          <6>2. \E k, a \in Nat : f = a * Pow2[k] /\ s < Pow2[k]
            BY <6>1
          <6>3. Edge(f, s)
            BY <6>1, <6>2
          <6> QED BY <6>3 DEF f, s
        <5> HIDE DEF p, Edge
        <5> QED BY <2>3, <4>1, <5>3
      <4>4. g[size][from] = Node(g[p][from], g[size - p][from + p])
        <5>1. size \in 1 .. n /\ from \in 0 .. 0 + n - size
          <6>1. from + size = n
            OBVIOUS
          <6> HIDE DEF Edge, J, p
          <6> QED BY <6>1
        <5> HIDE DEF Edge, J, p
        <5> QED BY <2>1, <4>2, <5>1 DEF Reads
      <4>5. RangeOf(leaves, from, size) = Node(RangeOf(leaves, from, p), RangeOf(leaves, from + p, size - p))
        <5>1. size >= 2
          BY <3>1, <4>1
        <5> HIDE DEF p, Edge, J
        <5> QED BY <4>2, <5>1, RangeUnfolds
      <4> QED BY <3>2, <4>3, <4>4, <4>5
    <3> QED BY <3>3, <3>4
  <2>4. n \in J
    <3>1. \A b \in Nat : b \in J => b + 1 \in J
      BY <2>3
    <3> HIDE DEF J
    <3> QED BY <2>2, <3>1, Induct
  <2>5. Edge(0, n)
    <3>1. 0 = 0 * Pow2[n] /\ n < Pow2[n]
      BY Pow2Positive
    <3> QED BY <3>1
  <2>6. g[n][0] = RangeOf(leaves, 0, n)
    <3>1. n \in Nat \ {0} /\ 0 \in Nat /\ n <= n
      BY <1>2
    <3> HIDE DEF Edge
    <3> QED BY <2>4, <2>5, <3>1
  <2> QED BY <1>2, <2>1, <2>6 DEF StoreRoot
<1> QED BY <1>1, <1>2

-----------------------------------------------------------------------------
\* The streaming root.

\* A stack of perfect subtrees, each smaller than the one before, which follow
\* each other from the first of n leaves to the last: start tells where.
Follows(stack, start, leaves, n) ==
  /\ start[1] = 0 /\ start[Len(stack) + 1] = n
  /\ \A i \in 1 .. Len(stack) :
       /\ stack[i].level \in Nat
       /\ start[i] \in Nat
       /\ start[i + 1] = start[i] + Pow2[stack[i].level]
       /\ stack[i].hash = RangeOf(leaves, start[i], Pow2[stack[i].level])
  /\ \A i \in 1 .. Len(stack) - 1 : stack[i + 1].level < stack[i].level

IsStack(stack, leaves, n) ==
  \E S, start : stack \in Seq(S) /\ Follows(stack, start, leaves, n)

PushTurn(c, f, j) == IF j = 0 THEN c[2] ELSE Node(c[1][c[3] - j + 1].hash, f[j - 1])

PushRec == INSTANCE Recursion WITH Turn <- PushTurn

\* What Push computes, told without the recursion.
Pushes(stack, leaf, cur, pops) ==
  /\ cur[0] = leaf
  /\ \A j \in 1 .. Len(stack) : cur[j] = Node(stack[Len(stack) - j + 1].hash, cur[j - 1])
  /\ pops = Len(stack) \/ stack[Len(stack) - pops].level # pops
  /\ \A j \in 0 .. pops - 1 : j < Len(stack) /\ stack[Len(stack) - j].level = j
  /\ Push(stack, leaf) = Append(SubSeq(stack, 1, Len(stack) - pops), [level |-> pops, hash |-> cur[pops]])

LEMMA PushUnfolds ==
  ASSUME NEW stack, NEW leaf, Len(stack) \in Nat
  PROVE  \E cur : \E pops \in 0 .. Len(stack) : Pushes(stack, leaf, cur, pops)
<1> DEFINE n == Len(stack)
           c == <<stack, leaf, n>>
           turn(f, j) == IF j = 0 THEN leaf ELSE Node(stack[n - j + 1].hash, f[j - 1])
           joins(j) == j < n /\ stack[n - j].level = j
           cur == CHOOSE f : f = [j \in 0 .. n |-> IF j = 0 THEN leaf ELSE Node(stack[n - j + 1].hash, f[j - 1])]
           pops == CHOOSE j \in 0 .. n : ~joins(j) /\ \A i \in 0 .. j - 1 : joins(i)
<1>1. PushRec!Local(c, Nat)
  BY DEF PushRec!Local, PushTurn
<1>2. \E f : f = [j \in 0 .. n |-> turn(f, j)]
  <2>1. n \in Nat
    OBVIOUS
  <2>2. \E f : PushRec!Solves(f, c, 0 .. n)
    <3> HIDE DEF n, c
    <3> QED BY <1>1, <2>1, PushRec!Prefixes
  <2>3. \A f, j : PushTurn(c, f, j) = turn(f, j)
    <3>1. c[1] = stack /\ c[2] = leaf /\ c[3] = n
      OBVIOUS
    <3> HIDE DEF c, n
    <3> QED BY <3>1, Zenon DEF PushTurn
  <2> HIDE DEF turn, c, n
  <2> QED BY <2>2, <2>3 DEF PushRec!Solves
<1>3. cur = [j \in 0 .. n |-> turn(cur, j)]
  BY <1>2
<1>4. pops \in 0 .. n /\ ~joins(pops) /\ \A i \in 0 .. pops - 1 : joins(i)
  <2> DEFINE Stops == {j \in 0 .. n : ~joins(j)}
  <2>1. n \in Stops /\ Stops \in SUBSET Nat
    OBVIOUS
  <2>2. PICK j \in Stops : \A i \in Stops : j <= i
    <3> HIDE DEF Stops
    <3> QED BY <2>1, PushRec!Least
  <2>3. \A i \in 0 .. j - 1 : joins(i)
    <3> SUFFICES ASSUME NEW i \in 0 .. j - 1, ~joins(i) PROVE FALSE
      OBVIOUS
    <3>1. i \in Stops
      OBVIOUS
    <3>2. j <= i /\ j \in Nat /\ i \in Nat
      <4>1. j <= i
        BY <2>2, <3>1
      <4> QED BY <4>1
    <3> QED BY <3>2
  <2>4. j \in 0 .. n /\ ~joins(j)
    OBVIOUS
  <2> HIDE DEF joins, n
  <2> QED BY <2>3, <2>4
<1>5. Push(stack, leaf) = Append(SubSeq(stack, 1, n - pops), [level |-> pops, hash |-> cur[pops]])
  BY DEF Push
<1> HIDE DEF cur, pops
<1>6. cur[0] = leaf /\ \A j \in 1 .. n : cur[j] = Node(stack[n - j + 1].hash, cur[j - 1])
  <2>1. \A j \in 0 .. n : cur[j] = turn(cur, j)
    <3> HIDE DEF turn
    <3> QED BY <1>3
  <2>2. turn(cur, 0) = leaf /\ \A j \in 1 .. n : turn(cur, j) = Node(stack[n - j + 1].hash, cur[j - 1])
    <3>1. \A j \in 1 .. n : j # 0
      OBVIOUS
    <3> QED BY <3>1, Zenon
  <2>3. 0 \in 0 .. n /\ \A j \in 1 .. n : j \in 0 .. n
    OBVIOUS
  <2> HIDE DEF turn
  <2> QED BY <2>1, <2>2, <2>3
<1>7. pops = n \/ stack[n - pops].level # pops
  BY <1>4
<1>8. Pushes(stack, leaf, cur, pops)
  BY <1>4, <1>5, <1>6, <1>7 DEF Pushes
<1> QED BY <1>4, <1>8

LEMMA PushKeeps ==
  ASSUME NEW stack, NEW leaves, NEW n \in Nat, NEW leaf,
         IsStack(stack, leaves, n), leaf = leaves[n + 1]
  PROVE  IsStack(Push(stack, leaf), leaves, n + 1)
<1>1. PICK S, start : stack \in Seq(S) /\ Follows(stack, start, leaves, n)
  BY DEF IsStack
<1> DEFINE len == Len(stack)
<1>2. len \in Nat /\ \A i \in 1 .. len : stack[i] \in S
  BY <1>1
<1>3. PICK cur : \E pops \in 0 .. len : Pushes(stack, leaf, cur, pops)
  BY <1>2, PushUnfolds
<1>4. PICK pops \in 0 .. len : Pushes(stack, leaf, cur, pops)
  BY <1>3
<1> DEFINE J == {j \in Nat : j <= pops => /\ start[len - j + 1] = n + 1 - Pow2[j]
                                         /\ start[len - j + 1] \in Nat
                                         /\ cur[j] = RangeOf(leaves, start[len - j + 1], Pow2[j])}
<1>5. 0 \in J
  <2>1. start[len + 1] = n /\ Pow2[0] = 1
    BY <1>1, Pow2Unfolds DEF Follows
  <2>2. RangeOf(leaves, n, 1) = leaf
    BY RangeUnfolds
  <2>3. len - 0 + 1 = len + 1 /\ n + 1 - 1 = n
    BY <1>2
  <2> QED BY <1>4, <2>1, <2>2, <2>3 DEF Pushes
<1>6. ASSUME NEW j \in Nat, j \in J PROVE j + 1 \in J
  <2> SUFFICES ASSUME j + 1 <= pops
               PROVE  /\ start[len - (j + 1) + 1] = n + 1 - Pow2[j + 1]
                      /\ start[len - (j + 1) + 1] \in Nat
                      /\ cur[j + 1] = RangeOf(leaves, start[len - (j + 1) + 1], Pow2[j + 1])
    OBVIOUS
  <2> DEFINE i == len - j
  <2>1. i \in 1 .. len /\ j \in 0 .. pops - 1 /\ j + 1 \in 1 .. len /\ (j + 1) - 1 = j
        /\ len - (j + 1) + 1 = i /\ len - j + 1 = i + 1
    BY <1>2
  <2>2. stack[i].level = j
    BY <1>4, <2>1 DEF Pushes
  <2>3. start[i] \in Nat /\ start[i + 1] = start[i] + Pow2[j] /\ stack[i].hash = RangeOf(leaves, start[i], Pow2[j])
    <3> HIDE DEF i
    <3> QED BY <1>1, <2>1, <2>2 DEF Follows
  <2>4. start[i + 1] = n + 1 - Pow2[j] /\ cur[j] = RangeOf(leaves, start[i + 1], Pow2[j])
    BY <1>6, <2>1
  <2>5. cur[j + 1] = Node(stack[i].hash, cur[j])
    <3> HIDE DEF i
    <3>1. cur[j + 1] = Node(stack[len - (j + 1) + 1].hash, cur[(j + 1) - 1])
      BY <1>4, <2>1 DEF Pushes
    <3> QED BY <2>1, <3>1
  <2> HIDE DEF i, len, J
  <2>6. Pow2[j + 1] = 2 * Pow2[j] /\ Pow2[j] \in Nat
    BY Pow2Unfolds, Pow2Positive
  <2>7. start[i] = n + 1 - Pow2[j + 1]
    BY <2>3, <2>4, <2>6
  <2>8. cur[j + 1] = RangeOf(leaves, start[i], Pow2[j + 1])
    <3>1. RangeOf(leaves, start[i], Pow2[j + 1]) =
            Node(RangeOf(leaves, start[i], Pow2[j]), RangeOf(leaves, start[i] + Pow2[j], Pow2[j]))
      BY <2>3, Perfect
    <3> QED BY <2>3, <2>4, <2>5, <3>1
  <2> QED BY <2>1, <2>3, <2>7, <2>8
<1>7. \A j \in Nat : j \in J
  <2>1. \A j \in Nat : j \in J => j + 1 \in J
    BY <1>6
  <2> HIDE DEF J
  <2> QED BY <1>5, <2>1, Induct
<1> DEFINE kept == SubSeq(stack, 1, len - pops)
           top == [level |-> pops, hash |-> cur[pops]]
           new == Append(kept, top)
           to == [i \in 1 .. len - pops + 2 |-> IF i = len - pops + 2 THEN n + 1 ELSE start[i]]
<1>8. kept \in Seq(S) /\ Len(kept) = len - pops /\ \A i \in 1 .. len - pops : kept[i] = stack[i]
  <2>1. 1 \in 1 .. len + 1 /\ len - pops \in 1 - 1 .. len
    BY <1>2
  <2> QED BY <1>1, <2>1, SubSeqProperties
<1>9. new \in Seq(S \cup {top}) /\ Len(new) = len - pops + 1 /\ new[len - pops + 1] = top
      /\ \A i \in 1 .. len - pops : new[i] = stack[i]
  <2>1. kept \in Seq(S \cup {top})
    BY <1>8
  <2> HIDE DEF kept, top, len
  <2>2. new \in Seq(S \cup {top}) /\ Len(new) = Len(kept) + 1 /\ new[Len(kept) + 1] = top
        /\ \A i \in 1 .. Len(kept) : new[i] = kept[i]
    BY <2>1
  <2> QED BY <1>8, <2>2
<1>10. start[len - pops + 1] = n + 1 - Pow2[pops] /\ start[len - pops + 1] \in Nat
      /\ cur[pops] = RangeOf(leaves, start[len - pops + 1], Pow2[pops])
  BY <1>7
<1> HIDE DEF J
<1> DEFINE k == len - pops
<1>11. k \in Nat /\ k <= len
  BY <1>2
<1>12. to[1] = 0 /\ to[k + 2] = n + 1 /\ \A i \in 1 .. k + 1 : to[i] = start[i]
  <2>1. start[1] = 0
    BY <1>1 DEF Follows
  <2> HIDE DEF len
  <2> QED BY <1>11, <2>1
<1>13. top.level = pops /\ top.hash = cur[pops]
  OBVIOUS
<1> HIDE DEF new, top, to, kept
<1>14. ASSUME NEW i \in 1 .. k + 1
       PROVE  /\ new[i].level \in Nat
              /\ to[i] \in Nat
              /\ to[i + 1] = to[i] + Pow2[new[i].level]
              /\ new[i].hash = RangeOf(leaves, to[i], Pow2[new[i].level])
  <2>1. CASE i = k + 1
    <3>1. Pow2[pops] \in Nat
      BY Pow2Positive
    <3>2. to[k + 1] = start[k + 1] /\ to[(k + 1) + 1] = n + 1 /\ new[k + 1] = top
      <4>1. k + 1 \in 1 .. k + 1 /\ (k + 1) + 1 = k + 2
        BY <1>11
      <4> QED BY <1>9, <1>12, <4>1
    <3> HIDE DEF k, len
    <3> QED BY <1>10, <1>13, <2>1, <3>1, <3>2 DEF k
  <2>2. CASE i # k + 1
    <3>1. i \in 1 .. k /\ i \in 1 .. len /\ i + 1 \in 1 .. k + 1
      BY <1>11, <2>2
    <3>2. new[i] = stack[i] /\ to[i] = start[i] /\ to[i + 1] = start[i + 1]
      BY <1>9, <1>12, <3>1
    <3> QED BY <1>1, <3>1, <3>2 DEF Follows
  <2> QED BY <2>1, <2>2
<1>15. ASSUME NEW i \in 1 .. k PROVE new[i + 1].level < new[i].level
  <2>1. CASE i = k
    <3>1. new[i + 1] = top /\ new[i] = stack[k]
      BY <1>9, <2>1
    <3>2. stack[k].level \in Nat /\ stack[k].level # pops
      <4>1. k \in 1 .. len /\ pops # len
        BY <1>11, <2>1
      <4> QED BY <1>1, <1>4, <4>1 DEF Follows, Pushes
    <3>3. CASE pops = 0
      BY <1>13, <3>1, <3>2, <3>3
    <3>4. CASE pops # 0
      <4>1. pops - 1 \in 0 .. pops - 1 /\ len - (pops - 1) = k + 1 /\ k \in 1 .. len - 1
        BY <1>2, <1>11, <2>1, <3>4
      <4>2. stack[k + 1].level = pops - 1
        BY <1>4, <4>1 DEF Pushes
      <4>3. stack[k + 1].level < stack[k].level
        BY <1>1, <4>1 DEF Follows
      <4> QED BY <1>13, <3>1, <3>2, <4>2, <4>3
    <3> QED BY <3>3, <3>4
  <2>2. CASE i # k
    <3>1. i \in 1 .. k /\ i + 1 \in 1 .. k /\ i \in 1 .. len - 1
      BY <1>11, <2>2
    <3> QED BY <1>1, <1>9, <3>1 DEF Follows
  <2> QED BY <2>1, <2>2
<1>16. Follows(new, to, leaves, n + 1)
  <2>1. Len(new) = k + 1 /\ Len(new) + 1 = k + 2 /\ Len(new) - 1 = k
    BY <1>9, <1>11
  <2> QED BY <1>12, <1>14, <1>15, <2>1 DEF Follows
<1>17. new = Push(stack, leaf)
  BY <1>4 DEF new, kept, top, Pushes
<1> QED BY <1>9, <1>16, <1>17 DEF IsStack

RootTurn(c, f, j) == IF j = 1 THEN c[1][c[2]].hash ELSE Node(c[1][c[2] - j + 1].hash, f[j - 1])

RootRec == INSTANCE Recursion WITH Turn <- RootTurn

LEMMA RootUnfolds ==
  ASSUME NEW stack, Len(stack) \in Nat \ {0}
  PROVE  \E root : /\ root[1] = stack[Len(stack)].hash
                   /\ \A j \in 2 .. Len(stack) : root[j] = Node(stack[Len(stack) - j + 1].hash, root[j - 1])
                   /\ RootOf(stack) = root[Len(stack)]
<1> DEFINE n == Len(stack)
           c == <<stack, n>>
           S == 1 .. n
           turn(f, j) == IF j = 1 THEN stack[n].hash ELSE Node(stack[n - j + 1].hash, f[j - 1])
           root == CHOOSE f : f = [j \in 1 .. n |-> IF j = 1 THEN stack[n].hash ELSE Node(stack[n - j + 1].hash, f[j - 1])]
<1>1. RootRec!Local(c, S)
  <2> HIDE DEF c
  <2> QED BY DEF RootRec!Local, RootTurn
<1>2. \E f : f = [j \in 1 .. n |-> turn(f, j)]
  <2>1. S \in SUBSET Nat
    OBVIOUS
  <2>2. \E f : RootRec!Solves(f, c, S)
    <3> HIDE DEF c, S
    <3> QED BY <1>1, <2>1, RootRec!Exists
  <2>3. \A f, j : RootTurn(c, f, j) = turn(f, j)
    <3>1. c[1] = stack /\ c[2] = n
      OBVIOUS
    <3> HIDE DEF c, n
    <3> QED BY <3>1, Zenon DEF RootTurn
  <2> HIDE DEF turn, c, n
  <2> QED BY <2>2, <2>3 DEF RootRec!Solves
<1>3. root = [j \in 1 .. n |-> turn(root, j)]
  BY <1>2
<1>4. RootOf(stack) = root[n]
  BY DEF RootOf
<1> HIDE DEF root
<1>5. root[1] = stack[n].hash /\ \A j \in 2 .. n : root[j] = Node(stack[n - j + 1].hash, root[j - 1])
  <2>1. \A j \in 1 .. n : root[j] = turn(root, j)
    <3> HIDE DEF turn
    <3> QED BY <1>3
  <2>2. turn(root, 1) = stack[n].hash /\ \A j \in 2 .. n : turn(root, j) = Node(stack[n - j + 1].hash, root[j - 1])
    <3>1. \A j \in 2 .. n : j # 1
      OBVIOUS
    <3> QED BY <3>1, Zenon
  <2>3. 1 \in 1 .. n /\ \A j \in 2 .. n : j \in 1 .. n
    OBVIOUS
  <2> HIDE DEF turn
  <2> QED BY <2>1, <2>2, <2>3
<1> QED BY <1>4, <1>5

\* The subtrees folded from the smallest on give the hash of all the leaves.
LEMMA RootIsRange ==
  ASSUME NEW stack, NEW leaves, NEW n \in Nat, IsStack(stack, leaves, n)
  PROVE  RootOf(stack) = IF n = 0 THEN EmptyRoot ELSE RangeOf(leaves, 0, n)
<1>1. PICK S, start : stack \in Seq(S) /\ Follows(stack, start, leaves, n)
  BY DEF IsStack
<1> DEFINE len == Len(stack)
<1>2. len \in Nat
  BY <1>1
<1>3. CASE len = 0
  <2>1. n = 0
    BY <1>1, <1>3 DEF Follows
  <2> QED BY <1>3, <2>1 DEF RootOf
<1>4. CASE len # 0
  <2>1. PICK root : /\ root[1] = stack[len].hash
                    /\ \A j \in 2 .. len : root[j] = Node(stack[len - j + 1].hash, root[j - 1])
                    /\ RootOf(stack) = root[len]
    BY <1>2, <1>4, RootUnfolds
  <2> DEFINE P(j) == LET i == len - j
                         p == Pow2[stack[i].level] IN
                     /\ p <= n - start[i] /\ n - start[i] < 2 * p
                     /\ root[j + 1] = RangeOf(leaves, start[i], n - start[i])
             J == {j \in Nat : j < len => P(j)}
  <2>2. 0 \in J
    <3>1. stack[len].level \in Nat /\ start[len] \in Nat /\ start[len + 1] = start[len] + Pow2[stack[len].level]
          /\ stack[len].hash = RangeOf(leaves, start[len], Pow2[stack[len].level]) /\ start[len + 1] = n
      <4>1. len \in 1 .. len
        BY <1>2, <1>4
      <4> QED BY <1>1, <4>1 DEF Follows
    <3> DEFINE p == Pow2[stack[len].level]
    <3>2. p \in Nat /\ p > 0
      BY <3>1, Pow2Positive
    <3>3. len - 0 = len /\ 0 + 1 = 1
      BY <1>2
    <3>4. n - start[len] = p
      <4> HIDE DEF p, len
      <4> QED BY <3>1, <3>2 DEF p
    <3> HIDE DEF len
    <3>5. P(0)
      <4> HIDE DEF p
      <4>1. p <= n - start[len] /\ n - start[len] < 2 * p
        BY <3>2, <3>4
      <4> QED BY <2>1, <3>1, <3>3, <3>4, <4>1 DEF p
    <3> QED BY <3>5
  <2>3. ASSUME NEW j \in Nat, j \in J PROVE j + 1 \in J
    <3> SUFFICES ASSUME j + 1 < len PROVE P(j + 1)
      OBVIOUS
    <3> DEFINE i == len - (j + 1)
               p == Pow2[stack[i].level]
               r == n - start[i + 1]
    <3>1. i \in 1 .. len - 1 /\ i \in 1 .. len /\ i + 1 \in 1 .. len /\ len - j = i + 1 /\ j + 2 \in 2 .. len
          /\ len - (j + 2) + 1 = i /\ (j + 2) - 1 = j + 1 /\ (j + 1) + 1 = j + 2
      BY <1>2
    <3>2. stack[i].level \in Nat /\ stack[i + 1].level \in Nat /\ stack[i + 1].level < stack[i].level
          /\ start[i] \in Nat /\ start[i + 1] = start[i] + p /\ stack[i].hash = RangeOf(leaves, start[i], p)
      <4> HIDE DEF i, len
      <4> QED BY <1>1, <3>1 DEF Follows, len
    <3>3. Pow2[stack[i + 1].level] <= r /\ r < 2 * Pow2[stack[i + 1].level]
          /\ root[j + 1] = RangeOf(leaves, start[i + 1], r)
      <4>1. P(j)
        BY <2>3, <1>2
      <4> HIDE DEF i
      <4> QED BY <3>1, <4>1
    <3>4. root[j + 2] = Node(stack[i].hash, root[j + 1])
      <4> HIDE DEF i, len
      <4>1. root[j + 2] = Node(stack[len - (j + 2) + 1].hash, root[(j + 2) - 1])
        BY <2>1, <3>1 DEF len
      <4> QED BY <3>1, <4>1
    <3>5. 2 * Pow2[stack[i + 1].level] <= p /\ p \in Nat /\ Pow2[stack[i + 1].level] \in Nat
          /\ Pow2[stack[i + 1].level] > 0
      <4> DEFINE k == stack[i].level
                 m == stack[i + 1].level
      <4>1. k \in Nat /\ m \in Nat /\ m < k
        BY <3>2
      <4> HIDE DEF k, m, i
      <4>2. 2 * Pow2[m] <= Pow2[k]
        BY <4>1, Pow2Grows
      <4>3. Pow2[k] \in Nat /\ Pow2[m] \in Nat /\ Pow2[m] > m
        BY <4>1, Pow2Positive
      <4>4. Pow2[m] > 0
        BY <4>1, <4>3
      <4> QED BY <4>2, <4>3, <4>4 DEF k, m
    <3> DEFINE q == Pow2[stack[i + 1].level]
               size == n - start[i]
    <3>6. r \in Nat /\ 0 < r /\ r < p /\ size = p + r /\ size \in Nat /\ size >= 2 /\ p < size /\ size <= 2 * p
          /\ size - p = r
      <4>1. start[i] \in Nat /\ start[i + 1] = start[i] + p /\ r = n - start[i + 1] /\ size = n - start[i]
        BY <3>2
      <4>2. q <= r /\ r < 2 * q /\ 2 * q <= p /\ p \in Nat /\ q \in Nat /\ q > 0
        BY <3>3, <3>5
      <4> DEFINE a == start[i]
                 b == start[i + 1]
      <4>3. a \in Nat /\ b = a + p /\ r = n - b /\ size = n - a
        BY <4>1
      <4>4. n \in Nat
        OBVIOUS
      <4> HIDE DEF p, q, r, size, i, a, b
      <4>5. r \in Nat /\ 0 < r /\ r < p
        BY <4>2, <4>3, <4>4
      <4>6. size = p + r
        BY <4>2, <4>3, <4>4
      <4> QED BY <4>2, <4>5, <4>6
    <3>7. Split(size) = p
      <4> DEFINE k == stack[i].level
      <4>1. k \in Nat /\ p = Pow2[k]
        BY <3>2
      <4> HIDE DEF k, p, size
      <4> QED BY <3>6, <4>1, SplitAt
    <3>8. RangeOf(leaves, start[i], size) = Node(RangeOf(leaves, start[i], p), RangeOf(leaves, start[i] + p, r))
      <4>1. RangeOf(leaves, start[i], size) =
              Node(RangeOf(leaves, start[i], Split(size)), RangeOf(leaves, start[i] + Split(size), size - Split(size)))
        <5> DEFINE a == start[i]
        <5>1. a \in Nat /\ size \in Nat /\ size >= 2
          BY <3>2, <3>6
        <5> HIDE DEF size, i, a
        <5>2. RangeOf(leaves, a, size) =
                Node(RangeOf(leaves, a, Split(size)), RangeOf(leaves, a + Split(size), size - Split(size)))
          BY <5>1, RangeUnfolds
        <5> QED BY <5>2 DEF a
      <4> HIDE DEF size, p, r, i
      <4> QED BY <3>6, <3>7, <4>1
    <3>9. root[(j + 1) + 1] = RangeOf(leaves, start[i], size)
      <4> HIDE DEF size, p, r, i
      <4> QED BY <3>1, <3>2, <3>3, <3>4, <3>8
    <3>10. p <= size /\ size < 2 * p
      <4> HIDE DEF size, p, r, i
      <4> QED BY <3>5, <3>6
    <3> QED BY <3>9, <3>10
  <2>4. \A j \in Nat : j \in J
    <3>1. \A j \in Nat : j \in J => j + 1 \in J
      BY <2>3
    <3> HIDE DEF J
    <3> QED BY <2>2, <3>1, Induct
  <2>5. P(len - 1)
    <3>1. len - 1 \in Nat /\ len - 1 < len
      BY <1>2, <1>4
    <3> HIDE DEF P, len
    <3> QED BY <2>4, <3>1
  <2>6. len - (len - 1) = 1 /\ (len - 1) + 1 = len
    BY <1>2
  <2>7. start[1] = 0 /\ stack[1].level \in Nat
    <3>1. 1 \in 1 .. len
      BY <1>2, <1>4
    <3> QED BY <1>1, <3>1 DEF Follows
  <2>8. Pow2[stack[1].level] <= n - start[1] /\ root[len] = RangeOf(leaves, start[1], n - start[1])
    BY <2>5, <2>6
  <2>9. n # 0 /\ n - 0 = n
    BY <2>7, <2>8, Pow2Positive
  <2> QED BY <2>1, <2>7, <2>8, <2>9
<1> QED BY <1>3, <1>4

LEMMA EmptyStack ==
  ASSUME NEW leaves
  PROVE  IsStack(<<>>, leaves, 0)
<1> DEFINE start == [i \in {1} |-> 0]
<1>1. <<>> \in Seq({}) /\ Len(<<>>) = 0 /\ start[1] = 0
  OBVIOUS
<1>2. Follows(<<>>, start, leaves, 0)
  <2> HIDE DEF start
  <2> QED BY <1>1 DEF Follows
<1> QED BY <1>1, <1>2 DEF IsStack

AccTurn(c, f, n) == IF n = 0 THEN <<>> ELSE Push(f[n - 1], c[n])

AccRec == INSTANCE Recursion WITH Turn <- AccTurn

\* For any number of leaves: the streaming accumulator, with which the verifier
\* checks every checkpoint, gives the RFC's hash of them (merkle.py RootAccumulator,
\* mth).
THEOREM AccumulatedRoot ==
  ASSUME NEW leaves, Len(leaves) \in Nat
  PROVE  /\ IsStack(Accumulate(leaves), leaves, Len(leaves))
         /\ RootOf(Accumulate(leaves)) = IF Len(leaves) = 0 THEN EmptyRoot ELSE RangeOf(leaves, 0, Len(leaves))
         /\ RootOf(Accumulate(leaves)) = MTH(leaves)
<1> DEFINE len == Len(leaves)
           turn(f, n) == IF n = 0 THEN <<>> ELSE Push(f[n - 1], leaves[n])
           stack == CHOOSE f : f = [n \in 0 .. len |-> IF n = 0 THEN <<>> ELSE Push(f[n - 1], leaves[n])]
<1>1. \E f : f = [n \in 0 .. len |-> turn(f, n)]
  <2>1. AccRec!Local(leaves, Nat)
    BY DEF AccRec!Local, AccTurn
  <2>2. len \in Nat
    OBVIOUS
  <2>3. \E f : AccRec!Solves(f, leaves, 0 .. len)
    <3> HIDE DEF len
    <3> QED BY <2>1, <2>2, AccRec!Prefixes
  <2>4. \A f, n : AccTurn(leaves, f, n) = turn(f, n)
    BY Zenon DEF AccTurn
  <2> HIDE DEF turn, len
  <2> QED BY <2>3, <2>4 DEF AccRec!Solves
<1>2. stack = [n \in 0 .. len |-> turn(stack, n)]
  BY <1>1
<1>3. Accumulate(leaves) = stack[len]
  BY DEF Accumulate
<1> HIDE DEF stack
<1>4. \A n \in 0 .. len : stack[n] = turn(stack, n)
  <2> HIDE DEF turn
  <2> QED BY <1>2
<1> DEFINE J == {n \in Nat : n <= len => IsStack(stack[n], leaves, n)}
<1>5. 0 \in J
  <2>1. stack[0] = <<>>
    <3>1. 0 \in 0 .. len
      OBVIOUS
    <3> QED BY <1>4, <3>1
  <2> QED BY <2>1, EmptyStack
<1>6. ASSUME NEW n \in Nat, n \in J PROVE n + 1 \in J
  <2> SUFFICES ASSUME n + 1 <= len PROVE IsStack(stack[n + 1], leaves, n + 1)
    OBVIOUS
  <2>1. n + 1 \in 0 .. len /\ n + 1 # 0 /\ (n + 1) - 1 = n /\ n <= len
    OBVIOUS
  <2>2. stack[n + 1] = Push(stack[n], leaves[n + 1])
    BY <1>4, <2>1
  <2>3. IsStack(stack[n], leaves, n)
    BY <1>6, <2>1
  <2> QED BY <2>2, <2>3, PushKeeps
<1>7. IsStack(stack[len], leaves, len)
  <2>1. \A n \in Nat : n \in J => n + 1 \in J
    BY <1>6
  <2>2. \A n \in Nat : n \in J
    <3> HIDE DEF J
    <3> QED BY <1>5, <2>1, Induct
  <2> QED BY <2>2
<1>8. RootOf(stack[len]) = IF len = 0 THEN EmptyRoot ELSE RangeOf(leaves, 0, len)
  <2> HIDE DEF len
  <2> QED BY <1>7, RootIsRange DEF len
<1> QED BY <1>3, <1>7, <1>8, MthIsRange

-----------------------------------------------------------------------------
\* Proofs: the verifier climbs from a range to the whole tree.

\* Where shifting stops.
LEMMA ShiftIs ==
  ASSUME NEW odd \in BOOLEAN, NEW fn \in Nat, NEW sn, NEW u \in 0 .. fn,
         (Shr(fn, u) % 2 = 1) # odd \/ Shr(fn, u) = 0,
         \A j \in 0 .. u - 1 : (Shr(fn, j) % 2 = 1) = odd /\ Shr(fn, j) # 0
  PROVE  ShiftWhile(odd, fn, sn) = <<Shr(fn, u), Shr(sn, u)>>
<1> DEFINE goes(t) == (Shr(fn, t) % 2 = 1) = odd /\ Shr(fn, t) # 0
           ends(t) == ~goes(t) /\ \A j \in 0 .. t - 1 : goes(j)
           t == CHOOSE t \in 0 .. fn : ends(t)
<1>1. ends(u)
  OBVIOUS
<1>2. \A v \in 0 .. fn : ends(v) => v = u
  <2> SUFFICES ASSUME NEW v \in 0 .. fn, ends(v), v # u PROVE FALSE
    OBVIOUS
  <2>1. v \in 0 .. u - 1 \/ u \in 0 .. v - 1
    OBVIOUS
  <2> HIDE DEF goes
  <2> QED BY <1>1, <2>1
<1>3. t = u
  <2> HIDE DEF ends
  <2> QED BY <1>1, <1>2
<1>4. ShiftWhile(odd, fn, sn) = <<Shr(fn, t), Shr(sn, t)>>
  BY DEF ShiftWhile
<1> HIDE DEF t
<1> QED BY <1>3, <1>4

\* The ranges that a proof passes: k levels above the leaves, aligned, whole
\* unless they are at the right edge.
OnPath(size, from, n, k) ==
  /\ from \in Nat /\ n \in Nat \ {0} /\ k \in Nat /\ from + n <= size
  /\ n <= Pow2[k] /\ (k # 0 => Pow2[k - 1] < n)
  /\ \E q \in Nat : from = q * Pow2[k]
  /\ n = Pow2[k] \/ from + n = size

\* What the verifier has made of the range and of its part of the older tree.
Reached(leaves, index, size, from, n, k) ==
  [ok |-> TRUE, at |-> <<Shr(index, k), Shr(size - 1, k)>>,
   tree |-> RangeOf(leaves, from, n), old |-> RangeOf(leaves, from, index + 1 - from)]

LEMMA Halves ==
  ASSUME NEW size \in Nat, NEW from, NEW n, NEW k, OnPath(size, from, n, k), n # 1
  PROVE  /\ k - 1 \in Nat /\ Pow2[k] = 2 * Pow2[k - 1] /\ Pow2[k - 1] \in Nat \ {0}
         /\ Pow2[k - 1] < n /\ Split(n) = Pow2[k - 1]
         /\ OnPath(size, from, Pow2[k - 1], k - 1)
         /\ \E q \in Nat : from = (2 * q) * Pow2[k - 1]
         /\ \E i \in 0 .. k - 1 : OnPath(size, from + Pow2[k - 1], n - Pow2[k - 1], i)
<1>1. /\ from \in Nat /\ n \in Nat \ {0} /\ k \in Nat /\ from + n <= size
      /\ n <= Pow2[k] /\ (k # 0 => Pow2[k - 1] < n) /\ (n = Pow2[k] \/ from + n = size)
  BY DEF OnPath
<1>2. PICK q \in Nat : from = q * Pow2[k]
  BY DEF OnPath
<1>3. k # 0
  BY <1>1, Pow2Unfolds
<1> DEFINE j == k - 1
           p == Pow2[j]
           m == n - p
<1>4. j \in Nat /\ j + 1 = k
  BY <1>1, <1>3
<1> HIDE DEF j
<1>5. p \in Nat /\ p > j /\ p > 0 /\ Pow2[k] = 2 * p /\ p < n
  BY <1>1, <1>3, <1>4, Pow2Unfolds, Pow2Positive DEF j
<1>6. Split(n) = p
  BY <1>1, <1>4, <1>5, SplitAt
<1>7. from = (2 * q) * p /\ 2 * q \in Nat
  <2> HIDE DEF p
  <2>1. q * (2 * p) = (2 * q) * p
    BY <1>5
  <2> QED BY <1>2, <1>5, <2>1
<1>8. OnPath(size, from, p, j)
  <2>1. j # 0 => Pow2[j - 1] < p
    <3> SUFFICES ASSUME j # 0 PROVE Pow2[j - 1] < p
      OBVIOUS
    <3>1. j - 1 \in Nat /\ (j - 1) + 1 = j
      BY <1>4
    <3>2. Pow2[j] = 2 * Pow2[j - 1] /\ Pow2[j - 1] \in Nat /\ Pow2[j - 1] > 0
      <4> DEFINE i == j - 1
      <4> HIDE DEF i
      <4>1. i \in Nat /\ i + 1 = j
        BY <3>1 DEF i
      <4>2. Pow2[i] \in Nat /\ Pow2[i] > i /\ Pow2[i + 1] = 2 * Pow2[i]
        BY <4>1, Pow2Unfolds, Pow2Positive
      <4> QED BY <4>1, <4>2 DEF i
    <3> QED BY <3>2
  <2>2. from + p <= size /\ p <= p
    <3> HIDE DEF p
    <3> QED BY <1>1, <1>5
  <2> HIDE DEF p
  <2> QED BY <1>1, <1>4, <1>5, <1>7, <2>1, <2>2 DEF OnPath, p
<1>9. m \in Nat \ {0} /\ m <= p /\ from + p \in Nat /\ (from + p) + m = from + n
  <2> HIDE DEF p
  <2> QED BY <1>1, <1>5
<1>10. \E i \in 0 .. j : OnPath(size, from + p, m, i)
  <2> HIDE DEF m
  <2>1. PICK i \in Nat : m <= Pow2[i] /\ (i # 0 => Pow2[i - 1] < m)
    <3>1. CASE m = 1
      <4>1. m <= Pow2[0] /\ 0 \in Nat
        BY <3>1, Pow2Unfolds
      <4> QED BY <4>1
    <3>2. CASE m # 1
      <4>1. m >= 2 /\ m \in Nat
        BY <1>9, <3>2
      <4>2. PICK h \in Nat : Pow2[h] < m /\ m <= 2 * Pow2[h]
        BY <4>1, PowerBetween
      <4>3. Pow2[h + 1] = 2 * Pow2[h] /\ (h + 1) - 1 = h /\ h + 1 \in Nat
        BY Pow2Unfolds
      <4> QED BY <4>2, <4>3
    <3> QED BY <3>1, <3>2
  <2>2. i <= j
    <3> SUFFICES ASSUME j < i PROVE FALSE
      BY <1>4
    <3>1. i - 1 \in Nat /\ (j < i - 1 \/ j = i - 1)
      BY <1>4
    <3>2. Pow2[i - 1] \in Nat /\ Pow2[i - 1] < m
      BY <1>4, <2>1, <3>1, Pow2Positive
    <3>3. p <= Pow2[i - 1]
      <4>1. j < i - 1 => 2 * p <= Pow2[i - 1]
        BY <1>4, <3>1, Pow2Grows
      <4> QED BY <1>5, <3>1, <3>2, <4>1
    <3> HIDE DEF p
    <3> QED BY <1>5, <1>9, <3>2, <3>3
  <2>3. \E r \in Nat : from + p = r * Pow2[i]
    <3> DEFINE d == j - i
               y == Pow2[i]
               x == Pow2[d]
    <3>1. d \in Nat /\ d + i = j
      BY <1>4, <2>2
    <3> HIDE DEF d
    <3>2. p = x * y /\ x \in Nat /\ y \in Nat
      BY <3>1, Pow2Adds, Pow2Positive
    <3> HIDE DEF p, x, y
    <3>3. from + p = (2 * q + 1) * p
      BY <1>5, <1>7
    <3>4. (2 * q + 1) * (x * y) = ((2 * q + 1) * x) * y /\ (2 * q + 1) * x \in Nat
      BY <3>2
    <3> QED BY <3>2, <3>3, <3>4 DEF y
  <2>4. m = Pow2[i] \/ (from + p) + m = size
    <3>1. CASE n = Pow2[k]
      <4>1. m = p
        <5> HIDE DEF p
        <5> QED BY <1>1, <1>5, <3>1 DEF m
      <4>2. i = j
        <5>1. i < j => 2 * Pow2[i] <= p
          BY <1>4, <2>1, Pow2Grows
        <5>2. Pow2[i] \in Nat /\ Pow2[i] > 0
          BY <2>1, Pow2Positive
        <5> HIDE DEF p
        <5> QED BY <1>4, <1>5, <2>1, <2>2, <4>1, <5>1, <5>2
      <4> QED BY <4>1, <4>2
    <3>2. CASE from + n = size
      BY <1>9, <3>2
    <3> QED BY <1>1, <3>1, <3>2
  <2>5. i \in 0 .. j /\ (from + p) + m <= size
    BY <1>1, <1>4, <1>9, <2>1, <2>2
  <2> HIDE DEF p
  <2>6. OnPath(size, from + p, m, i)
    BY <1>9, <2>1, <2>3, <2>4, <2>5 DEF OnPath
  <2> QED BY <2>5, <2>6
<1> HIDE DEF p, m
<1>11. p \in Nat \ {0}
  BY <1>5
<1> QED BY <1>4, <1>5, <1>6, <1>7, <1>8, <1>10, <1>11 DEF j, p, m

\* The verifier takes the hashes one after another.
FollowTurn(c, f, n) == IF n = 0 THEN [ok |-> TRUE, at |-> c[2], tree |-> c[3], old |-> c[3]]
                       ELSE Joined(f[n - 1], c[1][n])

FollowRec == INSTANCE Recursion WITH Turn <- FollowTurn

Following(proof, at, start) ==
  CHOOSE f : f = [n \in 0 .. Len(proof) |->
    IF n = 0 THEN [ok |-> TRUE, at |-> at, tree |-> start, old |-> start] ELSE Joined(f[n - 1], proof[n])]

Took(proof, at, start, f) ==
  /\ Follow(proof, at, start) = f[Len(proof)]
  /\ f[0] = [ok |-> TRUE, at |-> at, tree |-> start, old |-> start]
  /\ \A n \in 0 .. Len(proof) - 1 : f[n + 1] = Joined(f[n], proof[n + 1])

LEMMA FollowUnfolds ==
  ASSUME NEW proof, NEW at, NEW start, Len(proof) \in Nat
  PROVE  Took(proof, at, start, Following(proof, at, start))
<1> DEFINE len == Len(proof)
           first == [ok |-> TRUE, at |-> at, tree |-> start, old |-> start]
           turn(f, n) == IF n = 0 THEN first ELSE Joined(f[n - 1], proof[n])
           c == <<proof, at, start>>
           F == Following(proof, at, start)
<1>1. \E f : f = [n \in 0 .. len |-> turn(f, n)]
  <2>1. FollowRec!Local(c, Nat)
    <3> HIDE DEF c
    <3> QED BY DEF FollowRec!Local, FollowTurn
  <2>2. \E f : FollowRec!Solves(f, c, 0 .. len)
    <3> HIDE DEF len, c
    <3> QED BY <2>1, FollowRec!Prefixes DEF len
  <2>3. \A f, n : FollowTurn(c, f, n) = turn(f, n)
    <3>1. c[1] = proof /\ c[2] = at /\ c[3] = start
      OBVIOUS
    <3> HIDE DEF c
    <3> QED BY <3>1, Zenon DEF FollowTurn
  <2> HIDE DEF turn, len, c
  <2> QED BY <2>2, <2>3 DEF FollowRec!Solves
<1>2. F = [n \in 0 .. len |-> turn(F, n)]
  BY <1>1 DEF Following
<1>3. Follow(proof, at, start) = F[len]
  BY DEF Follow, Following
<1> HIDE DEF F, first
<1>4. \A n \in 0 .. len : F[n] = turn(F, n)
  <2> HIDE DEF turn
  <2> QED BY <1>2
<1>5. F[0] = first
  BY <1>4
<1>6. ASSUME NEW n \in 0 .. len - 1 PROVE F[n + 1] = Joined(F[n], proof[n + 1])
  <2>1. n + 1 \in 0 .. len /\ n + 1 # 0 /\ (n + 1) - 1 = n
    OBVIOUS
  <2>2. turn(F, n + 1) = Joined(F[(n + 1) - 1], proof[n + 1])
    BY <2>1
  <2> HIDE DEF turn
  <2> QED BY <1>4, <2>1, <2>2
<1> QED BY <1>3, <1>5, <1>6 DEF F, first, Took

LEMMA FollowEmpty ==
  ASSUME NEW at, NEW start
  PROVE  Follow(<<>>, at, start) = [ok |-> TRUE, at |-> at, tree |-> start, old |-> start]
<1> DEFINE p == <<>>
<1>1. Len(p) = 0
  OBVIOUS
<1> HIDE DEF p
<1>2. Took(p, at, start, Following(p, at, start))
  BY <1>1, FollowUnfolds
<1> QED BY <1>1, <1>2 DEF p, Took

LEMMA FollowAppend ==
  ASSUME NEW S, NEW p \in Seq(S), NEW h, NEW at, NEW start
  PROVE  Follow(Append(p, h), at, start) = Joined(Follow(p, at, start), h)
<1> DEFINE len == Len(p)
           q == Append(p, h)
           F == Following(p, at, start)
           G == Following(q, at, start)
<1>1. p \in Seq(S \cup {h}) /\ h \in S \cup {h}
  OBVIOUS
<1>2. len \in Nat /\ Len(q) = len + 1 /\ q[len + 1] = h /\ \A i \in 1 .. len : q[i] = p[i]
  BY <1>1
<1> HIDE DEF q, F, G, len
<1>3. Took(p, at, start, F) /\ Took(q, at, start, G)
  <2>1. Len(p) \in Nat /\ Len(q) \in Nat
    BY <1>2 DEF len
  <2> QED BY <2>1, FollowUnfolds DEF F, G
<1>4. Follow(p, at, start) = F[len] /\ \A n \in 0 .. len - 1 : F[n + 1] = Joined(F[n], p[n + 1])
  BY <1>3 DEF Took, len
<1>5. F[0] = G[0] /\ Follow(q, at, start) = G[len + 1] /\ \A n \in 0 .. len : G[n + 1] = Joined(G[n], q[n + 1])
  <2>1. (len + 1) - 1 = len
    BY <1>2
  <2> QED BY <1>2, <1>3, <2>1 DEF Took
<1> DEFINE J == {n \in Nat : n <= len => F[n] = G[n]}
<1>6. 0 \in J
  BY <1>5
<1>7. ASSUME NEW n \in Nat, n \in J PROVE n + 1 \in J
  <2> SUFFICES ASSUME n + 1 <= len PROVE F[n + 1] = G[n + 1]
    OBVIOUS
  <2>1. n \in 0 .. len - 1 /\ n \in 0 .. len /\ n + 1 \in 1 .. len /\ n <= len
    BY <1>2
  <2> QED BY <1>2, <1>4, <1>5, <1>7, <2>1
<1>8. \A n \in Nat : n \in J
  <2>1. \A n \in Nat : n \in J => n + 1 \in J
    BY <1>7
  <2> HIDE DEF J
  <2> QED BY <1>6, <2>1, Induct
<1>9. F[len] = G[len]
  BY <1>2, <1>8
<1>10. len \in 0 .. len
  BY <1>2
<1> QED BY <1>2, <1>4, <1>5, <1>9, <1>10 DEF q

-----------------------------------------------------------------------------
\* One hash of a proof takes the verifier from a half to the whole.

SplitsAt(leaves, from, n, j) ==
  RangeOf(leaves, from, n) =
    Node(RangeOf(leaves, from, Pow2[j]), RangeOf(leaves, from + Pow2[j], n - Pow2[j]))

LEMMA SplitRange ==
  ASSUME NEW leaves, NEW from \in Nat, NEW n \in Nat, NEW j \in Nat, Pow2[j] < n, n <= 2 * Pow2[j]
  PROVE  SplitsAt(leaves, from, n, j)
<1>1. Split(n) = Pow2[j]
  BY SplitAt
<1>2. n >= 2
  <2>1. Pow2[j] \in Nat /\ Pow2[j] > j
    BY Pow2Positive
  <2> QED BY <2>1
<1>3. RangeOf(leaves, from, n) =
        Node(RangeOf(leaves, from, Split(n)), RangeOf(leaves, from + Split(n), n - Split(n)))
  BY <1>2, RangeUnfolds
<1> QED BY <1>1, <1>3 DEF SplitsAt

LEMMA JoinLeft ==
  ASSUME NEW leaves, NEW index \in Nat, NEW size \in Nat, index < size,
         NEW from, NEW n, NEW k, OnPath(size, from, n, k), n # 1,
         from <= index, index < from + Pow2[k - 1]
  PROVE  Joined(Reached(leaves, index, size, from, Pow2[k - 1], k - 1),
                RangeOf(leaves, from + Pow2[k - 1], n - Pow2[k - 1]))
           = Reached(leaves, index, size, from, n, k)
<1> DEFINE j == k - 1
           p == Pow2[j]
           fn == Shr(index, j)
           sn == Shr(size - 1, j)
           left == Reached(leaves, index, size, from, p, j)
           h == RangeOf(leaves, from + p, n - p)
<1>1. /\ from \in Nat /\ n \in Nat \ {0} /\ k \in Nat /\ from + n <= size
      /\ n <= Pow2[k]
  BY DEF OnPath
<1>2. j \in Nat /\ j + 1 = k /\ Pow2[k] = 2 * p /\ p \in Nat \ {0} /\ p < n
  BY <1>1, Halves
<1>3. PICK q \in Nat : from = (2 * q) * p
  BY Halves
<1>4. size - 1 \in Nat /\ from <= index /\ index < from + p
  OBVIOUS
<1> HIDE DEF j
<1>5. fn = 2 * q
  <2>1. 2 * q \in Nat /\ (2 * q) * p <= index /\ index < (2 * q + 1) * p
    <3> HIDE DEF p
    <3> QED BY <1>1, <1>2, <1>3, <1>4
  <2> QED BY <1>2, <2>1, ShrIs
<1>6. sn \in Nat /\ 2 * q < sn
  <2>1. 2 * q \in Nat /\ (2 * q + 1) * p <= size - 1
    <3> HIDE DEF p
    <3> QED BY <1>1, <1>2, <1>3, <1>4
  <2>2. (2 * q < sn) <=> ((2 * q + 1) * Pow2[j] <= size - 1)
    BY <1>2, <1>4, <2>1, ShrBelow
  <2> QED BY <1>2, <1>4, <2>1, <2>2, ShrRange
<1>7. Shr(index, k) = fn \div 2 /\ Shr(size - 1, k) = sn \div 2
  BY <1>2, ShrUnfolds
<1>8. ~ FromLeft(fn, sn) /\ sn # 0
  <2> HIDE DEF fn, sn
  <2>1. fn % 2 # 1 /\ fn # sn /\ sn # 0
    BY <1>5, <1>6
  <2> QED BY <2>1 DEF FromLeft
<1>9. Advance(fn, sn) = <<Shr(index, k), Shr(size - 1, k)>>
  BY <1>7, <1>8 DEF Advance
<1>10. left.ok /\ left.at[1] = fn /\ left.at[2] = sn /\ left.tree = RangeOf(leaves, from, p)
       /\ left.old = RangeOf(leaves, from, index + 1 - from)
  BY DEF Reached
<1> HIDE DEF left, fn, sn, h, p
<1>11. Joined(left, h) = [ok |-> TRUE, at |-> Advance(fn, sn), tree |-> Node(left.tree, h), old |-> left.old]
  BY <1>8, <1>10 DEF Joined
<1>12. RangeOf(leaves, from, n) = Node(RangeOf(leaves, from, p), h)
  <2>1. p < n /\ n <= 2 * p /\ n \in Nat
    BY <1>1, <1>2
  <2>2. from \in Nat /\ n \in Nat /\ j \in Nat /\ Pow2[j] < n /\ n <= 2 * Pow2[j]
    BY <1>1, <1>2, <2>1 DEF p
  <2>3. SplitsAt(leaves, from, n, j)
    BY <2>2, SplitRange
  <2> QED BY <2>3 DEF SplitsAt, p, h
<1>13. Joined(left, h) = Reached(leaves, index, size, from, n, k)
  BY <1>9, <1>10, <1>11, <1>12 DEF Reached
<1> QED BY <1>13 DEF left, h, p, j

\* In a right half at the edge the verifier first climbs past the levels it is
\* alone on.
LEMMA Alone ==
  ASSUME NEW fn \in Nat, NEW r \in Nat, NEW u \in Nat \ {0}, r % 2 = 1, fn = r * Pow2[u]
  PROVE  Advance(fn, fn) = <<r \div 2, r \div 2>>
<1>1. Pow2[u] \in Nat /\ Pow2[u] > u /\ r > 0
  BY Pow2Positive
<1>2. u \in 0 .. fn /\ fn >= Pow2[u]
  <2> DEFINE p == Pow2[u]
  <2>1. fn >= p
    <3> HIDE DEF p
    <3> QED BY <1>1 DEF p
  <2> HIDE DEF p
  <2> QED BY <1>1, <2>1 DEF p
<1>3. ASSUME NEW v \in Nat, NEW w \in Nat, v + w = u
      PROVE  Shr(fn, v) = r * Pow2[w]
  <2> DEFINE a == Pow2[v]
             b == Pow2[w]
  <2>1. a \in Nat /\ b \in Nat /\ Pow2[u] = a * b /\ a > 0
    <3>1. Pow2[v + w] = Pow2[v] * Pow2[w] /\ Pow2[v] > v
      BY Pow2Adds, Pow2Positive
    <3>2. Pow2[v] \in Nat /\ Pow2[w] \in Nat
      BY Pow2Positive
    <3> QED BY <1>3, <3>1, <3>2
  <2>2. r * b \in Nat /\ (r * b) * a <= fn /\ fn < (r * b + 1) * a
    <3> HIDE DEF a, b
    <3>1. (r * b) * a = r * (a * b)
      BY <2>1
    <3> QED BY <2>1, <3>1
  <2> QED BY <2>2, ShrIs
<1>4. Shr(fn, u) = r
  <2>1. u + 0 = u /\ r * 1 = r /\ 0 \in Nat
    OBVIOUS
  <2> QED BY <1>3, <2>1, Pow2Unfolds
<1>5. ASSUME NEW v \in 0 .. u - 1 PROVE Shr(fn, v) % 2 # 1 /\ Shr(fn, v) # 0
  <2> DEFINE w == u - v - 1
  <2>1. w \in Nat /\ v \in Nat /\ w + 1 \in Nat /\ v + (w + 1) = u
    OBVIOUS
  <2> HIDE DEF w
  <2>2. Shr(fn, v) = r * Pow2[w + 1] /\ Pow2[w + 1] = 2 * Pow2[w] /\ Pow2[w] \in Nat /\ Pow2[w] > w
    BY <1>3, <2>1, Pow2Unfolds, Pow2Positive
  <2> DEFINE b == Pow2[w]
  <2>3. r * (2 * b) = 2 * (r * b) /\ r * b \in Nat /\ r * b > 0
    <3>1. b \in Nat /\ b > 0
      BY <2>1, <2>2
    <3> HIDE DEF b
    <3> QED BY <1>1, <3>1
  <2> HIDE DEF b
  <2>4. Shr(fn, v) = 2 * (r * b)
    BY <2>2, <2>3 DEF b
  <2> DEFINE rb == r * b
  <2> HIDE DEF rb
  <2> QED BY <2>3, <2>4 DEF rb
<1>6. fn % 2 = 0
  <2>1. 0 \in 0 .. u - 1 /\ Shr(fn, 0) = fn
    BY ShrUnfolds
  <2>2. fn % 2 # 1
    BY <1>5, <2>1
  <2> QED BY <2>2
<1>7. ShiftWhile(FALSE, fn, fn) = <<r, r>>
  <2> DEFINE no == FALSE
  <2>1. no \in BOOLEAN /\ ((Shr(fn, u) % 2 = 1) # no) /\ (\A j \in 0 .. u - 1 : (Shr(fn, j) % 2 = 1) = no /\ Shr(fn, j) # 0)
    BY <1>4, <1>5
  <2> HIDE DEF no
  <2>2. ShiftWhile(no, fn, fn) = <<Shr(fn, u), Shr(fn, u)>>
    BY <1>2, <2>1, ShiftIs
  <2> QED BY <1>4, <2>2 DEF no
<1>8. FromLeft(fn, fn)
  BY DEF FromLeft
<1> DEFINE to == ShiftWhile(FALSE, fn, fn)
<1> HIDE DEF to
<1>9. to[1] = r /\ to[2] = r
  <2>1. to = <<r, r>>
    BY <1>7 DEF to
  <2> QED BY <2>1
<1>10. Advance(fn, fn) = <<to[1] \div 2, to[2] \div 2>>
  BY <1>6, <1>8 DEF Advance, to
<1> QED BY <1>9, <1>10

RightJoins(leaves, index, size, from, n, k, i) ==
  Joined(Reached(leaves, index, size, from + Pow2[k - 1], n - Pow2[k - 1], i), RangeOf(leaves, from, Pow2[k - 1]))
    = Reached(leaves, index, size, from, n, k)

LEMMA JoinRight ==
  ASSUME NEW leaves, NEW index \in Nat, NEW size \in Nat, index < size,
         NEW from, NEW n, NEW k, OnPath(size, from, n, k), n # 1,
         from + Pow2[k - 1] <= index, index < from + n,
         NEW i \in 0 .. k - 1, OnPath(size, from + Pow2[k - 1], n - Pow2[k - 1], i)
  PROVE  RightJoins(leaves, index, size, from, n, k, i)
<1> DEFINE j == k - 1
           p == Pow2[j]
           m == n - p
           fn == Shr(index, i)
           sn == Shr(size - 1, i)
           right == Reached(leaves, index, size, from + p, m, i)
           h == RangeOf(leaves, from, p)
           x == Pow2[i]
<1>1. /\ from \in Nat /\ n \in Nat \ {0} /\ k \in Nat /\ from + n <= size
      /\ n <= Pow2[k]
  BY DEF OnPath
<1>2. j \in Nat /\ j + 1 = k /\ Pow2[k] = 2 * p /\ p \in Nat \ {0} /\ p < n
  BY <1>1, Halves
<1>3. PICK q \in Nat : from = (2 * q) * p
  BY Halves
<1>4. size - 1 \in Nat /\ from + p <= index /\ index < from + n
  OBVIOUS
<1>5. i \in Nat /\ i <= j /\ m <= x /\ (m = x \/ (from + p) + m = size) /\ x \in Nat /\ x > 0
  <2>1. x \in Nat /\ x > i /\ i \in Nat /\ i <= j
    <3>1. i \in Nat /\ i <= j
      BY <1>2
    <3> HIDE DEF j
    <3> QED BY <3>1, Pow2Positive
  <2>2. m <= x /\ (m = x \/ (from + p) + m = size)
    BY DEF OnPath
  <2> HIDE DEF x, m, p, j
  <2> QED BY <2>1, <2>2
<1>6. right.ok /\ right.at = <<fn, sn>> /\ right.tree = RangeOf(leaves, from + p, m)
      /\ right.old = RangeOf(leaves, from + p, index + 1 - (from + p))
  BY DEF Reached
<1>7. m \in Nat /\ m > 0 /\ from + n = (from + p) + m /\ n = p + m
  <2> HIDE DEF p
  <2> QED BY <1>1, <1>2
<1>8. from + p = (2 * q + 1) * p
  <2> HIDE DEF p
  <2> QED BY <1>2, <1>3
<1> DEFINE r == 2 * q + 1
<1>9. r \in Nat /\ r % 2 = 1 /\ r \div 2 = q
  OBVIOUS
<1> HIDE DEF r
<1>10. FromLeft(fn, sn) /\ sn # 0 /\ Advance(fn, sn) = <<Shr(index, k), Shr(size - 1, k)>>
  <2>1. CASE i = j
    <3>1. x = p
      BY <2>1
    <3>2. r * x <= index /\ index < (r + 1) * x
      <4> HIDE DEF x, p, m
      <4> QED BY <1>2, <1>4, <1>5, <1>7, <1>8, <1>9, <3>1 DEF r
    <3>3. fn = r
      <4> HIDE DEF j, m, p
      <4> QED BY <1>5, <1>9, <3>2, ShrIs
    <3>4. fn % 2 = 1 /\ FromLeft(fn, sn)
      BY <1>9, <3>3 DEF FromLeft
    <3>5. (r * x <= size - 1) /\ r * x \in Nat
      <4> HIDE DEF x, p, m
      <4> QED BY <1>4, <1>5, <1>9, <3>2
    <3>6. sn # 0
      <4>1. (0 < sn) <=> ((0 + 1) * Pow2[i] <= size - 1)
        <5> DEFINE zero == 0
        <5>1. zero \in Nat
          OBVIOUS
        <5> HIDE DEF zero
        <5>2. (zero < sn) <=> ((zero + 1) * Pow2[i] <= size - 1)
          BY <1>4, <1>5, <5>1, ShrBelow
        <5> QED BY <5>2 DEF zero
      <4>2. x <= size - 1
        <5>1. x <= r * x
          <6> HIDE DEF x
          <6> QED BY <1>5, <1>9
        <5> HIDE DEF x, m
        <5> QED BY <1>4, <1>5, <3>5, <5>1
      <4>3. (0 + 1) * x = x
        <5> HIDE DEF x
        <5> QED BY <1>5
      <4> QED BY <4>1, <4>2, <4>3
    <3>7. Shr(index, k) = fn \div 2 /\ Shr(size - 1, k) = sn \div 2
      <4> HIDE DEF j
      <4> QED BY <1>2, <2>1, ShrUnfolds
    <3>8. Advance(fn, sn) = <<fn \div 2, sn \div 2>>
      <4> HIDE DEF fn, sn
      <4> DEFINE to == IF FromLeft(fn, sn) /\ fn % 2 = 0 THEN ShiftWhile(FALSE, fn, sn) ELSE <<fn, sn>>
      <4>1. to = <<fn, sn>>
        <5>1. ~ (fn % 2 = 0)
          BY <3>4
        <5> QED BY <5>1
      <4>2. Advance(fn, sn) = <<to[1] \div 2, to[2] \div 2>>
        BY DEF Advance
      <4> HIDE DEF to
      <4> QED BY <4>1, <4>2
    <3> QED BY <3>4, <3>6, <3>7, <3>8
  <2>2. CASE i # j
    <3> DEFINE u == j - i
               b == Pow2[u]
    <3>1. u \in Nat \ {0} /\ u + i = j
      BY <1>2, <1>5, <2>2
    <3>2. p = b * x /\ b \in Nat /\ b > 0
      <4> HIDE DEF u, j
      <4>1. Pow2[u + i] = Pow2[u] * Pow2[i] /\ Pow2[u] \in Nat /\ Pow2[u] > u
        BY <1>5, <3>1, Pow2Adds, Pow2Positive
      <4> QED BY <3>1, <4>1
    <3>3. from + n = size /\ x < p
      <4>1. 2 * x <= p
        <5> HIDE DEF j
        <5> QED BY <1>2, <1>5, <2>2, Pow2Grows
      <4> HIDE DEF x, m, p
      <4>2. n # 2 * p
        BY <1>2, <1>5, <1>7, <4>1
      <4>3. n = Pow2[k] \/ from + n = size
        BY DEF OnPath
      <4> QED BY <1>2, <1>5, <4>1, <4>2, <4>3
    <3> DEFINE w == r * b
    <3>4. w \in Nat /\ w * x <= index /\ index < (w + 1) * x /\ w * x <= size - 1 /\ size - 1 < (w + 1) * x
      <4> HIDE DEF b, x, m, p
      <4>1. w \in Nat
        BY <1>9, <3>2
      <4>2. w * x = r * p
        BY <1>5, <1>9, <3>2
      <4>3. w * x = from + p
        BY <1>8, <4>2 DEF r
      <4> HIDE DEF w
      <4>4. (w + 1) * x = w * x + x
        BY <1>5, <4>1
      <4> QED BY <1>1, <1>2, <1>4, <1>5, <1>7, <3>3, <4>1, <4>3, <4>4
    <3>5. fn = w /\ sn = w
      <4> HIDE DEF w, j, m, p
      <4>1. Shr(index, i) = w
        BY <1>5, <3>4, ShrIs
      <4>2. Shr(size - 1, i) = w
        BY <1>4, <1>5, <3>4, ShrIs
      <4> QED BY <4>1, <4>2
    <3>6. w # 0
      <4> HIDE DEF b
      <4>1. r > 0
        BY DEF r
      <4> QED BY <1>9, <3>2, <4>1
    <3>7. Advance(w, w) = <<q, q>>
      <4> HIDE DEF u, j
      <4> QED BY <1>9, <3>1, <3>4, Alone
    <3>8. Shr(index, k) = q /\ Shr(size - 1, k) = q
      <4> DEFINE y == Pow2[k]
      <4>1. q * y <= index /\ index < (q + 1) * y /\ q * y <= size - 1 /\ size - 1 < (q + 1) * y
        <5> HIDE DEF p, y, m
        <5>1. y = 2 * p /\ n <= y
          BY <1>1, <1>2 DEF y
        <5>2. q * y = from
          BY <1>2, <1>3, <5>1
        <5>3. (q + 1) * y = from + y
          BY <1>2, <5>1, <5>2
        <5> QED BY <1>1, <1>2, <1>4, <3>3, <5>1, <5>2, <5>3
      <4>2. Shr(index, k) = q
        BY <1>1, <4>1, ShrIs
      <4>3. Shr(size - 1, k) = q
        BY <1>1, <1>4, <4>1, ShrIs
      <4> QED BY <4>2, <4>3
    <3>9. FromLeft(fn, sn)
      BY <3>5 DEF FromLeft
    <3> HIDE DEF w
    <3> QED BY <3>5, <3>6, <3>7, <3>8, <3>9
  <2> QED BY <2>1, <2>2
<1>11. Joined(right, h) = [ok |-> TRUE, at |-> Advance(fn, sn), tree |-> Node(h, right.tree), old |-> Node(h, right.old)]
  <2>1. right.at[1] = fn /\ right.at[2] = sn
    BY <1>6
  <2> HIDE DEF right, h, fn, sn
  <2> QED BY <1>6, <1>10, <2>1 DEF Joined
<1>12. RangeOf(leaves, from, n) = Node(h, RangeOf(leaves, from + p, m))
  <2>1. from \in Nat /\ n \in Nat /\ j \in Nat /\ Pow2[j] < n /\ n <= 2 * Pow2[j]
    BY <1>1, <1>2
  <2> HIDE DEF j
  <2>2. SplitsAt(leaves, from, n, j)
    BY <2>1, SplitRange
  <2> QED BY <2>2 DEF SplitsAt
<1>13. RangeOf(leaves, from, index + 1 - from) = Node(h, RangeOf(leaves, from + p, index + 1 - (from + p)))
  <2> DEFINE o == index + 1 - from
  <2>1. o \in Nat /\ Pow2[j] < o /\ o <= 2 * Pow2[j]
    <3>1. p < o /\ o <= 2 * p /\ o \in Nat
      <4> HIDE DEF p
      <4> QED BY <1>1, <1>2, <1>4
    <3> QED BY <3>1
  <2>4. o - p = index + 1 - (from + p)
    <3> HIDE DEF p
    <3> QED BY <1>1, <1>2
  <2> HIDE DEF o, j
  <2>2. SplitsAt(leaves, from, o, j)
    <3>1. from \in Nat /\ o \in Nat /\ j \in Nat /\ Pow2[j] < o /\ o <= 2 * Pow2[j]
      BY <1>1, <1>2, <2>1
    <3> QED BY <3>1, SplitRange
  <2>3. RangeOf(leaves, from, o) = Node(h, RangeOf(leaves, from + p, index + 1 - (from + p)))
    BY <2>2, <2>4 DEF SplitsAt
  <2> QED BY <2>3 DEF o
<1> HIDE DEF right, h, fn, sn, p, m
<1>14. Joined(right, h) = Reached(leaves, index, size, from, n, k)
  BY <1>6, <1>10, <1>11, <1>12, <1>13 DEF Reached
<1> QED BY <1>14 DEF RightJoins, right, h, p, m, j

-----------------------------------------------------------------------------
\* Inclusion.

\* How far above the leaves the root is.
LEMMA Height ==
  ASSUME NEW n \in Nat \ {0}
  PROVE  \E k \in Nat : n <= Pow2[k] /\ (k # 0 => Pow2[k - 1] < n)
<1>1. CASE n = 1
  <2>1. n <= Pow2[0] /\ 0 \in Nat
    BY <1>1, Pow2Unfolds
  <2> QED BY <2>1
<1>2. CASE n # 1
  <2>1. n >= 2 /\ n \in Nat
    BY <1>2
  <2>2. PICK h \in Nat : Pow2[h] < n /\ n <= 2 * Pow2[h]
    BY <2>1, PowerBetween
  <2>3. Pow2[h + 1] = 2 * Pow2[h] /\ (h + 1) - 1 = h /\ h + 1 \in Nat
    BY Pow2Unfolds
  <2> QED BY <2>2, <2>3
<1> QED BY <1>1, <1>2

\* The whole tree, and one leaf of it.
LEMMA WholePath ==
  ASSUME NEW size \in Nat \ {0}
  PROVE  \E k \in Nat : OnPath(size, 0, size, k) /\ size <= Pow2[k]
<1>1. PICK k \in Nat : size <= Pow2[k] /\ (k # 0 => Pow2[k - 1] < size)
  BY Height
<1>2. 0 = 0 * Pow2[k] /\ 0 + size = size /\ 0 \in Nat /\ size <= size
  BY Pow2Positive
<1>3. \E q \in Nat : 0 = q * Pow2[k]
  BY <1>2
<1>4. OnPath(size, 0, size, k)
  BY <1>1, <1>2, <1>3 DEF OnPath
<1> QED BY <1>1, <1>4

LEMMA WholeReached ==
  ASSUME NEW leaves, NEW size \in Nat, NEW index \in Nat, index < size, NEW k \in Nat, size <= Pow2[k]
  PROVE  Reached(leaves, index, size, 0, size, k) =
           [ok |-> TRUE, at |-> <<0, 0>>, tree |-> RangeOf(leaves, 0, size), old |-> RangeOf(leaves, 0, index + 1)]
<1> DEFINE zero == 0
           p == Pow2[k]
<1>1. zero \in Nat /\ p \in Nat /\ size - 1 \in Nat /\ zero * p = 0 /\ (zero + 1) * p = p
      /\ index < p /\ size - 1 < p
  <2>1. p \in Nat
    BY Pow2Positive
  <2> HIDE DEF p
  <2> QED BY <2>1 DEF p
<1>2. zero * p <= index /\ index < (zero + 1) * p /\ zero * p <= size - 1 /\ size - 1 < (zero + 1) * p
  <2> HIDE DEF p, zero
  <2> QED BY <1>1
<1> HIDE DEF zero
<1>3. Shr(index, k) = zero /\ Shr(size - 1, k) = zero
  <2>1. Shr(index, k) = zero
    BY <1>1, <1>2, ShrIs
  <2>2. Shr(size - 1, k) = zero
    BY <1>1, <1>2, ShrIs
  <2> QED BY <2>1, <2>2
<1>4. index + 1 - 0 = index + 1
  OBVIOUS
<1> QED BY <1>3, <1>4 DEF Reached, zero

LEMMA LeafReached ==
  ASSUME NEW leaves, NEW size \in Nat, NEW index \in Nat, index < size, NEW k, OnPath(size, index, 1, k)
  PROVE  Follow(<<>>, <<index, size - 1>>, leaves[index + 1]) = Reached(leaves, index, size, index, 1, k)
<1>1. k = 0
  <2>1. k \in Nat /\ (k # 0 => Pow2[k - 1] < 1)
    BY DEF OnPath
  <2>2. k # 0 => k - 1 \in Nat
    BY <2>1
  <2>3. k # 0 => Pow2[k - 1] \in Nat /\ Pow2[k - 1] > k - 1
    BY <2>2, Pow2Positive
  <2> QED BY <2>1, <2>2, <2>3
<1>2. Shr(index, 0) = index /\ Shr(size - 1, 0) = size - 1
  BY ShrUnfolds
<1>3. RangeOf(leaves, index, 1) = leaves[index + 1] /\ index + 1 - index = 1
  BY RangeUnfolds
<1>4. Follow(<<>>, <<index, size - 1>>, leaves[index + 1])
        = [ok |-> TRUE, at |-> <<index, size - 1>>, tree |-> leaves[index + 1], old |-> leaves[index + 1]]
  BY FollowEmpty
<1> QED BY <1>1, <1>2, <1>3, <1>4 DEF Reached

PathTurn(c, f, n) ==
  [from \in 0 .. c[3] - n |->
     IF n = 1 THEN <<>>
     ELSE IF c[2] < from + Split(n) THEN Append(f[Split(n)][from], RangeHash(c[1], from + Split(n), n - Split(n)))
     ELSE Append(f[n - Split(n)][from + Split(n)], RangeHash(c[1], from, Split(n)))]

PathRec == INSTANCE Recursion WITH Turn <- PathTurn

IsPath(store, index, size, f) ==
  /\ InclusionProof(store, index, size) = f[size][0]
  /\ \A n \in 1 .. size : \A from \in 0 .. size - n :
       f[n][from] = IF n = 1 THEN <<>>
                    ELSE IF index < from + Split(n)
                      THEN Append(f[Split(n)][from], RangeHash(store, from + Split(n), n - Split(n)))
                    ELSE Append(f[n - Split(n)][from + Split(n)], RangeHash(store, from, Split(n)))

LEMMA PathUnfolds ==
  ASSUME NEW store, NEW index, NEW size \in Nat \ {0}
  PROVE  \E f : IsPath(store, index, size, f)
<1> DEFINE c == <<store, index, size>>
           S == 1 .. size
           row(f, n) ==
             [from \in 0 .. size - n |->
                IF n = 1 THEN <<>>
                ELSE IF index < from + Split(n)
                  THEN Append(f[Split(n)][from], RangeHash(store, from + Split(n), n - Split(n)))
                ELSE Append(f[n - Split(n)][from + Split(n)], RangeHash(store, from, Split(n)))]
           path == CHOOSE f : f = [n \in 1 .. size |->
             [from \in 0 .. size - n |->
                IF n = 1 THEN <<>>
                ELSE LET k == Split(n) IN
                     IF index < from + k THEN Append(f[k][from], RangeHash(store, from + k, n - k))
                     ELSE Append(f[n - k][from + k], RangeHash(store, from, k))]]
<1>1. PathRec!Local(c, S)
  <2> HIDE DEF c
  <2> SUFFICES ASSUME NEW m \in S, NEW f, NEW g, \A i \in S : i < m => f[i] = g[i]
               PROVE  PathTurn(c, f, m) = PathTurn(c, g, m)
    BY DEF PathRec!Local
  <2>1. CASE m = 1
    BY <2>1 DEF PathTurn
  <2>2. CASE m # 1
    <3>1. Split(m) \in 1 .. m - 1 /\ m - Split(m) \in 1 .. m - 1
      BY <2>2, SplitWithin
    <3>2. f[Split(m)] = g[Split(m)] /\ f[m - Split(m)] = g[m - Split(m)]
      BY <3>1
    <3> QED BY <2>2, <3>2 DEF PathTurn
  <2> QED BY <2>1, <2>2
<1>2. \E f : f = [n \in 1 .. size |-> row(f, n)]
  <2>1. S \in SUBSET Nat
    OBVIOUS
  <2>2. \E f : PathRec!Solves(f, c, S)
    <3> HIDE DEF c, S
    <3> QED BY <1>1, <2>1, PathRec!Exists
  <2>3. \A f, n : PathTurn(c, f, n) = row(f, n)
    <3>1. c[1] = store /\ c[2] = index /\ c[3] = size
      OBVIOUS
    <3> HIDE DEF c
    <3> QED BY <3>1, Zenon DEF PathTurn
  <2> HIDE DEF row, c
  <2> QED BY <2>2, <2>3 DEF PathRec!Solves
<1>3. path = [n \in 1 .. size |-> row(path, n)]
  BY <1>2, Zenon
<1>4. InclusionProof(store, index, size) = path[size][0]
  BY Zenon DEF InclusionProof
<1> HIDE DEF path
<1>5. ASSUME NEW n \in 1 .. size, NEW from \in 0 .. size - n
      PROVE  path[n][from] =
                IF n = 1 THEN <<>>
                ELSE IF index < from + Split(n)
                  THEN Append(path[Split(n)][from], RangeHash(store, from + Split(n), n - Split(n)))
                ELSE Append(path[n - Split(n)][from + Split(n)], RangeHash(store, from, Split(n)))
  <2>1. path[n] = row(path, n)
    <3> HIDE DEF row
    <3> QED BY <1>3
  <2> QED BY <2>1
<1>6. IsPath(store, index, size, path)
  BY <1>4, <1>5 DEF IsPath
<1> QED BY <1>6

\* Hashes of ranges of the leaves.
Hashes(leaves) == {RangeOf(leaves, from, n) : from \in Nat, n \in Nat}

\* What a path up to a range must make the verifier reach.
Climbs(leaves, index, size, f, from, n, k) ==
  /\ f[n][from] \in Seq(Hashes(leaves))
  /\ Follow(f[n][from], <<index, size - 1>>, leaves[index + 1]) = Reached(leaves, index, size, from, n, k)

\* Every range of n leaves that a path to the leaf passes.
AllClimb(leaves, index, size, f, n) ==
  \A from \in 0 .. size - n : \A k \in Nat :
    OnPath(size, from, n, k) /\ from <= index /\ index < from + n => Climbs(leaves, index, size, f, from, n, k)

LEMMA ClimbStep ==
  ASSUME NEW store, NEW leaves, NEW size \in Nat \ {0}, NEW index \in Nat, index < size,
         IsStore(store, leaves, size), NEW f, IsPath(store, index, size, f),
         NEW n \in 1 .. size, \A m \in 1 .. n - 1 : AllClimb(leaves, index, size, f, m)
  PROVE  AllClimb(leaves, index, size, f, n)
<1> SUFFICES ASSUME NEW from \in 0 .. size - n, NEW k \in Nat,
                    OnPath(size, from, n, k), from <= index, index < from + n
             PROVE  Climbs(leaves, index, size, f, from, n, k)
  BY DEF AllClimb
<1> DEFINE H == Hashes(leaves)
           at == <<index, size - 1>>
           leaf == leaves[index + 1]
<1>1. CASE n = 1
  <2>1. from = index /\ f[n][from] = <<>>
    BY <1>1 DEF IsPath
  <2>2. <<>> \in Seq(H)
    OBVIOUS
  <2> HIDE DEF H
  <2> QED BY <1>1, <2>1, <2>2, LeafReached DEF Climbs, H
<1>2. CASE n # 1
  <2> DEFINE j == k - 1
             p == Pow2[j]
             m == n - p
             left == f[p][from]
             right == f[m][from + p]
  <2>1. j \in Nat /\ p \in Nat \ {0} /\ p < n /\ Split(n) = p /\ OnPath(size, from, p, j)
    BY <1>2, Halves
  <2>2. PICK i \in 0 .. j : OnPath(size, from + p, m, i)
    BY <1>2, Halves
  <2>3. f[n][from] = IF index < from + p THEN Append(left, RangeHash(store, from + p, m))
                     ELSE Append(right, RangeHash(store, from, p))
    <3> HIDE DEF p
    <3> QED BY <1>2, <2>1 DEF IsPath
  <2> HIDE DEF j
  <2>4. p \in 1 .. n - 1 /\ m \in 1 .. n - 1 /\ from \in 0 .. size - p /\ from + p \in 0 .. size - m
        /\ from \in Nat /\ from + p \in Nat /\ p \in Nat \ {0} /\ m \in Nat \ {0}
        /\ (from + p) + m <= size /\ from + p <= size /\ (from + p) + m = from + n
    <3> HIDE DEF p
    <3> QED BY <2>1
  <2>5. CASE index < from + p
    <3>1. Climbs(leaves, index, size, f, from, p, j)
      <4> HIDE DEF p
      <4> QED BY <2>1, <2>4, <2>5 DEF AllClimb
    <3>2. RangeHash(store, from + p, m) = RangeOf(leaves, from + p, m)
      <4> HIDE DEF p, m
      <4> QED BY <2>4, RangeHashIsRange
    <3> DEFINE h == RangeOf(leaves, from + p, m)
    <3>3. h \in H
      <4> HIDE DEF p, m
      <4> QED BY <2>4 DEF Hashes
    <3>4. Joined(Reached(leaves, index, size, from, p, j), h) = Reached(leaves, index, size, from, n, k)
      BY <1>2, <2>5, JoinLeft DEF j
    <3>5. left \in Seq(H) /\ Follow(left, at, leaf) = Reached(leaves, index, size, from, p, j)
      <4> HIDE DEF p
      <4> QED BY <3>1 DEF Climbs
    <3>6. f[n][from] = Append(left, h)
      <4> HIDE DEF p, m, left, right
      <4> QED BY <2>3, <2>5, <3>2
    <3> HIDE DEF p, m, left, h, H, at, leaf
    <3>7. Follow(Append(left, h), at, leaf) = Joined(Follow(left, at, leaf), h)
      BY <3>5, FollowAppend
    <3>8. Append(left, h) \in Seq(H)
      BY <3>3, <3>5
    <3> QED BY <3>4, <3>5, <3>6, <3>7, <3>8 DEF Climbs, H, at, leaf
  <2>6. CASE ~ (index < from + p)
    <3>0. from + p <= index
      <4> HIDE DEF p
      <4> QED BY <2>4, <2>6
    <3>1. Climbs(leaves, index, size, f, from + p, m, i)
      <4> HIDE DEF p, m
      <4>1. i \in Nat
        BY <2>1
      <4> QED BY <2>2, <2>4, <3>0, <4>1 DEF AllClimb
    <3>2. RangeHash(store, from, p) = RangeOf(leaves, from, p)
      <4> HIDE DEF p, m
      <4> QED BY <2>4, RangeHashIsRange
    <3> DEFINE h == RangeOf(leaves, from, p)
    <3>3. h \in H
      <4> HIDE DEF p, m
      <4> QED BY <2>4 DEF Hashes
    <3>4. Joined(Reached(leaves, index, size, from + p, m, i), h) = Reached(leaves, index, size, from, n, k)
      <4>1. i \in 0 .. k - 1 /\ OnPath(size, from + Pow2[k - 1], n - Pow2[k - 1], i) /\ from + Pow2[k - 1] <= index
        BY <2>2, <3>0 DEF j
      <4>2. RightJoins(leaves, index, size, from, n, k, i)
        BY <1>2, <4>1, JoinRight
      <4> QED BY <4>2 DEF RightJoins, j
    <3>5. right \in Seq(H) /\ Follow(right, at, leaf) = Reached(leaves, index, size, from + p, m, i)
      <4> HIDE DEF p, m
      <4> QED BY <3>1 DEF Climbs
    <3>6. f[n][from] = Append(right, h)
      <4> HIDE DEF p, m, left, right
      <4> QED BY <2>3, <2>6, <3>2
    <3> HIDE DEF p, m, right, h, H, at, leaf
    <3>7. Follow(Append(right, h), at, leaf) = Joined(Follow(right, at, leaf), h)
      BY <3>5, FollowAppend
    <3>8. Append(right, h) \in Seq(H)
      BY <3>3, <3>5
    <3> QED BY <3>4, <3>5, <3>6, <3>7, <3>8 DEF Climbs, H, at, leaf
  <2> QED BY <2>5, <2>6
<1> QED BY <1>1, <1>2

\* For a tree of any size and every leaf of it: the path read from a store of the
\* leaves verifies against the root (merkle.py inclusion_proof, verify_inclusion).
THEOREM InclusionVerifies ==
  ASSUME NEW store, NEW leaves, NEW size \in Nat, NEW index \in Nat, index < size,
         IsStore(store, leaves, size)
  PROVE  VerifyInclusion(leaves[index + 1], index, size, InclusionProof(store, index, size), RangeOf(leaves, 0, size))
<1>1. PICK f : IsPath(store, index, size, f)
  BY PathUnfolds
<1> DEFINE Bad == {n \in 1 .. size : ~ AllClimb(leaves, index, size, f, n)}
<1>2. Bad = {}
  <2> SUFFICES ASSUME Bad # {} PROVE FALSE
    OBVIOUS
  <2>1. PICK n \in Bad : \A m \in Bad : n <= m
    <3>1. Bad \in SUBSET Nat
      OBVIOUS
    <3> HIDE DEF Bad
    <3> QED BY <3>1, Pow2Rec!Least
  <2>2. n \in 1 .. size /\ ~ AllClimb(leaves, index, size, f, n)
    OBVIOUS
  <2>3. \A m \in 1 .. n - 1 : m \notin Bad /\ m \in 1 .. size
    <3> HIDE DEF Bad
    <3> QED BY <2>1, <2>2
  <2>4. \A m \in 1 .. n - 1 : AllClimb(leaves, index, size, f, m)
    BY <2>3
  <2> QED BY <1>1, <2>2, <2>4, ClimbStep
<1>3. PICK k \in Nat : OnPath(size, 0, size, k) /\ size <= Pow2[k]
  BY WholePath
<1>4. Climbs(leaves, index, size, f, 0, size, k)
  <2>1. size \in 1 .. size /\ 0 \in 0 .. size - size /\ 0 <= index /\ index < 0 + size
    OBVIOUS
  <2>2. AllClimb(leaves, index, size, f, size)
    BY <1>2, <2>1
  <2> QED BY <1>3, <2>1, <2>2 DEF AllClimb
<1> DEFINE end == Follow(InclusionProof(store, index, size), <<index, size - 1>>, leaves[index + 1])
<1>5. end = Reached(leaves, index, size, 0, size, k)
  BY <1>1, <1>4 DEF Climbs, IsPath
<1>6. Reached(leaves, index, size, 0, size, k) =
        [ok |-> TRUE, at |-> <<0, 0>>, tree |-> RangeOf(leaves, 0, size), old |-> RangeOf(leaves, 0, index + 1)]
  BY <1>3, WholeReached
<1> HIDE DEF end
<1>7. end.ok /\ end.at[2] = 0 /\ end.tree = RangeOf(leaves, 0, size)
  BY <1>5, <1>6
<1> QED BY <1>7 DEF VerifyInclusion, end

-----------------------------------------------------------------------------
\* Consistency.

SubTurn(c, f, n) ==
  [from \in {a \in 0 .. c[3] - n : a < c[2] /\ c[2] <= a + n} |->
     IF c[2] = from + n THEN IF from = 0 THEN <<>> ELSE <<RangeHash(c[1], from, n)>>
     ELSE IF c[2] <= from + Split(n) THEN Append(f[Split(n)][from], RangeHash(c[1], from + Split(n), n - Split(n)))
     ELSE Append(f[n - Split(n)][from + Split(n)], RangeHash(c[1], from, Split(n)))]

SubRec == INSTANCE Recursion WITH Turn <- SubTurn

IsSubProof(store, m, size, f) ==
  /\ m < size => ConsistencyProof(store, m, size) = f[size][0]
  /\ \A n \in 1 .. size : \A from \in 0 .. size - n : from < m /\ m <= from + n =>
       f[n][from] = IF m = from + n THEN IF from = 0 THEN <<>> ELSE <<RangeHash(store, from, n)>>
                    ELSE IF m <= from + Split(n)
                      THEN Append(f[Split(n)][from], RangeHash(store, from + Split(n), n - Split(n)))
                    ELSE Append(f[n - Split(n)][from + Split(n)], RangeHash(store, from, Split(n)))

LEMMA SubUnfolds ==
  ASSUME NEW store, NEW m \in Nat, NEW size \in Nat \ {0}
  PROVE  \E f : IsSubProof(store, m, size, f)
<1> DEFINE c == <<store, m, size>>
           S == 1 .. size
           row(f, n) ==
             [from \in {a \in 0 .. size - n : a < m /\ m <= a + n} |->
                IF m = from + n THEN IF from = 0 THEN <<>> ELSE <<RangeHash(store, from, n)>>
                ELSE IF m <= from + Split(n)
                  THEN Append(f[Split(n)][from], RangeHash(store, from + Split(n), n - Split(n)))
                ELSE Append(f[n - Split(n)][from + Split(n)], RangeHash(store, from, Split(n)))]
           sub == CHOOSE f : f = [n \in 1 .. size |->
             [from \in {a \in 0 .. size - n : a < m /\ m <= a + n} |->
                IF m = from + n THEN IF from = 0 THEN <<>> ELSE <<RangeHash(store, from, n)>>
                ELSE LET k == Split(n) IN
                     IF m <= from + k THEN Append(f[k][from], RangeHash(store, from + k, n - k))
                     ELSE Append(f[n - k][from + k], RangeHash(store, from, k))]]
<1>0. \A f, n : SubTurn(c, f, n) = row(f, n)
  <2>1. c[1] = store /\ c[2] = m /\ c[3] = size
    OBVIOUS
  <2> HIDE DEF c
  <2> QED BY <2>1, ZenonT(60) DEF SubTurn
<1>1. SubRec!Local(c, S)
  <2> SUFFICES ASSUME NEW n \in S, NEW f, NEW g, \A i \in S : i < n => f[i] = g[i]
               PROVE  row(f, n) = row(g, n)
    <3> HIDE DEF c, row
    <3> QED BY <1>0 DEF SubRec!Local
  <2>1. CASE n = 1
    <3>1. \A from \in {a \in 0 .. size - 1 : a < m /\ m <= a + 1} : m = from + 1
      OBVIOUS
    <3> QED BY <2>1, <3>1
  <2>2. CASE n # 1
    <3>1. Split(n) \in 1 .. n - 1 /\ n - Split(n) \in 1 .. n - 1
      BY <2>2, SplitWithin
    <3>2. f[Split(n)] = g[Split(n)] /\ f[n - Split(n)] = g[n - Split(n)]
      BY <3>1
    <3> QED BY <3>2
  <2> QED BY <2>1, <2>2
<1>2. \E f : f = [n \in 1 .. size |-> row(f, n)]
  <2>1. S \in SUBSET Nat
    OBVIOUS
  <2>2. \E f : SubRec!Solves(f, c, S)
    <3> HIDE DEF c, S
    <3> QED BY <1>1, <2>1, SubRec!Exists
  <2> HIDE DEF row, c
  <2> QED BY <1>0, <2>2 DEF SubRec!Solves
<1>3. sub = [n \in 1 .. size |-> row(sub, n)]
  BY <1>2, Zenon
<1>4. m < size => ConsistencyProof(store, m, size) = sub[size][0]
  <2>1. ConsistencyProof(store, m, size) = IF m = size THEN <<>> ELSE sub[size][0]
    BY Zenon DEF ConsistencyProof
  <2> HIDE DEF sub
  <2> QED BY <2>1
<1> HIDE DEF sub
<1>5. ASSUME NEW n \in 1 .. size, NEW from \in 0 .. size - n, from < m, m <= from + n
      PROVE  sub[n][from] =
                IF m = from + n THEN IF from = 0 THEN <<>> ELSE <<RangeHash(store, from, n)>>
                ELSE IF m <= from + Split(n)
                  THEN Append(sub[Split(n)][from], RangeHash(store, from + Split(n), n - Split(n)))
                ELSE Append(sub[n - Split(n)][from + Split(n)], RangeHash(store, from, Split(n)))
  <2>1. sub[n] = row(sub, n)
    <3> HIDE DEF row
    <3> QED BY <1>3
  <2>2. from \in {a \in 0 .. size - n : a < m /\ m <= a + n}
    BY <1>5
  <2> QED BY <2>1, <2>2, Zenon
<1>6. IsSubProof(store, m, size, sub)
  BY <1>4, <1>5 DEF IsSubProof
<1> QED BY <1>6

\* The hashes that the verifier of a consistency proof goes through.
Full(leaves, m, proof) == IF IsPowerOf2(m) THEN <<RangeOf(leaves, 0, m)>> \o proof ELSE proof

LEMMA FullAppends ==
  ASSUME NEW leaves, NEW m \in Nat, NEW p \in Seq(Hashes(leaves)), NEW h \in Hashes(leaves),
         Full(leaves, m, p) # <<>>
  PROVE  /\ Tail(Full(leaves, m, p)) \in Seq(Hashes(leaves))
         /\ Full(leaves, m, Append(p, h)) # <<>>
         /\ Tail(Full(leaves, m, Append(p, h))) = Append(Tail(Full(leaves, m, p)), h)
         /\ Full(leaves, m, Append(p, h))[1] = Full(leaves, m, p)[1]
<1> DEFINE H == Hashes(leaves)
           root == RangeOf(leaves, 0, m)
<1>1. root \in H
  BY DEF Hashes
<1> HIDE DEF H, root
<1>2. ASSUME NEW q \in Seq(H), q # <<>>, NEW g \in H
      PROVE  Tail(q) \in Seq(H) /\ Append(q, g) # <<>> /\ Tail(Append(q, g)) = Append(Tail(q), g)
             /\ Append(q, g)[1] = q[1]
  <2>1. Len(q) \in Nat /\ Len(q) > 0 /\ Len(Append(q, g)) = Len(q) + 1 /\ Append(q, g) \in Seq(H)
        /\ Append(q, g)[Len(q) + 1] = g /\ \A i \in 1 .. Len(q) : Append(q, g)[i] = q[i]
    BY <1>2, EmptySeq
  <2>2. Tail(q) \in Seq(H) /\ Tail(Append(q, g)) = Append(Tail(q), g)
    BY <1>2, HeadTailProperties, HeadTailAppend
  <2>3. Append(q, g) # <<>> /\ 1 \in 1 .. Len(q)
    BY <2>1, EmptySeq
  <2> QED BY <2>1, <2>2, <2>3
<1>3. CASE IsPowerOf2(m)
  <2> DEFINE q == <<root>> \o p
  <2>1. p \in Seq(H) /\ h \in H
    BY DEF H
  <2>2. q \in Seq(H) /\ q # <<>>
    <3>1. <<root>> \in Seq(H) /\ Len(<<root>>) = 1
      BY <1>1
    <3>2. q \in Seq(H) /\ Len(q) = 1 + Len(p) /\ Len(p) \in Nat
      BY <2>1, <3>1
    <3> QED BY <3>2
  <2>3. <<root>> \o Append(p, h) = Append(q, h)
    BY <1>1, <2>1
  <2>4. Full(leaves, m, p) = q /\ Full(leaves, m, Append(p, h)) = Append(q, h)
    BY <1>3, <2>3 DEF Full, root
  <2> HIDE DEF q
  <2> QED BY <1>2, <2>1, <2>2, <2>4 DEF H
<1>4. CASE ~ IsPowerOf2(m)
  <2>1. Full(leaves, m, p) = p /\ Full(leaves, m, Append(p, h)) = Append(p, h)
    BY <1>4 DEF Full
  <2>2. p \in Seq(H) /\ h \in H
    BY DEF H
  <2> QED BY <1>2, <2>1, <2>2 DEF H
<1> QED BY <1>3, <1>4

\* Where a proof takes the verifier, and where one up to a range must.
Leads(leaves, m, proof, at, s) ==
  LET full == Full(leaves, m, proof) IN
  proof \in Seq(Hashes(leaves)) /\ full # <<>> /\ Follow(Tail(full), at, full[1]) = s

Agrees(leaves, m, size, f, from, n, k) ==
  /\ Leads(leaves, m, f[n][from], ShiftWhile(TRUE, m - 1, size - 1), Reached(leaves, m - 1, size, from, n, k))
  /\ m # from + n => f[n][from] # <<>>

\* The range is the last perfect one of the older tree, when it ends with it.
LastOfOld(m, from, n, k) == m = from + n => n = Pow2[k] /\ \E q \in Nat : from = (2 * q) * Pow2[k]

AllAgree(leaves, m, size, f, n) ==
  \A from \in 0 .. size - n : \A k \in Nat :
    OnPath(size, from, n, k) /\ from < m /\ m <= from + n /\ LastOfOld(m, from, n, k)
      => Agrees(leaves, m, size, f, from, n, k)

\* Where the verifier starts: above the trailing right turns of the path to the
\* older tree's last leaf.
Begins(m, sn, k, q) ==
  /\ ShiftWhile(TRUE, m - 1, sn) = <<Shr(m - 1, k), Shr(sn, k)>>
  /\ IsPowerOf2(m) <=> q = 0

LEMMA Starts ==
  ASSUME NEW k \in Nat, NEW q \in Nat, NEW m \in Nat, NEW sn, m = (2 * q + 1) * Pow2[k]
  PROVE  Begins(m, sn, k, q)
<1> DEFINE p == Pow2[k]
           fn == m - 1
<1>1. p \in Nat /\ p > k
  BY Pow2Positive
<1>2. m >= p /\ m = (2 * q) * p + p
  <2> HIDE DEF p
  <2> QED BY <1>1 DEF p
<1>3. fn \in Nat /\ k \in 0 .. fn
  <2> HIDE DEF p
  <2> QED BY <1>1, <1>2
<1>4. Shr(fn, k) = 2 * q
  <2>1. 2 * q \in Nat /\ (2 * q) * p <= fn /\ fn < (2 * q + 1) * p
    <3> HIDE DEF p
    <3> QED BY <1>1, <1>2
  <2> HIDE DEF fn
  <2> QED BY <1>3, <2>1, ShrIs
<1>5. ASSUME NEW i \in 0 .. k - 1 PROVE Shr(fn, i) % 2 = 1 /\ Shr(fn, i) # 0
  <2> DEFINE u == k - i - 1
             x == Pow2[i]
             b == Pow2[u]
             w == (2 * q + 1) * b
  <2>1. u \in Nat /\ i \in Nat /\ (u + 1) + i = k /\ u + 1 \in Nat
    OBVIOUS
  <2> HIDE DEF u
  <2>2. b \in Nat /\ b > 0 /\ x \in Nat /\ x > 0 /\ p = (2 * b) * x
    <3>1. Pow2[u] \in Nat /\ Pow2[u] > u /\ Pow2[i] \in Nat /\ Pow2[i] > i /\ Pow2[u + 1] = 2 * Pow2[u]
      BY <2>1, Pow2Positive, Pow2Unfolds
    <3>2. Pow2[(u + 1) + i] = Pow2[u + 1] * Pow2[i]
      BY <2>1, Pow2Adds
    <3> QED BY <2>1, <3>1, <3>2
  <2> HIDE DEF b, x, p
  <2>3. w \in Nat /\ w > 0
    BY <2>2
  <2>4. m = (2 * w) * x
    <3>1. (2 * q + 1) * ((2 * b) * x) = (2 * ((2 * q + 1) * b)) * x
      BY <2>2
    <3> QED BY <2>2, <3>1 DEF p
  <2> HIDE DEF w
  <2>5. 2 * w - 1 \in Nat /\ (2 * w - 1) * x <= fn /\ fn < ((2 * w - 1) + 1) * x
    <3>1. (2 * w - 1) * x = (2 * w) * x - x /\ ((2 * w - 1) + 1) * x = (2 * w) * x
      BY <2>2, <2>3
    <3> QED BY <2>2, <2>3, <2>4, <3>1
  <2>6. Shr(fn, i) = 2 * w - 1
    <3> HIDE DEF fn
    <3> QED BY <1>3, <2>1, <2>5, ShrIs DEF x
  <2> QED BY <2>3, <2>6
<1>6. ShiftWhile(TRUE, fn, sn) = <<Shr(fn, k), Shr(sn, k)>>
  <2> DEFINE yes == TRUE
  <2>1. yes \in BOOLEAN /\ ((Shr(fn, k) % 2 = 1) # yes) /\ (\A j \in 0 .. k - 1 : (Shr(fn, j) % 2 = 1) = yes /\ Shr(fn, j) # 0)
    <3>1. ~ (Shr(fn, k) % 2 = 1)
      BY <1>4
    <3>2. ((Shr(fn, k) % 2 = 1) # yes)
      BY <3>1, Zenon
    <3>3. \A j \in 0 .. k - 1 : (Shr(fn, j) % 2 = 1) = yes /\ Shr(fn, j) # 0
      BY <1>5, Zenon
    <3> QED BY <3>2, <3>3
  <2> HIDE DEF yes, fn
  <2>2. ShiftWhile(yes, fn, sn) = <<Shr(fn, k), Shr(sn, k)>>
    BY <1>3, <2>1, ShiftIs
  <2> QED BY <2>2 DEF yes
<1>7. ASSUME q = 0 PROVE IsPowerOf2(m)
  <2>1. m = Pow2[k]
    <3> HIDE DEF p
    <3> QED BY <1>1, <1>2, <1>7 DEF p
  <2> QED BY <2>1, PowersArePowers
<1>8. ASSUME IsPowerOf2(m) PROVE q = 0
  <2>1. PICK e \in 0 .. m : Pow2[e] = m
    BY <1>8 DEF IsPowerOf2
  <2>2. CASE e <= k
    <3>1. m <= p
      <4>1. e < k => 2 * Pow2[e] <= Pow2[k]
        BY <2>1, Pow2Grows
      <4> QED BY <1>1, <2>1, <2>2, <4>1
    <3>2. q > 0 => (2 * q) * p > 0
      <4> HIDE DEF p
      <4> QED BY <1>1
    <3> HIDE DEF p
    <3> QED BY <1>1, <1>2, <3>1, <3>2
  <2>3. CASE k < e
    <3> DEFINE u == e - k - 1
               b == Pow2[u]
    <3>1. u \in Nat /\ (u + 1) + k = e /\ u + 1 \in Nat
      BY <2>3
    <3> HIDE DEF u
    <3>2. b \in Nat /\ m = (2 * b) * p
      <4>1. Pow2[u] \in Nat /\ Pow2[u + 1] = 2 * Pow2[u]
        BY <3>1, Pow2Positive, Pow2Unfolds
      <4>2. Pow2[(u + 1) + k] = Pow2[u + 1] * Pow2[k]
        BY <3>1, Pow2Adds
      <4> QED BY <2>1, <3>1, <4>1, <4>2
    <3>3. (2 * q + 1) * p = (2 * b) * p
      BY <3>2
    <3>4. 2 * q + 1 = 2 * b
      <4> HIDE DEF p, b
      <4>1. p > 0 /\ p \in Nat
        BY <1>1
      <4>2. 2 * q + 1 \in Nat /\ 2 * b \in Nat
        BY <3>2
      <4> DEFINE y == 2 * q + 1
                 z == 2 * b
      <4>3. y \in Nat /\ z \in Nat /\ y * p = z * p
        BY <3>3, <4>2
      <4> HIDE DEF y, z
      <4>4. ~ (y < z) /\ ~ (z < y)
        <5>1. ASSUME y < z PROVE FALSE
          <6> DEFINE d == (z - y) * p
          <6>1. z * p = y * p + d /\ d > 0 /\ d \in Nat /\ y * p \in Nat
            BY <4>1, <4>3, <5>1
          <6> HIDE DEF d
          <6> QED BY <4>3, <6>1
        <5>2. ASSUME z < y PROVE FALSE
          <6> DEFINE d == (y - z) * p
          <6>1. y * p = z * p + d /\ d > 0 /\ d \in Nat /\ z * p \in Nat
            BY <4>1, <4>3, <5>2
          <6> HIDE DEF d
          <6> QED BY <4>3, <6>1
        <5> QED BY <5>1, <5>2
      <4> QED BY <4>3, <4>4 DEF y, z
    <3> HIDE DEF b
    <3> QED BY <3>2, <3>4
  <2> QED BY <2>1, <2>2, <2>3
<1> QED BY <1>6, <1>7, <1>8 DEF Begins

\* The end of the older tree is where the verifier starts.
LEMMA AgreesAtEnd ==
  ASSUME NEW store, NEW leaves, NEW size \in Nat \ {0}, NEW m \in Nat \ {0}, m < size,
         IsStore(store, leaves, size), NEW f, IsSubProof(store, m, size, f),
         NEW n \in 1 .. size, NEW from \in 0 .. size - n, NEW k \in Nat,
         m = from + n, LastOfOld(m, from, n, k)
  PROVE  Agrees(leaves, m, size, f, from, n, k)
<1> DEFINE H == Hashes(leaves)
           p == Pow2[k]
           first == RangeOf(leaves, from, n)
           at == ShiftWhile(TRUE, m - 1, size - 1)
           proof == IF from = 0 THEN <<>> ELSE <<first>>
           full == Full(leaves, m, proof)
<1>1. PICK q \in Nat : from = (2 * q) * p
  BY DEF LastOfOld
<1>2. n = p /\ p \in Nat /\ p > 0
  <2>1. p \in Nat /\ p > k
    BY Pow2Positive
  <2> HIDE DEF p
  <2> QED BY <2>1 DEF LastOfOld, p
<1>3. m = (2 * q + 1) * p /\ (from = 0 <=> q = 0)
  <2>1. (2 * q + 1) * p = (2 * q) * p + p
    <3> HIDE DEF p
    <3> QED BY <1>2
  <2>2. q > 0 => (2 * q) * p > 0
    <3> HIDE DEF p
    <3> QED BY <1>2
  <2> HIDE DEF p
  <2> QED BY <1>1, <1>2, <2>1, <2>2
<1>4. at = <<Shr(m - 1, k), Shr(size - 1, k)>> /\ (IsPowerOf2(m) <=> q = 0)
  <2> DEFINE sn == size - 1
  <2>1. m \in Nat /\ m = (2 * q + 1) * Pow2[k]
    BY <1>3
  <2> HIDE DEF sn
  <2>2. Begins(m, sn, k, q)
    BY <2>1, Starts
  <2> QED BY <2>2 DEF Begins, sn
<1>5. f[n][from] = proof
  <2>1. RangeHash(store, from, n) = first
    <3>1. from \in Nat /\ n \in Nat \ {0} /\ from + n <= size /\ size \in Nat
      OBVIOUS
    <3> QED BY <3>1, RangeHashIsRange
  <2>2. f[n][from] = IF from = 0 THEN <<>> ELSE <<RangeHash(store, from, n)>>
    <3>1. from < m /\ m <= from + n
      OBVIOUS
    <3> QED BY <3>1 DEF IsSubProof
  <2> HIDE DEF first
  <2> QED BY <2>1, <2>2
<1>6. first \in H /\ proof \in Seq(H)
  <2>1. first \in H
    BY DEF Hashes
  <2> HIDE DEF first, H
  <2> QED BY <2>1
<1>7. full = <<first>>
  <2>1. CASE from = 0
    <3>1. full = <<RangeOf(leaves, 0, m)>> \o <<>>
      BY <1>3, <1>4, <2>1 DEF Full
    <3>2. RangeOf(leaves, 0, m) = first
      <4>1. m = n
        BY <2>1
      <4> QED BY <2>1, <4>1
    <3> HIDE DEF full, first, H
    <3> QED BY <1>6, <3>1, <3>2, ConcatEmptySeq
  <2>2. CASE from # 0
    BY <1>3, <1>4, <2>2 DEF Full
  <2> QED BY <2>1, <2>2
<1>8. Tail(full) = <<>> /\ full[1] = first /\ full # <<>>
  <2> HIDE DEF full, first
  <2> QED BY <1>7
<1>9. Follow(<<>>, at, first) = [ok |-> TRUE, at |-> at, tree |-> first, old |-> first]
  <2> HIDE DEF at, first
  <2> QED BY FollowEmpty
<1>10. m - 1 + 1 - from = n
  OBVIOUS
<1>11. Follow(Tail(full), at, full[1]) = Reached(leaves, m - 1, size, from, n, k)
  <2> HIDE DEF full, at
  <2> QED BY <1>4, <1>8, <1>9, <1>10 DEF Reached
<1> HIDE DEF at, first, proof
<1> QED BY <1>5, <1>6, <1>8, <1>11 DEF Agrees, Leads, at

\* One more hash of a consistency proof.
LEMMA LeadsOn ==
  ASSUME NEW leaves, NEW m \in Nat, NEW at, NEW p, NEW h \in Hashes(leaves),
         NEW half, NEW all, Leads(leaves, m, p, at, half), Joined(half, h) = all
  PROVE  Leads(leaves, m, Append(p, h), at, all) /\ Append(p, h) # <<>>
<1> DEFINE H == Hashes(leaves)
           old == Full(leaves, m, p)
           full == Full(leaves, m, Append(p, h))
           rest == Tail(old)
           first == old[1]
<1>1. p \in Seq(H) /\ old # <<>> /\ Follow(rest, at, first) = half
  BY DEF Leads
<1>2. rest \in Seq(H) /\ full # <<>> /\ Tail(full) = Append(rest, h) /\ full[1] = first
  BY <1>1, FullAppends
<1>3. Append(p, h) \in Seq(H) /\ Append(p, h) # <<>>
  BY <1>1, EmptySeq
<1> HIDE DEF H, old, full, rest, first
<1>4. Follow(Append(rest, h), at, first) = Joined(Follow(rest, at, first), h)
  BY <1>2, FollowAppend
<1> QED BY <1>1, <1>2, <1>3, <1>4 DEF Leads, H, full

LEMMA AgreesStep ==
  ASSUME NEW store, NEW leaves, NEW size \in Nat \ {0}, NEW m \in Nat \ {0}, m < size,
         IsStore(store, leaves, size), NEW f, IsSubProof(store, m, size, f),
         NEW n \in 1 .. size, \A l \in 1 .. n - 1 : AllAgree(leaves, m, size, f, l)
  PROVE  AllAgree(leaves, m, size, f, n)
<1> SUFFICES ASSUME NEW from \in 0 .. size - n, NEW k \in Nat,
                    OnPath(size, from, n, k), from < m, m <= from + n, LastOfOld(m, from, n, k)
             PROVE  Agrees(leaves, m, size, f, from, n, k)
  BY DEF AllAgree
<1> DEFINE H == Hashes(leaves)
           at == ShiftWhile(TRUE, m - 1, size - 1)
           index == m - 1
<1>1. CASE m = from + n
  BY <1>1, AgreesAtEnd
<1>2. CASE m # from + n
  <2> DEFINE j == k - 1
             p == Pow2[j]
             o == n - p
             left == f[p][from]
             right == f[o][from + p]
  <2>0. n # 1 /\ index \in Nat /\ index < size /\ from <= index /\ index < from + n
    BY <1>2
  <2>1. j \in Nat /\ p \in Nat \ {0} /\ p < n /\ Split(n) = p /\ OnPath(size, from, p, j)
        /\ \E q \in Nat : from = (2 * q) * p
    BY <2>0, Halves
  <2>2. PICK i \in 0 .. j : OnPath(size, from + p, o, i)
    BY <2>0, Halves
  <2>3. f[n][from] = IF m <= from + p THEN Append(left, RangeHash(store, from + p, o))
                     ELSE Append(right, RangeHash(store, from, p))
    <3> HIDE DEF p
    <3> QED BY <1>2, <2>1 DEF IsSubProof
  <2> HIDE DEF j
  <2>4. p \in 1 .. n - 1 /\ o \in 1 .. n - 1 /\ from \in 0 .. size - p /\ from + p \in 0 .. size - o
        /\ from \in Nat /\ from + p \in Nat /\ p \in Nat \ {0} /\ o \in Nat \ {0}
        /\ (from + p) + o <= size /\ from + p <= size /\ (from + p) + o = from + n
    <3> HIDE DEF p
    <3> QED BY <2>1
  <2>5. CASE m <= from + p
    <3>1. Agrees(leaves, m, size, f, from, p, j)
      <4>1. LastOfOld(m, from, p, j)
        BY <2>1 DEF LastOfOld
      <4> HIDE DEF p
      <4> QED BY <2>1, <2>4, <2>5, <4>1 DEF AllAgree
    <3>2. RangeHash(store, from + p, o) = RangeOf(leaves, from + p, o)
      <4> HIDE DEF p, o
      <4> QED BY <2>4, RangeHashIsRange
    <3> DEFINE h == RangeOf(leaves, from + p, o)
               half == Reached(leaves, index, size, from, p, j)
               all == Reached(leaves, index, size, from, n, k)
    <3>3. h \in H
      <4> HIDE DEF p, o
      <4> QED BY <2>4 DEF Hashes
    <3>4. Joined(half, h) = all
      <4>1. index < from + p
        <5> HIDE DEF p
        <5> QED BY <2>1, <2>5
      <4>2. size \in Nat /\ index < from + Pow2[k - 1]
        BY <4>1 DEF j
      <4> HIDE DEF index
      <4> QED BY <2>0, <4>2, JoinLeft DEF j
    <3>5. Leads(leaves, m, left, at, half)
      <4> HIDE DEF p
      <4> QED BY <3>1 DEF Agrees
    <3>6. f[n][from] = Append(left, h)
      <4> HIDE DEF p, o, left, right
      <4> QED BY <2>3, <2>5, <3>2
    <3> HIDE DEF p, o, left, h, at, half, all, index
    <3>7. Leads(leaves, m, Append(left, h), at, all) /\ Append(left, h) # <<>>
      BY <3>3, <3>4, <3>5, LeadsOn
    <3> QED BY <3>6, <3>7 DEF Agrees, at, all, index
  <2>6. CASE ~ (m <= from + p)
    <3>0. from + p <= index /\ from + p < m
      <4> HIDE DEF p
      <4> QED BY <2>4, <2>6
    <3>1. Agrees(leaves, m, size, f, from + p, o, i)
      <4>1. i \in Nat
        BY <2>1
      <4>2. LastOfOld(m, from + p, o, i)
        <5> HIDE DEF p, o
        <5> QED BY <1>2, <2>4 DEF LastOfOld
      <4> HIDE DEF p, o
      <4> QED BY <2>2, <2>4, <3>0, <4>1, <4>2 DEF AllAgree
    <3>2. RangeHash(store, from, p) = RangeOf(leaves, from, p)
      <4> HIDE DEF p, o
      <4> QED BY <2>4, RangeHashIsRange
    <3> DEFINE h == RangeOf(leaves, from, p)
               half == Reached(leaves, index, size, from + p, o, i)
               all == Reached(leaves, index, size, from, n, k)
    <3>3. h \in H
      <4> HIDE DEF p, o
      <4> QED BY <2>4 DEF Hashes
    <3>4. Joined(half, h) = all
      <4>1. i \in 0 .. k - 1 /\ OnPath(size, from + Pow2[k - 1], n - Pow2[k - 1], i) /\ from + Pow2[k - 1] <= index
        BY <2>2, <3>0 DEF j
      <4> HIDE DEF index
      <4>2. size \in Nat
        OBVIOUS
      <4>3. RightJoins(leaves, index, size, from, n, k, i)
        BY <2>0, <4>1, <4>2, JoinRight
      <4> QED BY <4>3 DEF RightJoins, j
    <3>5. Leads(leaves, m, right, at, half)
      <4> HIDE DEF p, o
      <4> QED BY <3>1 DEF Agrees
    <3>6. f[n][from] = Append(right, h)
      <4> HIDE DEF p, o, left, right
      <4> QED BY <2>3, <2>6, <3>2
    <3> HIDE DEF p, o, right, h, at, half, all, index
    <3>7. Leads(leaves, m, Append(right, h), at, all) /\ Append(right, h) # <<>>
      BY <3>3, <3>4, <3>5, LeadsOn
    <3> QED BY <3>6, <3>7 DEF Agrees, at, all, index
  <2> QED BY <2>5, <2>6
<1> QED BY <1>1, <1>2

\* For a tree of any size and every older size of it: the proof read from a store
\* of the leaves verifies against the two roots (merkle.py consistency_proof,
\* verify_consistency).
THEOREM ConsistencyVerifies ==
  ASSUME NEW store, NEW leaves, NEW size \in Nat, NEW m \in Nat \ {0}, m <= size,
         IsStore(store, leaves, size)
  PROVE  VerifyConsistency(m, size, RangeOf(leaves, 0, m), RangeOf(leaves, 0, size), ConsistencyProof(store, m, size))
<1> DEFINE proof == ConsistencyProof(store, m, size)
           rootM == RangeOf(leaves, 0, m)
           rootN == RangeOf(leaves, 0, size)
<1>1. CASE m = size
  <2>1. proof = <<>> /\ rootM = rootN
    BY <1>1, Zenon DEF ConsistencyProof
  <2> QED BY <1>1, <2>1 DEF VerifyConsistency
<1>2. CASE m # size
  <2>0. m < size /\ size \in Nat \ {0}
    BY <1>2
  <2>1. PICK f : IsSubProof(store, m, size, f)
    BY <2>0, SubUnfolds
  <2> DEFINE Bad == {n \in 1 .. size : ~ AllAgree(leaves, m, size, f, n)}
  <2>2. Bad = {}
    <3> SUFFICES ASSUME Bad # {} PROVE FALSE
      OBVIOUS
    <3>1. PICK n \in Bad : \A l \in Bad : n <= l
      <4>1. Bad \in SUBSET Nat
        OBVIOUS
      <4> HIDE DEF Bad
      <4> QED BY <4>1, Pow2Rec!Least
    <3>2. n \in 1 .. size /\ ~ AllAgree(leaves, m, size, f, n)
      OBVIOUS
    <3>3. \A l \in 1 .. n - 1 : l \notin Bad /\ l \in 1 .. size
      <4> HIDE DEF Bad
      <4> QED BY <3>1, <3>2
    <3>4. \A l \in 1 .. n - 1 : AllAgree(leaves, m, size, f, l)
      BY <3>3
    <3> QED BY <2>0, <2>1, <3>2, <3>4, AgreesStep
  <2>3. PICK k \in Nat : OnPath(size, 0, size, k) /\ size <= Pow2[k]
    BY <2>0, WholePath
  <2>4. Agrees(leaves, m, size, f, 0, size, k)
    <3>1. size \in 1 .. size /\ 0 \in 0 .. size - size /\ 0 < m /\ m <= 0 + size
      BY <2>0
    <3>2. AllAgree(leaves, m, size, f, size)
      BY <2>2, <3>1
    <3>3. LastOfOld(m, 0, size, k)
      BY <2>0 DEF LastOfOld
    <3> QED BY <2>3, <3>1, <3>2, <3>3 DEF AllAgree
  <2> DEFINE full == IF IsPowerOf2(m) THEN <<rootM>> \o proof ELSE proof
             end == Follow(Tail(full), ShiftWhile(TRUE, m - 1, size - 1), full[1])
             index == m - 1
  <2>5. f[size][0] = proof
    BY <2>0, <2>1 DEF IsSubProof
  <2>6. end = Reached(leaves, index, size, 0, size, k)
    <3>1. Leads(leaves, m, proof, ShiftWhile(TRUE, m - 1, size - 1), Reached(leaves, index, size, 0, size, k))
      <4> HIDE DEF proof
      <4> QED BY <2>4, <2>5 DEF Agrees
    <3>2. full = Full(leaves, m, proof)
      BY DEF Full
    <3> HIDE DEF full, index, proof
    <3> QED BY <3>1, <3>2 DEF Leads, end
  <2>7. Reached(leaves, index, size, 0, size, k) =
          [ok |-> TRUE, at |-> <<0, 0>>, tree |-> rootN, old |-> RangeOf(leaves, 0, index + 1)]
    <3>1. index \in Nat /\ index < size
      BY <2>0
    <3> HIDE DEF index
    <3> QED BY <2>3, <3>1, WholeReached
  <2>8. index + 1 = m
    OBVIOUS
  <2>9. proof # <<>>
    <3>1. m # 0 + size
      BY <2>0
    <3> QED BY <2>4, <2>5, <3>1 DEF Agrees
  <2> HIDE DEF full, proof, end, rootM, rootN, index
  <2>10. end.ok /\ end.at[2] = 0 /\ end.old = rootM /\ end.tree = rootN
    BY <2>6, <2>7, <2>8 DEF rootM
  <2>11. VerifyConsistency(m, size, rootM, rootN, proof)
    <3>1. ~ (m < 1 \/ m > size)
      BY <2>0
    <3> QED BY <1>2, <2>9, <2>10, <3>1, Zenon DEF VerifyConsistency, full, end
  <2> QED BY <2>11 DEF proof, rootM, rootN
<1> QED BY <1>1, <1>2

-----------------------------------------------------------------------------
\* Ledgers as sequences, and the loops of the first verifier unfolded.

IsSeq(rs) == rs \in Seq({rs[i] : i \in DOMAIN rs})

LEMMA SeqOfItsOwn ==
  ASSUME NEW S, NEW rs \in Seq(S)
  PROVE  IsSeq(rs)
<1>1. Len(rs) \in Nat /\ DOMAIN rs = 1 .. Len(rs) /\ rs = [i \in 1 .. Len(rs) |-> rs[i]]
  OBVIOUS
<1>2. rs \in [1 .. Len(rs) -> {rs[i] : i \in DOMAIN rs}]
  BY <1>1
<1> QED BY <1>1, <1>2 DEF IsSeq

LEMMA AppendSeq ==
  ASSUME NEW rs, IsSeq(rs), NEW x
  PROVE  /\ IsSeq(Append(rs, x))
         /\ Len(rs) \in Nat /\ DOMAIN rs = 1 .. Len(rs)
         /\ Len(Append(rs, x)) = Len(rs) + 1 /\ DOMAIN Append(rs, x) = 1 .. Len(rs) + 1
         /\ Append(rs, x)[Len(rs) + 1] = x
         /\ \A i \in 1 .. Len(rs) : Append(rs, x)[i] = rs[i]
<1> DEFINE S == {rs[i] : i \in DOMAIN rs}
<1>1. rs \in Seq(S \cup {x}) /\ x \in S \cup {x} /\ rs \in Seq(S)
  <2>1. rs \in Seq(S)
    BY DEF IsSeq
  <2> HIDE DEF S
  <2> QED BY <2>1
<1> HIDE DEF S
<1>2. Append(rs, x) \in Seq(S \cup {x})
  BY <1>1
<1>3. IsSeq(Append(rs, x))
  BY <1>2, SeqOfItsOwn
<1> QED BY <1>1, <1>3

LEMMA NoRowsSeq == IsSeq(<<>>) /\ Len(<<>>) = 0
<1>1. <<>> \in Seq({})
  OBVIOUS
<1>2. IsSeq(<<>>)
  BY <1>1, SeqOfItsOwn
<1>3. Len(<<>>) = 0
  OBVIOUS
<1> QED BY <1>2, <1>3

LEMMA OnlyEmpty ==
  ASSUME NEW rs, IsSeq(rs)
  PROVE  /\ Len(rs) = 0 => rs = <<>>
         /\ rs # <<>> => Len(rs) > 0
<1> DEFINE S == {rs[i] : i \in DOMAIN rs}
<1>1. rs \in Seq(S)
  BY DEF IsSeq
<1> HIDE DEF S
<1> QED BY <1>1

RowFields == {"form", "seq", "type", "key", "prev", "at", "nonce", "body", "c", "sig", "cols"}

Fields == {"findings", "last", "lastPos", "taint", "shift", "shiftBefore", "pending", "prevLink", "nonces",
           "lastAt", "registrations", "sealedOk", "keys", "active", "rejected", "rotatedIn", "checkpoints",
           "stack", "lastAnchorSeq", "suppressLink", "copy", "sigOk"}

WalkTurn(c, f, n) == IF n = 0 THEN Start(c[2]) ELSE Step(f[n - 1], c[1], n - 1, c[2])

WalkRec == INSTANCE Recursion WITH Turn <- WalkTurn

LEMMA WalkUnfolds ==
  ASSUME NEW rs, NEW given, Len(rs) \in Nat
  PROVE  \E after : /\ after[0] = Start(given)
                    /\ \A n \in 1 .. Len(rs) : after[n] = Step(after[n - 1], rs, n - 1, given)
                    /\ Walk(rs, given) = after[Len(rs)]
<1> DEFINE len == Len(rs)
           c == <<rs, given>>
           turn(f, n) == IF n = 0 THEN Start(given) ELSE Step(f[n - 1], rs, n - 1, given)
           after == CHOOSE f : f = [n \in 0 .. len |-> IF n = 0 THEN Start(given) ELSE Step(f[n - 1], rs, n - 1, given)]
<1>1. \E f : f = [n \in 0 .. len |-> turn(f, n)]
  <2>1. WalkRec!Local(c, Nat)
    <3> HIDE DEF c
    <3> QED BY DEF WalkRec!Local, WalkTurn
  <2>2. \E f : WalkRec!Solves(f, c, 0 .. len)
    <3> HIDE DEF len, c
    <3> QED BY <2>1, WalkRec!Prefixes DEF len
  <2>3. \A f, n : WalkTurn(c, f, n) = turn(f, n)
    <3>1. c[1] = rs /\ c[2] = given
      OBVIOUS
    <3> HIDE DEF c
    <3> QED BY <3>1, Zenon DEF WalkTurn
  <2> HIDE DEF turn, len, c
  <2> QED BY <2>2, <2>3 DEF WalkRec!Solves
<1>2. after = [n \in 0 .. len |-> turn(after, n)]
  BY <1>1
<1>3. Walk(rs, given) = after[len]
  BY DEF Walk
<1> HIDE DEF after
<1>4. \A n \in 0 .. len : after[n] = turn(after, n)
  <2> HIDE DEF turn
  <2> QED BY <1>2
<1>5. after[0] = Start(given)
  <2>1. 0 \in 0 .. len
    OBVIOUS
  <2> QED BY <1>4, <2>1
<1>6. \A n \in 1 .. len : after[n] = Step(after[n - 1], rs, n - 1, given)
  <2>1. \A n \in 1 .. len : n \in 0 .. len /\ n # 0
    OBVIOUS
  <2> HIDE DEF len
  <2> QED BY <1>4, <2>1
<1> QED BY <1>3, <1>5, <1>6

AnchorsTurn(c, f, n) == IF n = 0 THEN c[1] ELSE CheckAnchor(f[n - 1], c[3].anchors[n], c[2], c[3])

AnchorsRec == INSTANCE Recursion WITH Turn <- AnchorsTurn

LEMMA AnchorsUnfold ==
  ASSUME NEW v, NEW rs, NEW given, Len(given.anchors) \in Nat
  PROVE  \E after : /\ after[0] = v
                    /\ \A n \in 1 .. Len(given.anchors) :
                         after[n] = CheckAnchor(after[n - 1], given.anchors[n], rs, given)
                    /\ CheckAnchors(v, rs, given) = after[Len(given.anchors)]
<1> DEFINE len == Len(given.anchors)
           c == <<v, rs, given>>
           turn(f, n) == IF n = 0 THEN v ELSE CheckAnchor(f[n - 1], given.anchors[n], rs, given)
           after == CHOOSE f : f = [n \in 0 .. len |-> IF n = 0 THEN v ELSE CheckAnchor(f[n - 1], given.anchors[n], rs, given)]
<1>1. \E f : f = [n \in 0 .. len |-> turn(f, n)]
  <2>1. AnchorsRec!Local(c, Nat)
    <3> HIDE DEF c
    <3> QED BY DEF AnchorsRec!Local, AnchorsTurn
  <2>2. \E f : AnchorsRec!Solves(f, c, 0 .. len)
    <3> HIDE DEF len, c
    <3> QED BY <2>1, AnchorsRec!Prefixes DEF len
  <2>3. \A f, n : AnchorsTurn(c, f, n) = turn(f, n)
    <3>1. c[1] = v /\ c[2] = rs /\ c[3] = given
      OBVIOUS
    <3> HIDE DEF c
    <3> QED BY <3>1, Zenon DEF AnchorsTurn
  <2> HIDE DEF turn, len, c
  <2> QED BY <2>2, <2>3 DEF AnchorsRec!Solves
<1>2. after = [n \in 0 .. len |-> turn(after, n)]
  BY <1>1
<1>3. CheckAnchors(v, rs, given) = after[len]
  BY DEF CheckAnchors
<1> HIDE DEF after
<1>4. \A n \in 0 .. len : after[n] = turn(after, n)
  <2> HIDE DEF turn
  <2> QED BY <1>2
<1>5. after[0] = v
  <2>1. 0 \in 0 .. len
    OBVIOUS
  <2> QED BY <1>4, <2>1
<1>6. \A n \in 1 .. len : after[n] = CheckAnchor(after[n - 1], given.anchors[n], rs, given)
  <2>1. \A n \in 1 .. len : n \in 0 .. len /\ n # 0
    OBVIOUS
  <2> HIDE DEF len
  <2> QED BY <1>4, <2>1
<1> QED BY <1>3, <1>5, <1>6

FinishTurn(c, f, n) ==
  IF n = 0 THEN CheckCount(CheckAnchors(c[1], c[2], c[3]), c[2], c[3].expected)
  ELSE CheckInference(f[n - 1], c[2], n - 1, c[3])

FinishRec == INSTANCE Recursion WITH Turn <- FinishTurn

LEMMA FinishUnfolds ==
  ASSUME NEW v, NEW rs, NEW given, Len(rs) \in Nat
  PROVE  \E after : /\ after[0] = CheckCount(CheckAnchors(v, rs, given), rs, given.expected)
                    /\ \A n \in 1 .. Len(rs) : after[n] = CheckInference(after[n - 1], rs, n - 1, given)
                    /\ Finish(v, rs, given) = after[Len(rs)]
<1> DEFINE len == Len(rs)
           c == <<v, rs, given>>
           counted == CheckCount(CheckAnchors(v, rs, given), rs, given.expected)
           turn(f, n) == IF n = 0 THEN counted ELSE CheckInference(f[n - 1], rs, n - 1, given)
           after == CHOOSE f : f = [n \in 0 .. len |->
                      IF n = 0 THEN CheckCount(CheckAnchors(v, rs, given), rs, given.expected)
                      ELSE CheckInference(f[n - 1], rs, n - 1, given)]
<1>1. \E f : f = [n \in 0 .. len |-> turn(f, n)]
  <2>1. FinishRec!Local(c, Nat)
    <3> HIDE DEF c
    <3> QED BY DEF FinishRec!Local, FinishTurn
  <2>2. \E f : FinishRec!Solves(f, c, 0 .. len)
    <3> HIDE DEF len, c
    <3> QED BY <2>1, FinishRec!Prefixes DEF len
  <2>3. \A f, n : FinishTurn(c, f, n) = turn(f, n)
    <3>1. c[1] = v /\ c[2] = rs /\ c[3] = given
      OBVIOUS
    <3> HIDE DEF c
    <3> QED BY <3>1, Zenon DEF FinishTurn
  <2> HIDE DEF turn, len, c
  <2> QED BY <2>2, <2>3 DEF FinishRec!Solves
<1>2. after = [n \in 0 .. len |-> turn(after, n)]
  BY <1>1
<1>3. Finish(v, rs, given) = after[len]
  BY DEF Finish
<1> HIDE DEF after
<1>4. \A n \in 0 .. len : after[n] = turn(after, n)
  <2> HIDE DEF turn
  <2> QED BY <1>2
<1>5. after[0] = counted
  <2>1. 0 \in 0 .. len
    OBVIOUS
  <2> QED BY <1>4, <2>1
<1>6. \A n \in 1 .. len : after[n] = CheckInference(after[n - 1], rs, n - 1, given)
  <2>1. \A n \in 1 .. len : n \in 0 .. len /\ n # 0
    OBVIOUS
  <2> HIDE DEF len
  <2> QED BY <1>4, <2>1
<1> QED BY <1>3, <1>5, <1>6

-----------------------------------------------------------------------------
\* The two verifiers of one ledger, check by check.  Both read the same hashes,
\* leaves and links; the states of their walks are twins.

LEMMA SameTree == \A ls : Second!MTH(ls) = MTH(ls)
BY DEF Second!MTH, MTH, Second!Node, Node, Second!Split, Split, Second!IsPowerOf2, IsPowerOf2,
       Second!Pow2, Pow2, Second!EmptyRoot, EmptyRoot

LEMMA SameAssign == \A f, at, x : Second!Assign(f, at, x) = Assign(f, at, x)
BY DEF Second!Assign, Assign, Second!Over, Over

LEMMA SameOver == \A f, g : Second!Over(f, g) = Over(f, g)
BY DEF Second!Over, Over

LEMMA SameLeaf == \A r : Second!leaf(r) = LeafOf(r) /\ Second!line(r) = Bytes(r) /\ Second!link_of(r) = Link(r)
BY DEF Second!leaf, LeafOf, Second!Leaf, Leaf, Second!line, Bytes, Second!link_of, Link

\* The state of the second verifier.
SecondFields == {"findings", "lastPrimary", "lastPos", "taint", "shift", "shiftBefore", "pending", "prevLink",
                 "active", "rejected", "nonces", "verifiedCp", "regs", "lastCreated", "known", "rotatedIn",
                 "signed", "acc", "suppress", "replayCopy", "sigOk"}

\* The two verifiers know the same; S is what the second one calls signed already.
Twin(v, st, S, acc) ==
  /\ DOMAIN v = Fields /\ DOMAIN st = SecondFields
  /\ st.findings = v.findings /\ st.lastPrimary = v.last /\ st.lastPos = v.lastPos /\ st.taint = v.taint
  /\ st.shift = v.shift /\ st.shiftBefore = v.shiftBefore /\ st.pending = v.pending
  /\ st.prevLink = v.prevLink /\ st.active = v.active /\ st.rejected = v.rejected
  /\ st.nonces = v.nonces /\ st.verifiedCp = v.checkpoints /\ st.regs = v.registrations
  /\ st.known = v.keys /\ st.rotatedIn = v.rotatedIn /\ st.signed = v.sealedOk \cup S
  /\ st.suppress = v.suppressLink /\ st.replayCopy = v.copy /\ st.sigOk = v.sigOk
  /\ v.shift \in Int /\ v.shiftBefore \in Int
  /\ IF st.lastCreated = None THEN v.lastAt = 0 ELSE st.lastCreated = v.lastAt /\ v.lastAt \in Nat
  /\ st.acc = acc /\ IsStack(v.stack, acc, Len(acc))

LEMMA TwinNote ==
  ASSUME NEW v, NEW st, NEW S, NEW acc, Twin(v, st, S, acc), NEW class, NEW p, NEW severity
  PROVE  Twin(Note(v, class, p, severity), Second!Aside(st, class, p, severity), S, acc)
<1> DEFINE x == [class |-> class, position |-> p, severity |-> severity, folded |-> 0]
<1>1. Note(v, class, p, severity) = [v EXCEPT !.findings = Append(@, x)]
  BY DEF Note, Finding
<1>2. Second!Aside(st, class, p, severity) = [st EXCEPT !.findings = Append(@, x)]
  BY DEF Second!Aside
<1> HIDE DEF x
<1> QED BY <1>1, <1>2 DEF Twin, Fields, SecondFields

LEMMA TwinEmit ==
  ASSUME NEW v, NEW st, NEW S, NEW acc, Twin(v, st, S, acc), NEW class, NEW p,
         class \notin {"output_mismatch", "boundary_flip"}
  PROVE  /\ Twin(Emit(v, class, p), Second!emit(st, class, p), S, acc)
         /\ Emit(v, class, p).active = v.active /\ Emit(v, class, p).sigOk = v.sigOk
         /\ Emit(v, class, p).copy = v.copy
<1>1. Severity(class) = Second!SEVERITY(class)
  BY DEF Severity, Second!SEVERITY
<1> DEFINE sev == Severity(class)
           a == Note(v, class, p, sev)
           b == Second!Aside(st, class, p, sev)
<1>2. Twin(a, b, S, acc)
  BY TwinNote
<1>3. TreeTainting = Second!TAINTING
  BY DEF TreeTainting, Second!TAINTING
<1>4. a.active = v.active /\ a.sigOk = v.sigOk /\ a.copy = v.copy
  BY DEF Note, Twin, Fields
<1> DEFINE f == Len(v.findings) + 1
           tainting == class \in TreeTainting
<1>5. Emit(v, class, p) = [a EXCEPT !.last = f, !.lastPos = p, !.taint = IF @ = 0 /\ tainting THEN f ELSE @]
  BY DEF Emit
<1>6. Second!emit(st, class, p) =
        [b EXCEPT !.lastPrimary = f, !.lastPos = p, !.taint = IF tainting /\ @ = 0 THEN f ELSE @]
  BY <1>1, <1>3 DEF Second!emit, Twin
<1> HIDE DEF a, b, f, tainting, sev
<1> QED BY <1>2, <1>4, <1>5, <1>6 DEF Twin, Fields, SecondFields

LEMMA TwinCascade ==
  ASSUME NEW v, NEW st, NEW S, NEW acc, Twin(v, st, S, acc), NEW owner
  PROVE  /\ Twin(Cascade(v, owner), Second!fold(st, owner), S, acc)
         /\ Cascade(v, owner).active = v.active /\ Cascade(v, owner).sigOk = v.sigOk
<1> DEFINE fs == [v.findings EXCEPT ![owner].folded = @ + 1]
<1>1. Cascade(v, owner) = IF owner = 0 THEN v ELSE [v EXCEPT !.findings = fs]
  BY DEF Cascade, Twin, Fields
<1>2. Second!fold(st, owner) = IF owner = 0 THEN st ELSE [st EXCEPT !.findings = fs]
  BY DEF Second!fold, Twin, SecondFields
<1> HIDE DEF fs
<1> QED BY <1>1, <1>2 DEF Twin, Fields, SecondFields

\* A row and its export: only the columns differ.
Legible(row) ==
  /\ DOMAIN row = RowFields
  /\ row.form \in {"ok", "malformed_record", "non_canonical_encoding"}
  /\ row.seq \in Int /\ row.at \in Nat /\ row.prev # NoLink
  /\ row.type = "checkpoint" => row.body = [size |-> row.body.size, root |-> row.body.root]

Readable(rs) == IsSeq(rs) /\ \A i \in 1 .. Len(rs) : Legible(rs[i])

ButColumns(x, row) ==
  /\ x.form = row.form /\ x.seq = row.seq /\ x.type = row.type /\ x.key = row.key /\ x.prev = row.prev
  /\ x.at = row.at /\ x.nonce = row.nonce /\ x.body = row.body /\ x.c = row.c /\ x.sig = row.sig

Copied(xs, rs) == Len(xs) = Len(rs) /\ \A i \in 1 .. Len(rs) : ButColumns(xs[i], rs[i])

LEMMA ExportedCopies ==
  ASSUME NEW rs, Readable(rs)
  PROVE  IsSeq(Exported(rs)) /\ Copied(Exported(rs), rs)
<1> DEFINE xs == Exported(rs)
           n == Len(rs)
<1>1. n \in Nat /\ DOMAIN rs = 1 .. n
  BY DEF Readable, IsSeq
<1>2. xs = [i \in 1 .. n |-> [rs[i] EXCEPT !.cols = NoColumns]]
  BY <1>1 DEF Exported
<1>3. DOMAIN xs = 1 .. n /\ \A i \in 1 .. n : xs[i] = [rs[i] EXCEPT !.cols = NoColumns]
  BY <1>2
<1>4. IsSeq(xs) /\ Len(xs) = n
  <2> HIDE DEF xs
  <2> QED BY <1>1, <1>3, <1>2, SeqOfItsOwn DEF IsSeq
<1>5. ASSUME NEW i \in 1 .. n PROVE ButColumns(xs[i], rs[i])
  <2> HIDE DEF xs
  <2> DEFINE x == xs[i]
             y == rs[i]
  <2>1. x = [y EXCEPT !.cols = NoColumns]
    BY <1>3
  <2>2. DOMAIN y = RowFields
    BY <1>1 DEF Readable, Legible
  <2> HIDE DEF x, y
  <2>3. x.form = y.form /\ x.seq = y.seq /\ x.type = y.type /\ x.key = y.key /\ x.prev = y.prev
    BY <2>1, <2>2 DEF RowFields
  <2>4. x.at = y.at /\ x.nonce = y.nonce /\ x.body = y.body /\ x.c = y.c /\ x.sig = y.sig
    BY <2>1, <2>2 DEF RowFields
  <2>5. ButColumns(x, y)
    BY <2>3, <2>4 DEF ButColumns
  <2> QED BY <2>5 DEF x, y
<1> QED BY <1>4, <1>5 DEF Copied

LEMMA SamePlaces ==
  ASSUME NEW rs, NEW xs, Readable(rs), Copied(xs, rs), NEW seq
  PROVE  Second!seq_positions(xs, seq) = At(rs, seq)
<1>1. Len(rs) \in Nat
  BY DEF Readable, IsSeq
<1>2. \A q \in 0 .. Len(rs) - 1 : q + 1 \in 1 .. Len(rs)
  BY <1>1
<1>3. \A q \in 0 .. Len(rs) - 1 : xs[q + 1].form = rs[q + 1].form /\ xs[q + 1].seq = rs[q + 1].seq
  BY <1>2 DEF Copied, ButColumns
<1> QED BY <1>3 DEF Second!seq_positions, At, Copied
-----------------------------------------------------------------------------
\* Sequence numbers: announced, jumped over, seen before, out of place.

LEMMA TwinHigh ==
  ASSUME NEW v, NEW st, NEW S, NEW acc, Twin(v, st, S, acc),
         NEW rs, NEW xs, Readable(rs), Copied(xs, rs), NEW p \in 0 .. Len(rs) - 1
  PROVE  /\ Twin(SeqAhead(v, rs, p), Second!TooHigh(st, xs, p), S, acc)
         /\ SeqAhead(v, rs, p).active = v.active /\ SeqAhead(v, rs, p).sigOk = v.sigOk
<1> DEFINE seq == rs[p + 1].seq
           missing == p + v.shift .. seq - 1
           late == \A m \in missing : \E q \in At(rs, m) : q > p
<1>1. p + 1 \in 1 .. Len(rs) /\ Len(rs) \in Nat /\ p \in Int
  BY DEF Readable, IsSeq
<1>2. seq \in Int /\ xs[p + 1].seq = seq
  BY <1>1 DEF Readable, Legible, Copied, ButColumns
<1>3. st.shift = v.shift
  BY DEF Twin
<1>4. \A m : Second!seq_positions(xs, m) = At(rs, m)
  BY SamePlaces
<1> DEFINE reorder == "record_reorder"
           delete  == "record_delete"
           w  == Emit(v, reorder, p)
           wt == Second!emit(st, reorder, p)
           u  == Emit(v, delete, p)
           ut == Second!emit(st, delete, p)
           named == [m \in missing |-> w.last]
           ahead == seq - p
<1>5. Twin(w, wt, S, acc) /\ w.active = v.active /\ w.sigOk = v.sigOk
  <2>1. reorder \notin {"output_mismatch", "boundary_flip"}
    OBVIOUS
  <2> HIDE DEF reorder
  <2> QED BY <2>1, TwinEmit
<1>6. Twin(u, ut, S, acc) /\ u.active = v.active /\ u.sigOk = v.sigOk
  <2>1. delete \notin {"output_mismatch", "boundary_flip"}
    OBVIOUS
  <2> HIDE DEF delete
  <2> QED BY <2>1, TwinEmit
<1>7. SeqAhead(v, rs, p) =
        IF late THEN [w EXCEPT !.shiftBefore = v.shift, !.pending = Over(named, @), !.shift = ahead]
        ELSE [u EXCEPT !.shift = ahead, !.suppressLink = TRUE]
  BY DEF SeqAhead
<1>8. wt.lastPrimary = w.last /\ wt.pending = w.pending
  BY <1>5 DEF Twin
<1>9. Second!TooHigh(st, xs, p) =
        IF late THEN [wt EXCEPT !.shiftBefore = v.shift, !.pending = Over(named, @), !.shift = ahead]
        ELSE [ut EXCEPT !.shift = ahead, !.suppress = TRUE]
  BY <1>2, <1>3, <1>4, <1>8, SameOver DEF Second!TooHigh
<1>10. ahead \in Int /\ v.shift \in Int
  BY <1>1, <1>2 DEF Twin
<1> HIDE DEF w, wt, u, ut, late, ahead, named, missing
<1>11. CASE late
  <2>1. SeqAhead(v, rs, p) = [w EXCEPT !.shiftBefore = v.shift, !.pending = Over(named, @), !.shift = ahead]
    BY <1>7, <1>11
  <2>2. Second!TooHigh(st, xs, p) = [wt EXCEPT !.shiftBefore = v.shift, !.pending = Over(named, @), !.shift = ahead]
    BY <1>9, <1>11
  <2> QED BY <2>1, <2>2, <1>5, <1>10 DEF Twin, Fields, SecondFields
<1>12. CASE ~late
  <2>1. SeqAhead(v, rs, p) = [u EXCEPT !.shift = ahead, !.suppressLink = TRUE]
    BY <1>7, <1>12
  <2>2. Second!TooHigh(st, xs, p) = [ut EXCEPT !.shift = ahead, !.suppress = TRUE]
    BY <1>9, <1>12
  <2> QED BY <2>1, <2>2, <1>6, <1>10 DEF Twin, Fields, SecondFields
<1> QED BY <1>11, <1>12

\* What either verifier does with a number that was announced.
Jumps(v, left, owner, p, shift) ==
  [v EXCEPT !.pending = left, !.last = owner, !.lastPos = p, !.suppressLink = TRUE, !.shift = shift]

JumpsToo(st, left, owner, p, shift) ==
  [st EXCEPT !.pending = left, !.lastPrimary = owner, !.lastPos = p, !.suppress = TRUE, !.shift = shift]

LEMMA TwinJumps ==
  ASSUME NEW v, NEW st, NEW S, NEW acc, Twin(v, st, S, acc), NEW left, NEW owner, NEW p, NEW shift \in Int
  PROVE  /\ Twin(Jumps(v, left, owner, p, shift), JumpsToo(st, left, owner, p, shift), S, acc)
         /\ Jumps(v, left, owner, p, shift).active = v.active /\ Jumps(v, left, owner, p, shift).sigOk = v.sigOk
BY DEF Jumps, JumpsToo, Twin, Fields, SecondFields

Late(v, row, p) ==
  LET left == [m \in DOMAIN v.pending \ {row.seq} |-> v.pending[m]] IN
  [Cascade(v, v.pending[row.seq]) EXCEPT
     !.pending = left, !.last = v.pending[row.seq], !.lastPos = p, !.suppressLink = TRUE,
     !.shift = IF left = <<>> THEN v.shiftBefore ELSE @]

LEMMA TwinAnnounced ==
  ASSUME NEW v, NEW st, NEW S, NEW acc, Twin(v, st, S, acc), NEW row, NEW x, ButColumns(x, row), NEW p
  PROVE  /\ Twin(Late(v, row, p), Second!Announced(st, x, p), S, acc)
         /\ Late(v, row, p).active = v.active /\ Late(v, row, p).sigOk = v.sigOk
<1> DEFINE left == [m \in DOMAIN v.pending \ {row.seq} |-> v.pending[m]]
           owner == v.pending[row.seq]
           a == Cascade(v, owner)
           b == Second!fold(st, owner)
           next == IF left = <<>> THEN v.shiftBefore ELSE a.shift
<1>1. Twin(a, b, S, acc) /\ a.active = v.active /\ a.sigOk = v.sigOk
  BY TwinCascade
<1>2. st.pending = v.pending /\ st.shiftBefore = v.shiftBefore /\ x.seq = row.seq /\ v.shiftBefore \in Int
  BY DEF Twin, ButColumns
<1>3. Second!Announced(st, x, p) =
        [b EXCEPT !.pending = left, !.lastPrimary = owner, !.lastPos = p, !.suppress = TRUE,
                  !.shift = IF left = <<>> THEN v.shiftBefore ELSE @]
  BY <1>2 DEF Second!Announced
<1>4. Late(v, row, p) =
        [a EXCEPT !.pending = left, !.last = owner, !.lastPos = p, !.suppressLink = TRUE,
                  !.shift = IF left = <<>> THEN v.shiftBefore ELSE @]
  BY DEF Late
<1>5. next \in Int /\ a.shift = b.shift
  BY <1>1, <1>2 DEF Twin
<1>6. Late(v, row, p) = Jumps(a, left, owner, p, next)
  <2> HIDE DEF a, left, owner
  <2> QED BY <1>4, <1>1 DEF Twin, Fields, Jumps
<1>7. Second!Announced(st, x, p) = JumpsToo(b, left, owner, p, next)
  <2> HIDE DEF a, b, left, owner
  <2> QED BY <1>3, <1>1, <1>5 DEF Twin, SecondFields, JumpsToo
<1> HIDE DEF a, b, next, left, owner
<1> QED BY <1>1, <1>5, <1>6, <1>7, TwinJumps

Lowers(v, same, shift) == [v EXCEPT !.copy = same, !.suppressLink = TRUE, !.shift = shift]

LowersToo(st, same, shift) == [st EXCEPT !.replayCopy = same, !.suppress = TRUE, !.shift = shift]

LEMMA TwinLowers ==
  ASSUME NEW v, NEW st, NEW S, NEW acc, Twin(v, st, S, acc), NEW same, NEW shift \in Int
  PROVE  /\ Twin(Lowers(v, same, shift), LowersToo(st, same, shift), S, acc)
         /\ Lowers(v, same, shift).active = v.active /\ Lowers(v, same, shift).sigOk = v.sigOk
BY DEF Lowers, LowersToo, Twin, Fields, SecondFields

NoCopy(v) == v.copy = FALSE

LEMMA TwinLow ==
  ASSUME NEW v, NEW st, NEW S, NEW acc, Twin(v, st, S, acc), NoCopy(v),
         NEW rs, NEW xs, Readable(rs), Copied(xs, rs), NEW p \in 0 .. Len(rs) - 1
  PROVE  /\ Twin(SeqBehind(v, rs, p), Second!TooLow(st, xs, p), S, acc)
         /\ SeqBehind(v, rs, p).active = v.active /\ SeqBehind(v, rs, p).sigOk = v.sigOk
<1> DEFINE row == rs[p + 1]
           x   == xs[p + 1]
           earlier == {q \in At(rs, row.seq) : q < p}
           same    == \E q \in earlier : (\A r \in earlier : q <= r) /\ Bytes(rs[q + 1]) = Bytes(row)
           signed  == v.active \in v.keys /\ SignedBy(row, v.active)
           class   == IF earlier = {} THEN "record_reorder"
                      ELSE IF same THEN "record_replay"
                      ELSE IF signed THEN "ledger_fork"
                      ELSE "record_reorder"
           a == Emit(v, class, p)
           b == Second!emit(st, class, p)
           first == CHOOSE q \in earlier : \A o \in earlier : q <= o
<1>1. p + 1 \in 1 .. Len(rs) /\ Len(rs) \in Nat
  BY DEF Readable, IsSeq
<1>2. ButColumns(x, row)
  BY <1>1 DEF Copied
<1>3. Second!seq_positions(xs, x.seq) = At(rs, row.seq)
  BY <1>2, SamePlaces DEF ButColumns
<1>4. Second!line(x) = Bytes(row) /\ \A q \in earlier : Second!line(xs[q + 1]) = Bytes(rs[q + 1])
  <2>1. Second!line(x) = Bytes(row)
    BY <1>2 DEF Second!line, Bytes, ButColumns
  <2>2. ASSUME NEW q \in earlier PROVE Second!line(xs[q + 1]) = Bytes(rs[q + 1])
    <3>1. q + 1 \in 1 .. Len(rs)
      BY <1>1 DEF At
    <3> QED BY <3>1 DEF Copied, ButColumns, Second!line, Bytes
  <2> QED BY <2>1, <2>2
<1>5. Second!sig_under(st, x, st.active) <=> signed
  BY <1>2 DEF Second!sig_under, Second!ed_verify, SignedBy, Twin, ButColumns
<1>6. earlier # {} => ((Second!line(xs[first + 1]) = Second!line(x)) <=> same)
  <2> SUFFICES ASSUME earlier # {} PROVE (Second!line(xs[first + 1]) = Second!line(x)) <=> same
    OBVIOUS
  <2>1. earlier \in SUBSET Nat
    BY DEF At
  <2>2. \E q \in earlier : \A o \in earlier : q <= o
    <3> HIDE DEF earlier
    <3> QED BY <2>1, Pow2Rec!Least
  <2>3. first \in earlier /\ \A o \in earlier : first <= o
    <3> HIDE DEF earlier
    <3> QED BY <2>2
  <2> HIDE DEF earlier, first, row, x
  <2>4. \A q \in earlier : (\A r \in earlier : q <= r) => q = first
    BY <2>1, <2>3
  <2> QED BY <1>4, <2>3, <2>4
<1>7. class \notin {"output_mismatch", "boundary_flip"}
  OBVIOUS
<1>8. Twin(a, b, S, acc) /\ a.active = v.active /\ a.sigOk = v.sigOk /\ a.copy = FALSE
  <2> HIDE DEF class
  <2> QED BY <1>7, TwinEmit DEF NoCopy
<1>9. a.shift \in Int /\ b.shift = a.shift /\ b.replayCopy = FALSE /\ DOMAIN a = Fields /\ DOMAIN b = SecondFields
  BY <1>8 DEF Twin
<1>10. CASE earlier = {}
  <2> DEFINE no == FALSE
  <2>1. same = no
    BY <1>10
  <2>2. SeqBehind(v, rs, p) = [a EXCEPT !.copy = same, !.suppressLink = TRUE, !.shift = IF earlier = {} THEN @ ELSE @ - 1]
    BY DEF SeqBehind
  <2>3. Second!TooLow(st, xs, p) = [b EXCEPT !.suppress = TRUE]
    BY <1>3, <1>10 DEF Second!TooLow
  <2>6. b.replayCopy = no
    BY <1>9
  <2> HIDE DEF a, b, earlier, same, no
  <2>4. SeqBehind(v, rs, p) = Lowers(a, no, a.shift)
    BY <1>9, <1>10, <2>1, <2>2 DEF Lowers, Fields
  <2>5. Second!TooLow(st, xs, p) = LowersToo(b, no, a.shift)
    BY <1>9, <2>3, <2>6 DEF LowersToo, SecondFields
  <2> QED BY <1>8, <1>9, <2>4, <2>5, TwinLowers
<1>11. CASE earlier # {}
  <2> DEFINE line == Second!line(xs[first + 1]) = Second!line(x)
             sig == Second!sig_under(st, x, st.active)
             class2 == IF line THEN "record_replay" ELSE IF sig THEN "ledger_fork" ELSE "record_reorder"
             b2 == Second!emit(st, class2, p)
             less == a.shift - 1
  <2>1. line <=> same
    BY <1>6, <1>11
  <2>2. class2 = class /\ line = same
    <3>1. line = same
      <4>1. same \in BOOLEAN /\ line \in BOOLEAN
        OBVIOUS
      <4> HIDE DEF line, same
      <4> QED BY <2>1, <4>1
    <3>2. sig = signed
      <4>1. sig \in BOOLEAN /\ signed \in BOOLEAN
        BY DEF Second!sig_under, Second!ed_verify, SignedBy
      <4>2. sig <=> signed
        BY <1>5
      <4> HIDE DEF sig, signed
      <4> QED BY <4>1, <4>2
    <3> HIDE DEF line, sig, same, signed, earlier
    <3> QED BY <3>1, <3>2, <1>11
  <2>3. SeqBehind(v, rs, p) = [a EXCEPT !.copy = same, !.suppressLink = TRUE, !.shift = IF earlier = {} THEN @ ELSE @ - 1]
    BY DEF SeqBehind
  <2>4. Second!TooLow(st, xs, p) = [b2 EXCEPT !.replayCopy = line, !.shift = @ - 1, !.suppress = TRUE]
    BY <1>3, <1>11 DEF Second!TooLow
  <2>5. b2 = b
    <3> HIDE DEF class, class2
    <3> QED BY <2>2
  <2>6. less \in Int
    BY <1>9
  <2> HIDE DEF a, b, earlier, same, line, b2
  <2>7. SeqBehind(v, rs, p) = Lowers(a, same, less)
    BY <1>9, <1>11, <2>3 DEF Lowers, Fields
  <2>8. Second!TooLow(st, xs, p) = LowersToo(b, same, less)
    BY <1>9, <2>2, <2>4, <2>5 DEF LowersToo, SecondFields
  <2> HIDE DEF less
  <2> QED BY <1>8, <2>6, <2>7, <2>8, TwinLowers
<1> QED BY <1>10, <1>11

LEMMA TwinSeq ==
  ASSUME NEW v, NEW st, NEW S, NEW acc, Twin(v, st, S, acc), NoCopy(v),
         NEW rs, NEW xs, Readable(rs), Copied(xs, rs), NEW p \in 0 .. Len(rs) - 1
  PROVE  /\ Twin(CheckSeq(v, rs, p), Second!Position(st, xs, p), S, acc)
         /\ CheckSeq(v, rs, p).active = v.active /\ CheckSeq(v, rs, p).sigOk = v.sigOk
<1> DEFINE row == rs[p + 1]
           x   == xs[p + 1]
<1>1. p + 1 \in 1 .. Len(rs) /\ Len(rs) \in Nat /\ p \in Int
  BY DEF Readable, IsSeq
<1>2. ButColumns(x, row) /\ row.seq \in Int /\ x.seq = row.seq
  BY <1>1 DEF Copied, Readable, Legible, ButColumns
<1>3. v.shift \in Int /\ st.shift = v.shift /\ st.pending = v.pending
  BY DEF Twin
<1>4. CASE row.seq = p + v.shift
  <2>1. CheckSeq(v, rs, p) = v
    BY <1>1, <1>2, <1>3, <1>4 DEF CheckSeq
  <2>2. Second!Position(st, xs, p) = st
    BY <1>2, <1>3, <1>4 DEF Second!Position
  <2> QED BY <2>1, <2>2
<1>5. CASE row.seq # p + v.shift /\ row.seq \in DOMAIN v.pending
  <2>1. CheckSeq(v, rs, p) = Late(v, row, p)
    BY <1>5 DEF CheckSeq, Late
  <2>2. Second!Position(st, xs, p) = Second!Announced(st, x, p)
    BY <1>2, <1>3, <1>5 DEF Second!Position
  <2> HIDE DEF row, x
  <2> QED BY <1>2, <2>1, <2>2, TwinAnnounced
<1>6. CASE row.seq # p + v.shift /\ row.seq \notin DOMAIN v.pending /\ row.seq > p + v.shift
  <2>1. CheckSeq(v, rs, p) = SeqAhead(v, rs, p)
    BY <1>1, <1>2, <1>3, <1>6 DEF CheckSeq
  <2>2. Second!Position(st, xs, p) = Second!TooHigh(st, xs, p)
    BY <1>2, <1>3, <1>6 DEF Second!Position
  <2> QED BY <2>1, <2>2, TwinHigh
<1>7. CASE row.seq # p + v.shift /\ row.seq \notin DOMAIN v.pending /\ row.seq < p + v.shift
  <2>1. ~ (row.seq > p + v.shift)
    BY <1>1, <1>2, <1>3, <1>7
  <2>2. CheckSeq(v, rs, p) = SeqBehind(v, rs, p)
    BY <1>7, <2>1 DEF CheckSeq
  <2>3. Second!Position(st, xs, p) = Second!TooLow(st, xs, p)
    BY <1>2, <1>3, <1>7, <2>1 DEF Second!Position
  <2> HIDE DEF row, x
  <2>5. Twin(SeqBehind(v, rs, p), Second!TooLow(st, xs, p), S, acc)
        /\ SeqBehind(v, rs, p).active = v.active /\ SeqBehind(v, rs, p).sigOk = v.sigOk
    BY TwinLow
  <2> QED BY <2>2, <2>3, <2>5
<1>8. row.seq = p + v.shift \/ row.seq > p + v.shift \/ row.seq < p + v.shift
  BY <1>1, <1>2, <1>3
<1> QED BY <1>4, <1>5, <1>6, <1>7, <1>8
-----------------------------------------------------------------------------
\* The first row, and the links.

LEMMA TwinFirst ==
  ASSUME NEW v, NEW st, NEW S, NEW acc, Twin(v, st, S, acc),
         NEW rs, NEW p, NEW x, ButColumns(x, rs[p + 1])
  PROVE  /\ Twin(CheckFirst(v, rs, p), Second!First(st, x, p), S, acc)
         /\ CheckFirst(v, rs, p).active = v.active /\ CheckFirst(v, rs, p).sigOk = v.sigOk
<1> DEFINE mismatch == "genesis_mismatch"
<1>1. mismatch \notin {"output_mismatch", "boundary_flip"}
  OBVIOUS
<1>2. p = 0 => x.type = rs[1].type
  BY DEF ButColumns
<1>3. CASE p = 0 /\ rs[1].type # "genesis"
  <2>1. CheckFirst(v, rs, p) = Emit(v, mismatch, p) /\ Second!First(st, x, p) = Second!emit(st, mismatch, p)
    BY <1>2, <1>3 DEF CheckFirst, Second!First
  <2> HIDE DEF mismatch
  <2> QED BY <1>1, <2>1, TwinEmit
<1>4. CASE ~ (p = 0 /\ rs[1].type # "genesis")
  BY <1>2, <1>4 DEF CheckFirst, Second!First
<1> QED BY <1>3, <1>4

LEMMA TwinLink ==
  ASSUME NEW v, NEW st, NEW S, NEW acc, Twin(v, st, S, acc),
         NEW rs, NEW p, NEW x, ButColumns(x, rs[p + 1]), rs[p + 1].prev # NoLink, NEW trust
  PROVE  /\ Twin(CheckLink(v, rs, p, trust), Second!LinkTo(st, x, p, trust), S, acc)
         /\ CheckLink(v, rs, p, trust).active = v.active /\ CheckLink(v, rs, p, trust).sigOk = v.sigOk
<1> DEFINE row == rs[p + 1]
           mismatch == "genesis_mismatch"
           broken == "chain_broken"
<1>1. mismatch \notin {"output_mismatch", "boundary_flip"} /\ broken \notin {"output_mismatch", "boundary_flip"}
  OBVIOUS
<1>2. x.prev = row.prev /\ row.prev # Second!NoLink
  BY DEF ButColumns, NoLink, Second!NoLink
<1>3. st.prevLink = v.prevLink /\ st.suppress = v.suppressLink /\ st.lastPrimary = v.last /\ st.lastPos = v.lastPos
  BY DEF Twin
<1>4. {p, p - 1} = {p - 1, p}
  OBVIOUS
<1> DEFINE kept == IF p = 0 THEN row.prev = trust.manifest ELSE v.prevLink = row.prev
           near == v.suppressLink \/ (v.last # 0 /\ v.lastPos \in {p, p - 1})
<1>5. CheckLink(v, rs, p, trust) =
        IF kept THEN v ELSE IF p = 0 THEN Emit(v, mismatch, p)
        ELSE IF near THEN Cascade(v, v.last) ELSE Emit(v, broken, p)
  BY DEF CheckLink
<1>6. Second!LinkTo(st, x, p, trust) =
        IF kept THEN st ELSE IF p = 0 THEN Second!emit(st, mismatch, p)
        ELSE IF near THEN Second!fold(st, v.last) ELSE Second!emit(st, broken, p)
  BY <1>2, <1>3, <1>4 DEF Second!LinkTo
<1> HIDE DEF row, mismatch, broken, kept, near
<1> QED BY <1>1, <1>5, <1>6, TwinEmit, TwinCascade
-----------------------------------------------------------------------------
\* Signatures and keys.

Empty == {}

\* The second verifier lists a position at once, the first one with its nonce.
Sealing(w, p) == IF w.sigOk THEN {p} ELSE Empty

Sealed2(w, st, p, acc) == w.sigOk \in BOOLEAN /\ Twin(w, st, Sealing(w, p), acc)

Signs(v) == [v EXCEPT !.sigOk = TRUE]

SignsToo(st, p) == [st EXCEPT !.sigOk = TRUE, !.signed = @ \cup {p}]

LEMMA TwinSigns ==
  ASSUME NEW v, NEW st, NEW acc, Twin(v, st, Empty, acc), NEW p
  PROVE  Sealed2(Signs(v), SignsToo(st, p), p, acc)
BY DEF Signs, SignsToo, Twin, Fields, SecondFields, Sealed2, Sealing, Empty

LEMMA Unsealed ==
  ASSUME NEW v, NEW st, NEW acc, Twin(v, st, Empty, acc), v.sigOk = FALSE, NEW p
  PROVE  Sealed2(v, st, p, acc)
BY DEF Sealed2, Sealing

MovedTo(v, p) == [v EXCEPT !.lastPos = p]

OwnedBy(v, owner, p) == [v EXCEPT !.last = owner, !.lastPos = p]

OwnedByToo(st, owner, p) == [st EXCEPT !.lastPrimary = owner, !.lastPos = p]

LEMMA TwinMoved ==
  ASSUME NEW v, NEW st, NEW S, NEW acc, Twin(v, st, S, acc), NEW p
  PROVE  Twin(MovedTo(v, p), MovedTo(st, p), S, acc) /\ MovedTo(v, p).sigOk = v.sigOk
BY DEF MovedTo, Twin, Fields, SecondFields

LEMMA TwinOwned ==
  ASSUME NEW v, NEW st, NEW S, NEW acc, Twin(v, st, S, acc), NEW owner, NEW p
  PROVE  Twin(OwnedBy(v, owner, p), OwnedByToo(st, owner, p), S, acc) /\ OwnedBy(v, owner, p).sigOk = v.sigOk
BY DEF OwnedBy, OwnedByToo, Twin, Fields, SecondFields

LEMMA TwinSignature ==
  ASSUME NEW v, NEW st, NEW acc, Twin(v, st, Empty, acc), v.sigOk = FALSE,
         NEW row, NEW x, ButColumns(x, row), row.key = v.active, NEW p
  PROVE  Sealed2(CheckSignature(v, row, p), Second!ActiveKey(st, x, p), p, acc)
<1> DEFINE ok == row.key \in v.keys /\ SignedBy(row, row.key)
           edit == "record_edit"
           again == v.last # 0 /\ v.findings[v.last].class = "record_edit" /\ v.lastPos = p - 1
           a == Cascade(v, v.last)
           b == Second!fold(st, v.last)
<1>1. Second!sig_under(st, x, st.active) <=> ok
  BY DEF Second!sig_under, Second!ed_verify, SignedBy, Twin, ButColumns
<1>2. st.lastPrimary = v.last /\ st.findings = v.findings /\ st.lastPos = v.lastPos
  BY DEF Twin
<1>3. CheckSignature(v, row, p) = IF ok THEN Signs(v) ELSE IF again THEN MovedTo(a, p) ELSE Emit(v, edit, p)
  BY DEF CheckSignature, Signs, MovedTo
<1>4. Second!ActiveKey(st, x, p) =
        IF ok THEN SignsToo(st, p) ELSE IF again THEN MovedTo(b, p) ELSE Second!emit(st, edit, p)
  BY <1>1, <1>2 DEF Second!ActiveKey, SignsToo, MovedTo
<1>5. edit \notin {"output_mismatch", "boundary_flip"}
  OBVIOUS
<1>6. Twin(a, b, Empty, acc) /\ a.sigOk = v.sigOk
  BY TwinCascade
<1> HIDE DEF ok, edit, again, a, b
<1>7. CASE ok
  BY <1>3, <1>4, <1>7, TwinSigns
<1>8. CASE ~ok /\ again
  <2>1. Twin(MovedTo(a, p), MovedTo(b, p), Empty, acc) /\ MovedTo(a, p).sigOk = v.sigOk
    BY <1>6, TwinMoved
  <2>2. Sealed2(MovedTo(a, p), MovedTo(b, p), p, acc)
    BY <2>1, Unsealed
  <2> QED BY <1>3, <1>4, <1>8, <2>2
<1>9. CASE ~ok /\ ~again
  <2>1. Twin(Emit(v, edit, p), Second!emit(st, edit, p), Empty, acc) /\ Emit(v, edit, p).sigOk = v.sigOk
    BY <1>5, TwinEmit
  <2>2. Sealed2(Emit(v, edit, p), Second!emit(st, edit, p), p, acc)
    BY <2>1, Unsealed
  <2> QED BY <1>3, <1>4, <1>9, <2>2
<1> QED BY <1>7, <1>8, <1>9

Adopts(v, key) == [v EXCEPT !.active = key]

LEMMA TwinAdopts ==
  ASSUME NEW v, NEW st, NEW S, NEW acc, Twin(v, st, S, acc), NEW key
  PROVE  /\ Twin(Adopts(v, key), Adopts(st, key), S, acc)
         /\ Adopts(v, key).sigOk = v.sigOk /\ Adopts(v, key).active = key
BY DEF Adopts, Twin, Fields, SecondFields

Rejects(v, key, owner) == [v EXCEPT !.rejected = Assign(@, key, owner)]

LEMMA TwinRejects ==
  ASSUME NEW v, NEW st, NEW S, NEW acc, Twin(v, st, S, acc), NEW key, NEW owner
  PROVE  Twin(Rejects(v, key, owner), Rejects(st, key, owner), S, acc) /\ Rejects(v, key, owner).sigOk = v.sigOk
<1> DEFINE new == Assign(v.rejected, key, owner)
<1>1. Rejects(v, key, owner) = [v EXCEPT !.rejected = new]
  BY DEF Rejects, Twin, Fields
<1>2. Rejects(st, key, owner) = [st EXCEPT !.rejected = new]
  BY DEF Rejects, Twin, SecondFields
<1> HIDE DEF new
<1> QED BY <1>1, <1>2 DEF Twin, Fields, SecondFields

\* A key nobody authorised, or a rotation that is not proved.
LEMMA TwinTarget ==
  ASSUME NEW v, NEW st, NEW S, NEW acc, Twin(v, st, S, acc), NEW row, NEW x, ButColumns(x, row), NEW p
  PROVE  LET class == "key_unauthorised" IN
         /\ Twin(Emit(v, class, p), Second!emit(st, class, p), S, acc)
         /\ Twin(Rejects(Emit(v, class, p), row.body.new, Emit(v, class, p).last),
                 Second!Reject(Second!emit(st, class, p), x), S, acc)
         /\ Emit(v, class, p).sigOk = v.sigOk
         /\ Rejects(Emit(v, class, p), row.body.new, Emit(v, class, p).last).sigOk = v.sigOk
<1> DEFINE class == "key_unauthorised"
           a == Emit(v, class, p)
           b == Second!emit(st, class, p)
<1>1. class \notin {"output_mismatch", "boundary_flip"}
  OBVIOUS
<1>2. Twin(a, b, S, acc) /\ a.sigOk = v.sigOk
  <2> HIDE DEF class
  <2> QED BY <1>1, TwinEmit
<1>3. x.body = row.body /\ b.lastPrimary = a.last
  BY <1>2 DEF ButColumns, Twin
<1> HIDE DEF a, b
<1>4. Second!Reject(b, x) = Rejects(b, row.body.new, a.last)
  BY <1>3, SameAssign DEF Second!Reject, Rejects
<1>5. Twin(Rejects(a, row.body.new, a.last), Rejects(b, row.body.new, a.last), S, acc)
      /\ Rejects(a, row.body.new, a.last).sigOk = a.sigOk
  BY <1>2, TwinRejects
<1> QED BY <1>2, <1>4, <1>5 DEF a, b

LEMMA TwinOther ==
  ASSUME NEW v, NEW st, NEW acc, Twin(v, st, Empty, acc), v.sigOk = FALSE,
         NEW row, NEW x, ButColumns(x, row), NEW p
  PROVE  LET w == IF row.key \in v.keys /\ ~SignedBy(row, row.key) THEN Emit(v, "record_edit", p)
                  ELSE RejectTarget(Emit(v, "key_unauthorised", p), row) IN
         Sealed2(w, Second!OtherKey(st, x, p), p, acc)
<1> DEFINE edit == "record_edit"
           class == "key_unauthorised"
           bad == row.key \in v.keys /\ ~SignedBy(row, row.key)
           rotation == row.type = "key_rotation"
           a == Emit(v, class, p)
           b == Second!emit(st, class, p)
           c == Rejects(a, row.body.new, a.last)
           d == Second!Reject(b, x)
           w == IF bad THEN Emit(v, edit, p) ELSE RejectTarget(a, row)
<1>1. w = IF bad THEN Emit(v, edit, p) ELSE IF rotation THEN c ELSE a
  BY DEF RejectTarget, Rejects
<1>2. Second!OtherKey(st, x, p) = IF bad THEN Second!emit(st, edit, p) ELSE IF rotation THEN d ELSE b
  BY DEF Second!OtherKey, Second!sig_under, Second!ed_verify, SignedBy, Twin, ButColumns
<1>3. Twin(a, b, Empty, acc) /\ a.sigOk = v.sigOk /\ Twin(c, d, Empty, acc) /\ c.sigOk = v.sigOk
  BY TwinTarget
<1>4. edit \notin {"output_mismatch", "boundary_flip"}
  OBVIOUS
<1> DEFINE e == Emit(v, edit, p)
           f == Second!emit(st, edit, p)
<1>5. Twin(e, f, Empty, acc) /\ e.sigOk = v.sigOk
  <2> HIDE DEF edit
  <2> QED BY <1>4, TwinEmit
<1>6. v.sigOk = FALSE
  OBVIOUS
<1> HIDE DEF a, b, c, d, e, f, bad, rotation
<1>7. Sealed2(a, b, p, acc) /\ Sealed2(c, d, p, acc) /\ Sealed2(e, f, p, acc)
  BY <1>3, <1>5, <1>6, Unsealed
<1>8. Sealed2(w, Second!OtherKey(st, x, p), p, acc)
  <2> HIDE DEF w
  <2>1. w = IF bad THEN e ELSE IF rotation THEN c ELSE a
    BY <1>1 DEF e
  <2>2. Second!OtherKey(st, x, p) = IF bad THEN f ELSE IF rotation THEN d ELSE b
    BY <1>2 DEF f
  <2> QED BY <1>7, <2>1, <2>2
<1> QED BY <1>8 DEF w, bad, a

LEMMA TwinKey ==
  ASSUME NEW v, NEW st, NEW acc, Twin(v, st, Empty, acc), v.sigOk = FALSE,
         NEW rs, NEW p, NEW x, ButColumns(x, rs[p + 1]), p = 0 => v.active = None, NEW trust
  PROVE  Sealed2(CheckKey(v, rs, p, trust), Second!Key(st, x, p, trust), p, acc)
<1> DEFINE row == rs[p + 1]
           u == IF p = 0 /\ v.active = None THEN [v EXCEPT !.active = row.key] ELSE v
           t == IF p = 0 THEN [st EXCEPT !.active = x.key] ELSE st
<1>1. x.key = row.key
  BY DEF ButColumns
<1>2. u = IF p = 0 THEN Adopts(v, row.key) ELSE v
  BY DEF Adopts
<1>3. t = IF p = 0 THEN Adopts(st, row.key) ELSE st
  BY <1>1 DEF Adopts
<1>4. Twin(u, t, Empty, acc) /\ u.sigOk = FALSE
  <2> HIDE DEF row, u, t
  <2>1. Twin(Adopts(v, row.key), Adopts(st, row.key), Empty, acc) /\ Adopts(v, row.key).sigOk = FALSE
    BY TwinAdopts
  <2> QED BY <1>2, <1>3, <2>1
<1> DEFINE class == "key_unauthorised"
           stranger == p = 0 /\ row.key \notin trust.ledger
           owner == u.rejected[row.key]
           known == row.key \in DOMAIN u.rejected
           other == IF row.key \in u.keys /\ ~SignedBy(row, row.key) THEN Emit(u, "record_edit", p)
                    ELSE RejectTarget(Emit(u, "key_unauthorised", p), row)
<1>5. CheckKey(v, rs, p, trust) =
        IF stranger THEN Emit(u, class, p)
        ELSE IF known THEN OwnedBy(Cascade(u, owner), owner, p)
        ELSE IF row.key = u.active THEN CheckSignature(u, row, p)
        ELSE other
  <2>1. CheckKey(v, rs, p, trust) =
          IF stranger THEN Emit(u, class, p)
          ELSE IF known THEN [Cascade(u, owner) EXCEPT !.last = owner, !.lastPos = p]
          ELSE IF row.key = u.active THEN CheckSignature(u, row, p)
          ELSE other
    BY DEF CheckKey
  <2> HIDE DEF u, other, stranger, known, owner, class
  <2> QED BY <2>1 DEF OwnedBy
<1>6. t.rejected = u.rejected /\ t.active = u.active
  BY <1>4 DEF Twin
<1>7. Second!Key(st, x, p, trust) =
        IF stranger THEN Second!emit(t, class, p)
        ELSE IF known THEN OwnedByToo(Second!fold(t, owner), owner, p)
        ELSE IF row.key = u.active THEN Second!ActiveKey(t, x, p)
        ELSE Second!OtherKey(t, x, p)
  <2> DEFINE first == p = 0 /\ x.key \notin trust.ledger
             listed == x.key \in DOMAIN t.rejected
             to == t.rejected[x.key]
  <2>1. Second!Key(st, x, p, trust) =
          IF first THEN Second!emit(t, class, p)
          ELSE IF listed THEN [Second!fold(t, to) EXCEPT !.lastPrimary = to, !.lastPos = p]
          ELSE IF x.key = t.active THEN Second!ActiveKey(t, x, p)
          ELSE Second!OtherKey(t, x, p)
    BY DEF Second!Key
  <2> HIDE DEF t, u, row, class
  <2>2. (first <=> stranger) /\ (listed <=> known) /\ to = owner
    BY <1>1, <1>6
  <2> HIDE DEF first, stranger, listed, known, to, owner
  <2> QED BY <1>1, <1>6, <2>1, <2>2 DEF OwnedByToo
<1>8. Sealed2(Emit(u, class, p), Second!emit(t, class, p), p, acc)
  <2>1. class \notin {"output_mismatch", "boundary_flip"}
    OBVIOUS
  <2> HIDE DEF u, t, class
  <2>2. Twin(Emit(u, class, p), Second!emit(t, class, p), Empty, acc) /\ Emit(u, class, p).sigOk = FALSE
    BY <1>4, <2>1, TwinEmit
  <2> QED BY <2>2, Unsealed
<1>9. Sealed2(OwnedBy(Cascade(u, owner), owner, p), OwnedByToo(Second!fold(t, owner), owner, p), p, acc)
  <2> HIDE DEF u, t, owner
  <2> DEFINE a == Cascade(u, owner)
             b == Second!fold(t, owner)
  <2>1. Twin(a, b, Empty, acc) /\ a.sigOk = FALSE
    BY <1>4, TwinCascade
  <2> HIDE DEF a, b
  <2>2. Twin(OwnedBy(a, owner, p), OwnedByToo(b, owner, p), Empty, acc) /\ OwnedBy(a, owner, p).sigOk = FALSE
    BY <2>1, TwinOwned
  <2>3. Sealed2(OwnedBy(a, owner, p), OwnedByToo(b, owner, p), p, acc)
    BY <2>2, Unsealed
  <2> QED BY <2>3 DEF a, b
<1>10. row.key = u.active => Sealed2(CheckSignature(u, row, p), Second!ActiveKey(t, x, p), p, acc)
  <2> HIDE DEF u, t, row
  <2> SUFFICES ASSUME row.key = u.active
               PROVE  Sealed2(CheckSignature(u, row, p), Second!ActiveKey(t, x, p), p, acc)
    OBVIOUS
  <2>1. ButColumns(x, row)
    BY DEF row
  <2> QED BY <1>4, <2>1, TwinSignature
<1>11. Sealed2(other, Second!OtherKey(t, x, p), p, acc)
  <2> HIDE DEF u, t, row
  <2>1. ButColumns(x, row)
    BY DEF row
  <2> QED BY <1>4, <2>1, TwinOther
<1> HIDE DEF stranger, known, owner, other, row, u, t, class
<1> QED BY <1>5, <1>7, <1>8, <1>9, <1>10, <1>11
-----------------------------------------------------------------------------
\* Nonces, and what each type of record says.

LEMMA StackAgrees ==
  ASSUME NEW stack, NEW a, NEW b, NEW n \in Nat, IsStack(stack, a, n), \A i \in 1 .. n : a[i] = b[i]
  PROVE  IsStack(stack, b, n)
<1>1. PICK S, start : stack \in Seq(S) /\ Follows(stack, start, a, n)
  BY DEF IsStack
<1>2. \A size \in 1 .. n : \A from \in 0 .. n - size : RangeOf(a, from, size) = RangeOf(b, from, size)
  BY RangePrefix
<1>3. Len(stack) \in Nat
  BY <1>1
<1> DEFINE len == Len(stack)
           J == {j \in Nat : j <= len => start[len + 1 - j] \in Nat /\ start[len + 1 - j] <= n}
<1>5. 0 \in J
  BY <1>1, <1>3 DEF Follows
<1>6. ASSUME NEW j \in Nat, j \in J PROVE j + 1 \in J
  <2> SUFFICES ASSUME j + 1 <= len
               PROVE  start[len + 1 - (j + 1)] \in Nat /\ start[len + 1 - (j + 1)] <= n
    OBVIOUS
  <2> DEFINE i == len - j
  <2>1. i \in 1 .. len /\ len + 1 - (j + 1) = i /\ len + 1 - j = i + 1
    BY <1>3
  <2>2. start[i + 1] \in Nat /\ start[i + 1] <= n
    BY <1>3, <1>6, <2>1
  <2>3. start[i] \in Nat /\ start[i + 1] = start[i] + Pow2[stack[i].level] /\ stack[i].level \in Nat
    BY <1>1, <2>1 DEF Follows
  <2>4. Pow2[stack[i].level] \in Nat
    BY <2>3, Pow2Positive
  <2> DEFINE w == Pow2[stack[i].level]
  <2> HIDE DEF i, len, w
  <2>5. start[i] <= n
    BY <2>2, <2>3, <2>4 DEF w
  <2> QED BY <2>1, <2>3, <2>5
<1>7. \A j \in Nat : j \in J
  <2>1. \A j \in Nat : j \in J => j + 1 \in J
    BY <1>6
  <2> HIDE DEF J
  <2> QED BY <1>5, <2>1, Induct
<1>8. ASSUME NEW i \in 1 .. len
      PROVE  RangeOf(a, start[i], Pow2[stack[i].level]) = RangeOf(b, start[i], Pow2[stack[i].level])
  <2>1. len - i \in Nat /\ len - i <= len /\ len + 1 - (len - i) = i + 1
    BY <1>3
  <2>2. start[i + 1] <= n
    BY <1>7, <2>1
  <2>3. start[i] \in Nat /\ start[i + 1] = start[i] + Pow2[stack[i].level] /\ stack[i].level \in Nat
    BY <1>1 DEF Follows
  <2>4. Pow2[stack[i].level] \in Nat \ {0}
    BY <2>3, Pow2Positive
  <2> DEFINE w == Pow2[stack[i].level]
             from == start[i]
  <2>5. w \in 1 .. n /\ from \in 0 .. n - w
    <3> HIDE DEF len, w, from
    <3> QED BY <2>2, <2>3, <2>4 DEF w, from
  <2> HIDE DEF w, from
  <2>6. RangeOf(a, from, w) = RangeOf(b, from, w)
    BY <1>2, <2>5
  <2> QED BY <2>6 DEF w, from
<1>4. Follows(stack, start, b, n)
  BY <1>1, <1>3, <1>8 DEF Follows
<1> QED BY <1>1, <1>4 DEF IsStack

LEMMA TwinNonce ==
  ASSUME NEW v, NEW st, NEW acc, NEW p, Twin(v, st, {p}, acc), NEW row, NEW x, ButColumns(x, row)
  PROVE  Twin(CheckNonce(v, row, p), Second!Nonce(st, x, p), Empty, acc)
<1> DEFINE reuse == "nonce_reuse"
           one == {p}
           known == {row.nonce}
           old == row.nonce \in v.nonces /\ ~v.copy
           a == IF old THEN Emit(v, reuse, p) ELSE v
           b == IF old THEN Second!emit(st, reuse, p) ELSE st
<1>1. reuse \notin {"output_mismatch", "boundary_flip"}
  OBVIOUS
<1>2. Twin(a, b, one, acc)
  <2>1. Twin(v, st, one, acc)
    OBVIOUS
  <2> HIDE DEF reuse, one, old
  <2>2. Twin(Emit(v, reuse, p), Second!emit(st, reuse, p), one, acc)
    BY <1>1, <2>1, TwinEmit
  <2> QED BY <2>1, <2>2
<1>3. CheckNonce(v, row, p) = [a EXCEPT !.nonces = @ \cup known, !.sealedOk = @ \cup one]
  BY DEF CheckNonce
<1>4. Second!Nonce(st, x, p) = [b EXCEPT !.nonces = @ \cup known]
  BY DEF Second!Nonce, Twin, ButColumns
<1> HIDE DEF a, b, known, one, old
<1> QED BY <1>2, <1>3, <1>4 DEF Twin, Fields, SecondFields, Empty

LEMMA TwinCheckpointed ==
  ASSUME NEW v, NEW st, NEW S, NEW acc, Twin(v, st, S, acc), NEW at, NEW x
  PROVE  Twin([v EXCEPT !.checkpoints = Assign(@, at, x)], [st EXCEPT !.verifiedCp = Assign(@, at, x)], S, acc)
<1> DEFINE new == Assign(v.checkpoints, at, x)
<1>1. [v EXCEPT !.checkpoints = Assign(@, at, x)] = [v EXCEPT !.checkpoints = new]
  BY DEF Twin, Fields
<1>2. [st EXCEPT !.verifiedCp = Assign(@, at, x)] = [st EXCEPT !.verifiedCp = new]
  BY DEF Twin, SecondFields
<1> HIDE DEF new
<1> QED BY <1>1, <1>2 DEF Twin, Fields, SecondFields

LEMMA TwinCheckpoint ==
  ASSUME NEW v, NEW st, NEW S, NEW acc, Twin(v, st, S, acc), NEW p \in Nat, Len(acc) = p,
         NEW row, NEW x, ButColumns(x, row),
         row.body = [size |-> row.body.size, root |-> row.body.root]
  PROVE  Twin(CheckCheckpoint(v, row, p), Second!Checkpoint(st, x, p), S, acc)
<1> DEFINE states == row.body.size = p /\ row.body.root = MTH(acc)
           class == "checkpoint_mismatch"
           a == [v EXCEPT !.checkpoints = Assign(@, row.seq, row.body)]
           b == [st EXCEPT !.verifiedCp = Assign(@, row.seq, row.body)]
<1>1. RootOf(v.stack) = MTH(acc)
  <2>1. IsStack(v.stack, acc, p)
    BY DEF Twin
  <2>2. RootOf(v.stack) = IF p = 0 THEN EmptyRoot ELSE RangeOf(acc, 0, p)
    BY <2>1, RootIsRange
  <2>3. MTH(acc) = IF p = 0 THEN EmptyRoot ELSE RangeOf(acc, 0, p)
    BY MthIsRange
  <2> QED BY <2>2, <2>3
<1>2. (row.body = [size |-> p, root |-> RootOf(v.stack)]) <=> states
  BY <1>1
<1>3. CheckCheckpoint(v, row, p) =
        IF states THEN a ELSE IF v.taint # 0 THEN Cascade(v, v.taint) ELSE Emit(v, class, p)
  BY <1>2 DEF CheckCheckpoint
<1>4. Second!Checkpoint(st, x, p) =
        IF states THEN b ELSE IF v.taint # 0 THEN Second!fold(st, v.taint) ELSE Second!emit(st, class, p)
  BY SameTree, SameAssign DEF Second!Checkpoint, Twin, ButColumns
<1>5. Twin(a, b, S, acc)
  BY TwinCheckpointed
<1>6. class \notin {"output_mismatch", "boundary_flip"}
  OBVIOUS
<1> HIDE DEF states, class, a, b
<1> QED BY <1>3, <1>4, <1>5, <1>6, TwinCascade, TwinEmit

Closes(v, seq, nonce) == [v EXCEPT !.lastAnchorSeq = seq, !.nonces = {nonce}]

ClosesToo(st, nonce) == [st EXCEPT !.nonces = {nonce}]

LEMMA TwinCloses ==
  ASSUME NEW v, NEW st, NEW S, NEW acc, Twin(v, st, S, acc), NEW seq, NEW nonce
  PROVE  Twin(Closes(v, seq, nonce), ClosesToo(st, nonce), S, acc)
<1> DEFINE one == {nonce}
<1>1. Closes(v, seq, nonce) = [v EXCEPT !.lastAnchorSeq = seq, !.nonces = one]
  BY DEF Closes
<1>2. ClosesToo(st, nonce) = [st EXCEPT !.nonces = one]
  BY DEF ClosesToo
<1> HIDE DEF one
<1> QED BY <1>1, <1>2 DEF Twin, Fields, SecondFields

LEMMA TwinAnchorEvent ==
  ASSUME NEW v, NEW st, NEW S, NEW acc, Twin(v, st, S, acc), NEW p, NEW row, NEW x, ButColumns(x, row)
  PROVE  Twin(CheckAnchorEvent(v, row, p), Second!AnchorEvent(st, x, p), S, acc)
<1> DEFINE named == row.body.cpSeq \in DOMAIN v.checkpoints
                    /\ v.checkpoints[row.body.cpSeq] = [size |-> row.body.size, root |-> row.body.root]
           class == "checkpoint_mismatch"
           high == "high"
           a == IF named THEN v ELSE IF v.taint # 0 THEN Cascade(v, v.taint) ELSE Note(v, class, p, high)
           b == IF named THEN st ELSE IF v.taint # 0 THEN Second!fold(st, v.taint)
                ELSE Second!Aside(st, class, p, high)
<1>1. Severity(class) = high
  BY DEF Severity
<1>2. CheckAnchorEvent(v, row, p) = Closes(a, row.seq, row.nonce)
  BY <1>1 DEF CheckAnchorEvent, Closes
<1>3. Second!AnchorEvent(st, x, p) = ClosesToo(b, row.nonce)
  BY DEF Second!AnchorEvent, ClosesToo, Twin, ButColumns
<1>4. Twin(a, b, S, acc)
  <2> HIDE DEF named, class, high
  <2> QED BY TwinCascade, TwinNote
<1> HIDE DEF a, b
<1> QED BY <1>2, <1>3, <1>4, TwinCloses

LEMMA TwinRotation ==
  ASSUME NEW v, NEW st, NEW S, NEW acc, Twin(v, st, S, acc), NEW p, NEW row, NEW x, ButColumns(x, row),
         row.type = "key_rotation"
  PROVE  Twin(CheckRotation(v, row, p), Second!Rotation(st, x, p), S, acc)
<1> DEFINE class == "key_unauthorised"
           new == row.body.new
           one == {new}
           a == Emit(v, class, p)
           b == Second!emit(st, class, p)
           c == Rejects(a, row.body.new, a.last)
           d == Second!Reject(b, x)
           e == [v EXCEPT !.keys = @ \cup one, !.rotatedIn = @ \cup one, !.active = new]
           f == [st EXCEPT !.known = @ \cup one, !.rotatedIn = @ \cup one, !.active = new]
           valid == PopValid(row)
<1>1. CheckRotation(v, row, p) = IF valid THEN e ELSE c
  BY DEF CheckRotation, RejectTarget, Rejects
<1>2. (x.body.pop = [by |-> x.body.new, at |-> x.seq + 1, outgoing |-> x.key]) <=> valid
  BY DEF PopValid, RotationProof, ButColumns
<1>3. Second!Rotation(st, x, p) = IF valid THEN f ELSE d
  <2>1. x.body.new = new
    BY DEF ButColumns
  <2> HIDE DEF valid, new
  <2> QED BY <1>2, <2>1 DEF Second!Rotation
<1>4. Twin(c, d, S, acc)
  BY TwinTarget
<1>5. Twin(e, f, S, acc)
  <2> HIDE DEF one, new
  <2> QED BY DEF Twin, Fields, SecondFields
<1> HIDE DEF c, d, e, f, valid
<1> QED BY <1>1, <1>3, <1>4, <1>5

LEMMA TwinRegistration ==
  ASSUME NEW v, NEW st, NEW S, NEW acc, Twin(v, st, S, acc), NEW p, NEW row, NEW x, ButColumns(x, row), NEW manifest
  PROVE  Twin(CheckRegistration(v, row, p, manifest), Second!Registration(st, x, p, manifest), S, acc)
<1> DEFINE class == "model_swap"
           info == "info"
           m == row.body.model
           was == m.id \in DOMAIN v.registrations /\ v.registrations[m.id] # m
           new == Assign(v.registrations, m.id, m)
           a == [v EXCEPT !.registrations = new]
           b == [st EXCEPT !.regs = new]
<1>1. CheckRegistration(v, row, p, manifest) =
        IF manifest # <<>> THEN IF m \in manifest[1] THEN a ELSE Emit(a, class, p)
        ELSE IF was THEN Note(a, class, p, info) ELSE a
  <2>1. [v EXCEPT !.registrations = Assign(@, m.id, m)] = a
    BY DEF Twin, Fields
  <2> HIDE DEF a, m
  <2> QED BY <2>1 DEF CheckRegistration, m
<1>2. Second!Registration(st, x, p, manifest) =
        IF manifest # <<>> THEN IF m \in manifest[1] THEN b ELSE Second!emit(b, class, p)
        ELSE IF was THEN Second!Aside(b, class, p, info) ELSE b
  <2>1. [st EXCEPT !.regs = Second!Assign(@, m.id, m)] = b
    BY SameAssign DEF Twin, SecondFields
  <2>2. x.body.model = m
    BY DEF ButColumns
  <2>3. st.regs = v.registrations
    BY DEF Twin
  <2> HIDE DEF b, m
  <2> QED BY <2>1, <2>2, <2>3 DEF Second!Registration
<1>3. Twin(a, b, S, acc)
  <2> HIDE DEF new
  <2> QED BY DEF Twin, Fields, SecondFields
<1>4. class \notin {"output_mismatch", "boundary_flip"}
  OBVIOUS
<1> HIDE DEF a, b, m, was, class, info
<1> QED BY <1>1, <1>2, <1>3, <1>4, TwinEmit, TwinNote

LEMMA TwinInferred ==
  ASSUME NEW v, NEW st, NEW S, NEW acc, Twin(v, st, S, acc), NEW p, NEW row, NEW x, ButColumns(x, row)
  PROVE  Twin(CheckInferenceModel(v, row, p), Second!Inference(st, x, p), S, acc)
<1> DEFINE class == "model_swap"
           m == row.body.model
           ok == m.id \in DOMAIN v.registrations /\ v.registrations[m.id] = m
<1>1. CheckInferenceModel(v, row, p) = IF ok THEN v ELSE Emit(v, class, p)
  BY DEF CheckInferenceModel
<1>2. Second!Inference(st, x, p) = IF ok THEN st ELSE Second!emit(st, class, p)
  BY DEF Second!Inference, Twin, ButColumns
<1>3. class \notin {"output_mismatch", "boundary_flip"}
  OBVIOUS
<1> HIDE DEF class, ok
<1> QED BY <1>1, <1>2, <1>3, TwinEmit

LEMMA TwinType ==
  ASSUME NEW v, NEW st, NEW S, NEW acc, Twin(v, st, S, acc), NEW p \in Nat, Len(acc) = p,
         NEW row, NEW x, ButColumns(x, row), Legible(row), NEW manifest
  PROVE  Twin(CheckType(v, row, p, manifest), Second!TypeRules(st, x, p, manifest), S, acc)
<1>1. x.type = row.type
  BY DEF ButColumns
<1>2. CASE row.type = "checkpoint"
  <2>1. CheckType(v, row, p, manifest) = CheckCheckpoint(v, row, p)
    BY <1>2 DEF CheckType
  <2>2. Second!TypeRules(st, x, p, manifest) = Second!Checkpoint(st, x, p)
    BY <1>1, <1>2 DEF Second!TypeRules
  <2>3. row.body = [size |-> row.body.size, root |-> row.body.root]
    BY <1>2 DEF Legible
  <2> QED BY <2>1, <2>2, <2>3, TwinCheckpoint
<1>3. CASE row.type = "anchor_event"
  <2>1. CheckType(v, row, p, manifest) = CheckAnchorEvent(v, row, p)
    BY <1>3 DEF CheckType
  <2>2. Second!TypeRules(st, x, p, manifest) = Second!AnchorEvent(st, x, p)
    BY <1>1, <1>3 DEF Second!TypeRules
  <2> QED BY <2>1, <2>2, TwinAnchorEvent
<1>4. CASE row.type = "degraded_marker"
  <2> DEFINE class == "degraded_gap"
             low == "low"
  <2>1. CheckType(v, row, p, manifest) = Note(v, class, p, low)
    BY <1>4 DEF CheckType
  <2>2. Second!TypeRules(st, x, p, manifest) = Second!Aside(st, class, p, low)
    BY <1>1, <1>4 DEF Second!TypeRules
  <2> HIDE DEF class, low
  <2> QED BY <2>1, <2>2, TwinNote
<1>5. CASE row.type = "model_registration"
  <2>1. CheckType(v, row, p, manifest) = CheckRegistration(v, row, p, manifest)
    BY <1>5 DEF CheckType
  <2>2. Second!TypeRules(st, x, p, manifest) = Second!Registration(st, x, p, manifest)
    BY <1>1, <1>5 DEF Second!TypeRules
  <2> QED BY <2>1, <2>2, TwinRegistration
<1>6. CASE row.type = "inference"
  <2>1. CheckType(v, row, p, manifest) = CheckInferenceModel(v, row, p)
    BY <1>6 DEF CheckType
  <2>2. Second!TypeRules(st, x, p, manifest) = Second!Inference(st, x, p)
    BY <1>1, <1>6 DEF Second!TypeRules
  <2> QED BY <2>1, <2>2, TwinInferred
<1>7. CASE row.type = "key_rotation"
  <2>1. CheckType(v, row, p, manifest) = CheckRotation(v, row, p)
    BY <1>7 DEF CheckType
  <2>2. Second!TypeRules(st, x, p, manifest) = Second!Rotation(st, x, p)
    BY <1>1, <1>7 DEF Second!TypeRules
  <2>3. Twin(CheckRotation(v, row, p), Second!Rotation(st, x, p), S, acc)
    BY <1>7, TwinRotation
  <2> QED BY <2>1, <2>2, <2>3
<1>8. CASE row.type \notin {"checkpoint", "anchor_event", "degraded_marker", "model_registration", "inference",
                            "key_rotation"}
  <2>1. CheckType(v, row, p, manifest) = v
    BY <1>8 DEF CheckType
  <2>2. Second!TypeRules(st, x, p, manifest) = st
    BY <1>1, <1>8 DEF Second!TypeRules
  <2> QED BY <2>1, <2>2
<1> QED BY <1>2, <1>3, <1>4, <1>5, <1>6, <1>7, <1>8
-----------------------------------------------------------------------------
\* Clocks, and a whole row.

LEMMA TwinTime ==
  ASSUME NEW v, NEW st, NEW S, NEW acc, Twin(v, st, S, acc), NEW p,
         NEW row, NEW x, ButColumns(x, row), row.at \in Nat
  PROVE  Twin(CheckTime(v, row, p), Second!Time(st, x, p), S, acc)
<1> DEFINE class == "clock_regression"
           info == "info"
           back == row.at < v.lastAt
           at == row.at
           link == Link(row)
           a == IF back THEN Note(v, class, p, info) ELSE v
           b == IF back THEN Second!Aside(st, class, p, info) ELSE st
<1>1. (st.lastCreated # None /\ x.at < st.lastCreated) <=> back
  <2>1. x.at = row.at
    BY DEF ButColumns
  <2> QED BY <2>1 DEF Twin
<1>2. Second!link_of(x) = link /\ x.at = at
  BY DEF Second!link_of, Link, ButColumns
<1>3. CheckTime(v, row, p) = [a EXCEPT !.lastAt = at, !.prevLink = link]
  BY DEF CheckTime
<1>4. Second!Time(st, x, p) = [b EXCEPT !.lastCreated = at, !.prevLink = link]
  <2> HIDE DEF back, link, at, class, info
  <2> QED BY <1>1, <1>2 DEF Second!Time, class, info
<1>5. Twin(a, b, S, acc)
  <2> HIDE DEF back, class, info
  <2> QED BY TwinNote
<1>6. at \in Nat /\ at # None
  BY VerifierAssumption
<1> HIDE DEF a, b, link, at
<1> QED BY <1>3, <1>4, <1>5, <1>6 DEF Twin, Fields, SecondFields

Reset1(v) == [v EXCEPT !.suppressLink = FALSE, !.copy = FALSE, !.sigOk = FALSE]

Reset2(st) == [st EXCEPT !.suppress = FALSE, !.replayCopy = FALSE, !.sigOk = FALSE]

LEMMA TwinFresh ==
  ASSUME NEW v, NEW st, NEW S, NEW acc, Twin(v, st, S, acc)
  PROVE  /\ Twin(Reset1(v), Reset2(st), S, acc)
         /\ Reset1(v).copy = FALSE /\ Reset1(v).sigOk = FALSE /\ Reset1(v).active = v.active
BY DEF Reset1, Reset2, Twin, Fields, SecondFields

Unlinked(v) == [v EXCEPT !.prevLink = NoLink]

LEMMA TwinUnlinked ==
  ASSUME NEW v, NEW st, NEW S, NEW acc, Twin(v, st, S, acc)
  PROVE  Twin(Unlinked(v), Unlinked(st), S, acc)
BY DEF Unlinked, Twin, Fields, SecondFields

ColumnsFit(rs) == \A i \in 1 .. Len(rs) : rs[i].form = "ok" => rs[i].cols = NoColumns \/ rs[i].cols = Columns(rs[i])

LEMMA TwinRow ==
  ASSUME NEW v, NEW st, NEW acc, Twin(v, st, Empty, acc), v.copy = FALSE, v.sigOk = FALSE,
         NEW rs, NEW xs, Readable(rs), Copied(xs, rs), ColumnsFit(rs),
         NEW p \in 0 .. Len(rs) - 1, Len(acc) = p, p = 0 => v.active = None, rs[p + 1].form = "ok", NEW given
  PROVE  LET x == xs[p + 1]
             linked == Second!LinkTo(Second!Key(Second!First(Second!Position(st, xs, p), x, p), x, p, given.trust),
                                     x, p, given.trust) IN
         Twin(CheckRow(v, rs, p, given), Second!Time(Second!IfSigned(linked, x, p, given.manifest), x, p), Empty, acc)
<1> DEFINE row == rs[p + 1]
           x   == xs[p + 1]
           trust == given.trust
           manifest == given.manifest
           v1 == CheckSeq(v, rs, p)
           s1 == Second!Position(st, xs, p)
           v2 == CheckFirst(v1, rs, p)
           s2 == Second!First(s1, x, p)
           v3 == CheckKey(v2, rs, p, trust)
           s3 == Second!Key(s2, x, p, trust)
           v4 == CheckLink(v3, rs, p, trust)
           s4 == Second!LinkTo(s3, x, p, trust)
           v5 == CheckSigned(v4, row, p, manifest)
           s5 == Second!IfSigned(s4, x, p, manifest)
<1>1. p + 1 \in 1 .. Len(rs) /\ Len(rs) \in Nat /\ p \in Nat
  BY DEF Readable, IsSeq
<1>2. ButColumns(x, row) /\ Legible(row)
  BY <1>1 DEF Copied, Readable
<1>3. CheckColumns(v, rs, p) = v
  BY <1>1 DEF CheckColumns, ColumnsFit
<1>4. CheckRow(v, rs, p, given) = CheckTime(v5, row, p)
  BY <1>3 DEF CheckRow
<1>5. Twin(v1, s1, Empty, acc) /\ v1.active = v.active /\ v1.sigOk = FALSE
  <2>2. v.sigOk = FALSE /\ NoCopy(v)
    BY DEF NoCopy
  <2> HIDE DEF x, row, v2, s2
  <2>1. Twin(v1, s1, Empty, acc) /\ v1.active = v.active /\ v1.sigOk = v.sigOk
    BY <2>2, TwinSeq
  <2> HIDE DEF v1, s1
  <2> QED BY <2>1, <2>2
<1>6. Twin(v2, s2, Empty, acc) /\ v2.active = v.active /\ v2.sigOk = FALSE
  <2> HIDE DEF v1, s1, x
  <2>1. Twin(v2, s2, Empty, acc) /\ v2.active = v1.active /\ v2.sigOk = v1.sigOk
    BY <1>2, <1>5, TwinFirst
  <2> HIDE DEF v2, s2
  <2> QED BY <1>5, <2>1
<1>7. Sealed2(v3, s3, p, acc)
  <2> HIDE DEF v2, s2, x
  <2>1. p = 0 => v2.active = None
    BY <1>6
  <2> QED BY <1>2, <1>6, <2>1, TwinKey
<1> DEFINE S == Sealing(v3, p)
<1>8. Twin(v4, s4, S, acc) /\ v4.sigOk = v3.sigOk /\ v4.sigOk \in BOOLEAN
  <2> HIDE DEF v3, s3, x, trust
  <2>1. Twin(v3, s3, S, acc) /\ v3.sigOk \in BOOLEAN
    BY <1>7 DEF Sealed2
  <2>2. row.prev # NoLink
    BY <1>2 DEF Legible
  <2>3. Twin(v4, s4, S, acc) /\ v4.sigOk = v3.sigOk
    BY <1>2, <2>1, <2>2, TwinLink
  <2> HIDE DEF v4, s4
  <2> QED BY <2>1, <2>3
<1>9. Twin(v5, s5, Empty, acc)
  <2> HIDE DEF v3, v4, s4, x, row, manifest
  <2>1. s4.sigOk = v4.sigOk
    BY <1>8 DEF Twin
  <2>2. CASE v4.sigOk = TRUE
    <3> DEFINE one == {p}
    <3>1. S = one
      BY <1>8, <2>2 DEF Sealing
    <3>2. Twin(v4, s4, one, acc)
      <4> HIDE DEF S, one
      <4> QED BY <1>8, <3>1
    <3>3. Twin(CheckNonce(v4, row, p), Second!Nonce(s4, x, p), Empty, acc)
      BY <1>2, <3>2, TwinNonce
    <3>4. Twin(CheckType(CheckNonce(v4, row, p), row, p, manifest),
               Second!TypeRules(Second!Nonce(s4, x, p), x, p, manifest), Empty, acc)
      BY <1>1, <1>2, <3>3, TwinType
    <3>5. v5 = CheckType(CheckNonce(v4, row, p), row, p, manifest)
      BY <2>2 DEF CheckSigned
    <3>6. s5 = Second!TypeRules(Second!Nonce(s4, x, p), x, p, manifest)
      BY <2>1, <2>2 DEF Second!IfSigned
    <3> HIDE DEF v5, s5
    <3> QED BY <3>4, <3>5, <3>6
  <2>3. CASE v4.sigOk = FALSE
    <3>1. S = Empty
      BY <1>8, <2>3 DEF Sealing
    <3>2. v5 = v4
      BY <2>3 DEF CheckSigned
    <3>3. s5 = s4
      BY <2>1, <2>3 DEF Second!IfSigned
    <3> HIDE DEF v5, s5, S
    <3> QED BY <1>8, <3>1, <3>2, <3>3
  <2> QED BY <1>8, <2>2, <2>3
<1>10. Twin(CheckTime(v5, row, p), Second!Time(s5, x, p), Empty, acc)
  <2> HIDE DEF v5, s5, x, row
  <2>1. row.at \in Nat
    BY <1>2 DEF Legible
  <2> QED BY <1>2, <1>9, <2>1, TwinTime
<1> HIDE DEF v5
<1> QED BY <1>4, <1>10 DEF s5, s4, s3, s2, s1

\* The leaves of the first rows.
LeavesTo(rs, n) == [i \in 1 .. n |-> LeafOf(rs[i])]

LEMMA LeavesToNext ==
  ASSUME NEW rs, NEW n \in Nat
  PROVE  /\ Len(LeavesTo(rs, n)) = n /\ IsSeq(LeavesTo(rs, n))
         /\ LeavesTo(rs, n + 1) = Append(LeavesTo(rs, n), LeafOf(rs[n + 1]))
<1> DEFINE a == LeavesTo(rs, n)
           b == LeavesTo(rs, n + 1)
           leaf == LeafOf(rs[n + 1])
           S == {LeafOf(rs[i]) : i \in 1 .. n + 1}
<1>1. a \in [1 .. n -> S] /\ b \in [1 .. n + 1 -> S] /\ leaf \in S
  BY DEF LeavesTo
<1>2. (\A i \in 1 .. n : a[i] = LeafOf(rs[i])) /\ \A i \in 1 .. n + 1 : b[i] = LeafOf(rs[i])
  BY DEF LeavesTo
<1>3. b[n + 1] = leaf /\ \A i \in 1 .. n : b[i] = a[i]
  BY <1>2
<1> HIDE DEF a, b, leaf, S
<1>4. a \in Seq(S) /\ Len(a) = n /\ b \in Seq(S) /\ Len(b) = n + 1
  <2>1. a \in Seq(S) /\ DOMAIN a = 1 .. n /\ b \in Seq(S) /\ DOMAIN b = 1 .. n + 1
    BY <1>1
  <2> QED BY <2>1
<1>5. IsSeq(a)
  BY <1>4, SeqOfItsOwn
<1>6. b = Append(a, leaf)
  BY <1>1, <1>3, <1>4
<1> QED BY <1>4, <1>5, <1>6 DEF a, b, leaf

Pushes1(v, leaf) == [v EXCEPT !.stack = Push(@, leaf)]

Pushes2(st, leaf) == [st EXCEPT !.acc = Append(@, leaf)]

LEMMA TwinPushes ==
  ASSUME NEW v, NEW st, NEW S, NEW rs, NEW n \in Nat, Twin(v, st, S, LeavesTo(rs, n))
  PROVE  Twin(Pushes1(v, LeafOf(rs[n + 1])), Pushes2(st, LeafOf(rs[n + 1])), S, LeavesTo(rs, n + 1))
<1> DEFINE a == LeavesTo(rs, n)
           b == LeavesTo(rs, n + 1)
           leaf == LeafOf(rs[n + 1])
           stack == Push(v.stack, leaf)
<1>1. Len(a) = n /\ IsSeq(a) /\ b = Append(a, leaf) /\ Len(b) = n + 1
  BY LeavesToNext
<1> HIDE DEF a, b, leaf
<1>2. b[n + 1] = leaf /\ \A i \in 1 .. n : b[i] = a[i]
  BY <1>1, AppendSeq
<1>3. IsStack(v.stack, a, n)
  BY <1>1 DEF Twin, a
<1>4. IsStack(v.stack, b, n)
  BY <1>2, <1>3, StackAgrees
<1>5. IsStack(stack, b, n + 1)
  BY <1>2, <1>4, PushKeeps
<1>6. Pushes1(v, leaf) = [v EXCEPT !.stack = stack]
  BY DEF Pushes1, Twin, Fields
<1>7. Pushes2(st, leaf) = [st EXCEPT !.acc = b]
  BY <1>1 DEF Pushes2, Twin, SecondFields, a
<1>8. Twin(v, st, S, a)
  BY DEF a
<1> HIDE DEF stack
<1>9. Twin(Pushes1(v, leaf), Pushes2(st, leaf), S, b)
  BY <1>1, <1>5, <1>6, <1>7, <1>8 DEF Twin, Fields, SecondFields
<1> QED BY <1>9 DEF b, leaf

LEMMA TwinStep ==
  ASSUME NEW rs, NEW xs, Readable(rs), Copied(xs, rs), ColumnsFit(rs),
         NEW p \in 0 .. Len(rs) - 1, NEW v, NEW st, Twin(v, st, Empty, LeavesTo(rs, p)),
         p = 0 => v.active = None, NEW given
  PROVE  Twin(Step(v, rs, p, given), Second!Line(st, xs, p, given), Empty, LeavesTo(rs, p + 1))
<1> DEFINE row == rs[p + 1]
           x   == xs[p + 1]
           acc == LeavesTo(rs, p)
           u   == Reset1(v)
           t   == Reset2(st)
           linked == Second!LinkTo(Second!Key(Second!First(Second!Position(t, xs, p), x, p), x, p, given.trust),
                                   x, p, given.trust)
           timed == Second!Time(Second!IfSigned(linked, x, p, given.manifest), x, p)
           form  == row.form
           after == IF form = "ok" THEN CheckRow(u, rs, p, given) ELSE Unlinked(Emit(u, form, p))
           out   == IF form = "ok" THEN timed ELSE Unlinked(Second!emit(t, form, p))
<1>1. p + 1 \in 1 .. Len(rs) /\ Len(rs) \in Nat /\ p \in Nat
  BY DEF Readable, IsSeq
<1>2. ButColumns(x, row) /\ Legible(row)
  BY <1>1 DEF Copied, Readable
<1>3. Len(acc) = p
  BY <1>1, LeavesToNext
<1>4. Twin(u, t, Empty, acc) /\ u.copy = FALSE /\ u.sigOk = FALSE /\ u.active = v.active
  BY TwinFresh
<1>5. Step(v, rs, p, given) = Pushes1(after, LeafOf(row))
  BY DEF Step, Reset1, Unlinked, Pushes1
<1>6. Second!Line(st, xs, p, given) = Pushes2(out, LeafOf(row))
  <2>1. Second!leaf(x) = LeafOf(row)
    BY <1>2 DEF Second!leaf, Second!line, Second!Leaf, LeafOf, Leaf, Bytes, ButColumns
  <2>2. x.form = form
    BY <1>2 DEF ButColumns
  <2>3. Second!Line(st, xs, p, given) =
          [IF x.form # "ok" THEN [Second!emit(t, x.form, p) EXCEPT !.prevLink = NoLink] ELSE timed
           EXCEPT !.acc = Append(@, Second!leaf(x))]
    BY DEF Second!Line, Reset2, NoLink, Second!NoLink
  <2> HIDE DEF timed, x, form, t
  <2> QED BY <2>1, <2>2, <2>3 DEF Unlinked, Pushes2
<1>7. Twin(after, out, Empty, acc)
  <2>1. CASE form = "ok"
    <3> HIDE DEF u, t, acc
    <3>1. p = 0 => u.active = None
      BY <1>4
    <3>2. rs[p + 1].form = "ok"
      BY <2>1
    <3>3. Twin(CheckRow(u, rs, p, given), timed, Empty, acc)
      BY <1>3, <1>4, <3>1, <3>2, TwinRow
    <3> HIDE DEF timed
    <3> QED BY <2>1, <3>3
  <2>2. CASE form # "ok"
    <3> HIDE DEF u, t, acc
    <3>1. form \notin {"output_mismatch", "boundary_flip"}
      BY <1>2, <2>2 DEF Legible
    <3> HIDE DEF form
    <3>2. Twin(Emit(u, form, p), Second!emit(t, form, p), Empty, acc)
      BY <1>4, <3>1, TwinEmit
    <3>3. Twin(Unlinked(Emit(u, form, p)), Unlinked(Second!emit(t, form, p)), Empty, acc)
      BY <3>2, TwinUnlinked
    <3> QED BY <2>2, <3>3
  <2> QED BY <2>1, <2>2
<1> HIDE DEF after, out
<1>8. Twin(Pushes1(after, LeafOf(row)), Pushes2(out, LeafOf(row)), Empty, LeavesTo(rs, p + 1))
  BY <1>1, <1>7, TwinPushes DEF acc, row
<1> QED BY <1>5, <1>6, <1>8

LEMMA TwinStart ==
  ASSUME NEW given, NEW rs
  PROVE  Twin(Start(given), Second!Begin(given.trust), Empty, LeavesTo(rs, 0)) /\ Start(given).active = None
<1> DEFINE acc == LeavesTo(rs, 0)
           v == Start(given)
           st == Second!Begin(given.trust)
<1>1. Len(acc) = 0 /\ acc = <<>>
  <2>1. Len(acc) = 0 /\ IsSeq(acc)
    BY LeavesToNext
  <2> HIDE DEF acc
  <2> QED BY <2>1 DEF IsSeq
<1>2. IsStack(<<>>, acc, 0)
  BY EmptyStack
<1>3. TrustedKeys(given.trust) = given.trust.ledger \cup given.trust.witness \cup given.trust.boundary
  BY DEF TrustedKeys
<1> DEFINE known == TrustedKeys(given.trust)
           none == <<>>
           nothing == {}
<1>4. v = [findings |-> none, last |-> 0, lastPos |-> -10, taint |-> 0,
           shift |-> 0, shiftBefore |-> 0, pending |-> none,
           prevLink |-> none, nonces |-> nothing, lastAt |-> 0, registrations |-> none,
           sealedOk |-> nothing, keys |-> known, active |-> None, rejected |-> none,
           rotatedIn |-> nothing, checkpoints |-> none, stack |-> none, lastAnchorSeq |-> -1,
           suppressLink |-> FALSE, copy |-> FALSE, sigOk |-> FALSE]
  BY DEF Start, NoLink
<1>5. st = [findings |-> none, lastPrimary |-> 0, lastPos |-> -10, taint |-> 0, shift |-> 0, shiftBefore |-> 0,
            pending |-> none, prevLink |-> none, active |-> None, rejected |-> none, nonces |-> nothing,
            verifiedCp |-> none, regs |-> none, lastCreated |-> None, known |-> known,
            rotatedIn |-> nothing, signed |-> nothing, acc |-> none, suppress |-> FALSE, replayCopy |-> FALSE,
            sigOk |-> FALSE]
  BY <1>3 DEF Second!Begin, Second!NoLink
<1>6. acc = none /\ IsStack(none, acc, 0) /\ Len(acc) = 0 /\ nothing \cup Empty = nothing
  BY <1>1, <1>2 DEF Empty
<1> HIDE DEF v, st, acc, none, known, nothing
<1>7. Twin(v, st, Empty, acc) /\ v.active = None
  BY <1>4, <1>5, <1>6 DEF Twin, Fields, SecondFields
<1> QED BY <1>7 DEF v, st, acc
-----------------------------------------------------------------------------
\* From the first row to the last.

\* The second verifier's three folds, unfolded.
WalkedTurn(c, f, i) == IF i = 0 THEN Second!Begin(c[2].trust) ELSE Second!Line(f[i - 1], c[1], i - 1, c[2])

WalkedRec == INSTANCE Recursion WITH Turn <- WalkedTurn

FixedTurn(c, f, i) == IF i = 0 THEN c[1] ELSE Second!Anchor(f[i - 1], c[3].anchors[i], c[2], c[3].trust)

FixedRec == INSTANCE Recursion WITH Turn <- FixedTurn

DoneTurn(c, f, i) ==
  IF i = 0 THEN Second!Count(c[1], c[2], c[3].expected) ELSE Second!Contents(f[i - 1], c[2][i], i - 1, c[3])

DoneRec == INSTANCE Recursion WITH Turn <- DoneTurn

LEMMA SecondUnfolds ==
  ASSUME NEW xs, NEW given, Len(xs) \in Nat, Len(given.anchors) \in Nat, Len(xs) # 0
  PROVE  \E walked, fixed, done :
           /\ walked[0] = Second!Begin(given.trust)
           /\ \A i \in 1 .. Len(xs) : walked[i] = Second!Line(walked[i - 1], xs, i - 1, given)
           /\ fixed[0] = walked[Len(xs)]
           /\ \A i \in 1 .. Len(given.anchors) :
                fixed[i] = Second!Anchor(fixed[i - 1], given.anchors[i], xs, given.trust)
           /\ done[0] = Second!Count(fixed[Len(given.anchors)], xs, given.expected)
           /\ \A i \in 1 .. Len(xs) : done[i] = Second!Contents(done[i - 1], xs[i], i - 1, given)
           /\ Second!verify(xs, given) = done[Len(xs)].findings
<1> DEFINE n == Len(xs)
           m == Len(given.anchors)
           walked == CHOOSE f : f = [i \in 0 .. n |->
                       IF i = 0 THEN Second!Begin(given.trust) ELSE Second!Line(f[i - 1], xs, i - 1, given)]
           fixed == CHOOSE f : f = [i \in 0 .. m |->
                      IF i = 0 THEN walked[n] ELSE Second!Anchor(f[i - 1], given.anchors[i], xs, given.trust)]
           done == CHOOSE f : f = [i \in 0 .. n |->
                     IF i = 0 THEN Second!Count(fixed[m], xs, given.expected)
                     ELSE Second!Contents(f[i - 1], xs[i], i - 1, given)]
           turn1(f, i) == IF i = 0 THEN Second!Begin(given.trust) ELSE Second!Line(f[i - 1], xs, i - 1, given)
           turn2(f, i) == IF i = 0 THEN walked[n] ELSE Second!Anchor(f[i - 1], given.anchors[i], xs, given.trust)
           turn3(f, i) == IF i = 0 THEN Second!Count(fixed[m], xs, given.expected)
                          ELSE Second!Contents(f[i - 1], xs[i], i - 1, given)
<1>1. Second!verify(xs, given) = done[n].findings
  BY DEF Second!verify
<1>2. \E f : f = [i \in 0 .. n |-> turn1(f, i)]
  <2> DEFINE c == <<xs, given>>
  <2>1. WalkedRec!Local(c, Nat)
    <3> HIDE DEF c
    <3> QED BY DEF WalkedRec!Local, WalkedTurn
  <2>2. \E f : WalkedRec!Solves(f, c, 0 .. n)
    <3> HIDE DEF n, c
    <3> QED BY <2>1, WalkedRec!Prefixes DEF n
  <2>3. \A f, i : WalkedTurn(c, f, i) = turn1(f, i)
    <3>1. c[1] = xs /\ c[2] = given
      OBVIOUS
    <3> HIDE DEF c
    <3> QED BY <3>1, Zenon DEF WalkedTurn
  <2> HIDE DEF turn1, n, c
  <2> QED BY <2>2, <2>3 DEF WalkedRec!Solves
<1>3. \E f : f = [i \in 0 .. m |-> turn2(f, i)]
  <2> DEFINE c == <<walked[n], xs, given>>
             first == walked[n]
  <2>1. FixedRec!Local(c, Nat)
    <3> HIDE DEF c
    <3> QED BY DEF FixedRec!Local, FixedTurn
  <2>2. \E f : FixedRec!Solves(f, c, 0 .. m)
    <3> HIDE DEF m, c
    <3> QED BY <2>1, FixedRec!Prefixes DEF m
  <2>3. \A f, i : FixedTurn(c, f, i) = turn2(f, i)
    <3> HIDE DEF walked
    <3>1. c[1] = walked[n] /\ c[2] = xs /\ c[3] = given
      OBVIOUS
    <3> HIDE DEF c
    <3> QED BY <3>1, Zenon DEF FixedTurn
  <2> HIDE DEF turn2, m, c
  <2> QED BY <2>2, <2>3 DEF FixedRec!Solves
<1>4. \E f : f = [i \in 0 .. n |-> turn3(f, i)]
  <2> DEFINE c == <<fixed[m], xs, given>>
  <2>1. DoneRec!Local(c, Nat)
    <3> HIDE DEF c
    <3> QED BY DEF DoneRec!Local, DoneTurn
  <2>2. \E f : DoneRec!Solves(f, c, 0 .. n)
    <3> HIDE DEF n, c
    <3> QED BY <2>1, DoneRec!Prefixes DEF n
  <2>3. \A f, i : DoneTurn(c, f, i) = turn3(f, i)
    <3> HIDE DEF fixed
    <3>1. c[1] = fixed[m] /\ c[2] = xs /\ c[3] = given
      OBVIOUS
    <3> HIDE DEF c
    <3> QED BY <3>1, Zenon DEF DoneTurn
  <2> HIDE DEF turn3, n, c
  <2> QED BY <2>2, <2>3 DEF DoneRec!Solves
<1>5. walked = [i \in 0 .. n |-> turn1(walked, i)]
  BY <1>2
<1> HIDE DEF walked
<1>6. fixed = [i \in 0 .. m |-> turn2(fixed, i)]
  BY <1>3
<1> HIDE DEF fixed
<1>7. done = [i \in 0 .. n |-> turn3(done, i)]
  BY <1>4
<1> HIDE DEF done
<1>8. n \in Nat /\ m \in Nat
  OBVIOUS
<1>9. /\ 0 \in 0 .. n /\ 0 \in 0 .. m
      /\ (\A i \in 1 .. n : i \in 0 .. n /\ i # 0) /\ (\A i \in 1 .. m : i \in 0 .. m /\ i # 0)
  <2> HIDE DEF n, m
  <2> QED BY <1>8
<1>10. \A i \in 0 .. n : walked[i] = turn1(walked, i)
  <2> HIDE DEF turn1, n
  <2> QED BY <1>5
<1>11. \A i \in 0 .. m : fixed[i] = turn2(fixed, i)
  <2> HIDE DEF turn2, m
  <2> QED BY <1>6
<1>12. \A i \in 0 .. n : done[i] = turn3(done, i)
  <2> HIDE DEF turn3, n
  <2> QED BY <1>7
<1>13. walked[0] = Second!Begin(given.trust)
       /\ \A i \in 1 .. n : walked[i] = Second!Line(walked[i - 1], xs, i - 1, given)
  <2> HIDE DEF n
  <2> QED BY <1>9, <1>10
<1>14. fixed[0] = walked[n]
       /\ \A i \in 1 .. m : fixed[i] = Second!Anchor(fixed[i - 1], given.anchors[i], xs, given.trust)
  <2> HIDE DEF n, m
  <2> QED BY <1>9, <1>11
<1>15. done[0] = Second!Count(fixed[m], xs, given.expected)
       /\ \A i \in 1 .. n : done[i] = Second!Contents(done[i - 1], xs[i], i - 1, given)
  <2> HIDE DEF n, m
  <2> QED BY <1>9, <1>12
<1> QED BY <1>1, <1>13, <1>14, <1>15

LEMMA TwinWalk ==
  ASSUME NEW rs, NEW xs, Readable(rs), Copied(xs, rs), ColumnsFit(rs), NEW given, NEW walked,
         walked[0] = Second!Begin(given.trust),
         \A i \in 1 .. Len(xs) : walked[i] = Second!Line(walked[i - 1], xs, i - 1, given)
  PROVE  Twin(Walk(rs, given), walked[Len(rs)], Empty, LeavesTo(rs, Len(rs)))
<1>1. Len(rs) \in Nat /\ Len(xs) = Len(rs)
  BY DEF Readable, IsSeq, Copied
<1>2. PICK after : /\ after[0] = Start(given)
                   /\ \A n \in 1 .. Len(rs) : after[n] = Step(after[n - 1], rs, n - 1, given)
                   /\ Walk(rs, given) = after[Len(rs)]
  BY <1>1, WalkUnfolds
<1> DEFINE Met(n) == Twin(after[n], walked[n], Empty, LeavesTo(rs, n)) /\ (n = 0 => after[n].active = None)
           J == {n \in Nat : n <= Len(rs) => Met(n)}
<1>3. 0 \in J
  BY <1>2, TwinStart
<1>4. ASSUME NEW n \in Nat, n \in J PROVE n + 1 \in J
  <2> SUFFICES ASSUME n + 1 <= Len(rs) PROVE Met(n + 1)
    OBVIOUS
  <2>1. n + 1 \in 1 .. Len(rs) /\ (n + 1) - 1 = n /\ n \in 0 .. Len(rs) - 1 /\ n <= Len(rs)
    BY <1>1
  <2>2. after[n + 1] = Step(after[n], rs, n, given)
    BY <1>2, <2>1
  <2>3. walked[n + 1] = Second!Line(walked[n], xs, n, given)
    BY <1>1, <2>1
  <2>4. Twin(after[n], walked[n], Empty, LeavesTo(rs, n)) /\ (n = 0 => after[n].active = None)
    BY <1>4, <2>1
  <2>5. Twin(Step(after[n], rs, n, given), Second!Line(walked[n], xs, n, given), Empty, LeavesTo(rs, n + 1))
    BY <2>1, <2>4, TwinStep
  <2> QED BY <2>2, <2>3, <2>5
<1>5. \A n \in Nat : n \in J
  <2>1. \A n \in Nat : n \in J => n + 1 \in J
    BY <1>4
  <2> HIDE DEF J
  <2> QED BY <1>3, <2>1, Induct
<1> QED BY <1>1, <1>2, <1>5
-----------------------------------------------------------------------------
\* Anchors, the expected count and the sealed payloads.

\* An anchor as it is exported: a file states what its checkpoint says.
Stating(a) ==
  /\ a.size \in Nat
  /\ a.kind = "logbook" \/ (a.kind = "file" /\ a.cp.body = [size |-> a.size, root |-> a.root])

LEMMA LeavesToPrefix ==
  ASSUME NEW rs, NEW n \in Nat, NEW size \in 0 .. n
  PROVE  SubSeq(LeavesTo(rs, n), 1, size) = LeavesTo(rs, size)
<1> DEFINE a == LeavesTo(rs, n)
           S == {LeafOf(rs[i]) : i \in 1 .. n}
           b == SubSeq(a, 1, size)
           c == LeavesTo(rs, size)
<1>1. a \in [1 .. n -> S] /\ \A i \in 1 .. n : a[i] = LeafOf(rs[i])
  BY DEF LeavesTo
<1>2. DOMAIN c = 1 .. size /\ c = [i \in 1 .. size |-> LeafOf(rs[i])]
  BY DEF LeavesTo
<1> HIDE DEF a, S, c
<1>3. a \in Seq(S) /\ Len(a) = n
  <2>1. a \in Seq(S) /\ DOMAIN a = 1 .. n
    BY <1>1
  <2> QED BY <2>1
<1>4. b \in Seq(S) /\ Len(b) = size /\ \A i \in 1 .. size : b[i] = a[i]
  <2>1. 1 \in 1 .. n + 1 /\ size \in 1 - 1 .. n
    OBVIOUS
  <2>2. Len(b) = size /\ \A i \in 1 .. size : b[i] = a[1 + i - 1]
    BY <1>3, <2>1, SubSeqProperties
  <2>3. b \in Seq(S)
    BY <1>3, <2>1, SubSeqProperties
  <2> QED BY <2>2, <2>3
<1> HIDE DEF b
<1>5. b = [i \in 1 .. size |-> b[i]] /\ \A i \in 1 .. size : b[i] = LeafOf(rs[i])
  BY <1>1, <1>4
<1>6. b = c
  BY <1>2, <1>5
<1> QED BY <1>6 DEF a, b, c

LEMMA TwinAnchor ==
  ASSUME NEW rs, NEW xs, Readable(rs), Copied(xs, rs), NEW v, NEW st,
         Twin(v, st, Empty, LeavesTo(rs, Len(rs))), NEW a, Stating(a), NEW given
  PROVE  Twin(CheckAnchor(v, a, rs, given), Second!Anchor(st, a, xs, given.trust), Empty, LeavesTo(rs, Len(rs)))
<1> DEFINE n == Len(rs)
           acc == LeavesTo(rs, n)
           trust == given.trust
           valid == AnchorValid(a, trust, v.rotatedIn)
           size == a.size
           end  == a.size + 1
           short == n < Covered(a)
           other == a.root # RootOf(Accumulate([i \in 1 .. a.size |-> LeafOf(rs[i])]))
           forged == a.kind = "file" /\ Bytes(rs[a.size + 1]) # Bytes(a.cp)
           invalid == "anchor_invalid"
           medium == "medium"
           cut == "tail_truncation"
           high == "high"
           fork == "ledger_fork"
           critical == "critical"
           tainted(k) == v.taint # 0 /\ v.findings[v.taint].position < k
           forks1(k) == IF tainted(k) THEN Cascade(v, v.taint) ELSE Note(v, fork, n, critical)
           forks2(k) == IF tainted(k) THEN Second!fold(st, v.taint) ELSE Second!Aside(st, fork, n, critical)
<1>1. n \in Nat /\ Len(xs) = n /\ size \in Nat
  BY DEF Readable, IsSeq, Copied, Stating
<1>2. st.acc = acc /\ st.taint = v.taint /\ st.findings = v.findings /\ st.rotatedIn = v.rotatedIn
  BY DEF Twin
<1>3. a.kind # "logbook" => a.kind = "file" /\ a.cp.body.size = size /\ a.cp.body.root = a.root
                            /\ a.cp.body = [size |-> size, root |-> a.root]
  BY DEF Stating
<1>4. Second!check_anchor(a, trust, st.rotatedIn) <=> valid
  <2>1. CASE a.kind = "logbook"
    BY <2>1 DEF AnchorValid, Second!check_anchor
  <2>2. CASE a.kind # "logbook"
    <3> HIDE DEF size
    <3> QED BY <1>2, <1>3, <2>2 DEF AnchorValid, Second!check_anchor, Second!ed_verify, SignedBy, Second!line, Bytes, size
  <2> QED BY <2>1, <2>2
<1> DEFINE size2 == IF a.kind = "logbook" THEN a.size ELSE a.cp.body.size
           root2 == IF a.kind = "logbook" THEN a.root ELSE a.cp.body.root
           covered == IF a.kind = "logbook" THEN size2 ELSE size2 + 1
<1>5. size2 = size /\ root2 = a.root /\ covered = Covered(a)
  BY <1>3 DEF Covered
<1>6. CheckAnchor(v, a, rs, given) =
        IF ~valid THEN Note(v, invalid, n, medium)
        ELSE IF short THEN Note(v, cut, n, high)
        ELSE IF other THEN forks1(size)
        ELSE IF forged THEN forks1(end)
        ELSE v
  BY DEF CheckAnchor, TaintedBefore
<1> DEFINE other2 == Second!MTH(SubSeq(st.acc, 1, size2)) # root2
           forged2 == a.kind = "file" /\ Second!line(xs[size2 + 1]) # Second!line(a.cp)
           short2 == n < covered
           valid2 == Second!check_anchor(a, trust, st.rotatedIn)
           forked(limit) == IF st.taint # 0 /\ st.findings[st.taint].position < limit THEN Second!fold(st, st.taint)
                            ELSE Second!Aside(st, fork, n, critical)
<1>7. Second!Anchor(st, a, xs, trust) =
        IF ~valid2 THEN Second!Aside(st, invalid, n, medium)
        ELSE IF short2 THEN Second!Aside(st, cut, n, high)
        ELSE IF other2 THEN forked(size2)
        ELSE IF forged2 THEN forked(size2 + 1)
        ELSE st
  BY <1>1 DEF Second!Anchor
<1>8. forked(size2) = forks2(size) /\ forked(size2 + 1) = forks2(end)
  <2> HIDE DEF size2
  <2> QED BY <1>2, <1>5
<1>9. short2 <=> short
  <2> HIDE DEF covered
  <2> QED BY <1>5
<1>10. ~short => (other2 <=> other)
  <2> SUFFICES ASSUME ~short PROVE other2 <=> other
    OBVIOUS
  <2>1. size \in 0 .. n
    BY <1>1, <1>3 DEF Covered
  <2> HIDE DEF size2, root2, acc, n
  <2>2. SubSeq(st.acc, 1, size2) = LeavesTo(rs, size)
    <3>1. SubSeq(acc, 1, size) = LeavesTo(rs, size)
      BY <1>1, <2>1, LeavesToPrefix DEF acc
    <3> QED BY <1>2, <1>5, <3>1
  <2>3. Len(LeavesTo(rs, size)) \in Nat
    BY <1>1, LeavesToNext
  <2>4. RootOf(Accumulate(LeavesTo(rs, size))) = MTH(LeavesTo(rs, size))
    BY <2>3, AccumulatedRoot
  <2>5. LeavesTo(rs, size) = [i \in 1 .. a.size |-> LeafOf(rs[i])]
    BY DEF LeavesTo
  <2>6. Second!MTH(SubSeq(st.acc, 1, size2)) = RootOf(Accumulate([i \in 1 .. a.size |-> LeafOf(rs[i])]))
    BY <2>2, <2>4, <2>5, SameTree
  <2> QED BY <1>5, <2>6
<1>11. ~short => (forged2 <=> forged)
  <2> SUFFICES ASSUME ~short, a.kind = "file" PROVE forged2 <=> forged
    OBVIOUS
  <2>1. size + 1 \in 1 .. n
    BY <1>1 DEF Covered
  <2>2. ButColumns(xs[size + 1], rs[size + 1])
    BY <2>1 DEF Copied
  <2>3. Second!line(xs[size + 1]) = Bytes(rs[size + 1]) /\ Second!line(a.cp) = Bytes(a.cp)
    BY <2>2 DEF Second!line, Bytes, ButColumns
  <2> HIDE DEF size2
  <2> QED BY <1>5, <2>3
<1>12. \A k : Twin(forks1(k), forks2(k), Empty, acc)
  <2> SUFFICES ASSUME NEW k PROVE Twin(forks1(k), forks2(k), Empty, acc)
    OBVIOUS
  <2> HIDE DEF fork, critical, n, acc, tainted
  <2>1. Twin(v, st, Empty, acc)
    BY DEF acc, n
  <2>2. Twin(Cascade(v, v.taint), Second!fold(st, v.taint), Empty, acc)
    BY <2>1, TwinCascade
  <2>3. Twin(Note(v, fork, n, critical), Second!Aside(st, fork, n, critical), Empty, acc)
    BY <2>1, TwinNote
  <2> QED BY <2>2, <2>3
<1>13. Twin(Note(v, invalid, n, medium), Second!Aside(st, invalid, n, medium), Empty, acc)
       /\ Twin(Note(v, cut, n, high), Second!Aside(st, cut, n, high), Empty, acc)
       /\ Twin(v, st, Empty, acc)
  <2> HIDE DEF invalid, medium, cut, high, n, acc
  <2>1. Twin(v, st, Empty, acc)
    BY DEF acc, n
  <2> QED BY <2>1, TwinNote
<1>14. valid2 <=> valid
  BY <1>4
<1> HIDE DEF valid, valid2, short, short2, other, other2, forged, forged2, forks1, forks2, forked, size, size2, end,
             invalid, medium, cut, high, n, acc
<1> QED BY <1>6, <1>7, <1>8, <1>9, <1>10, <1>11, <1>12, <1>13, <1>14 DEF n, acc, trust

LEMMA SameCount == \A T : Second!Cardinality(T) = Cardinality(T)
BY DEF Second!Cardinality, Cardinality

LEMMA TwinCount ==
  ASSUME NEW rs, NEW xs, Readable(rs), Copied(xs, rs), IsSeq(xs), NEW v, NEW st, NEW S, NEW acc, Twin(v, st, S, acc),
         NEW expected, expected = <<>> \/ \E x : expected = <<x>>
  PROVE  Twin(CheckCount(v, rs, expected), Second!Count(st, xs, expected), S, acc)
<1> DEFINE n == Len(rs)
           one == {i \in DOMAIN rs : rs[i].form = "ok" /\ rs[i].type = "inference"}
           two == {i \in DOMAIN xs : xs[i].form = "ok" /\ xs[i].type = "inference"}
           got == Cardinality(one)
           class == "ledger_incomplete"
           high == "high"
<1>1. DOMAIN rs = 1 .. n /\ DOMAIN xs = 1 .. n /\ Len(xs) = n
  BY DEF Readable, IsSeq, Copied
<1>2. two = one
  BY <1>1 DEF Copied, ButColumns
<1>3. (expected \in {<<>>, <<got>>}) <=> ~ (expected # <<>> /\ expected[1] # got)
  <2> HIDE DEF got
  <2>1. CASE expected = <<>>
    BY <2>1
  <2>2. CASE \E x : expected = <<x>>
    <3>1. PICK x : expected = <<x>>
      BY <2>2
    <3> QED BY <3>1
  <2> QED BY <2>1, <2>2
<1> DEFINE fits == expected \in {<<>>, <<got>>}
<1>4. CheckCount(v, rs, expected) = IF fits THEN v ELSE Note(v, class, n, high)
  BY DEF CheckCount
<1>5. Second!Count(st, xs, expected) = IF fits THEN st ELSE Second!Aside(st, class, n, high)
  <2>1. Second!Count(st, xs, expected) =
          IF expected # <<>> /\ expected[1] # Second!Cardinality(two) THEN Second!Aside(st, class, Len(xs), high) ELSE st
    BY DEF Second!Count
  <2> HIDE DEF two, one, class, high
  <2>2. Second!Cardinality(two) = got
    BY <1>2, SameCount
  <2> HIDE DEF got
  <2> QED BY <1>1, <1>3, <2>1, <2>2
<1> HIDE DEF fits, class, high, n
<1> QED BY <1>4, <1>5, TwinNote

LEMMA TwinInference ==
  ASSUME NEW rs, NEW p, NEW x, ButColumns(x, rs[p + 1]), NEW v, NEW st, NEW acc, Twin(v, st, Empty, acc), NEW given
  PROVE  Twin(CheckInference(v, rs, p, given), Second!Contents(st, x, p, given), Empty, acc)
<1> DEFINE row == rs[p + 1]
           out == row.body.output
           inputs == given.inputs
           payloads == given.payloads
           read == p \in v.sealedOk /\ row.type = "inference"
           swapped == row.body.input \in DOMAIN inputs /\ inputs[row.body.input] # row.body.input
           bad(a) == a \in DOMAIN payloads /\ payloads[a] # a
           refs == out.ref # out.decision
           stale == bad(out.decision)
           raws == out.raw # out.decision /\ bad(out.raw)
           swap == "input_swap"
           critical == "critical"
           class == "output_payload_mismatch"
           high == "high"
           v1 == IF swapped THEN Note(v, swap, p, critical) ELSE v
           s1 == IF swapped THEN Second!Aside(st, swap, p, critical) ELSE st
           v2 == IF refs THEN Note(v1, class, p, high) ELSE v1
           s2 == IF refs THEN Second!Aside(s1, class, p, high) ELSE s1
           v3 == IF stale THEN Note(v2, class, p, high) ELSE v2
           s3 == IF stale THEN Second!Aside(s2, class, p, high) ELSE s2
           v4 == IF raws THEN Note(v3, class, p, high) ELSE v3
           s4 == IF raws THEN Second!Aside(s3, class, p, high) ELSE s3
<1>1. CheckInference(v, rs, p, given) = IF read THEN v4 ELSE v
  <2>1. CheckInput(v, row, p, inputs) = v1
    BY DEF CheckInput
  <2>2. CheckPayloads(v1, row, p, payloads) = v4
    <3> HIDE DEF v1
    <3> QED BY DEF CheckPayloads
  <2>3. CheckInference(v, rs, p, given) =
          IF read THEN CheckPayloads(CheckInput(v, row, p, inputs), row, p, payloads) ELSE v
    BY DEF CheckInference
  <2> HIDE DEF v1, v4, read, row
  <2> QED BY <2>1, <2>2, <2>3
<1>2. Second!Contents(st, x, p, given) = IF read THEN s4 ELSE st
  <2>1. x.body = row.body /\ x.type = row.type
    BY DEF ButColumns
  <2>2. st.signed = v.sealedOk
    BY DEF Twin, Empty
  <2>3. Second!Payloads(st, x, p, given) = s4
    <3> HIDE DEF row
    <3> QED BY <2>1 DEF Second!Payloads
  <2> HIDE DEF s4, row
  <2> QED BY <2>1, <2>2, <2>3 DEF Second!Contents
<1> HIDE DEF read, swapped, refs, stale, raws, swap, critical, class, high
<1>3. Twin(v1, s1, Empty, acc)
  BY TwinNote
<1> HIDE DEF v1, s1
<1>4. Twin(v2, s2, Empty, acc)
  BY <1>3, TwinNote
<1> HIDE DEF v2, s2
<1>5. Twin(v3, s3, Empty, acc)
  BY <1>4, TwinNote
<1> HIDE DEF v3, s3
<1>6. Twin(v4, s4, Empty, acc)
  BY <1>5, TwinNote
<1> HIDE DEF v4, s4
<1> QED BY <1>1, <1>2, <1>6

\* What either verifier is given.
Stated(given) ==
  /\ Len(given.anchors) \in Nat
  /\ \A i \in 1 .. Len(given.anchors) : Stating(given.anchors[i])
  /\ given.expected = <<>> \/ \E x : given.expected = <<x>>

\* Of any rows that can be read and that hold their own columns, whatever else
\* they are given, the two verifiers make the same findings in the same order, with
\* the same consequences folded (verify.py, spec/independent_verifier.py).
THEOREM SameFindings ==
  ASSUME NEW rs, Readable(rs), ColumnsFit(rs), NEW given, Stated(given)
  PROVE  Second!verify(Exported(rs), given) = Verified(rs, given).findings
<1> DEFINE xs == Exported(rs)
           n == Len(rs)
           m == Len(given.anchors)
           acc == LeavesTo(rs, n)
<1>1. IsSeq(xs) /\ Copied(xs, rs)
  BY ExportedCopies
<1> HIDE DEF xs
<1>2. n \in Nat /\ Len(xs) = n /\ IsSeq(rs) /\ m \in Nat
  BY <1>1 DEF Readable, IsSeq, Copied, Stated
<1>3. CASE n = 0
  <2> DEFINE class == "genesis_mismatch"
             high == "high"
             zero == 0
  <2>1. rs = <<>>
    BY <1>2, <1>3, OnlyEmpty
  <2>2. Verified(rs, given) = Note(Start(given), class, zero, high)
    BY <2>1 DEF Verified
  <2>3. Second!verify(xs, given) = Second!Aside(Second!Begin(given.trust), class, zero, high).findings
    BY <1>2, <1>3 DEF Second!verify
  <2> HIDE DEF class, high, zero
  <2>4. Twin(Note(Start(given), class, zero, high), Second!Aside(Second!Begin(given.trust), class, zero, high),
             Empty, LeavesTo(rs, 0))
    BY TwinStart, TwinNote
  <2>5. Second!Aside(Second!Begin(given.trust), class, zero, high).findings
          = Note(Start(given), class, zero, high).findings
    BY <2>4 DEF Twin
  <2> QED BY <2>2, <2>3, <2>5 DEF xs
<1>4. CASE n # 0
  <2>1. PICK walked, fixed, done :
           /\ walked[0] = Second!Begin(given.trust)
           /\ \A i \in 1 .. Len(xs) : walked[i] = Second!Line(walked[i - 1], xs, i - 1, given)
           /\ fixed[0] = walked[Len(xs)]
           /\ \A i \in 1 .. Len(given.anchors) :
                fixed[i] = Second!Anchor(fixed[i - 1], given.anchors[i], xs, given.trust)
           /\ done[0] = Second!Count(fixed[Len(given.anchors)], xs, given.expected)
           /\ \A i \in 1 .. Len(xs) : done[i] = Second!Contents(done[i - 1], xs[i], i - 1, given)
           /\ Second!verify(xs, given) = done[Len(xs)].findings
    BY <1>2, <1>4, SecondUnfolds
  <2> DEFINE w == Walk(rs, given)
             a == CheckAnchors(w, rs, given)
             e == CheckCount(a, rs, given.expected)
  <2>2. Twin(w, walked[n], Empty, acc)
    BY <1>1, <2>1, TwinWalk
  <2> HIDE DEF w
  <2>3. PICK anchored : /\ anchored[0] = w
                        /\ \A i \in 1 .. m : anchored[i] = CheckAnchor(anchored[i - 1], given.anchors[i], rs, given)
                        /\ a = anchored[m]
    BY <1>2, AnchorsUnfold
  <2> DEFINE J == {i \in Nat : i <= m => Twin(anchored[i], fixed[i], Empty, acc)}
  <2>4. 0 \in J
    BY <1>2, <2>1, <2>2, <2>3
  <2>5. ASSUME NEW i \in Nat, i \in J PROVE i + 1 \in J
    <3> SUFFICES ASSUME i + 1 <= m PROVE Twin(anchored[i + 1], fixed[i + 1], Empty, acc)
      OBVIOUS
    <3>1. i + 1 \in 1 .. m /\ (i + 1) - 1 = i /\ i <= m
      BY <1>2
    <3>2. anchored[i + 1] = CheckAnchor(anchored[i], given.anchors[i + 1], rs, given)
      BY <2>3, <3>1
    <3>3. fixed[i + 1] = Second!Anchor(fixed[i], given.anchors[i + 1], xs, given.trust)
      BY <2>1, <3>1
    <3>4. Twin(anchored[i], fixed[i], Empty, acc)
      BY <2>5, <3>1
    <3>5. Stating(given.anchors[i + 1])
      BY <3>1 DEF Stated
    <3>6. Twin(CheckAnchor(anchored[i], given.anchors[i + 1], rs, given),
               Second!Anchor(fixed[i], given.anchors[i + 1], xs, given.trust), Empty, acc)
      BY <1>1, <3>4, <3>5, TwinAnchor
    <3> QED BY <3>2, <3>3, <3>6
  <2>6. \A i \in Nat : i \in J
    <3>1. \A i \in Nat : i \in J => i + 1 \in J
      BY <2>5
    <3> HIDE DEF J
    <3> QED BY <2>4, <3>1, Induct
  <2>7. Twin(a, fixed[m], Empty, acc)
    BY <1>2, <2>3, <2>6
  <2> HIDE DEF a, J
  <2>8. Twin(e, done[0], Empty, acc)
    <3>1. given.expected = <<>> \/ \E x : given.expected = <<x>>
      BY DEF Stated
    <3> DEFINE expected == given.expected
    <3> HIDE DEF expected, acc
    <3>2. Twin(CheckCount(a, rs, expected), Second!Count(fixed[m], xs, expected), Empty, acc)
      BY <1>1, <2>7, <3>1, TwinCount DEF expected
    <3> QED BY <2>1, <3>2 DEF expected
  <2>9. PICK after : /\ after[0] = e
                     /\ \A i \in 1 .. n : after[i] = CheckInference(after[i - 1], rs, i - 1, given)
                     /\ Finish(w, rs, given) = after[n]
    BY <1>2, FinishUnfolds DEF a
  <2> HIDE DEF e
  <2> DEFINE K == {i \in Nat : i <= n => Twin(after[i], done[i], Empty, acc)}
  <2>10. 0 \in K
    BY <1>2, <2>8, <2>9
  <2>11. ASSUME NEW i \in Nat, i \in K PROVE i + 1 \in K
    <3> SUFFICES ASSUME i + 1 <= n PROVE Twin(after[i + 1], done[i + 1], Empty, acc)
      OBVIOUS
    <3>1. i + 1 \in 1 .. n /\ (i + 1) - 1 = i /\ i <= n
      BY <1>2
    <3>2. after[i + 1] = CheckInference(after[i], rs, i, given)
      BY <2>9, <3>1
    <3>3. done[i + 1] = Second!Contents(done[i], xs[i + 1], i, given)
      BY <1>2, <2>1, <3>1
    <3>4. Twin(after[i], done[i], Empty, acc)
      BY <2>11, <3>1
    <3>5. ButColumns(xs[i + 1], rs[i + 1])
      BY <1>1, <3>1 DEF Copied
    <3>6. Twin(CheckInference(after[i], rs, i, given), Second!Contents(done[i], xs[i + 1], i, given), Empty, acc)
      BY <3>4, <3>5, TwinInference
    <3> QED BY <3>2, <3>3, <3>6
  <2>12. \A i \in Nat : i \in K
    <3>1. \A i \in Nat : i \in K => i + 1 \in K
      BY <2>11
    <3> HIDE DEF K
    <3> QED BY <2>10, <3>1, Induct
  <2>13. Twin(after[n], done[n], Empty, acc)
    BY <1>2, <2>12
  <2>14. rs # <<>>
    BY <1>4, NoRowsSeq
  <2>15. Verified(rs, given) = after[n]
    BY <2>9, <2>14 DEF Verified, w
  <2>16. done[n].findings = after[n].findings
    BY <2>13 DEF Twin
  <2> QED BY <1>2, <2>1, <2>15, <2>16 DEF xs
<1> QED BY <1>3, <1>4

-----------------------------------------------------------------------------
\* Findings once made.

\* What was found stays found: a later check adds findings, or counts one more
\* consequence of an earlier one.
FindingFields == {"class", "position", "severity", "folded"}

Listed(v) ==
  /\ DOMAIN v = Fields /\ v.shift \in Int /\ v.shiftBefore \in Int /\ IsSeq(v.findings)
  /\ \A i \in 1 .. Len(v.findings) : DOMAIN v.findings[i] = FindingFields

Grows(v, w) ==
  /\ Listed(w) /\ Len(v.findings) <= Len(w.findings)
  /\ \A i \in 1 .. Len(v.findings) : /\ w.findings[i].class = v.findings[i].class
                                     /\ w.findings[i].severity = v.findings[i].severity

LEMMA GrowsItself ==
  ASSUME NEW v, Listed(v)
  PROVE  Grows(v, v)
BY AppendSeq DEF Grows, Listed

LEMMA GrowsAlong ==
  ASSUME NEW v, NEW w, NEW x, Listed(v), Grows(v, w), Grows(w, x)
  PROVE  Grows(v, x)
<1>1. Len(v.findings) \in Nat /\ Len(w.findings) \in Nat /\ Len(x.findings) \in Nat
  BY AppendSeq DEF Grows, Listed
<1>2. \A i \in 1 .. Len(v.findings) : i \in 1 .. Len(w.findings)
  BY <1>1 DEF Grows
<1> QED BY <1>1, <1>2 DEF Grows

\* Nothing else of the verifier matters here.
LEMMA GrowsWith ==
  ASSUME NEW v, NEW x, NEW w, Grows(v, x), DOMAIN w = Fields, w.findings = x.findings,
         w.shift \in Int, w.shiftBefore \in Int
  PROVE  Grows(v, w)
BY DEF Grows, Listed

LEMMA GrowsNote ==
  ASSUME NEW v, Listed(v), NEW class, NEW p, NEW severity
  PROVE  Grows(v, Note(v, class, p, severity))
<1> DEFINE x == Finding(class, p, severity)
           fs == Append(v.findings, x)
           w == Note(v, class, p, severity)
<1>1. DOMAIN x = FindingFields
  BY DEF Finding, FindingFields
<1>2. w = [v EXCEPT !.findings = fs]
  BY DEF Note, Listed, Fields
<1> HIDE DEF x
<1>3. IsSeq(fs) /\ Len(fs) = Len(v.findings) + 1 /\ fs[Len(v.findings) + 1] = x
      /\ Len(v.findings) \in Nat /\ \A i \in 1 .. Len(v.findings) : fs[i] = v.findings[i]
  BY AppendSeq DEF Listed
<1> HIDE DEF fs, w
<1>4. DOMAIN w = Fields /\ w.findings = fs /\ w.shift = v.shift /\ w.shiftBefore = v.shiftBefore
  BY <1>2 DEF Listed, Fields
<1>5. \A i \in 1 .. Len(fs) : i \in 1 .. Len(v.findings) \/ i = Len(v.findings) + 1
  BY <1>3
<1>6. \A i \in 1 .. Len(fs) : DOMAIN fs[i] = FindingFields
  BY <1>1, <1>3, <1>5 DEF Listed
<1>7. Listed(w)
  BY <1>3, <1>4, <1>6 DEF Listed
<1> QED BY <1>3, <1>4, <1>7 DEF Grows, w

LEMMA GrowsEmit ==
  ASSUME NEW v, Listed(v), NEW class, NEW p
  PROVE  Grows(v, Emit(v, class, p))
<1> DEFINE a == Note(v, class, p, Severity(class))
           f == Len(v.findings) + 1
           tainting == class \in TreeTainting
           w == Emit(v, class, p)
<1>1. Grows(v, a)
  BY GrowsNote
<1>2. w = [a EXCEPT !.last = f, !.lastPos = p, !.taint = IF @ = 0 /\ tainting THEN f ELSE @]
  BY DEF Emit
<1> HIDE DEF a, f, tainting
<1>3. DOMAIN a = Fields
  BY <1>1 DEF Grows, Listed
<1>4. DOMAIN w = Fields /\ w.findings = a.findings /\ w.shift = a.shift /\ w.shiftBefore = a.shiftBefore
  <2> HIDE DEF w
  <2> QED BY <1>2, <1>3 DEF Fields
<1> HIDE DEF w
<1>5. Grows(v, w)
  BY <1>1, <1>4, GrowsWith DEF Grows, Listed
<1> QED BY <1>5 DEF w

LEMMA GrowsCascade ==
  ASSUME NEW v, Listed(v), NEW owner
  PROVE  Grows(v, Cascade(v, owner))
<1> DEFINE fs == [v.findings EXCEPT ![owner].folded = @ + 1]
           w == [v EXCEPT !.findings = fs]
           n == Len(v.findings)
<1>1. Cascade(v, owner) = IF owner = 0 THEN v ELSE w
  BY DEF Cascade, Listed, Fields
<1>2. DOMAIN w = Fields /\ w.findings = fs /\ w.shift = v.shift /\ w.shiftBefore = v.shiftBefore
  <2> HIDE DEF fs
  <2> QED BY DEF Listed, Fields
<1>3. n \in Nat /\ DOMAIN v.findings = 1 .. n
  BY AppendSeq DEF Listed
<1>4. DOMAIN fs = 1 .. n /\ \A i \in 1 .. n : fs[i] = IF i = owner THEN [v.findings[i] EXCEPT !.folded = @ + 1]
                                                      ELSE v.findings[i]
  BY <1>3
<1>5. ASSUME NEW i \in 1 .. n
      PROVE  /\ DOMAIN fs[i] = FindingFields
             /\ fs[i].class = v.findings[i].class /\ fs[i].severity = v.findings[i].severity
  <2> DEFINE x == v.findings[i]
             y == [x EXCEPT !.folded = @ + 1]
  <2>1. DOMAIN x = FindingFields
    BY DEF Listed
  <2>2. fs[i] = y \/ fs[i] = x
    BY <1>4
  <2> HIDE DEF fs, x, n
  <2>3. DOMAIN y = FindingFields /\ y.class = x.class /\ y.severity = x.severity
    BY <2>1 DEF FindingFields
  <2> HIDE DEF y
  <2> QED BY <2>1, <2>2, <2>3 DEF x
<1>6. fs = [i \in 1 .. n |-> fs[i]]
  BY <1>4
<1> HIDE DEF fs
<1>7. IsSeq(fs) /\ Len(fs) = n
  <2> DEFINE S == {fs[i] : i \in DOMAIN fs}
  <2>1. fs \in [1 .. n -> S]
    BY <1>4, <1>6
  <2> HIDE DEF S
  <2>2. fs \in Seq(S) /\ Len(fs) = n
    BY <1>3, <1>4, <2>1
  <2> QED BY <2>2, SeqOfItsOwn
<1> HIDE DEF w
<1>8. Listed(w)
  BY <1>2, <1>5, <1>7 DEF Listed
<1>9. Grows(v, w)
  BY <1>2, <1>3, <1>5, <1>7, <1>8 DEF Grows
<1> QED BY <1>1, <1>9, GrowsItself

-----------------------------------------------------------------------------
\* The first verifier's checks, each of which adds to the findings and takes none
\* away.

Alike(w, x) == DOMAIN w = Fields /\ w.findings = x.findings /\ w.shift = x.shift /\ w.shiftBefore = x.shiftBefore

LEMMA GrowsAlike ==
  ASSUME NEW v, NEW x, NEW w, Grows(v, x), Alike(w, x)
  PROVE  Grows(v, w)
BY DEF Alike, Grows, Listed

LEMMA GrowsColumns ==
  ASSUME NEW v, Listed(v), NEW rs, NEW p
  PROVE  Grows(v, CheckColumns(v, rs, p))
<1> DEFINE class == "derived_column_mismatch"
<1>1. CheckColumns(v, rs, p) = v \/ CheckColumns(v, rs, p) = Emit(v, class, p)
  BY DEF CheckColumns
<1> HIDE DEF class
<1> QED BY <1>1, GrowsItself, GrowsEmit

LEMMA GrowsAhead ==
  ASSUME NEW v, Listed(v), NEW rs, NEW p \in Int, rs[p + 1].seq \in Int
  PROVE  Grows(v, SeqAhead(v, rs, p))
<1> DEFINE seq == rs[p + 1].seq
           missing == p + v.shift .. seq - 1
           late == \A m \in missing : \E q \in At(rs, m) : q > p
           reorder == "record_reorder"
           delete == "record_delete"
           w == Emit(v, reorder, p)
           u == Emit(v, delete, p)
           named == [m \in missing |-> w.last]
           ahead == seq - p
           x == SeqAhead(v, rs, p)
<1>1. x = IF late THEN [w EXCEPT !.shiftBefore = v.shift, !.pending = Over(named, @), !.shift = ahead]
          ELSE [u EXCEPT !.shift = ahead, !.suppressLink = TRUE]
  BY DEF SeqAhead
<1>6. ahead \in Int /\ v.shift \in Int
  BY DEF Listed
<1> HIDE DEF reorder, delete, named, ahead, late
<1>2. Grows(v, w) /\ Grows(v, u)
  BY GrowsEmit
<1> HIDE DEF w, u, x
<1>3. /\ DOMAIN w = Fields /\ w.shift \in Int /\ w.shiftBefore \in Int
      /\ DOMAIN u = Fields /\ u.shift \in Int /\ u.shiftBefore \in Int
  BY <1>2 DEF Grows, Listed
<1>4. /\ DOMAIN x = Fields /\ (x.findings = w.findings \/ x.findings = u.findings)
      /\ x.shift \in Int /\ x.shiftBefore \in Int
  BY <1>1, <1>3, <1>6 DEF Fields
<1>5. Grows(v, x)
  BY <1>2, <1>4, GrowsWith
<1> QED BY <1>5 DEF x

LEMMA GrowsBehind ==
  ASSUME NEW v, Listed(v), NEW rs, NEW p
  PROVE  Grows(v, SeqBehind(v, rs, p))
<1> DEFINE row == rs[p + 1]
           earlier == {q \in At(rs, row.seq) : q < p}
           same    == \E q \in earlier : (\A r \in earlier : q <= r) /\ Bytes(rs[q + 1]) = Bytes(row)
           class   == IF earlier = {} THEN "record_reorder"
                      ELSE IF same THEN "record_replay"
                      ELSE IF v.active \in v.keys /\ SignedBy(row, v.active) THEN "ledger_fork"
                      ELSE "record_reorder"
           a == Emit(v, class, p)
           x == SeqBehind(v, rs, p)
<1>1. x = [a EXCEPT !.copy = same, !.suppressLink = TRUE, !.shift = IF earlier = {} THEN @ ELSE @ - 1]
  BY DEF SeqBehind
<1> HIDE DEF class, same, earlier
<1>2. Grows(v, a)
  BY GrowsEmit
<1> HIDE DEF a, x
<1>3. DOMAIN x = Fields /\ x.findings = a.findings /\ x.shift \in Int /\ x.shiftBefore \in Int
  BY <1>1, <1>2 DEF Fields, Grows, Listed
<1>4. Grows(v, x)
  BY <1>2, <1>3, GrowsWith
<1> QED BY <1>4 DEF x

LEMMA GrowsLate ==
  ASSUME NEW v, Listed(v), NEW row, NEW p
  PROVE  Grows(v, Late(v, row, p))
<1> DEFINE left == [m \in DOMAIN v.pending \ {row.seq} |-> v.pending[m]]
           owner == v.pending[row.seq]
           a == Cascade(v, owner)
           x == Late(v, row, p)
<1>1. x = [a EXCEPT !.pending = left, !.last = owner, !.lastPos = p, !.suppressLink = TRUE,
                    !.shift = IF left = <<>> THEN v.shiftBefore ELSE @]
  BY DEF Late
<1> HIDE DEF left, owner
<1>2. Grows(v, a)
  BY GrowsCascade
<1> HIDE DEF a, x
<1>3. DOMAIN x = Fields /\ x.findings = a.findings /\ x.shift \in Int /\ x.shiftBefore \in Int
  BY <1>1, <1>2 DEF Fields, Grows, Listed
<1>4. Grows(v, x)
  BY <1>2, <1>3, GrowsWith
<1> QED BY <1>4 DEF x

LEMMA GrowsSeq ==
  ASSUME NEW v, Listed(v), NEW rs, NEW p \in Int, rs[p + 1].seq \in Int
  PROVE  Grows(v, CheckSeq(v, rs, p))
<1> DEFINE seq == rs[p + 1].seq
<1>1. \/ CheckSeq(v, rs, p) = v \/ CheckSeq(v, rs, p) = SeqAhead(v, rs, p)
      \/ CheckSeq(v, rs, p) = SeqBehind(v, rs, p) \/ CheckSeq(v, rs, p) = Late(v, rs[p + 1], p)
  <2>1. v.shift \in Int
    BY DEF Listed
  <2> HIDE DEF seq
  <2>2. CASE seq = p + v.shift
    BY <2>2 DEF CheckSeq, seq
  <2>3. CASE seq # p + v.shift /\ seq \in DOMAIN v.pending
    BY <2>3 DEF CheckSeq, Late, seq
  <2>4. CASE seq > p + v.shift /\ seq \notin DOMAIN v.pending
    BY <2>1, <2>4 DEF CheckSeq, seq
  <2>5. CASE seq < p + v.shift /\ seq \notin DOMAIN v.pending
    BY <2>1, <2>5 DEF CheckSeq, seq
  <2>6. seq \in Int
    BY DEF seq
  <2> QED BY <2>1, <2>2, <2>3, <2>4, <2>5, <2>6
<1> QED BY <1>1, GrowsItself, GrowsAhead, GrowsBehind, GrowsLate

LEMMA GrowsFirst ==
  ASSUME NEW v, Listed(v), NEW rs, NEW p
  PROVE  Grows(v, CheckFirst(v, rs, p))
<1> DEFINE class == "genesis_mismatch"
<1>1. CheckFirst(v, rs, p) = v \/ CheckFirst(v, rs, p) = Emit(v, class, p)
  BY DEF CheckFirst
<1> HIDE DEF class
<1> QED BY <1>1, GrowsItself, GrowsEmit

LEMMA GrowsSignature ==
  ASSUME NEW v, Listed(v), NEW row, NEW p
  PROVE  Grows(v, CheckSignature(v, row, p))
<1> DEFINE edit == "record_edit"
           last == v.last
           a == Cascade(v, last)
           b == Emit(v, edit, p)
           signed == [v EXCEPT !.sigOk = TRUE]
           again == [a EXCEPT !.lastPos = p]
           x == CheckSignature(v, row, p)
<1>1. x = signed \/ x = again \/ x = b
  BY DEF CheckSignature
<1> HIDE DEF edit, last
<1>2. Grows(v, a) /\ Grows(v, b) /\ Grows(v, v)
  BY GrowsCascade, GrowsEmit, GrowsItself
<1> HIDE DEF a, b, x
<1>3. Alike(signed, v) /\ Alike(again, a)
  BY <1>2 DEF Alike, Fields, Grows, Listed
<1> HIDE DEF signed, again
<1>4. Grows(v, signed) /\ Grows(v, again)
  BY <1>2, <1>3, GrowsAlike
<1>5. Grows(v, x)
  BY <1>1, <1>2, <1>4
<1> QED BY <1>5 DEF x

LEMMA GrowsTarget ==
  ASSUME NEW v, Listed(v), NEW row
  PROVE  Grows(v, RejectTarget(v, row))
<1> DEFINE rejected == Assign(v.rejected, row.body.new, v.last)
           x == [v EXCEPT !.rejected = rejected]
<1>1. RejectTarget(v, row) = v \/ RejectTarget(v, row) = x
  BY DEF RejectTarget, Listed, Fields
<1> HIDE DEF rejected
<1>2. Alike(x, v)
  BY DEF Alike, Fields, Listed
<1> HIDE DEF x
<1> QED BY <1>1, <1>2, GrowsItself, GrowsAlike

LEMMA GrowsKey ==
  ASSUME NEW v, Listed(v), NEW rs, NEW p, NEW trust
  PROVE  Grows(v, CheckKey(v, rs, p, trust))
<1> DEFINE row == rs[p + 1]
           key == row.key
           first == p = 0 /\ v.active = None
           w == IF first THEN Adopts(v, key) ELSE v
           stranger == "key_unauthorised"
           edit == "record_edit"
           a == Emit(w, stranger, p)
           b == Emit(w, edit, p)
           owner == w.rejected[key]
           c == Cascade(w, owner)
           owned == [c EXCEPT !.last = owner, !.lastPos = p]
           x == CheckKey(v, rs, p, trust)
<1>1. x = a \/ x = owned \/ x = CheckSignature(w, row, p) \/ x = b \/ x = RejectTarget(a, row)
  BY DEF CheckKey, Adopts
<1>2. Grows(v, w)
  <2>1. Alike(Adopts(v, key), v)
    BY DEF Alike, Adopts, Listed, Fields
  <2> QED BY <2>1, GrowsItself, GrowsAlike
<1>3. Listed(w)
  BY <1>2 DEF Grows
<1> HIDE DEF stranger, edit, w, owner
<1>4. Grows(w, a) /\ Grows(w, b) /\ Grows(w, c)
  BY <1>3, GrowsCascade, GrowsEmit
<1> HIDE DEF a, b, c, x
<1>5. Alike(owned, c)
  BY <1>4 DEF Alike, Fields, Grows, Listed
<1> HIDE DEF owned
<1>6. Grows(w, owned)
  BY <1>4, <1>5, GrowsAlike
<1>7. Grows(w, CheckSignature(w, row, p))
  BY <1>3, GrowsSignature
<1>8. Grows(w, RejectTarget(a, row))
  <2>1. Listed(a)
    BY <1>4 DEF Grows
  <2>2. Grows(a, RejectTarget(a, row))
    BY <2>1, GrowsTarget
  <2> QED BY <1>3, <1>4, <2>2, GrowsAlong
<1>9. Grows(w, x)
  BY <1>1, <1>4, <1>6, <1>7, <1>8
<1>10. Grows(v, x)
  BY <1>2, <1>9, GrowsAlong
<1> QED BY <1>10 DEF x

LEMMA GrowsLink ==
  ASSUME NEW v, Listed(v), NEW rs, NEW p, NEW trust
  PROVE  Grows(v, CheckLink(v, rs, p, trust))
<1> DEFINE genesis == "genesis_mismatch"
           broken == "chain_broken"
           last == v.last
           x == CheckLink(v, rs, p, trust)
<1>1. x = v \/ x = Emit(v, genesis, p) \/ x = Cascade(v, last) \/ x = Emit(v, broken, p)
  BY DEF CheckLink
<1> HIDE DEF genesis, broken, last, x
<1>2. Grows(v, x)
  BY <1>1, GrowsItself, GrowsEmit, GrowsCascade
<1> QED BY <1>2 DEF x

LEMMA GrowsNonce ==
  ASSUME NEW v, Listed(v), NEW row, NEW p
  PROVE  Grows(v, CheckNonce(v, row, p))
<1> DEFINE class == "nonce_reuse"
           again == row.nonce \in v.nonces /\ ~v.copy
           w == IF again THEN Emit(v, class, p) ELSE v
           x == CheckNonce(v, row, p)
<1>1. x = [w EXCEPT !.nonces = @ \cup {row.nonce}, !.sealedOk = @ \cup {p}]
  BY DEF CheckNonce
<1> HIDE DEF class, again
<1>2. Grows(v, w)
  BY GrowsEmit, GrowsItself
<1> HIDE DEF w, x
<1>3. Alike(x, w)
  BY <1>1, <1>2 DEF Alike, Fields, Grows, Listed
<1>4. Grows(v, x)
  BY <1>2, <1>3, GrowsAlike
<1> QED BY <1>4 DEF x

LEMMA GrowsCheckpoint ==
  ASSUME NEW v, Listed(v), NEW row, NEW p
  PROVE  Grows(v, CheckCheckpoint(v, row, p))
<1> DEFINE class == "checkpoint_mismatch"
           taint == v.taint
           known == Assign(v.checkpoints, row.seq, row.body)
           w == [v EXCEPT !.checkpoints = known]
           x == CheckCheckpoint(v, row, p)
<1>1. x = w \/ x = Cascade(v, taint) \/ x = Emit(v, class, p)
  BY DEF CheckCheckpoint, Listed, Fields
<1> HIDE DEF class, taint, known, x
<1>2. Alike(w, v)
  BY DEF Alike, Listed, Fields
<1> HIDE DEF w
<1>3. Grows(v, x)
  BY <1>1, <1>2, GrowsItself, GrowsAlike, GrowsEmit, GrowsCascade
<1> QED BY <1>3 DEF x

LEMMA GrowsAnchorEvent ==
  ASSUME NEW v, Listed(v), NEW row, NEW p
  PROVE  Grows(v, CheckAnchorEvent(v, row, p))
<1> DEFINE class == "checkpoint_mismatch"
           sev == Severity(class)
           taint == v.taint
           seq == row.seq
           nonce == row.nonce
           named == row.body.cpSeq \in DOMAIN v.checkpoints
                    /\ v.checkpoints[row.body.cpSeq] = [size |-> row.body.size, root |-> row.body.root]
           w == IF named THEN v ELSE IF taint # 0 THEN Cascade(v, taint) ELSE Note(v, class, p, sev)
           x == CheckAnchorEvent(v, row, p)
<1>1. x = Closes(w, seq, nonce)
  BY DEF CheckAnchorEvent, Closes
<1> HIDE DEF class, sev, taint, named, seq, nonce, x
<1>2. Grows(v, w)
  BY GrowsItself, GrowsNote, GrowsCascade
<1> HIDE DEF w
<1>3. Alike(Closes(w, seq, nonce), w)
  BY <1>2 DEF Alike, Grows, Listed, Fields, Closes
<1>4. Grows(v, x)
  BY <1>1, <1>2, <1>3, GrowsAlike
<1> QED BY <1>4 DEF x

LEMMA GrowsRotation ==
  ASSUME NEW v, Listed(v), NEW row, NEW p
  PROVE  Grows(v, CheckRotation(v, row, p))
<1> DEFINE class == "key_unauthorised"
           new == row.body.new
           w == [v EXCEPT !.keys = @ \cup {new}, !.rotatedIn = @ \cup {new}, !.active = new]
           a == Emit(v, class, p)
           x == CheckRotation(v, row, p)
<1>1. x = w \/ x = RejectTarget(a, row)
  BY DEF CheckRotation
<1> HIDE DEF class, new, x
<1>2. Alike(w, v)
  BY DEF Alike, Listed, Fields
<1>3. Grows(v, a)
  BY GrowsEmit
<1> HIDE DEF w, a
<1>4. Grows(v, RejectTarget(a, row))
  <2>1. Listed(a)
    BY <1>3 DEF Grows
  <2>2. Grows(a, RejectTarget(a, row))
    BY <2>1, GrowsTarget
  <2> QED BY <1>3, <2>2, GrowsAlong
<1>5. Grows(v, x)
  BY <1>1, <1>2, <1>4, GrowsItself, GrowsAlike
<1> QED BY <1>5 DEF x

LEMMA GrowsRegistration ==
  ASSUME NEW v, Listed(v), NEW row, NEW p, NEW manifest
  PROVE  Grows(v, CheckRegistration(v, row, p, manifest))
<1> DEFINE m == row.body.model
           class == "model_swap"
           info == "info"
           known == Assign(v.registrations, m.id, m)
           w == [v EXCEPT !.registrations = known]
           x == CheckRegistration(v, row, p, manifest)
<1>1. x = w \/ x = Emit(w, class, p) \/ x = Note(w, class, p, info)
  <2>1. [v EXCEPT !.registrations = Assign(@, m.id, m)] = w
    BY DEF Listed, Fields
  <2> QED BY <2>1, Zenon DEF CheckRegistration
<1> HIDE DEF class, info, known, x
<1>2. Alike(w, v)
  BY DEF Alike, Listed, Fields
<1> HIDE DEF w
<1>3. Grows(v, w)
  BY <1>2, GrowsItself, GrowsAlike
<1>4. Listed(w)
  BY <1>3 DEF Grows
<1>5. Grows(w, x)
  BY <1>1, <1>4, GrowsItself, GrowsEmit, GrowsNote
<1>6. Grows(v, x)
  BY <1>3, <1>5, GrowsAlong
<1> QED BY <1>6 DEF x

LEMMA GrowsType ==
  ASSUME NEW v, Listed(v), NEW row, NEW p, NEW manifest
  PROVE  Grows(v, CheckType(v, row, p, manifest))
<1> DEFINE gap == "degraded_gap"
           low == "low"
           swap == "model_swap"
           x == CheckType(v, row, p, manifest)
<1>1. \/ x = CheckCheckpoint(v, row, p) \/ x = CheckAnchorEvent(v, row, p) \/ x = Note(v, gap, p, low)
      \/ x = CheckRegistration(v, row, p, manifest) \/ x = CheckInferenceModel(v, row, p)
      \/ x = CheckRotation(v, row, p) \/ x = v
  BY DEF CheckType
<1>2. CheckInferenceModel(v, row, p) = v \/ CheckInferenceModel(v, row, p) = Emit(v, swap, p)
  BY DEF CheckInferenceModel
<1> HIDE DEF gap, low, swap, x
<1>3. Grows(v, x)
  BY <1>1, <1>2, GrowsItself, GrowsEmit, GrowsNote, GrowsCheckpoint, GrowsAnchorEvent, GrowsRegistration, GrowsRotation
<1> QED BY <1>3 DEF x

Clocked(v, at, link) == [v EXCEPT !.lastAt = at, !.prevLink = link]

LEMMA GrowsTime ==
  ASSUME NEW v, Listed(v), NEW row, NEW p
  PROVE  Grows(v, CheckTime(v, row, p))
<1> DEFINE class == "clock_regression"
           info == "info"
           back == row.at < v.lastAt
           w == IF back THEN Note(v, class, p, info) ELSE v
           at == row.at
           link == Link(row)
           x == CheckTime(v, row, p)
<1>1. x = Clocked(w, at, link)
  BY DEF CheckTime, Clocked
<1> HIDE DEF class, info, back, at, link, x
<1>2. Grows(v, w)
  BY GrowsItself, GrowsNote
<1> HIDE DEF w
<1>3. Alike(Clocked(w, at, link), w)
  BY <1>2 DEF Alike, Grows, Listed, Fields, Clocked
<1>4. Grows(v, x)
  BY <1>1, <1>2, <1>3, GrowsAlike
<1> QED BY <1>4 DEF x

LEMMA GrowsSigned ==
  ASSUME NEW v, Listed(v), NEW row, NEW p, NEW manifest
  PROVE  Grows(v, CheckSigned(v, row, p, manifest))
<1>1. Grows(v, CheckNonce(v, row, p))
  BY GrowsNonce
<1>2. Listed(CheckNonce(v, row, p))
  BY <1>1 DEF Grows
<1>3. Grows(v, CheckType(CheckNonce(v, row, p), row, p, manifest))
  BY <1>1, <1>2, GrowsType, GrowsAlong
<1> QED BY <1>3, GrowsItself DEF CheckSigned

LEMMA GrowsRow ==
  ASSUME NEW v, Listed(v), NEW rs, NEW p \in Int, rs[p + 1].seq \in Int, NEW given
  PROVE  Grows(CheckColumns(v, rs, p), CheckRow(v, rs, p, given)) /\ Grows(v, CheckRow(v, rs, p, given))
<1> DEFINE a == CheckColumns(v, rs, p)
           b == CheckSeq(a, rs, p)
           c == CheckFirst(b, rs, p)
           d == CheckKey(c, rs, p, given.trust)
           e == CheckLink(d, rs, p, given.trust)
           f == CheckSigned(e, rs[p + 1], p, given.manifest)
           g == CheckTime(f, rs[p + 1], p)
<1>1. Grows(v, a) /\ Listed(a)
  BY GrowsColumns DEF Grows
<1> HIDE DEF a
<1>2. Grows(a, b) /\ Listed(b)
  BY <1>1, GrowsSeq DEF Grows
<1> HIDE DEF b
<1>3. Grows(b, c) /\ Listed(c)
  BY <1>2, GrowsFirst DEF Grows
<1> HIDE DEF c
<1>4. Grows(c, d) /\ Listed(d)
  BY <1>3, GrowsKey DEF Grows
<1> HIDE DEF d
<1>5. Grows(d, e) /\ Listed(e)
  BY <1>4, GrowsLink DEF Grows
<1> HIDE DEF e
<1>6. Grows(e, f) /\ Listed(f)
  BY <1>5, GrowsSigned DEF Grows
<1> HIDE DEF f
<1>7. Grows(f, g)
  BY <1>6, GrowsTime
<1> HIDE DEF g
<1>8. Grows(a, c)
  BY <1>1, <1>2, <1>3, GrowsAlong
<1>9. Grows(a, e)
  BY <1>1, <1>3, <1>4, <1>5, <1>8, GrowsAlong
<1>10. Grows(a, g) /\ Grows(v, g)
  BY <1>1, <1>5, <1>6, <1>7, <1>9, GrowsAlong
<1> QED BY <1>10 DEF a, b, c, d, e, f, g, CheckRow
-----------------------------------------------------------------------------
\* What is said, and stays said.

\* A finding of this class is among them.
Says(v, class) == \E i \in 1 .. Len(v.findings) : v.findings[i].class = class

LEMMA SaysStill ==
  ASSUME NEW v, NEW w, NEW class, Listed(v), Grows(v, w), Says(v, class)
  PROVE  Says(w, class)
<1>1. Len(v.findings) \in Nat /\ Len(w.findings) \in Nat
  BY AppendSeq DEF Grows, Listed
<1>2. PICK i \in 1 .. Len(v.findings) : v.findings[i].class = class
  BY DEF Says
<1>3. i \in 1 .. Len(w.findings) /\ w.findings[i].class = v.findings[i].class
  BY <1>1, <1>2 DEF Grows
<1> QED BY <1>2, <1>3 DEF Says

LEMMA EmitSays ==
  ASSUME NEW v, Listed(v), NEW class, NEW p
  PROVE  Says(Emit(v, class, p), class)
<1> DEFINE x == Finding(class, p, Severity(class))
           fs == Append(v.findings, x)
           n == Len(v.findings)
<1>1. x.class = class
  BY DEF Finding
<1> HIDE DEF x
<1>2. Emit(v, class, p).findings = fs
  <2> DEFINE a == Note(v, class, p, Severity(class))
             f == Len(v.findings) + 1
             tainting == class \in TreeTainting
             w == Emit(v, class, p)
  <2>1. a = [v EXCEPT !.findings = fs]
    BY DEF Note, x, Listed, Fields
  <2>2. w = [a EXCEPT !.last = f, !.lastPos = p, !.taint = IF @ = 0 /\ tainting THEN f ELSE @]
    BY DEF Emit
  <2> HIDE DEF fs, f, tainting, a, w
  <2>3. a.findings = fs
    BY <2>1 DEF Listed, Fields
  <2>4. w.findings = fs
    BY <2>2, <2>3, <2>1 DEF Listed, Fields
  <2> QED BY <2>4 DEF w
<1>3. n \in Nat /\ Len(fs) = n + 1 /\ fs[n + 1] = x
  BY AppendSeq DEF Listed
<1> HIDE DEF fs, n
<1>4. n + 1 \in 1 .. Len(fs)
  BY <1>3
<1> QED BY <1>1, <1>2, <1>3, <1>4 DEF Says

LEMMA GrowsStep ==
  ASSUME NEW v, Listed(v), NEW rs, NEW p \in Int, rs[p + 1].seq \in Int, NEW given
  PROVE  Grows(v, Step(v, rs, p, given))
<1> DEFINE row == rs[p + 1]
           u == Reset1(v)
           form == row.form
           leaf == LeafOf(row)
           after == IF form = "ok" THEN CheckRow(u, rs, p, given) ELSE Unlinked(Emit(u, form, p))
           x == Step(v, rs, p, given)
<1>1. x = Pushes1(after, leaf)
  BY DEF Step, Reset1, Unlinked, Pushes1
<1>2. Grows(v, u)
  <2>1. Alike(u, v)
    BY DEF Alike, Listed, Fields, Reset1
  <2> QED BY <2>1, GrowsItself, GrowsAlike
<1> HIDE DEF u
<1>3. Listed(u)
  BY <1>2 DEF Grows
<1>4. Grows(u, CheckRow(u, rs, p, given))
  BY <1>3, GrowsRow
<1>5. Grows(u, Unlinked(Emit(u, form, p)))
  <2>1. Grows(u, Emit(u, form, p))
    BY <1>3, GrowsEmit
  <2>2. Alike(Unlinked(Emit(u, form, p)), Emit(u, form, p))
    BY <2>1 DEF Alike, Listed, Fields, Unlinked, Grows
  <2> QED BY <2>1, <2>2, GrowsAlike
<1>6. Grows(u, after)
  BY <1>4, <1>5
<1> HIDE DEF after, leaf, x
<1>7. Alike(Pushes1(after, leaf), after)
  BY <1>6 DEF Alike, Listed, Fields, Pushes1, Grows
<1>8. Grows(u, x)
  BY <1>1, <1>6, <1>7, GrowsAlike
<1>9. Grows(v, x)
  BY <1>2, <1>8, GrowsAlong
<1> QED BY <1>9 DEF x

\* A row whose columns are not its own says so.
LEMMA MisfitSays ==
  ASSUME NEW v, Listed(v), NEW rs, NEW p \in Int, rs[p + 1].seq \in Int, NEW given,
         rs[p + 1].form = "ok", rs[p + 1].cols # NoColumns, rs[p + 1].cols # Columns(rs[p + 1])
  PROVE  Says(Step(v, rs, p, given), "derived_column_mismatch")
<1> DEFINE row == rs[p + 1]
           u == Reset1(v)
           leaf == LeafOf(row)
           class == "derived_column_mismatch"
           a == CheckColumns(u, rs, p)
           after == CheckRow(u, rs, p, given)
           x == Step(v, rs, p, given)
<1>1. x = Pushes1(after, leaf)
  BY DEF Step, Reset1, Pushes1
<1>2. Listed(u)
  <2>1. Alike(u, v)
    BY DEF Alike, Listed, Fields, Reset1
  <2>2. Grows(v, u)
    BY <2>1, GrowsItself, GrowsAlike
  <2> QED BY <2>2 DEF Grows
<1> HIDE DEF u
<1>3. a = Emit(u, class, p)
  BY DEF CheckColumns
<1>4. Grows(u, a) /\ Grows(a, after) /\ Grows(u, after)
  BY <1>2, GrowsRow, GrowsColumns
<1> HIDE DEF class, a, after, leaf, x
<1>5. Says(a, class) /\ Listed(a) /\ Listed(after)
  BY <1>2, <1>3, <1>4, EmitSays DEF Grows
<1>6. Says(after, class)
  BY <1>4, <1>5, SaysStill
<1>7. Alike(Pushes1(after, leaf), after)
  BY <1>5 DEF Alike, Listed, Fields, Pushes1
<1>8. Grows(after, x)
  BY <1>1, <1>5, <1>7, GrowsItself, GrowsAlike
<1>9. Says(x, class)
  BY <1>5, <1>6, <1>8, SaysStill
<1> QED BY <1>9 DEF x, class

LEMMA StartListed ==
  ASSUME NEW given
  PROVE  Listed(Start(given))
<1> DEFINE known == TrustedKeys(given.trust)
           none == <<>>
           nothing == {}
           v == Start(given)
<1>1. v = [findings |-> none, last |-> 0, lastPos |-> -10, taint |-> 0,
           shift |-> 0, shiftBefore |-> 0, pending |-> none,
           prevLink |-> none, nonces |-> nothing, lastAt |-> 0, registrations |-> none,
           sealedOk |-> nothing, keys |-> known, active |-> None, rejected |-> none,
           rotatedIn |-> nothing, checkpoints |-> none, stack |-> none, lastAnchorSeq |-> -1,
           suppressLink |-> FALSE, copy |-> FALSE, sigOk |-> FALSE]
  BY DEF Start, NoLink
<1>2. IsSeq(none) /\ Len(none) = 0
  BY NoRowsSeq
<1> HIDE DEF known, none, nothing, v
<1>3. Listed(v)
  BY <1>1, <1>2 DEF Listed, Fields
<1> QED BY <1>3 DEF v

LEMMA WalkListed ==
  ASSUME NEW rs, Readable(rs), NEW given, NEW after, after[0] = Start(given),
         \A n \in 1 .. Len(rs) : after[n] = Step(after[n - 1], rs, n - 1, given)
  PROVE  /\ \A n \in 0 .. Len(rs) : Listed(after[n])
         /\ \A n \in 0 .. Len(rs), m \in 0 .. Len(rs) : m <= n => Grows(after[m], after[n])
<1> DEFINE top == Len(rs)
           J == {n \in Nat : n <= top => \A m \in 0 .. n : Listed(after[m]) /\ Grows(after[m], after[n])}
<1>1. top \in Nat
  BY DEF Readable, IsSeq
<1>2. 0 \in J
  <2>1. Listed(after[0])
    BY StartListed
  <2>2. Grows(after[0], after[0])
    BY <2>1, GrowsItself
  <2> QED BY <2>1, <2>2
<1>3. ASSUME NEW n \in Nat, n \in J PROVE n + 1 \in J
  <2> SUFFICES ASSUME n + 1 <= top
               PROVE  \A m \in 0 .. n + 1 : Listed(after[m]) /\ Grows(after[m], after[n + 1])
    OBVIOUS
  <2>1. n + 1 \in 1 .. top /\ (n + 1) - 1 = n /\ n <= top /\ n \in Int
    BY <1>1
  <2>2. after[n + 1] = Step(after[n], rs, n, given)
    BY <2>1
  <2>3. Listed(after[n]) /\ \A m \in 0 .. n : Listed(after[m]) /\ Grows(after[m], after[n])
    BY <1>3, <2>1
  <2>4. rs[n + 1].seq \in Int
    BY <2>1 DEF Readable, Legible
  <2>5. Grows(after[n], after[n + 1])
    BY <2>1, <2>2, <2>3, <2>4, GrowsStep
  <2>6. Listed(after[n + 1])
    BY <2>5 DEF Grows
  <2>7. ASSUME NEW m \in 0 .. n + 1 PROVE Listed(after[m]) /\ Grows(after[m], after[n + 1])
    <3>1. m \in 0 .. n \/ m = n + 1
      BY <2>7
    <3>2. CASE m = n + 1
      BY <2>6, <3>2, GrowsItself
    <3>3. CASE m \in 0 .. n
      BY <2>3, <2>5, <3>3, GrowsAlong
    <3> QED BY <3>1, <3>2, <3>3
  <2> QED BY <2>7
<1>4. \A n \in Nat : n \in J
  <2>1. \A n \in Nat : n \in J => n + 1 \in J
    BY <1>3
  <2> HIDE DEF J
  <2> QED BY <1>2, <2>1, Induct
<1> QED BY <1>1, <1>4

LEMMA GrowsAnchor ==
  ASSUME NEW v, Listed(v), NEW a, NEW rs, NEW given
  PROVE  Grows(v, CheckAnchor(v, a, rs, given))
<1> DEFINE n == Len(rs)
           invalid == "anchor_invalid"
           cut == "tail_truncation"
           fork == "ledger_fork"
           medium == "medium"
           high == "high"
           critical == "critical"
           taint == v.taint
           x == CheckAnchor(v, a, rs, given)
<1>1. x \in {v, Note(v, invalid, n, medium), Note(v, cut, n, high), Note(v, fork, n, critical), Cascade(v, taint)}
  BY DEF CheckAnchor
<1> HIDE DEF n, invalid, cut, fork, medium, high, critical, taint, x
<1>2. Grows(v, x)
  BY <1>1, GrowsItself, GrowsNote, GrowsCascade
<1> QED BY <1>2 DEF x

LEMMA GrowsAnchors ==
  ASSUME NEW v, Listed(v), NEW rs, NEW given, Len(given.anchors) \in Nat
  PROVE  Grows(v, CheckAnchors(v, rs, given))
<1> DEFINE m == Len(given.anchors)
<1>1. PICK after : /\ after[0] = v
                   /\ \A i \in 1 .. m : after[i] = CheckAnchor(after[i - 1], given.anchors[i], rs, given)
                   /\ CheckAnchors(v, rs, given) = after[m]
  BY AnchorsUnfold, Z3
<1> DEFINE J == {i \in Nat : i <= m => Grows(v, after[i])}
<1>2. m \in Nat
  OBVIOUS
<1> HIDE DEF m
<1>3. 0 \in J
  BY <1>1, GrowsItself
<1>4. ASSUME NEW i \in Nat, i \in J PROVE i + 1 \in J
  <2> SUFFICES ASSUME i + 1 <= m PROVE Grows(v, after[i + 1])
    OBVIOUS
  <2>1. i + 1 \in 1 .. m /\ (i + 1) - 1 = i /\ i <= m
    BY <1>2
  <2>2. Grows(v, after[i])
    BY <1>4, <2>1
  <2>3. Listed(after[i])
    BY <2>2 DEF Grows
  <2>4. after[i + 1] = CheckAnchor(after[i], given.anchors[i + 1], rs, given)
    BY <1>1, <2>1
  <2>5. Grows(after[i], after[i + 1])
    BY <2>3, <2>4, GrowsAnchor
  <2> QED BY <2>2, <2>5, GrowsAlong
<1>5. \A i \in Nat : i \in J
  <2>1. \A i \in Nat : i \in J => i + 1 \in J
    BY <1>4
  <2> HIDE DEF J
  <2> QED BY <1>3, <2>1, Induct
<1> QED BY <1>1, <1>2, <1>5

LEMMA GrowsCount ==
  ASSUME NEW v, Listed(v), NEW rs, NEW expected
  PROVE  Grows(v, CheckCount(v, rs, expected))
<1> DEFINE n == Len(rs)
           class == "ledger_incomplete"
           high == "high"
<1>1. CheckCount(v, rs, expected) = v \/ CheckCount(v, rs, expected) = Note(v, class, n, high)
  BY DEF CheckCount
<1> HIDE DEF n, class, high
<1> QED BY <1>1, GrowsItself, GrowsNote

LEMMA GrowsInference ==
  ASSUME NEW v, Listed(v), NEW rs, NEW p, NEW given
  PROVE  Grows(v, CheckInference(v, rs, p, given))
<1> DEFINE row == rs[p + 1]
           out == row.body.output
           payloads == given.payloads
           bad(addr) == addr \in DOMAIN payloads /\ payloads[addr] # addr
           refs == out.ref # out.decision
           stale == bad(out.decision)
           raws == out.raw # out.decision /\ bad(out.raw)
           swap == "input_swap"
           critical == "critical"
           class == "output_payload_mismatch"
           high == "high"
           v1 == CheckInput(v, row, p, given.inputs)
           v2 == IF refs THEN Note(v1, class, p, high) ELSE v1
           v3 == IF stale THEN Note(v2, class, p, high) ELSE v2
           v4 == IF raws THEN Note(v3, class, p, high) ELSE v3
<1>1. CheckPayloads(v1, row, p, payloads) = v4
  <2> HIDE DEF v1
  <2> QED BY DEF CheckPayloads
<1>2. CheckInference(v, rs, p, given) = v4 \/ CheckInference(v, rs, p, given) = v
  BY <1>1 DEF CheckInference
<1>3. v1 = v \/ v1 = Note(v, swap, p, critical)
  BY DEF CheckInput
<1> HIDE DEF v1, swap, critical, class, high, refs, stale, raws
<1>4. Grows(v, v1) /\ Listed(v1)
  BY <1>3, GrowsItself, GrowsNote DEF Grows
<1>5. Grows(v1, v2) /\ Listed(v2)
  BY <1>4, GrowsItself, GrowsNote DEF Grows
<1> HIDE DEF v2
<1>6. Grows(v2, v3) /\ Listed(v3)
  BY <1>5, GrowsItself, GrowsNote DEF Grows
<1> HIDE DEF v3
<1>7. Grows(v3, v4)
  BY <1>6, GrowsItself, GrowsNote
<1> HIDE DEF v4
<1>8. Grows(v, v2)
  BY <1>4, <1>5, GrowsAlong
<1>9. Grows(v, v4)
  BY <1>6, <1>7, <1>8, GrowsAlong
<1> QED BY <1>2, <1>9, GrowsItself

LEMMA GrowsFinish ==
  ASSUME NEW v, Listed(v), NEW rs, Len(rs) \in Nat, NEW given, Len(given.anchors) \in Nat
  PROVE  /\ Grows(CheckAnchors(v, rs, given), Finish(v, rs, given))
         /\ Grows(CheckCount(CheckAnchors(v, rs, given), rs, given.expected), Finish(v, rs, given))
         /\ Grows(v, Finish(v, rs, given))
<1> DEFINE m == Len(rs)
           a == CheckAnchors(v, rs, given)
           e == CheckCount(a, rs, given.expected)
<1>1. PICK after : /\ after[0] = e
                   /\ \A i \in 1 .. m : after[i] = CheckInference(after[i - 1], rs, i - 1, given)
                   /\ Finish(v, rs, given) = after[m]
  BY FinishUnfolds
<1>2. Grows(v, a) /\ Listed(a)
  BY GrowsAnchors DEF Grows
<1> HIDE DEF a
<1>3. Grows(a, e) /\ Listed(e)
  BY <1>2, GrowsCount DEF Grows
<1> HIDE DEF e
<1> DEFINE J == {i \in Nat : i <= m => Grows(e, after[i])}
<1>4. m \in Nat
  OBVIOUS
<1> HIDE DEF m
<1>5. 0 \in J
  BY <1>1, <1>3, GrowsItself
<1>6. ASSUME NEW i \in Nat, i \in J PROVE i + 1 \in J
  <2> SUFFICES ASSUME i + 1 <= m PROVE Grows(e, after[i + 1])
    OBVIOUS
  <2>1. i + 1 \in 1 .. m /\ (i + 1) - 1 = i /\ i <= m
    BY <1>4
  <2>2. Grows(e, after[i])
    BY <1>6, <2>1
  <2>3. Listed(after[i])
    BY <2>2 DEF Grows
  <2>4. after[i + 1] = CheckInference(after[i], rs, i, given)
    BY <1>1, <2>1
  <2>5. Grows(after[i], after[i + 1])
    BY <2>3, <2>4, GrowsInference
  <2> QED BY <1>3, <2>2, <2>5, GrowsAlong
<1>7. \A i \in Nat : i \in J
  <2>1. \A i \in Nat : i \in J => i + 1 \in J
    BY <1>6
  <2> HIDE DEF J
  <2> QED BY <1>5, <2>1, Induct
<1>8. Grows(e, after[m])
  BY <1>4, <1>7
<1>9. Grows(a, after[m]) /\ Grows(v, after[m])
  BY <1>2, <1>3, <1>8, GrowsAlong
<1> QED BY <1>1, <1>8, <1>9 DEF a, e, m

\* Verified, by its parts.
LEMMA FoundAlong ==
  ASSUME NEW rs, Readable(rs), Len(rs) # 0, NEW given, Len(given.anchors) \in Nat
  PROVE  \E after :
           /\ after[0] = Start(given)
           /\ \A n \in 1 .. Len(rs) : after[n] = Step(after[n - 1], rs, n - 1, given)
           /\ \A n \in 0 .. Len(rs) : Listed(after[n]) /\ Grows(after[n], Verified(rs, given))
           /\ after[Len(rs)] = Walk(rs, given)
<1>1. Len(rs) \in Nat
  BY DEF Readable, IsSeq
<1>2. PICK after : /\ after[0] = Start(given)
                   /\ \A n \in 1 .. Len(rs) : after[n] = Step(after[n - 1], rs, n - 1, given)
                   /\ Walk(rs, given) = after[Len(rs)]
  BY <1>1, WalkUnfolds
<1>3. /\ \A n \in 0 .. Len(rs) : Listed(after[n])
      /\ \A n \in 0 .. Len(rs), m \in 0 .. Len(rs) : m <= n => Grows(after[m], after[n])
  BY <1>2, WalkListed
<1>4. Verified(rs, given) = Finish(after[Len(rs)], rs, given)
  <2>1. rs # <<>>
    BY NoRowsSeq
  <2> QED BY <1>2, <2>1 DEF Verified
<1> DEFINE v == after[Len(rs)]
           w == Finish(v, rs, given)
<1>5. Listed(v) /\ \A n \in 0 .. Len(rs) : Grows(after[n], v)
  BY <1>1, <1>3
<1> HIDE DEF v
<1>6. Grows(v, w)
  BY <1>1, <1>5, GrowsFinish
<1> HIDE DEF w
<1>7. ASSUME NEW n \in 0 .. Len(rs) PROVE Grows(after[n], w)
  <2>1. Listed(after[n]) /\ Grows(after[n], v)
    BY <1>3, <1>5
  <2> QED BY <1>6, <2>1, GrowsAlong
<1> QED BY <1>2, <1>3, <1>4, <1>7 DEF v, w

LEMMA ColumnsTold ==
  ASSUME NEW rs, Readable(rs), ~ColumnsFit(rs), NEW given, Len(given.anchors) \in Nat
  PROVE  "derived_column_mismatch" \in Classes(Verified(rs, given).findings)
<1> DEFINE class == "derived_column_mismatch"
<1>1. PICK i \in 1 .. Len(rs) : rs[i].form = "ok" /\ rs[i].cols # NoColumns /\ rs[i].cols # Columns(rs[i])
  BY DEF ColumnsFit
<1>2. Len(rs) \in Nat
  BY DEF Readable, IsSeq
<1>3. Len(rs) # 0 /\ i - 1 \in Int /\ i - 1 \in 0 .. Len(rs) /\ (i - 1) + 1 = i /\ i \in 0 .. Len(rs)
  BY <1>1, <1>2
<1>4. PICK after :
        /\ after[0] = Start(given)
        /\ \A n \in 1 .. Len(rs) : after[n] = Step(after[n - 1], rs, n - 1, given)
        /\ \A n \in 0 .. Len(rs) : Listed(after[n]) /\ Grows(after[n], Verified(rs, given))
        /\ after[Len(rs)] = Walk(rs, given)
  BY <1>3, FoundAlong
<1>5. after[i] = Step(after[i - 1], rs, i - 1, given) /\ Listed(after[i - 1])
  BY <1>3, <1>4
<1>6. rs[i].seq \in Int
  BY DEF Readable, Legible
<1> DEFINE p == i - 1
<1>7. p \in Int /\ rs[p + 1].seq \in Int /\ rs[p + 1].form = "ok" /\ rs[p + 1].cols # NoColumns
      /\ rs[p + 1].cols # Columns(rs[p + 1]) /\ Listed(after[p])
  BY <1>1, <1>3, <1>5, <1>6
<1> HIDE DEF p
<1>8. Says(Step(after[p], rs, p, given), class)
  BY <1>7, MisfitSays
<1>9. Says(after[i], class)
  BY <1>5, <1>8 DEF p
<1> HIDE DEF class
<1>10. Listed(after[i]) /\ Grows(after[i], Verified(rs, given))
  BY <1>3, <1>4
<1>11. Says(Verified(rs, given), class) /\ Listed(Verified(rs, given))
  BY <1>9, <1>10, SaysStill DEF Grows
<1>12. DOMAIN Verified(rs, given).findings = 1 .. Len(Verified(rs, given).findings)
  BY <1>11, AppendSeq DEF Listed
<1> QED BY <1>11, <1>12 DEF Says, Classes, class

-----------------------------------------------------------------------------
\* Changed ledgers that can still be read: a row put in, appended, joined, sealed
\* next, or everything signed anew from a row on.

LEMMA EditedLegible ==
  ASSUME NEW row, Legible(row)
  PROVE  Legible(Recol(row)) /\ Legible(Edited(row))
<1> DEFINE cols == Columns(row)
           c == Changed(row.c)
           row2 == [row EXCEPT !.c = c]
           cols2 == Columns(row2)
<1>1. Recol(row) = [row EXCEPT !.cols = cols] /\ Edited(row) = [row2 EXCEPT !.cols = cols2]
  <2>1. [row EXCEPT !.c = Changed(@)] = row2
    BY DEF Legible, RowFields
  <2> QED BY <2>1 DEF Recol, Edited
<1> HIDE DEF cols, cols2, c
<1>2. Legible([row EXCEPT !.cols = cols])
  BY DEF Legible, RowFields
<1>3. Legible(row2)
  BY DEF Legible, RowFields
<1> HIDE DEF row2
<1>4. Legible([row2 EXCEPT !.cols = cols2])
  BY <1>3 DEF Legible, RowFields
<1> QED BY <1>1, <1>2, <1>4

\* A sequence by its length and its rows.
LEMMA ReadableBy ==
  ASSUME NEW n \in Nat, NEW rs, rs = [i \in 1 .. n |-> rs[i]], \A i \in 1 .. n : Legible(rs[i])
  PROVE  Readable(rs) /\ Len(rs) = n
<1> DEFINE S == {rs[i] : i \in DOMAIN rs}
<1>1. DOMAIN rs = 1 .. n
  OBVIOUS
<1>2. rs \in [1 .. n -> S]
  BY <1>1
<1> HIDE DEF S
<1>3. rs \in Seq(S) /\ Len(rs) = n
  BY <1>1, <1>2
<1> QED BY <1>3, SeqOfItsOwn DEF Readable

LEMMA PutReadable ==
  ASSUME NEW rs, Readable(rs), NEW k, NEW row, Legible(row)
  PROVE  /\ Readable(PutRow(rs, k, row)) /\ Len(PutRow(rs, k, row)) = Len(rs)
         /\ \A i \in 1 .. Len(rs) : PutRow(rs, k, row)[i] = IF i = k + 1 THEN row ELSE rs[i]
<1> DEFINE n == Len(rs)
           at == k + 1
           xs == [rs EXCEPT ![at] = row]
<1>1. n \in Nat /\ DOMAIN rs = 1 .. n
  BY AppendSeq DEF Readable
<1> HIDE DEF n, at
<1>2. xs = [i \in 1 .. n |-> xs[i]] /\ \A i \in 1 .. n : xs[i] = IF i = at THEN row ELSE rs[i]
  BY <1>1
<1> HIDE DEF xs
<1>3. \A i \in 1 .. n : Legible(xs[i])
  BY <1>2 DEF Readable, n
<1>4. Readable(xs) /\ Len(xs) = n
  BY <1>1, <1>2, <1>3, ReadableBy
<1> QED BY <1>2, <1>4 DEF PutRow, xs, n, at

LEMMA AppendReadable ==
  ASSUME NEW rs, Readable(rs), NEW row, Legible(row)
  PROVE  /\ Readable(Append(rs, row)) /\ Len(Append(rs, row)) = Len(rs) + 1
         /\ Append(rs, row)[Len(rs) + 1] = row /\ \A i \in 1 .. Len(rs) : Append(rs, row)[i] = rs[i]
<1> DEFINE xs == Append(rs, row)
           n == Len(rs)
<1>1. IsSeq(xs) /\ Len(xs) = n + 1 /\ xs[n + 1] = row /\ n \in Nat /\ \A i \in 1 .. n : xs[i] = rs[i]
  BY AppendSeq DEF Readable
<1> HIDE DEF xs
<1>2. \A i \in 1 .. Len(xs) : i \in 1 .. n \/ i = n + 1
  BY <1>1
<1>3. Readable(xs)
  BY <1>1, <1>2 DEF Readable
<1> QED BY <1>1, <1>3 DEF xs

LEMMA ExportedReadable ==
  ASSUME NEW rs, Readable(rs)
  PROVE  /\ Readable(Exported(rs)) /\ Len(Exported(rs)) = Len(rs)
         /\ \A i \in 1 .. Len(rs) : Exported(rs)[i] = [rs[i] EXCEPT !.cols = NoColumns]
<1> DEFINE n == Len(rs)
           xs == Exported(rs)
<1>1. n \in Nat /\ DOMAIN rs = 1 .. n
  BY AppendSeq DEF Readable
<1>2. xs = [i \in 1 .. n |-> [rs[i] EXCEPT !.cols = NoColumns]]
  BY <1>1 DEF Exported
<1>3. \A i \in 1 .. n : Legible([rs[i] EXCEPT !.cols = NoColumns])
  <2> SUFFICES ASSUME NEW i \in 1 .. n PROVE Legible([rs[i] EXCEPT !.cols = NoColumns])
    OBVIOUS
  <2> DEFINE row == rs[i]
             none == NoColumns
  <2>1. Legible(row)
    BY DEF Readable
  <2> HIDE DEF row, none
  <2>2. Legible([row EXCEPT !.cols = none])
    BY <2>1 DEF Legible, RowFields
  <2> QED BY <2>2 DEF row, none
<1> HIDE DEF xs, n
<1>4. xs = [i \in 1 .. n |-> xs[i]] /\ \A i \in 1 .. n : xs[i] = [rs[i] EXCEPT !.cols = NoColumns]
  BY <1>2
<1>5. \A i \in 1 .. n : Legible(xs[i])
  BY <1>3, <1>4
<1>6. Readable(xs) /\ Len(xs) = n
  BY <1>1, <1>4, <1>5, ReadableBy
<1> QED BY <1>4, <1>6 DEF xs, n

LEMMA FirstReadable ==
  ASSUME NEW rs, Readable(rs), NEW k \in 0 .. Len(rs)
  PROVE  /\ Readable(SubSeq(rs, 1, k)) /\ Len(SubSeq(rs, 1, k)) = k
         /\ \A i \in 1 .. k : SubSeq(rs, 1, k)[i] = rs[i]
<1> DEFINE S == {rs[i] : i \in DOMAIN rs}
           n == Len(rs)
           xs == SubSeq(rs, 1, k)
<1>1. rs \in Seq(S) /\ n \in Nat
  BY AppendSeq DEF Readable, IsSeq
<1> HIDE DEF S
<1>2. 1 \in 1 .. n + 1 /\ k \in 1 - 1 .. n
  BY <1>1
<1>3. xs \in Seq(S) /\ Len(xs) = k /\ \A i \in 1 .. k : xs[i] = rs[i]
  <2>1. Len(xs) = k /\ \A i \in 1 .. k : xs[i] = rs[1 + i - 1]
    BY <1>1, <1>2, SubSeqProperties
  <2>2. xs \in Seq(S)
    BY <1>1, <1>2, SubSeqProperties
  <2> QED BY <2>1, <2>2
<1> HIDE DEF xs
<1>4. Readable(xs)
  <2>1. \A i \in 1 .. k : i \in 1 .. Len(rs)
    BY <1>1 DEF n
  <2> QED BY <1>3, <2>1, SeqOfItsOwn DEF Readable
<1> QED BY <1>3, <1>4 DEF xs

LEMMA ReadableIn ==
  ASSUME NEW S, NEW xs \in Seq(S), \A x \in S : Legible(x)
  PROVE  Readable(xs)
<1>1. \A i \in 1 .. Len(xs) : xs[i] \in S
  OBVIOUS
<1> QED BY <1>1, SeqOfItsOwn DEF Readable

LEMMA LegibleOnes ==
  ASSUME NEW rs, Readable(rs)
  PROVE  /\ rs \in Seq({rs[i] : i \in DOMAIN rs}) /\ \A x \in {rs[i] : i \in DOMAIN rs} : Legible(x)
         /\ Len(rs) \in Nat /\ DOMAIN rs = 1 .. Len(rs)
<1>1. DOMAIN rs = 1 .. Len(rs) /\ Len(rs) \in Nat
  BY AppendSeq DEF Readable
<1> QED BY <1>1 DEF Readable, IsSeq

LEMMA SeqWider ==
  ASSUME NEW S, NEW T, S \subseteq T, NEW xs \in Seq(S)
  PROVE  xs \in Seq(T)
<1>1. Len(xs) \in Nat /\ DOMAIN xs = 1 .. Len(xs) /\ xs = [i \in 1 .. Len(xs) |-> xs[i]]
      /\ \A i \in 1 .. Len(xs) : xs[i] \in S
  OBVIOUS
<1>2. xs \in [1 .. Len(xs) -> T]
  BY <1>1
<1> QED BY <1>1, <1>2

LEMMA JoinReadable ==
  ASSUME NEW xs, Readable(xs), NEW ys, Readable(ys)
  PROVE  Readable(xs \o ys)
<1> DEFINE A == {xs[i] : i \in DOMAIN xs}
           B == {ys[i] : i \in DOMAIN ys}
<1>1. xs \in Seq(A) /\ (\A x \in A : Legible(x)) /\ ys \in Seq(B) /\ (\A x \in B : Legible(x))
  BY LegibleOnes
<1> HIDE DEF A, B
<1> DEFINE C == A \cup B
<1>2. A \subseteq C /\ B \subseteq C /\ \A x \in C : Legible(x)
  BY <1>1
<1> HIDE DEF C
<1>3. xs \in Seq(C) /\ ys \in Seq(C)
  BY <1>1, <1>2, SeqWider
<1>4. xs \o ys \in Seq(C)
  BY <1>3, ConcatProperties
<1> QED BY <1>2, <1>4, ReadableIn

LEMMA LastReadable ==
  ASSUME NEW rs, Readable(rs), NEW k \in 1 .. Len(rs) + 1
  PROVE  Readable(SubSeq(rs, k, Len(rs)))
<1> DEFINE S == {rs[i] : i \in DOMAIN rs}
           n == Len(rs)
<1>1. rs \in Seq(S) /\ n \in Nat /\ \A x \in S : Legible(x)
  BY LegibleOnes
<1> HIDE DEF S
<1>2. n \in k - 1 .. n
  BY <1>1
<1>3. SubSeq(rs, k, n) \in Seq(S)
  BY <1>1, <1>2, SubSeqProperties
<1> QED BY <1>1, <1>3, ReadableIn DEF n

LEMMA SealReadable ==
  ASSUME NEW rs, Readable(rs), Len(rs) # 0, NEW type, type # "checkpoint", NEW body, NEW key, NEW c
  PROVE  /\ Readable(SealNext(rs, type, body, key, c)) /\ Len(SealNext(rs, type, body, key, c)) = Len(rs) + 1
         /\ \A i \in 1 .. Len(rs) : SealNext(rs, type, body, key, c)[i] = rs[i]
<1> DEFINE seq == Len(rs)
           prev == Link(rs[seq])
           at == rs[seq].at
           sig == [by |-> key, c |-> c]
           ok == "ok"
           none == NoColumns
           row == [form |-> ok, seq |-> seq, type |-> type, key |-> key, prev |-> prev, at |-> at, nonce |-> c,
                   body |-> body, c |-> c, sig |-> sig, cols |-> none]
<1>1. SealNext(rs, type, body, key, c) = Append(rs, Recol(row))
  BY DEF SealNext
<1>2. seq \in Nat
  BY LegibleOnes
<1>3. at \in Nat
  <2>1. seq \in 1 .. Len(rs)
    BY <1>2
  <2> QED BY <2>1 DEF Readable, Legible
<1>4. prev # NoLink /\ ok \in {"ok", "malformed_record", "non_canonical_encoding"}
  BY DEF Link, NoLink
<1> HIDE DEF seq, prev, at, sig, ok, none
<1>5. Legible(row)
  BY <1>2, <1>3, <1>4 DEF Legible, RowFields
<1> HIDE DEF row
<1>6. Legible(Recol(row))
  BY <1>5, EditedLegible
<1> QED BY <1>1, <1>6, AppendReadable

ResignTurn(c, f, n) ==
  IF n = 0 THEN SubSeq(c[1], 1, c[2])
  ELSE Append(f[n - 1], Resigned(IF n = 1 THEN c[3] ELSE c[1][c[2] + n], f[n - 1]))

ResignRec == INSTANCE Recursion WITH Turn <- ResignTurn

\* The history that is signed instead, as it grows.
Redone(done, rs, k, first) ==
  /\ done[0] = SubSeq(rs, 1, k)
  /\ \A n \in 1 .. Len(rs) - k :
       done[n] = Append(done[n - 1], Resigned(IF n = 1 THEN first ELSE rs[k + n], done[n - 1]))
  /\ Resign(rs, k, first) = done[Len(rs) - k]

LEMMA ResignUnfolds ==
  ASSUME NEW rs, NEW k, NEW first, Len(rs) - k \in Nat
  PROVE  \E done : Redone(done, rs, k, first)
<1> DEFINE len == Len(rs) - k
           c == <<rs, k, first>>
           turn(f, n) == IF n = 0 THEN SubSeq(rs, 1, k)
                         ELSE Append(f[n - 1], Resigned(IF n = 1 THEN first ELSE rs[k + n], f[n - 1]))
           done == CHOOSE f : f = [n \in 0 .. len |->
                     IF n = 0 THEN SubSeq(rs, 1, k)
                     ELSE Append(f[n - 1], Resigned(IF n = 1 THEN first ELSE rs[k + n], f[n - 1]))]
<1>1. \E f : f = [n \in 0 .. len |-> turn(f, n)]
  <2>1. ResignRec!Local(c, Nat)
    <3> HIDE DEF c
    <3> QED BY DEF ResignRec!Local, ResignTurn
  <2>2. \E f : ResignRec!Solves(f, c, 0 .. len)
    <3> HIDE DEF len, c
    <3> QED BY <2>1, ResignRec!Prefixes DEF len
  <2>3. \A f, n : ResignTurn(c, f, n) = turn(f, n)
    <3>1. c[1] = rs /\ c[2] = k /\ c[3] = first
      OBVIOUS
    <3> HIDE DEF c
    <3> QED BY <3>1, Zenon DEF ResignTurn
  <2> HIDE DEF turn, len, c
  <2> QED BY <2>2, <2>3 DEF ResignRec!Solves
<1>2. done = [n \in 0 .. len |-> turn(done, n)]
  BY <1>1, Zenon
<1>3. Resign(rs, k, first) = done[len]
  BY DEF Resign
<1> HIDE DEF done
<1>4. \A n \in 0 .. len : done[n] = turn(done, n)
  <2> HIDE DEF turn
  <2> QED BY <1>2
<1>5. 0 \in 0 .. len /\ \A n \in 1 .. len : n \in 0 .. len /\ n # 0
  <2>1. len \in Nat
    OBVIOUS
  <2> HIDE DEF len
  <2> QED BY <2>1
<1>6. done[0] = SubSeq(rs, 1, k)
  BY <1>4, <1>5
<1>7. \A n \in 1 .. len : done[n] = Append(done[n - 1], Resigned(IF n = 1 THEN first ELSE rs[k + n], done[n - 1]))
  <2> HIDE DEF len
  <2> QED BY <1>4, <1>5
<1> QED BY <1>3, <1>6, <1>7 DEF Redone

LEMMA ResignedLegible ==
  ASSUME NEW old, Legible(old), NEW done
  PROVE  Legible(Resigned(old, done))
<1> DEFINE p == Len(done)
           root(n) == RootOf(Accumulate([i \in 1 .. n |-> LeafOf(done[i])]))
           body == CASE old.type = "checkpoint"   -> [size |-> p, root |-> root(p)]
                     [] old.type = "anchor_event" -> [old.body EXCEPT !.root = root(old.body.size)]
                     [] OTHER -> old.body
           prev == Link(done[p])
           c == Changed(old.c)
           sig == [by |-> old.key, c |-> c]
           new == [old EXCEPT !.prev = prev, !.body = body, !.c = c, !.sig = sig]
<1>1. Resigned(old, done) = Recol(new)
  <2>1. [old EXCEPT !.prev = prev, !.body = body, !.c = Changed(@), !.sig = sig] = new
    <3> HIDE DEF prev, body, sig
    <3> QED BY DEF Legible, RowFields
  <2> QED BY <2>1 DEF Resigned
<1>2. old.type = "checkpoint" => body = [size |-> body.size, root |-> body.root]
  <2> HIDE DEF root
  <2> QED OBVIOUS
<1>3. prev # NoLink
  BY DEF Link, NoLink
<1> HIDE DEF body, prev, c, sig
<1>4. Legible(new)
  BY <1>2, <1>3 DEF Legible, RowFields
<1> HIDE DEF new
<1> QED BY <1>1, <1>4, EditedLegible

\* What the key holder signs instead: the same rows up to k, and each one after
\* it made from its own.
LEMMA ResignIs ==
  ASSUME NEW rs, Readable(rs), NEW k \in 0 .. Len(rs) - 1, NEW first, Legible(first)
  PROVE  /\ Readable(Resign(rs, k, first)) /\ Len(Resign(rs, k, first)) = Len(rs)
         /\ \A i \in 1 .. k : Resign(rs, k, first)[i] = rs[i]
         /\ \A i \in k + 1 .. Len(rs) : \E done :
              /\ Len(done) = i - 1 /\ \A j \in 1 .. i - 1 : done[j] = Resign(rs, k, first)[j]
              /\ Resign(rs, k, first)[i] = Resigned(IF i = k + 1 THEN first ELSE rs[i], done)
<1> DEFINE top == Len(rs) - k
           old(i) == IF i = k + 1 THEN first ELSE rs[i]
<1>1. Len(rs) \in Nat /\ top \in Nat /\ k \in Nat /\ k \in 0 .. Len(rs) /\ k + top = Len(rs)
  BY LegibleOnes
<1>9. PICK done : Redone(done, rs, k, first)
  BY <1>1, ResignUnfolds
<1>2. /\ done[0] = SubSeq(rs, 1, k)
      /\ \A n \in 1 .. top :
           done[n] = Append(done[n - 1], Resigned(IF n = 1 THEN first ELSE rs[k + n], done[n - 1]))
      /\ Resign(rs, k, first) = done[top]
  BY <1>9 DEF Redone
<1> DEFINE Made(xs, i) == \E d : /\ Len(d) = i - 1 /\ \A j \in 1 .. i - 1 : d[j] = xs[j]
                                 /\ xs[i] = Resigned(old(i), d)
           Met(n) == /\ Readable(done[n]) /\ Len(done[n]) = k + n
                     /\ \A i \in 1 .. k : done[n][i] = rs[i]
                     /\ \A i \in k + 1 .. k + n : Made(done[n], i)
           J == {n \in Nat : n <= top => Met(n)}
<1>3. 0 \in J
  <2>1. Readable(done[0]) /\ Len(done[0]) = k /\ \A i \in 1 .. k : done[0][i] = rs[i]
    BY <1>1, <1>2, FirstReadable
  <2>2. k + 0 = k /\ \A i \in k + 1 .. k + 0 : FALSE
    BY <1>1
  <2> HIDE DEF Made
  <2>3. Met(0)
    BY <2>1, <2>2
  <2>4. 0 \in Nat /\ (0 <= top => Met(0))
    <3> HIDE DEF Met, top, J
    <3> QED BY <2>3
  <2> HIDE DEF Met, top
  <2> QED BY <2>4, Zenon
<1>4. ASSUME NEW n \in Nat, n \in J PROVE n + 1 \in J
  <2>0. n + 1 \in Nat
    OBVIOUS
  <2> SUFFICES ASSUME n + 1 <= top PROVE Met(n + 1)
    <3> HIDE DEF Met, top
    <3> QED BY <2>0, Zenon
  <2> DEFINE d == done[n]
             e == done[n + 1]
             row == Resigned(old(k + n + 1), d)
  <2>1. n + 1 \in 1 .. top /\ (n + 1) - 1 = n /\ n <= top /\ k + n + 1 \in 1 .. Len(rs)
    BY <1>1
  <2>2. e = Append(d, row)
    <3>1. (n + 1 = 1) <=> (k + n + 1 = k + 1)
      BY <1>1
    <3>2. k + (n + 1) = k + n + 1
      BY <1>1
    <3> QED BY <1>2, <2>1, <3>1, <3>2
  <2>3. Met(n)
    BY <1>4, <2>1
  <2>4. Legible(row)
    <3>1. Legible(old(k + n + 1))
      BY <2>1 DEF Readable
    <3> HIDE DEF old, d
    <3> QED BY <3>1, ResignedLegible
  <2>5. Readable(d) /\ Len(d) = k + n
    BY <2>3
  <2> HIDE DEF d, e, row, old
  <2>6. /\ Readable(e) /\ Len(e) = k + n + 1 /\ e[k + n + 1] = row
        /\ \A i \in 1 .. k + n : e[i] = d[i]
    BY <2>2, <2>4, <2>5, AppendReadable
  <2>7. \A i \in 1 .. k : e[i] = rs[i]
    <3>1. \A i \in 1 .. k : i \in 1 .. k + n
      BY <1>1
    <3>2. \A i \in 1 .. k : d[i] = rs[i]
      BY <2>3 DEF d
    <3> QED BY <2>6, <3>1, <3>2
  <2>8. ASSUME NEW i \in k + 1 .. k + n + 1 PROVE Made(e, i)
    <3>1. CASE i = k + n + 1
      <4>1. Len(d) = i - 1 /\ \A j \in 1 .. i - 1 : j \in 1 .. k + n
        BY <1>1, <2>5, <3>1
      <4>2. e[i] = Resigned(old(i), d) /\ \A j \in 1 .. i - 1 : d[j] = e[j]
        BY <2>6, <3>1, <4>1 DEF row
      <4> QED BY <4>1, <4>2
    <3>2. CASE i # k + n + 1
      <4>1. i \in k + 1 .. k + n /\ i \in 1 .. k + n /\ \A j \in 1 .. i - 1 : j \in 1 .. k + n
        BY <1>1, <2>8, <3>2
      <4>2. Made(d, i)
        BY <2>3, <4>1 DEF d
      <4>3. PICK c : Len(c) = i - 1 /\ (\A j \in 1 .. i - 1 : c[j] = d[j]) /\ d[i] = Resigned(old(i), c)
        BY <4>2
      <4>4. e[i] = Resigned(old(i), c) /\ \A j \in 1 .. i - 1 : c[j] = e[j]
        BY <2>6, <4>1, <4>3
      <4> QED BY <4>3, <4>4
    <3> QED BY <3>1, <3>2
  <2>9. k + (n + 1) = k + n + 1
    BY <1>1
  <2> HIDE DEF Made
  <2> QED BY <2>6, <2>7, <2>8, <2>9 DEF e
<1>5. \A n \in Nat : n \in J
  <2>1. \A n \in Nat : n \in J => n + 1 \in J
    BY <1>4
  <2> HIDE DEF J
  <2> QED BY <1>3, <2>1, Induct
<1>6. Met(top)
  <2> HIDE DEF Met, top
  <2> QED BY <1>1, <1>5
<1> DEFINE xs == done[top]
<1>7. /\ Readable(xs) /\ Len(xs) = Len(rs) /\ (\A i \in 1 .. k : xs[i] = rs[i])
      /\ \A i \in k + 1 .. Len(rs) : Made(xs, i)
  <2> HIDE DEF top, Made
  <2> QED BY <1>1, <1>6
<1>8. xs = Resign(rs, k, first)
  BY <1>2
<1> HIDE DEF xs
<1> QED BY <1>7, <1>8

===============================================================================
