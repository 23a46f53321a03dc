----------------------------- MODULE MerkleTree -----------------------------
(***************************************************************************)
(* The RFC 6962 tree of cva/provenance/seal/merkle.py: the incremental     *)
(* node store the ledger keeps, the streaming root the verifier uses, and  *)
(* the two proofs with their verifiers.                                    *)
(*                                                                         *)
(* A hash is the value that was hashed, so different inputs have different *)
(* hashes.  Positions in the tree count from 0, those in sequences from 1. *)
(***************************************************************************)
EXTENDS Integers, Sequences, TLC, SequencesExt

\* The entries of one dictionary, and those of another where it has none.
Over(f, g) == [at \in DOMAIN f \cup DOMAIN g |-> IF at \in DOMAIN f THEN f[at] ELSE g[at]]
Assign(f, at, x) == Over([i \in {at} |-> x], f)

Leaf(data)        == <<"leaf", data>>
Node(left, right) == <<"node", left, right>>
EmptyRoot         == <<"empty tree">>

\* 1 << k and n >> k.
Pow2[k \in Nat] == IF k = 0 THEN 1 ELSE 2 * Pow2[k - 1]
Shr(n, k) == LET at[j \in 0 .. k] == IF j = 0 THEN n ELSE at[j - 1] \div 2 IN at[k]

IsPowerOf2(n) == \E k \in 0 .. n : Pow2[k] = n
Level(n)      == CHOOSE k \in 0 .. n : Pow2[k] = n

\* The largest power of two strictly less than n.
Split(n) == CHOOSE k \in 1 .. n - 1 : IsPowerOf2(k) /\ 2 * k >= n

\* The definition the RFC gives, the reference for everything below: ranges of
\* leaves by their size and where they begin.
MTH(leaves) ==
  LET n == Len(leaves)
      mth[size \in 1 .. n] ==
        [from \in 0 .. n - size |->
           IF size = 1 THEN leaves[from + 1]
           ELSE Node(mth[Split(size)][from], mth[size - Split(size)][from + Split(size)])] IN
  IF n = 0 THEN EmptyRoot ELSE mth[n][0]

-----------------------------------------------------------------------------
\* RootAccumulator and mth(): a stack of perfect subtrees.

\* A leaf enters; while the last subtree is as large as the new one, the two
\* become one.
Push(stack, leaf) ==
  LET n == Len(stack)
      cur[j \in 0 .. n] == IF j = 0 THEN leaf ELSE Node(stack[n - j + 1].hash, cur[j - 1])
      joins(j) == j < n /\ stack[n - j].level = j
      pops == CHOOSE j \in 0 .. n : ~joins(j) /\ \A i \in 0 .. j - 1 : joins(i) IN
  Append(SubSeq(stack, 1, n - pops), [level |-> pops, hash |-> cur[pops]])

Accumulate(leaves) ==
  LET stack[n \in 0 .. Len(leaves)] == IF n = 0 THEN <<>> ELSE Push(stack[n - 1], leaves[n]) IN
  stack[Len(leaves)]

RootOf(stack) ==
  LET n == Len(stack)
      root[j \in 1 .. n] == IF j = 1 THEN stack[n].hash ELSE Node(stack[n - j + 1].hash, root[j - 1]) IN
  IF n = 0 THEN EmptyRoot ELSE root[n]

-----------------------------------------------------------------------------
\* The node store: completed perfect subtrees by <<level, index>>.

\* Leaf number i completes a subtree at a level if it is in the right half of
\* each one below.
Completes(i, level) == \A k \in 0 .. level - 1 : Shr(i, k) % 2 = 1

\* The nodes of a tree of n leaves: n >> l of them at level l.
TreeNodes(n) == {at \in (0 .. n) \X (0 .. n) : at[2] < Shr(n, at[1])}

NewNodes(i, hash) ==
  [at \in {<<l, Shr(i, l)>> : l \in {k \in 0 .. i : Completes(i, k)}} |-> hash[at[1]]]

AddLeafSwapped(store, size, leaf) ==
  LET cur[l \in 0 .. size] == IF l = 0 THEN leaf ELSE Node(cur[l - 1], store[<<l - 1, Shr(size, l - 1) - 1>>]) IN
  Over(store, NewNodes(size, cur))

\* Leaf number size enters, and with it every subtree it completes.  INSERT OR
\* IGNORE: a node that is there stays.
AddLeaf(store, size, leaf) ==
  LET cur[l \in 0 .. size] == IF l = 0 THEN leaf ELSE Node(store[<<l - 1, Shr(size, l - 1) - 1>>], cur[l - 1]) IN
  Over(store, NewNodes(size, cur))

\* The completed siblings to the left that append reads: without one it raises.
Siblings(i) == {<<l, Shr(i, l) - 1>> : l \in {k \in 0 .. i : Completes(i, k + 1)}}
CanAdd(store, i) == Siblings(i) \subseteq DOMAIN store

\* The hash of leaves start .. start + n - 1; aligned perfect ranges are nodes.
RangeHash(store, start, n) ==
  LET hash[size \in 1 .. n] ==
        [from \in start .. start + n - size |->
           IF IsPowerOf2(size) /\ from % size = 0 THEN store[<<Level(size), from \div size>>]
           ELSE Node(hash[Split(size)][from], hash[size - Split(size)][from + Split(size)])] IN
  hash[n][start]

StoreRoot(store, n) == IF n = 0 THEN EmptyRoot ELSE RangeHash(store, 0, n)

\* The nodes root(n) reads: the largest subtrees that n leaves complete.
Peaks(n) == {<<l, Shr(n, l) - 1>> : l \in {k \in 0 .. n : Shr(n, k) % 2 = 1}}
HasRoot(store, n) == Peaks(n) \subseteq DOMAIN store

-----------------------------------------------------------------------------
\* Proofs, over ranges of n leaves from the one numbered from.

InclusionProof(store, index, size) ==
  LET path[n \in 1 .. size] ==
        [from \in 0 .. size - n |->
           IF n = 1 THEN <<>>
           ELSE LET k == Split(n) IN
                IF index < from + k THEN Append(path[k][from], RangeHash(store, from + k, n - k))
                ELSE Append(path[n - k][from + k], RangeHash(store, from, k))] IN
  path[size][0]

\* Through the ranges that the older tree ends in.  Its m leaves are whole while
\* the range begins at 0.
ConsistencyProof(store, m, size) ==
  LET sub[n \in 1 .. size] ==
        [from \in {f \in 0 .. size - n : f < m /\ m <= f + n} |->
           IF m = from + n THEN IF from = 0 THEN <<>> ELSE <<RangeHash(store, from, n)>>
           ELSE LET k == Split(n) IN
                IF m <= from + k THEN Append(sub[k][from], RangeHash(store, from + k, n - k))
                ELSE Append(sub[n - k][from + k], RangeHash(store, from, k))] IN
  IF m = size THEN <<>> ELSE sub[size][0]

\* fn and sn of RFC 9162: shifted right until fn is odd or 0.
ShiftWhile(odd, fn, sn) ==
  LET goes(t) == (Shr(fn, t) % 2 = 1) = odd /\ Shr(fn, t) # 0
      t == CHOOSE t \in 0 .. fn : ~goes(t) /\ \A j \in 0 .. t - 1 : goes(j) IN
  <<Shr(fn, t), Shr(sn, t)>>

\* Whether the next hash of a proof joins from the left, and where that leaves
\* fn and sn.
FromLeft(fn, sn) == fn % 2 = 1 \/ fn = sn
Advance(fn, sn) ==
  LET to == IF FromLeft(fn, sn) /\ fn % 2 = 0 THEN ShiftWhile(FALSE, fn, sn) ELSE <<fn, sn>> IN
  <<to[1] \div 2, to[2] \div 2>>

\* The next hash of a proof enters.  tree is what the hashes make of the tree,
\* old what they make of the older one that verify_consistency compares.
Joined(s, h) ==
  IF ~s.ok \/ s.at[2] = 0 THEN [s EXCEPT !.ok = FALSE]
  ELSE LET to == Advance(s.at[1], s.at[2]) IN
       IF FromLeft(s.at[1], s.at[2])
         THEN [ok |-> TRUE, at |-> to, tree |-> Node(h, s.tree), old |-> Node(h, s.old)]
         ELSE [ok |-> TRUE, at |-> to, tree |-> Node(s.tree, h), old |-> s.old]

\* A proof is followed step by step; it fails when it is too long.
Follow(proof, at, start) ==
  LET after[n \in 0 .. Len(proof)] ==
        IF n = 0 THEN [ok |-> TRUE, at |-> at, tree |-> start, old |-> start]
        ELSE Joined(after[n - 1], proof[n]) IN
  after[Len(proof)]

VerifyInclusion(leaf, index, size, proof, root) ==
  /\ 0 <= index /\ index < size
  /\ LET end == Follow(proof, <<index, size - 1>>, leaf) IN
     end.ok /\ end.at[2] = 0 /\ end.tree = root

VerifyConsistency(m, n, rootM, rootN, proof) ==
  IF m < 1 \/ m > n THEN FALSE
  ELSE IF m = n THEN proof = <<>> /\ rootM = rootN
  ELSE /\ proof # <<>>
       /\ LET full == IF IsPowerOf2(m) THEN <<rootM>> \o proof ELSE proof
              end  == Follow(Tail(full), ShiftWhile(TRUE, m - 1, n - 1), full[1]) IN
          end.ok /\ end.at[2] = 0 /\ end.old = rootM /\ end.tree = rootN
=============================================================================
