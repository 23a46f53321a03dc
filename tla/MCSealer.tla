------------------------------- MODULE MCSealer -------------------------------
(***************************************************************************)
(* Instances of Sealer: every inference with one model and configuration,  *)
(* except the second.                                                      *)
(***************************************************************************)
EXTENDS Sealer

CONSTANTS p1, i1, i2, i3, i4, m1, m2

Pairs == [i \in Inference |-> IF i = i2 THEN m2 ELSE m1]

Setup(failOpen, groupCommit, spillFails, renameFails) ==
  [failOpen |-> failOpen, groupCommit |-> groupCommit,
   spillFails |-> spillFails, renameFails |-> renameFails]

FailOpen == Setup(TRUE, FALSE, FALSE, FALSE)
AllSetups ==
  {FailOpen, Setup(TRUE, TRUE, FALSE, FALSE), Setup(TRUE, FALSE, TRUE, TRUE),
   Setup(TRUE, TRUE, TRUE, TRUE), Setup(FALSE, TRUE, FALSE, FALSE)}
OnlyFailOpen == {FailOpen}
=============================================================================
