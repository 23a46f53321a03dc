--------------------------- MODULE MCSealedLedger ---------------------------
(***************************************************************************)
(* Instances of SealedLedger: one process with one or two threads, and two *)
(* processes.                                                              *)
(***************************************************************************)
EXTENDS SealedLedger

CONSTANTS p1, p2, t1, t2, t3, k1, k2

\* Every thread runs in p1.
HostOne == [t \in Thread |-> p1]

\* t3 runs in p2, the others in p1.
HostTwo == [t \in Thread |-> IF t = t3 THEN p2 ELSE p1]
=============================================================================
