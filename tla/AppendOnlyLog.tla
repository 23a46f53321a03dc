--------------------------- MODULE AppendOnlyLog ---------------------------
(***************************************************************************)
(* What cva/provenance/seal/store.py promises its callers, without         *)
(* processes, caches, keys or transactions: one chain of entries that      *)
(* grows at its end only, each entry naming the one before it, and that    *)
(* can lose nothing but a suffix that was never made durable.              *)
(***************************************************************************)
EXTENDS Integers, Sequences

VARIABLES
  log,      \* the entries, oldest first, each with an identity and a link
  durable   \* how many of them are on stable storage

vars == <<log, durable>>

\* The entry at position i names the entry just before it.
LinkedAt(l, i) == l[i].prev = l[i - 1].nonce

Init ==
  /\ Len(log) = 1
  /\ durable = 1

\* A writer adds one or more entries; the ones already there are untouched.
Commit ==
  /\ Len(log') > Len(log)
  /\ SubSeq(log', 1, Len(log)) = log
  /\ \A i \in (Len(log) + 1) .. Len(log') : LinkedAt(log', i)
  /\ durable' \in durable .. Len(log')

\* Storage catches up with what was committed.
Sync ==
  /\ durable' \in durable .. Len(log)
  /\ UNCHANGED log

\* Power fails: a suffix that was not durable may be gone.
Lose ==
  /\ Len(log') \in durable .. Len(log)
  /\ log' = SubSeq(log, 1, Len(log'))
  /\ durable' = Len(log')

Next == Commit \/ Sync \/ Lose

Spec == Init /\ [][Next]_vars
=============================================================================
