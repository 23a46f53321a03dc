-------------------------- MODULE DecisionRegister --------------------------
(***************************************************************************)
(* What the ledger of analyst decisions promises: decisions enter one at a *)
(* time, each admissible against everything recorded before it, and none   *)
(* under a request id that is already in use.  When the ledger is not      *)
(* serial, decisions overlap: each is admissible against what the ledger   *)
(* held at some moment before, and request ids may be used again.  Through *)
(* the SDK's own daemon a decision is admissible when the audit finds      *)
(* nothing wrong with it.                                                  *)
(***************************************************************************)
EXTENDS AuditReplay

VARIABLES log, serial, rules

RequestIds == {log[n].rid : n \in {m \in 1 .. Len(log) : IsEvent(log[m])}}

Init == log = <<>> /\ serial \in BOOLEAN /\ rules \in {"workflow", "audit"}

Record(ev) ==
    /\ log' = Append(log, ev)
    /\ IsEvent(ev)
    /\ serial => ev.rid \notin RequestIds
    /\ IF rules = "audit" THEN Codes(Replay(log), ev) = {}
       ELSE \E n \in (IF serial THEN {} ELSE 0 .. Len(log)) \cup {Len(log)} :
              Admissible(DaemonFold(SubSeq(log, 1, n)), ev, FALSE)
    /\ UNCHANGED <<serial, rules>>

SealScan == log' = Append(log, ScanRecord) /\ UNCHANGED <<serial, rules>>

\* The event of a step is the last one of the log it leaves.
Next ==
    \/ \E ev \in {log'[n] : n \in DOMAIN log'} : Record(ev)
    \/ SealScan

Spec == Init /\ [][Next]_<<log, serial, rules>>
=============================================================================
