----------------------------- MODULE AuditReplay -----------------------------
(***************************************************************************)
(* The analyst audit trail read back from the ledger:                      *)
(* cva/provenance/seal/audit.py.  It replays the events per finding and    *)
(* reports where the workflow was not followed; it knows neither targets   *)
(* nor whether four eyes were asked for.  The timeline and the assignee,   *)
(* which no rule reads, are left out.                                      *)
(***************************************************************************)
EXTENDS Decisions

\* FindingState; approved maps an override to who approved it.
NoState == [last |-> 0, disposition |-> NoDisposition, overrides |-> <<>>, approved |-> <<>>]

StateOf(fold, f) == IF f \in DOMAIN fold.findings THEN fold.findings[f] ELSE NoState

\* check_event: the rules for one event against what was replayed before it.
Codes(fold, ev) ==
    LET st == StateOf(fold, ev.finding) IN
    {code \in {"request_id_conflict", "stale_write", "approve_without_override", "self_approval"} :
        CASE code = "request_id_conflict" -> ev.rid \in DOMAIN fold.requestIds
          [] code = "stale_write" ->
                /\ ev.action \in {"override", "approve"} \cup TargetLevel
                /\ ev.expected \notin {NoSeq, st.last}
          [] code = "approve_without_override" ->
                ev.action = "approve" /\ ev.refs \notin DOMAIN st.overrides
          [] OTHER ->
                /\ ev.action = "approve" /\ ev.refs \in DOMAIN st.overrides
                /\ st.overrides[ev.refs] = ev.actor}

\* Mutant: an override makes the earlier ones of its finding unknown.
TouchLatest(st, n, ev) ==
    LET touched == [st EXCEPT !.last = n] IN
    CASE ev.action = "override" ->
            [touched EXCEPT !.overrides = Put(<<>>, n, ev.actor), !.disposition = ev.disposition]
      [] ev.action = "approve" /\ ev.refs \in DOMAIN st.overrides ->
            [touched EXCEPT !.approved = Put(@, ev.refs, ev.actor)]
      [] OTHER -> touched

\* apply_event.
Touch(st, n, ev) ==
    LET touched == [st EXCEPT !.last = n] IN
    CASE ev.action = "override" ->
            [touched EXCEPT !.overrides = Put(@, n, ev.actor), !.disposition = ev.disposition]
      [] ev.action = "approve" /\ ev.refs \in DOMAIN st.overrides ->
            [touched EXCEPT !.approved = Put(@, ev.refs, ev.actor)]
      [] ev.action = "quarantine" -> [touched EXCEPT !.disposition = "quarantine"]
      [] ev.action = "release"    -> [touched EXCEPT !.disposition = "accept"]
      [] OTHER -> touched

ReplayEvent(fold, n, ev) ==
    [fold EXCEPT !.findings = Put(@, ev.finding, Touch(StateOf(fold, ev.finding), n, ev)),
                 !.requestIds = IF ev.rid \in DOMAIN @ THEN @ ELSE Put(@, ev.rid, n),
                 !.violations = @ \cup {[code |-> code, seq |-> n, finding |-> ev.finding] :
                                          code \in Codes(fold, ev)}]

\* What the SDK's own daemon keeps in memory, the fold without the violations, and
\* how it goes on with one event; a request id is looked up before.
Memory(replayed) == [findings |-> replayed.findings, scans |-> replayed.scans, requestIds |-> replayed.requestIds]
Refused(memory, ev) == Codes([memory EXCEPT !.requestIds = <<>>], ev) # {}

Noted(memory, n, ev) ==
    [memory EXCEPT !.findings = Put(@, ev.finding, Touch(StateOf(memory, ev.finding), n, ev)),
                   !.requestIds = Put(@, ev.rid, n)]

\* fold_analyst_events over the ledger after its genesis record.
Replay(log) ==
    LET start == [findings |-> <<>>, scans |-> {}, requestIds |-> <<>>, violations |-> {}]
        after[n \in 0 .. Len(log)] ==
            IF n = 0 THEN start
            ELSE IF IsEvent(log[n]) THEN ReplayEvent(after[n - 1], n, log[n])
            ELSE [after[n - 1] EXCEPT !.scans = @ \cup {n}]
    IN  after[Len(log)]
=============================================================================
