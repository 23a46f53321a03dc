------------------------------ MODULE Decisions ------------------------------
(***************************************************************************)
(* The effective-state fold over analyst decisions and the gate in front   *)
(* of it: cva/web/workflow/fold.py.  Both the web process and cva-ledgerd  *)
(* call it, the first with the dispositions the risk engine wrote into the *)
(* report, the second with none.                                           *)
(*                                                                         *)
(* A log is a sequence of records; a record's position is its ledger seq   *)
(* (the genesis record, seq 0, is left out).  Records that are no analyst  *)
(* event are skipped by the fold but take up a seq.                        *)
(*                                                                         *)
(* Definitions no other definition uses are wrong variants of the one that *)
(* follows; PROJECT.json names the property each of them breaks.           *)
(***************************************************************************)
EXTENDS Integers, Sequences

CONSTANTS
    Reported,   \* the finding ids of the scan's report
    Original,   \* the disposition the risk engine gave each of them
    FourEyes    \* a lowering and a release need a second person

Disposition == {"accept", "review", "quarantine"}

ASSUME DecisionsAssumption ==
    /\ Original \in [Reported -> Disposition]
    /\ FourEyes \in BOOLEAN

Rank == [accept |-> 0, review |-> 1, quarantine |-> 2]

WorkflowActions == {"assign", "acknowledge", "override", "quarantine", "release"}

RoleActions ==
    [viewer |-> {}, analyst |-> WorkflowActions,
     approver |-> WorkflowActions \cup {"approve"}, admin |-> {}]

TargetLevel == {"quarantine", "release"}

\* None, for refs_seq and expected_prev_seq, for new_disposition, and for a
\* change that awaits approval.
NoSeq == -1
NoDisposition == "none"
NoChange == [seq |-> 0]

ScanRecord == [action |-> "scan_record"]
IsEvent(record) == record.action # "scan_record"

\* A dictionary with one entry set.
Put(dict, key, value) ==
    [k \in DOMAIN dict \cup {key} |-> IF k = key THEN value ELSE dict[k]]

-----------------------------------------------------------------------------
(* The fold.                                                               *)

Raises(current, new) == Rank[new] > Rank[current]

\* A finding and a target before any event touched them.
FreshFinding(original) ==
    [effective |-> original, cited |-> 0, pending |-> NoChange, last |-> 0]

FreshTarget ==
    [status |-> "active", cited |-> 0, pending |-> NoChange, last |-> 0]

Change(n, ev) == [seq |-> n, by |-> ev.actor, disposition |-> ev.disposition]

\* An approve acts only on the very change that is pending, and only when
\* somebody else asked for it.
Blesses(ev, pending) ==
    /\ ev.action = "approve"
    /\ pending # NoChange
    /\ ev.refs = pending.seq
    /\ ev.actor # pending.by

ApplyFindingRaiseKeepsPending(st, n, ev) ==
    LET touched == [st EXCEPT !.last = n] IN
    CASE ev.action = "override" /\ (Raises(st.effective, ev.disposition) \/ ~FourEyes) ->
            [touched EXCEPT !.effective = ev.disposition, !.cited = n]
      [] ev.action = "override" /\ FourEyes /\ ~Raises(st.effective, ev.disposition) ->
            [touched EXCEPT !.pending = Change(n, ev)]
      [] Blesses(ev, st.pending) ->
            [touched EXCEPT !.effective = st.pending.disposition, !.cited = n,
                            !.pending = NoChange]
      [] OTHER -> touched

\* A raise, and any override without four eyes, is immediate and drops what was
\* pending; a lowering replaces what was pending.
ApplyFinding(st, n, ev) ==
    LET touched == [st EXCEPT !.last = n]
        immediate == Raises(st.effective, ev.disposition) \/ ~FourEyes
    IN
    CASE ev.action = "override" /\ immediate ->
            [touched EXCEPT !.effective = ev.disposition, !.cited = n,
                            !.pending = NoChange]
      [] ev.action = "override" /\ ~immediate ->
            [touched EXCEPT !.pending = Change(n, ev)]
      [] Blesses(ev, st.pending) ->
            [touched EXCEPT !.effective = st.pending.disposition, !.cited = n,
                            !.pending = NoChange]
      [] OTHER -> touched

ApplyTargetKeepsPending(t, n, ev) ==
    LET touched == [t EXCEPT !.last = n] IN
    CASE ev.action = "quarantine" ->
            [touched EXCEPT !.status = "quarantined", !.cited = n]
      [] ev.action = "release" /\ ~FourEyes ->
            [touched EXCEPT !.status = "active", !.cited = n, !.pending = NoChange]
      [] ev.action = "release" /\ FourEyes ->
            [touched EXCEPT !.pending = Change(n, ev)]
      [] Blesses(ev, t.pending) ->
            [touched EXCEPT !.status = "active", !.cited = n, !.pending = NoChange]
      [] OTHER -> touched

ApplyTarget(t, n, ev) ==
    LET touched == [t EXCEPT !.last = n] IN
    CASE ev.action = "quarantine" ->
            [touched EXCEPT !.status = "quarantined", !.cited = n, !.pending = NoChange]
      [] ev.action = "release" /\ ~FourEyes ->
            [touched EXCEPT !.status = "active", !.cited = n, !.pending = NoChange]
      [] ev.action = "release" /\ FourEyes ->
            [touched EXCEPT !.pending = Change(n, ev)]
      [] Blesses(ev, t.pending) ->
            [touched EXCEPT !.status = "active", !.cited = n, !.pending = NoChange]
      [] OTHER -> touched

\* A target-level action, and the approval of a release, go to the target.
GoesToTarget(approvable, ev) ==
    \/ ev.action \in TargetLevel
    \/ /\ ev.action = "approve"
       /\ ev.refs \in DOMAIN approvable
       /\ approvable[ev.refs].action = "release"

\* A finding the report does not name is an orphan, unless the fold tracks it.
Apply(state, n, ev, track) ==
    LET approvable == IF ev.action \in {"override", "release"}
                        THEN Put(state.approvable, n, ev)
                        ELSE state.approvable
        noted == [state EXCEPT
                    !.approvable = approvable,
                    !.approved = IF ev.action = "approve" THEN @ \cup {ev.refs} ELSE @]
        target == IF ev.target \in DOMAIN state.targets
                    THEN state.targets[ev.target] ELSE FreshTarget
        finding == IF ev.finding \in DOMAIN state.findings
                     THEN state.findings[ev.finding] ELSE FreshFinding("accept")
    IN
    CASE GoesToTarget(approvable, ev) ->
            [noted EXCEPT !.targets = Put(@, ev.target, ApplyTarget(target, n, ev))]
      [] /\ ~GoesToTarget(approvable, ev)
         /\ track \/ ev.finding \in DOMAIN state.findings ->
            [noted EXCEPT !.findings = Put(@, ev.finding, ApplyFinding(finding, n, ev))]
      [] OTHER -> noted

Fold(originals, track, log) ==
    LET start == [findings |-> [f \in DOMAIN originals |-> FreshFinding(originals[f])],
                  targets |-> <<>>, approvable |-> <<>>, approved |-> {}]
        after[n \in 0..Len(log)] ==
            CASE n = 0 -> start
              [] n > 0 /\ IsEvent(log[n]) -> Apply(after[n - 1], n, log[n], track)
              [] OTHER -> after[n - 1]
    IN  after[Len(log)]

\* load_scan folds over the report; the daemon has no report and tracks every
\* finding an event mentions.
WebFold(log) == Fold(Original, FALSE, log)
DaemonFoldForgetful(log) == Fold(<<>>, FALSE, log)
DaemonFold(log) == Fold(<<>>, TRUE, log)

-----------------------------------------------------------------------------
(* The gate: check_admissible.  The refusals differ only in the reason they *)
(* give.  The justification is checked when the request is built.          *)

\* The seq of the latest event that touched what `ev` is about.
LastTouch(state, ev) ==
    CASE ev.action \in TargetLevel /\ ev.target \in DOMAIN state.targets ->
            state.targets[ev.target].last
      [] /\ ~(ev.action \in TargetLevel /\ ev.target \in DOMAIN state.targets)
         /\ ev.finding \in DOMAIN state.findings ->
            state.findings[ev.finding].last
      [] OTHER -> 0

MayApproveOwn(state, ev) ==
    /\ ev.refs \in DOMAIN state.approvable
    /\ state.approvable[ev.refs].finding = ev.finding
    /\ ev.refs \notin state.approved

MayApprove(state, ev) ==
    /\ ev.refs \in DOMAIN state.approvable
    /\ state.approvable[ev.refs].finding = ev.finding
    /\ ev.refs \notin state.approved
    /\ FourEyes => state.approvable[ev.refs].actor # ev.actor

NotStaleTargets(state, ev) ==
    ev.expected # NoSeq /\ ev.action \in TargetLevel => ev.expected = LastTouch(state, ev)

NotStaleFindings(state, ev) ==
    ev.expected # NoSeq /\ ev.action \notin TargetLevel => ev.expected = LastTouch(state, ev)

NotStale(state, ev) == ev.expected # NoSeq => ev.expected = LastTouch(state, ev)

Admissible(state, ev, findingsKnown) ==
    /\ ev.action \in RoleActions[ev.role]
    /\ NotStale(state, ev)
    /\ ev.action = "approve" => MayApprove(state, ev)
    /\ ev.action = "override" /\ findingsKnown => ev.finding \in DOMAIN state.findings
    /\ ev.action = "release" =>
         /\ ev.target \in DOMAIN state.targets
         /\ state.targets[ev.target].status = "quarantined"

=============================================================================
