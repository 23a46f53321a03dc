--------------------------- MODULE MCAnalystDaemon ---------------------------
(***************************************************************************)
(* Instances of AnalystDaemon: one finding of the report on one target.    *)
(***************************************************************************)
EXTENDS AnalystDaemon, TLC

CONSTANTS ann, bob, f1, s1, batch, h1, h2

OriginalReview == [f \in Reported |-> "review"]
\* bob may approve, ann may not.
BobApproves == [a \in Actor |-> IF a = bob THEN "approver" ELSE "analyst"]
OnBatch == [f \in Reported |-> batch]
SyntheticOf == [t \in Target |-> s1]

Shift(actions, conns, ids, size, reports, stops) ==
    [offered |-> actions, connections |-> conns, requests |-> ids,
     records |-> size, scans |-> reports, crashes |-> stops, daemon |-> "cva-ledgerd"]

\* Overrides and approvals over one connection at a time; quarantines, releases and
\* approvals over one; overrides and approvals over two that overtake each other.
Findings == Shift({"override", "approve"}, 1, 3, 4, 0, 1)
Targets  == Shift({"quarantine", "release", "approve"}, 1, 4, 4, 0, 0)
Overlap  == Shift({"override", "approve"}, 2, 2, 3, 1, 0)
\* The daemon of the SDK, over two connections.
SdkShift == [Shift({"override", "approve", "release"}, 2, 2, 3, 1, 1) EXCEPT !.daemon = "sdk"]
AllShifts == {Findings, Targets, Overlap, SdkShift}
\* One decision sheet that keeps its request id.
OneId == {Shift({"acknowledge", "override"}, 1, 1, 2, 0, 0)}

\* Connections are interchangeable.
Connections == Permutations(Handler)
=============================================================================
