-------------------------- MODULE MCLedgerDeployment --------------------------
(***************************************************************************)
(* LedgerDeployment for TLC: keys and manifests are model values.          *)
(***************************************************************************)
EXTENDS LedgerDeployment

CONSTANTS key1, key2, unknown1, unknown2, anchor1, anchor2

MCKeys     == <<key1, key2>>
MCAttacker == {unknown1, unknown2}
MCWeights  == {"A", "B"}
MCPaths    == {anchor1, anchor2}

\* A confidence has 100 units, one pixel 16; a quantum is two of either.
Det(c, p, x) == [cls |-> c, conf |-> p, box |-> <<x, 0, x + 64, 64>>]
Rank(c, p)   == [cls |-> c, conf |-> p, box |-> <<>>]
Scene(kind, task, dets) == [kind |-> kind, task |-> task, dets |-> dets]

Apart == Scene("apart", "detect", <<Det(1, 40, 0), Det(2, 30, 200), Det(1, 4, 400)>>)
MCScenes ==
  {Apart,
   Scene("threshold", "detect", <<Det(1, 40, 0), Det(1, 20, 200), Det(2, 19, 200)>>),
   Scene("pixel", "detect", <<Det(1, 40, 8), Det(1, 40, 87)>>),
   Scene("nms", "detect", <<Det(1, 40, 0), Det(1, 30, 24)>>),
   Scene("tie", "detect", <<Det(1, 30, 0), Det(1, 30, 16)>>),
   Scene("cascade", "detect", <<Det(1, 40, 0), Det(1, 35, 24), Det(1, 30, 40)>>),
   Scene("ranks", "classify", <<Rank(1, 30), Rank(2, 29), Rank(3, 4)>>),
   Scene("apart", "classify", <<Rank(1, 40), Rank(2, 20)>>),
   Scene("garbage", "garbage", <<>>)}

Normal == [digest |-> "A", input |-> "sealed", specs |-> "stored", payload |-> "stored",
           tensor |-> FALSE, serialises |-> TRUE, sameRuntime |-> TRUE]
MCEnvs ==
  {[Normal EXCEPT !.digest = d] : d \in {"B", "unavailable"}}
  \cup {[Normal EXCEPT !.input = i, !.tensor = t, !.serialises = s] :
          i \in {"sealed", "none", "other"}, t \in BOOLEAN, s \in BOOLEAN}
  \cup {[Normal EXCEPT !.specs = v] : v \in {"missing", "corrupt"}}
  \cup {[Normal EXCEPT !.payload = v, !.sameRuntime = r] : v \in {"stored", "missing", "corrupt"}, r \in BOOLEAN}

Moves(scene) == [DOMAIN scene.dets -> [conf : -1 .. 1, box : IF scene.task = "detect" THEN -1 .. 1 ELSE {0}]]
Still(scene) == [i \in DOMAIN scene.dets |-> [conf |-> 0, box |-> 0]]
Lies(scene)  == CASE scene.kind # "apart" -> {}
                  [] scene.task = "detect" -> {"drop_top", "shift_box", "relabel", "ghost", "promote"}
                  [] OTHER -> {"drop_top", "relabel"}

\* A lie is derived again with everything moved alike.
Alike(scene) == {m \in Moves(scene) : \A i, j \in DOMAIN m : m[i] = m[j]}

MCJobs ==
  (UNION {[scene : {s}, jitter : Moves(s), forged : {"none"}, env : {Normal}] : s \in MCScenes})
  \cup (UNION {[scene : {s}, jitter : Alike(s), forged : Lies(s), env : {Normal}] : s \in MCScenes})
  \cup [scene : {Apart}, jitter : {Still(Apart)}, forged : {"none", "drop_top"}, env : MCEnvs]

MCEpsIou == <<1, 100>>
MCNmsIou == <<9, 20>>

\* Where only the life of the ledger matters.
NoJobs == {}
=============================================================================
