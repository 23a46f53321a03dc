---------------------------- MODULE AnalystDaemon ----------------------------
(***************************************************************************)
(* The write path of an analyst's decision: a person at a browser, a       *)
(* cva-web thread (cva/web/views/api.py), and a connection thread of       *)
(* cva-ledgerd (cva/ledgerd/server.py) in front of the sealed ledger.      *)
(*                                                                         *)
(* The daemon serves each connection in a thread of its own.  A handler    *)
(* looks the request id up, folds the ledger, appends and remembers the    *)
(* request id in four steps; only the read and the append take the         *)
(* backend's lock, each for itself.  The web thread reads the ledger, then *)
(* builds the request, checks it against what it read and connects; others *)
(* may record in between.                                                  *)
(*                                                                         *)
(* Definitions no other definition uses are wrong variants of the one that *)
(* follows; PROJECT.json names the property each of them breaks.           *)
(*                                                                         *)
(* One append to the sealed ledger is one step: SealedLedger shows that    *)
(* the chain it makes is one.  All events are of one scan.                 *)
(***************************************************************************)
EXTENDS AuditReplay, FiniteSets

CONSTANTS
    Actor,        \* the people, each with one browser window
    RoleOf,       \* their roles
    Target,       \* contributors, batches, models, datasets
    TargetOf,     \* the target of each finding of the report
    Synthetic,    \* the finding id a target-level action cites without a finding
    Handler,      \* the connections cva-ledgerd serves at once
    Choices,      \* the dispositions people override to
    Cited,        \* the findings people cite when they act on a target
    Nobody,       \* a connection whose client hung up
    Shifts        \* what people do and what is bounded, one of these at a time:
                  \*   offered      the actions people take
                  \*   connections  how many connections are served at once
                  \*   requests     how many request ids are handed out
                  \*   records      how long the ledger grows
                  \*   scans        how many of its records are scan records
                  \*   crashes      how often cva-ledgerd stops
                  \*   daemon       cva-ledgerd, or the daemon of the SDK

ASSUME DaemonAssumption ==
    /\ RoleOf \in [Actor -> DOMAIN RoleActions]
    /\ TargetOf \in [Reported -> Target]
    /\ DOMAIN Synthetic = Target
    /\ \A t \in Target : Synthetic[t] \notin Reported
    /\ Choices \subseteq Disposition
    /\ Cited \subseteq Reported
    /\ Nobody \notin Actor
    /\ IsFiniteSet(Handler)
    /\ Shifts \subseteq [offered : SUBSET (WorkflowActions \cup {"approve"}),
                         connections : 1 .. Cardinality(Handler),
                         requests : Nat, records : Nat, scans : Nat, crashes : Nat,
                         daemon : {"cva-ledgerd", "sdk"}]

VARIABLES
    shift,     \* one of Shifts, for good
    records,   \* the ledger, after its genesis record
    up,        \* whether cva-ledgerd runs
    seen,      \* its idempotency map, request id -> seq
    handler,   \* its connection threads
    window,    \* the browser windows
    issued,    \* how many request ids the finding pages have handed out
    crashes,   \* how often cva-ledgerd stopped
    memory     \* the fold the SDK's daemon keeps

vars == <<shift, records, up, seen, handler, window, issued, crashes, memory>>

MaxRequests == shift.requests
MaxRecords == shift.records

Sdk == shift.daemon = "sdk"

\* One connection at a time: what a handler checks is what it appends to.
Serial == shift.connections = 1

Finding == Reported \cup {Synthetic[t] : t \in Target}

Event ==
    [actor : Actor, role : DOMAIN RoleActions, action : WorkflowActions \cup {"approve"},
     finding : Finding, target : Target, disposition : Disposition \cup {NoDisposition},
     refs : Nat \cup {NoSeq}, expected : Nat \cup {NoSeq}, rid : 1 .. MaxRequests]

NoEvent == [action |-> "no_event"]

Idle == [phase |-> "idle", ev |-> NoEvent, seq |-> 0, client |-> Nobody]

-----------------------------------------------------------------------------
(* The requests cva-web builds, from the view of the ledger it just read.  *)

Base(a, rid, action, f, t) ==
    [actor |-> a, role |-> RoleOf[a], action |-> action, finding |-> f, target |-> t,
     disposition |-> NoDisposition, refs |-> NoSeq, expected |-> NoSeq, rid |-> rid]

\* api.act, on a finding of the report and the target it is about.
FindingRequests(a, rid, view) ==
    UNION {LET last == view.findings[f].last
               New(action) == Base(a, rid, action, f, TargetOf[f])
           IN  {New(action) : action \in {"assign", "acknowledge"}}
               \cup {[New("override") EXCEPT !.disposition = d, !.expected = last] :
                        d \in Choices}
               \cup {[New("approve") EXCEPT !.refs = n] : n \in DOMAIN view.approvable}
               \cup {[New(action) EXCEPT !.expected = last] : action \in TargetLevel}
           : f \in Reported}

\* api.target_act, on a target, citing a finding or none.  It passes
\* on neither a disposition nor an assignee, so an override or an assign is refused.
TargetRequests(a, rid, view) ==
    UNION {LET t == about[1]
               New(action) == Base(a, rid, action, about[2], t)
               last == IF t \in DOMAIN view.targets THEN view.targets[t].last ELSE 0
           IN  {New("acknowledge")}
               \cup {[New("approve") EXCEPT !.refs = n] : n \in DOMAIN view.approvable}
               \cup {[New(action) EXCEPT !.expected = last] : action \in TargetLevel}
           : about \in {tf \in Target \X Finding :
                          tf[2] \in Cited \cup {Synthetic[tf[1]]}}}

\* A client of the SDK's daemon sends what it likes.
Requests(a, rid, log) ==
    LET view == WebFold(log) IN
    {ev \in FindingRequests(a, rid, view) \cup TargetRequests(a, rid, view) :
        /\ ev.action \in shift.offered
        /\ Sdk \/ Admissible(view, ev, TRUE)}

-----------------------------------------------------------------------------

Init ==
    /\ shift \in Shifts
    /\ records = <<>>
    /\ up = TRUE
    /\ seen = <<>>
    /\ handler = [h \in Handler |-> Idle]
    /\ window = [a \in Actor |-> [rid |-> 0, phase |-> "open", view |-> 0, recorded |-> 0]]
    /\ issued = 0
    /\ crashes = 0
    /\ memory = Memory(Replay(<<>>))

Viewing(a) == window[a].phase = "viewing"
Waiting(a) == window[a].phase = "waiting"

\* Records on their way count against the bound on the ledger.
Busy == {h \in Handler : handler[h].phase # "idle"}
Room == Len(records) + Cardinality(Busy) < MaxRecords

\* The finding page brings a request id of its own for the decision.  It is not
\* fetched again after a decision: the window keeps the id until it is reopened.
PageIds(a) ==
    ({window[a].rid} \ {0}) \cup (IF issued < MaxRequests THEN {issued + 1} ELSE {})

\* A click: load_scan reads the ledger.  `view` is how much of it there was.
View(a) ==
    /\ up
    /\ window[a].phase = "open"
    /\ Len(records) < MaxRecords
    /\ window' = [window EXCEPT ![a] = [rid |-> @.rid, phase |-> "viewing",
                                         view |-> Len(records), recorded |-> 0]]
    /\ UNCHANGED <<shift, records, up, seen, handler, issued, crashes, memory>>

\* On the open page or on one just fetched: the request is built and checked
\* against that view, and sent.
Send(a) ==
    /\ up
    /\ Viewing(a)
    /\ Room
    /\ Cardinality(Busy) < shift.connections
    /\ \E rid \in PageIds(a) : \E h \in Handler \ Busy :
       \E ev \in Requests(a, rid, SubSeq(records, 1, window[a].view)) :
         /\ issued' = IF rid > issued THEN rid ELSE issued
         /\ handler' = [handler EXCEPT ![h] = [phase |-> "received", ev |-> ev, seq |-> 0,
                                               client |-> a]]
         /\ window' = [window EXCEPT ![a] = [rid |-> rid, phase |-> "waiting", view |-> 0,
                                             recorded |-> 0]]
    /\ UNCHANGED <<shift, records, up, seen, crashes, memory>>

\* The client's 10 seconds are over: the person is told that cva-ledgerd does not
\* answer and that nothing was recorded.  The handler goes on without the client.
TimeOut(a) ==
    /\ Waiting(a)
    /\ window' = [window EXCEPT ![a].phase = "open"]
    /\ handler' = [h \in Handler |-> IF handler[h].client = a
                                       THEN [handler[h] EXCEPT !.client = Nobody]
                                       ELSE handler[h]]
    /\ UNCHANGED <<shift, records, up, seen, issued, crashes, memory>>

-----------------------------------------------------------------------------
(* cva-ledgerd: Daemon._append_analyst and _append_scan.                    *)

\* The handler answers whoever is still connected, with the seq of the record or,
\* when it refuses, with none; then it takes the next connection.
Answer(h, seq) ==
    /\ handler' = [handler EXCEPT ![h] = Idle]
    /\ window' = [a \in Actor |-> IF handler[h].client = a
                                    THEN [window[a] EXCEPT !.phase = "open",
                                                           !.recorded = seq]
                                    ELSE window[a]]

\* A request id that is known is answered with the seq it was recorded at,
\* whatever this request asks for.
LookUp(h) ==
    /\ ~Sdk
    /\ handler[h].phase = "received"
    /\ IF handler[h].ev.rid \in DOMAIN seen
         THEN Answer(h, seen[handler[h].ev.rid])
         ELSE /\ handler' = [handler EXCEPT ![h].phase = "new"]
              /\ UNCHANGED window
    /\ UNCHANGED <<shift, records, up, seen, issued, crashes, memory>>

\* _fold_for and check_admissible.
Check(h) ==
    /\ handler[h].phase = "new"
    /\ IF Admissible(DaemonFold(records), handler[h].ev, FALSE)
         THEN /\ handler' = [handler EXCEPT ![h].phase = "admitted"]
              /\ UNCHANGED window
         ELSE Answer(h, 0)
    /\ UNCHANGED <<shift, records, up, seen, issued, crashes, memory>>

AppendEventSize(h) ==
    /\ handler[h].phase = "admitted"
    /\ records' = Append(records, handler[h].ev)
    /\ handler' = [handler EXCEPT ![h].phase = "recorded", ![h].seq = Len(records) + 2]
    /\ UNCHANGED <<shift, up, seen, window, issued, crashes, memory>>

\* LedgerBackend.append: the seq is the appended record's own.
AppendEvent(h) ==
    /\ handler[h].phase = "admitted"
    /\ records' = Append(records, handler[h].ev)
    /\ handler' = [handler EXCEPT ![h].phase = "recorded", ![h].seq = Len(records) + 1]
    /\ UNCHANGED <<shift, up, seen, window, issued, crashes, memory>>

RememberSize(h) ==
    /\ handler[h].phase = "recorded"
    /\ seen' = Put(seen, handler[h].ev.rid, Len(records))
    /\ Answer(h, Len(records))
    /\ UNCHANGED <<shift, records, up, issued, crashes, memory>>

\* _seen takes the seq of the append, not the ledger's size by now.
Remember(h) ==
    /\ handler[h].phase = "recorded"
    /\ seen' = Put(seen, handler[h].ev.rid, handler[h].seq)
    /\ Answer(h, handler[h].seq)
    /\ UNCHANGED <<shift, records, up, issued, crashes, memory>>

\* The scanner seals its own record through the same daemon.
AppendScan ==
    /\ up
    /\ Room
    /\ Cardinality({n \in 1 .. Len(records) : ~IsEvent(records[n])}) < shift.scans
    /\ records' = Append(records, ScanRecord)
    /\ memory' = IF Sdk THEN [memory EXCEPT !.scans = @ \cup {Len(records) + 1}] ELSE memory
    /\ UNCHANGED <<shift, up, seen, handler, window, issued, crashes>>

\* The process dies: its map and its connections are gone, the ledger stays.
Crash ==
    /\ up
    /\ crashes < shift.crashes
    /\ crashes' = crashes + 1
    /\ up' = FALSE
    /\ seen' = <<>>
    /\ handler' = [h \in Handler |-> Idle]
    /\ window' = [a \in Actor |-> IF Waiting(a)
                                    THEN [window[a] EXCEPT !.phase = "open"]
                                    ELSE window[a]]
    /\ UNCHANGED <<shift, records, issued, memory>>

RebuildNothing(log) == <<>>

\* _rebuild_idempotency: a later record under the same id wins.
Rebuild(log) ==
    LET Positions(rid) == {n \in 1 .. Len(log) : IsEvent(log[n]) /\ log[n].rid = rid}
    IN  [rid \in {r \in 1 .. MaxRequests : Positions(r) # {}} |->
            CHOOSE n \in Positions(rid) : \A m \in Positions(rid) : m <= n]

Restart ==
    /\ ~up
    /\ up' = TRUE
    /\ seen' = Rebuild(records)
    /\ memory' = IF Sdk THEN Memory(Replay(records)) ELSE memory
    /\ UNCHANGED <<shift, records, handler, window, issued, crashes>>

-----------------------------------------------------------------------------
(* The daemon of the SDK, cva/provenance/seal/ledgerd.py, in its place.     *)

\* Ledgerd.handle does it all under its lock.  A known request id is answered with
\* its seq only if it asks for what was recorded there.
Handle(h) ==
    LET ev == handler[h].ev
        n  == Len(records) + 1
    IN
    /\ Sdk
    /\ handler[h].phase = "received"
    /\ CASE ev.rid \in DOMAIN seen ->
              /\ Answer(h, IF records[seen[ev.rid]] = ev THEN seen[ev.rid] ELSE 0)
              /\ UNCHANGED <<records, seen, memory>>
         [] ev.rid \notin DOMAIN seen /\ Refused(memory, ev) ->
              /\ Answer(h, 0)
              /\ UNCHANGED <<records, seen, memory>>
         [] OTHER ->
              /\ records' = Append(records, ev)
              /\ memory' = Noted(memory, n, ev)
              /\ seen' = Put(seen, ev.rid, n)
              /\ Answer(h, n)
    /\ UNCHANGED <<shift, up, issued, crashes>>

\* Server.process_request: with every slot taken a client is told so.
TurnAway(a) ==
    /\ Sdk
    /\ Viewing(a)
    /\ Cardinality(Busy) = shift.connections
    /\ window' = [window EXCEPT ![a].phase = "open", ![a].view = 0]
    /\ UNCHANGED <<shift, records, up, seen, handler, issued, crashes, memory>>

HandlerStep(h) == LookUp(h) \/ Check(h) \/ AppendEvent(h) \/ Remember(h) \/ Handle(h)

Next ==
    \/ \E a \in Actor : View(a) \/ Send(a) \/ TimeOut(a) \/ TurnAway(a)
    \/ \E h \in Handler : HandlerStep(h)
    \/ AppendScan \/ Crash \/ Restart

Spec == Init /\ [][Next]_vars

-----------------------------------------------------------------------------

\* Every variable has its type, and a handler that is busy holds an event.
TypeOK ==
    /\ shift \in Shifts
    /\ \A n \in 1 .. Len(records) : IsEvent(records[n]) => records[n] \in Event
    /\ up \in BOOLEAN
    /\ \A rid \in DOMAIN seen : seen[rid] \in 1 .. Len(records)
    /\ \A h \in Handler :
         /\ handler[h].phase \in {"idle", "received", "new", "admitted", "recorded"}
         /\ handler[h].phase = "idle" <=> handler[h].ev = NoEvent
         /\ handler[h].ev \in Event \cup {NoEvent}
         /\ handler[h].seq \in 0 .. Len(records)
         /\ handler[h].client \in Actor \cup {Nobody}
    /\ \A a \in Actor :
         /\ window[a].rid \in 0 .. issued
         /\ window[a].phase \in {"open", "viewing", "waiting"}
         /\ {window[a].view, window[a].recorded} \subseteq 0 .. Len(records)
    /\ issued \in 0 .. MaxRequests
    /\ crashes \in 0 .. shift.crashes

\* With four eyes and one connection at a time, a finding's effective
\* disposition is lowered only by the approval of the latest override of that
\* finding, which somebody else asked for and which asked for just that
\* disposition (fold.py, D-E7).
LoweringNeedsTwo ==
    [][Serial /\ records' # records => \A f \in Reported :
         LET was == WebFold(records).findings[f].effective
             is == WebFold(records').findings[f].effective
             ev == records'[Len(records')]
         IN  FourEyes /\ Raises(is, was) =>
               /\ ev.action = "approve"
               /\ records[ev.refs].action = "override"
               /\ records[ev.refs].finding = f
               /\ records[ev.refs].disposition = is
               /\ records[ev.refs].actor # ev.actor
               /\ \A n \in ev.refs + 1 .. Len(records) :
                    ~(records[n].action = "override" /\ records[n].finding = f)
      ]_records

\* With four eyes and one connection at a time, a quarantine is lifted only by
\* the approval of the latest release of that target, which somebody else asked
\* for after the latest quarantine of it.
LiftingNeedsTwo ==
    [][Serial /\ records' # records => \A t \in DOMAIN WebFold(records).targets :
         LET ev == records'[Len(records')]
         IN  /\ FourEyes
             /\ WebFold(records).targets[t].status = "quarantined"
             /\ WebFold(records').targets[t].status = "active"
             =>
               /\ ev.action = "approve"
               /\ records[ev.refs].action = "release"
               /\ records[ev.refs].target = t
               /\ records[ev.refs].actor # ev.actor
               /\ \A n \in ev.refs + 1 .. Len(records) :
                    ~(records[n].action \in TargetLevel /\ records[n].target = t)
      ]_records

\* Every recorded approval names an override or a release recorded before it,
\* against the same finding and, with four eyes, by somebody else.
ApprovalsNameARequest ==
    \A n \in 1 .. Len(records) :
        LET ev == records[n] IN
        ev.action = "approve" =>
            /\ ev.refs \in 1 .. n - 1
            /\ records[ev.refs].action \in {"override", "release"}
            /\ records[ev.refs].finding = ev.finding
            /\ FourEyes => records[ev.refs].actor # ev.actor

\* Whoever is told that a decision was recorded at a seq finds a record of that
\* request id there, through overtaking handlers, retries and restarts.
AnsweredWithItsRecord ==
    \A a \in Actor : window[a].recorded # 0 =>
        /\ IsEvent(records[window[a].recorded])
        /\ records[window[a].recorded].rid = window[a].rid

\* One connection at a time, or through the SDK's daemon, an override is recorded only
\* while no event has touched the finding since the seq the web process had read
\* (expected_prev_seq); one at a time through cva-ledgerd, a quarantine or a release
\* only while no such event or approved release has touched the target.  The SDK's
\* audit knows no targets: two releases citing different findings both pass it.
DecidedOnLatest ==
    Serial \/ Sdk =>
      \A n \in 1 .. Len(records) : records[n].action \in TargetLevel \cup {"override"} =>
        LET ev == records[n]
            OnTarget(m) ==
                \/ records[m].action \in TargetLevel
                \/ /\ records[m].action = "approve"
                   /\ records[records[m].refs].action = "release"
        IN  \A m \in ev.expected + 1 .. n - 1 :
              IsEvent(records[m]) =>
                IF ev.action = "override"
                  THEN records[m].finding = ev.finding => OnTarget(m)
                  ELSE Sdk \/ (records[m].target = ev.target => ~OnTarget(m))

\* With four eyes, decisions on a finding read back clean from the ledger unless an
\* action on its target cited the finding before: over one connection at a time
\* without any violation, over connections that overlap as stale writes and reused
\* request ids only (audit.py check_event).  The SDK's daemon lets nothing through
\* that reads back as a violation, and its memory stays what a restart would rebuild.
AuditReads ==
    LET read == Replay(records) IN
    /\ Sdk => read.violations = {} /\ (up => memory = Memory(read))
    /\ FourEyes => \A v \in read.violations :
        \/ \E m \in 1 .. v.seq :
              /\ IsEvent(records[m]) /\ records[m].finding = v.finding
              /\ \/ records[m].action \in TargetLevel
                 \/ records[m].action = "approve" /\ records[records[m].refs].action = "release"
        \/ ~Serial /\ v.code \in {"stale_write", "request_id_conflict"}

\* Whatever the web process admits on a finding of the report, the daemon admits
\* on the same ledger, although it has no report; shown between decisions.
DaemonAgrees ==
    ~Sdk /\ Busy = {} => \A a \in Actor : \A ev \in Requests(a, 1, records) :
        ev.finding \in Reported => Admissible(DaemonFold(records), ev, FALSE)

\* Decisions enter one at a time, each admissible against all before it and each
\* request id once, through timeouts, retries, crashes and restarts; over
\* connections that overlap, each is admissible against what was there before.
Register == INSTANCE DecisionRegister WITH log <- records, serial <- Serial,
                         rules <- IF Sdk THEN "audit" ELSE "workflow"
ImplementsRegister == Register!Spec

Asks(ev) == [ev EXCEPT !.expected = NoSeq]

\* The decision a person is told was recorded is the one the person asked for.
RecordedAsAsked ==
    [][\A h \in Handler : \A a \in Actor :
         handler[h].client = a /\ handler'[h] = Idle /\ window'[a].recorded # 0 =>
            Asks(records[window'[a].recorded]) = Asks(handler[h].ev)
      ]_vars
=============================================================================
