------------------------------ MODULE WebProofs ------------------------------
(***************************************************************************)
(* Proofs about the accounts, the sessions and the verification cache of   *)
(* cva-web, for any number of threads and browsers. The inductive          *)
(* invariant has five parts: what the connections hold against the         *)
(* committed rows (TablesInv), what the requests and the cookies carry     *)
(* (RequestsInv), how old a verdict is when it is shown (HealthInv), what  *)
(* the rows count (CountInv), and the bounds of the behaviour.             *)
(***************************************************************************)
EXTENDS Web, FiniteSetTheorems, TLAPS

-----------------------------------------------------------------------------
(* The rows, and what the connections hold of them.                        *)

Table == [Actors -> Row \cup {NoAccount}]

FirstEpoch(a) == IF FirstRows[a] = NoAccount THEN 0 ELSE FirstRows[a].epoch

\* The epoch of a row goes up whenever the sessions of its actor end, and only then.
InStep(row, a) == row # NoAccount => row.epoch = row.ended + FirstEpoch(a)

\* No account is ever removed.
Later(rows, more) == \A a \in Actors : rows[a] # NoAccount => more[a] # NoAccount

Pin == [state : {"pinned"}, rows : Table, as : Nat]

Connection == {Untouched, [state |-> "open"], [state |-> "writer"]} \cup Pin

\* What a connection pinned was committed: it is the table unless others wrote since.
PinSound(c, rows, v) ==
  c.state = "pinned" =>
    /\ c.as <= v /\ (c.as = v => c.rows = rows)
    /\ \A a \in Actors : InStep(c.rows[a], a)
    /\ Later(c.rows, rows)

Holders == {t \in Threads : conn[t].state = "writer"}

TablesInv ==
  /\ accounts \in Table /\ Later(FirstRows, accounts)
  /\ version \in Nat
  /\ \A a \in Actors : InStep(accounts[a], a)
  /\ conn \in [Threads -> Connection]
  /\ \A t \in Threads : PinSound(conn[t], accounts, version)
  /\ \A t \in Holders : \A u \in Holders : t = u

\* A change of one row, keeping its account.
RowMove(a, r) ==
  /\ r \in Row \cup {NoAccount}
  /\ InStep(r, a)
  /\ accounts[a] # NoAccount => r # NoAccount

Reads(t) == UNCHANGED tables /\ (conn' = conn \/ conn' = Pinned(t))

Refuses(t) ==
  /\ CanWrite(t) /\ UNCHANGED tables
  /\ conn' = [conn EXCEPT ![t] = [state |-> "writer"]]

Writes(t, a, r) ==
  /\ CanWrite(t)
  /\ accounts' = [accounts EXCEPT ![a] = r] /\ version' = version + 1
  /\ conn' = [conn EXCEPT ![t] = Untouched]

\* What a statement does to the tables and to the connection.
Statement(t) ==
  \/ Reads(t) \/ LockedOut(t) \/ Refuses(t)
  \/ \E a \in Actors : \E r : RowMove(a, r) /\ Writes(t, a, r)

\* A table is no earlier than itself.
LEMMA LaterSame == \A rows : Later(rows, rows)
  BY DEF Later

\* What comes later than a later table comes later.
LEMMA LaterThen ==
  ASSUME NEW r1, NEW r2, NEW r3, Later(r1, r2), Later(r2, r3)
  PROVE  Later(r1, r3)
  BY DEF Later

\* What a connection reads was committed.
LEMMA RowsRead ==
  ASSUME TablesInv, NEW t \in Threads
  PROVE  /\ Rows(t) \in Table /\ Later(Rows(t), accounts)
         /\ \A a \in Actors : InStep(Rows(t)[a], a)
         /\ (conn[t].state = "pinned" => conn[t].as = version) => Rows(t) = accounts
<1>1. CASE conn[t].state = "pinned"
  <2>1. conn[t] \in Pin
    BY <1>1 DEF TablesInv, Connection, Untouched
  <2>2. Rows(t) = conn[t].rows /\ PinSound(conn[t], accounts, version)
    BY <1>1 DEF Rows, TablesInv
  <2> QED BY <1>1, <2>1, <2>2 DEF Pin, PinSound
<1>2. CASE conn[t].state # "pinned"
  BY <1>2, LaterSame DEF Rows, TablesInv
<1> QED BY <1>1, <1>2

\* Whoever may write reads what is committed.
LEMMA WriterReads ==
  ASSUME TablesInv, NEW t \in Threads, CanWrite(t)
  PROVE  Rows(t) = accounts
  BY RowsRead DEF CanWrite

\* A row that ends its sessions raises its epoch with them.
LEMMA InStepNext ==
  ASSUME NEW a \in Actors, NEW row \in Row, NEW r, InStep(row, a), row # NoAccount,
         r.epoch = row.epoch + 1, r.ended = row.ended + 1
  PROVE  InStep(r, a)
<1>1. FirstEpoch(a) \in Nat
  BY WebAssumption DEF FirstEpoch, Row
<1>2. row.epoch \in Nat /\ row.ended \in Nat
  BY DEF Row
<1> QED BY <1>1, <1>2 DEF InStep

\* Reading pins what is committed, or nothing.
LEMMA TablesRead ==
  ASSUME TablesInv, NEW t \in Threads, Reads(t)
  PROVE  TablesInv'
<1>1. accounts' = accounts /\ version' = version
  BY DEF Reads, tables
<1>2. CASE conn' = conn
  BY <1>1, <1>2 DEF TablesInv, Holders
<1>3. CASE conn' # conn
  <2> DEFINE pin == [state |-> "pinned", rows |-> accounts, as |-> version]
  <2>1. conn[t].state = "open" /\ conn' = [conn EXCEPT ![t] = pin]
    BY <1>3 DEF Reads, Pinned
  <2>2. pin \in Pin /\ PinSound(pin, accounts, version)
    BY LaterSame DEF Pin, PinSound, TablesInv
  <2>3. pin.state = "pinned"
    OBVIOUS
  <2> HIDE DEF pin
  <2>4. conn' \in [Threads -> Connection]
    BY <2>1, <2>2 DEF TablesInv, Connection
  <2>5. conn'[t] = pin /\ \A u \in Threads \ {t} : conn'[u] = conn[u]
    BY <2>1 DEF TablesInv
  <2>6. Holders' \subseteq Holders
    BY <2>3, <2>5 DEF Holders
  <2>7. \A u \in Threads : PinSound(conn'[u], accounts, version)
    BY <2>2, <2>5 DEF TablesInv
  <2> QED BY <1>1, <2>4, <2>6, <2>7 DEF TablesInv
<1> QED BY <1>2, <1>3

\* A statement that does not get the lock leaves a transaction open.
LEMMA TablesBlocked ==
  ASSUME TablesInv, NEW t \in Threads, LockedOut(t)
  PROVE  TablesInv'
<1>1. accounts' = accounts /\ version' = version
  BY DEF LockedOut, tables
<1>2. conn'[t] \in {conn[t], [state |-> "open"]} /\ \A u \in Threads \ {t} : conn'[u] = conn[u]
  BY DEF LockedOut, TablesInv
<1>3. conn' \in [Threads -> Connection]
  <2>1. conn' = [conn EXCEPT ![t] = conn'[t]]
    BY DEF LockedOut, TablesInv
  <2>2. conn'[t] \in Connection
    BY <1>2 DEF TablesInv, Connection
  <2> QED BY <2>1, <2>2 DEF TablesInv
<1>4. Holders' \subseteq Holders
  BY <1>2 DEF Holders
<1>5. \A u \in Threads : PinSound(conn'[u], accounts, version)
  <2>1. PinSound([state |-> "open"], accounts, version)
    BY DEF PinSound
  <2> QED BY <1>2, <2>1 DEF TablesInv
<1> QED BY <1>1, <1>3, <1>4, <1>5 DEF TablesInv

\* A refused statement keeps the lock.
LEMMA TablesRefused ==
  ASSUME TablesInv, NEW t \in Threads, Refuses(t)
  PROVE  TablesInv'
<1>1. accounts' = accounts /\ version' = version
  BY DEF Refuses, tables
<1>2. conn'[t] = [state |-> "writer"] /\ \A u \in Threads \ {t} : conn'[u] = conn[u]
  BY DEF Refuses, TablesInv
<1>3. conn' \in [Threads -> Connection]
  BY DEF Refuses, TablesInv, Connection
<1>4. Holders' \subseteq {t}
  BY <1>2 DEF Holders, Refuses, CanWrite
<1>5. \A u \in Threads : PinSound(conn'[u], accounts, version)
  <2>1. PinSound([state |-> "writer"], accounts, version)
    BY DEF PinSound
  <2> QED BY <1>2, <2>1 DEF TablesInv
<1> QED BY <1>1, <1>3, <1>4, <1>5 DEF TablesInv

\* A commit changes one row, and makes what others pinned old.
LEMMA TablesWritten ==
  ASSUME TablesInv, NEW t \in Threads, NEW a \in Actors, NEW r, RowMove(a, r), Writes(t, a, r)
  PROVE  TablesInv' /\ Later(accounts, accounts')
<1>1. accounts' \in Table /\ version' = version + 1 /\ version \in Nat
  BY DEF Writes, RowMove, TablesInv, Table
<1>2. accounts'[a] = r /\ \A x \in Actors \ {a} : accounts'[x] = accounts[x]
  BY DEF Writes, TablesInv, Table
<1>3. \A x \in Actors : InStep(accounts'[x], x)
  BY <1>2 DEF RowMove, TablesInv
<1>4. Later(accounts, accounts')
  BY <1>2 DEF RowMove, Later
<1>5. conn'[t] = Untouched /\ \A u \in Threads \ {t} : conn'[u] = conn[u]
  BY DEF Writes, TablesInv
<1>6. conn' \in [Threads -> Connection]
  BY DEF Writes, TablesInv, Connection
<1>7. Holders' \subseteq Holders
  BY <1>5 DEF Holders, Untouched
<1>8. ASSUME NEW u \in Threads PROVE PinSound(conn'[u], accounts', version')
  <2>1. CASE u = t
    BY <1>5, <2>1 DEF PinSound, Untouched
  <2>2. CASE u # t /\ conn[u].state = "pinned"
    <3>1. conn[u] \in Pin
      BY <2>2 DEF TablesInv, Connection, Untouched
    <3>2. conn[u].as \in Nat /\ conn[u].as <= version /\ Later(conn[u].rows, accounts)
          /\ \A x \in Actors : InStep(conn[u].rows[x], x)
      BY <2>2, <3>1 DEF TablesInv, PinSound, Pin
    <3>3. conn[u].as <= version' /\ conn[u].as # version'
      BY <1>1, <3>2
    <3>4. Later(conn[u].rows, accounts')
      BY <1>4, <3>2, LaterThen
    <3> QED BY <1>5, <2>2, <3>2, <3>3, <3>4 DEF PinSound
  <2>3. CASE u # t /\ conn[u].state # "pinned"
    BY <1>5, <2>3 DEF PinSound
  <2> QED BY <2>1, <2>2, <2>3
<1>9. \A x \in Holders' : \A y \in Holders' : x = y
  BY <1>7 DEF TablesInv
<1>10. \A u \in Threads : PinSound(conn'[u], accounts', version')
  BY <1>8
<1>11. \A x \in Threads : PinSound(conn[x], accounts, version)'
  BY <1>10 DEF PinSound
<1>12. Later(FirstRows, accounts')
  BY <1>4, LaterThen DEF TablesInv
<1> QED BY <1>1, <1>3, <1>4, <1>6, <1>9, <1>11, <1>12 DEF TablesInv, InStep, Later

\* Whatever a statement does, the tables stay sound.
LEMMA TablesMove ==
  ASSUME TablesInv, NEW t \in Threads, Statement(t)
  PROVE  TablesInv' /\ Later(accounts, accounts')
<1>1. CASE Reads(t)
  <2>1. accounts' = accounts
    BY <1>1 DEF Reads, tables
  <2> QED BY <1>1, <2>1, TablesRead, LaterSame
<1>2. CASE LockedOut(t)
  <2>1. accounts' = accounts
    BY <1>2 DEF LockedOut, tables
  <2> QED BY <1>2, <2>1, TablesBlocked, LaterSame
<1>3. CASE Refuses(t)
  <2>1. accounts' = accounts
    BY <1>3 DEF Refuses, tables
  <2> QED BY <1>3, <2>1, TablesRefused, LaterSame
<1>4. CASE \E a \in Actors : \E r : RowMove(a, r) /\ Writes(t, a, r)
  <2>1. PICK a \in Actors : \E r : RowMove(a, r) /\ Writes(t, a, r)
    BY <1>4
  <2>2. PICK r : RowMove(a, r) /\ Writes(t, a, r)
    BY <2>1
  <2> QED BY <2>2, TablesWritten
<1> QED BY <1>1, <1>2, <1>3, <1>4 DEF Statement

-----------------------------------------------------------------------------
(* The requests and the cookies.                                           *)

Session == [actor : Actors \cup {NoActor}, role : Roles \cup {"none"}, epoch : Nat, seen : Nat,
            token : BOOLEAN, asOf : Nat]

Status == [reachable : BOOLEAN, size : Nat, canSign : BOOLEAN, readOnly : BOOLEAN]

Verdict == [state : {"NONE", "OK", "FAILED", "UNAVAILABLE"}, checkedAt : Nat, records : Nat]

Kinds == Posts \cup {"health"}

Phases == {"accepted", "serving", "deriving", "asked", "verifying", "verified", "healthy",
           "answer"}

Argument == [actor : Managed \cup {NoActor}, guess : Nat, to : GivenRoles \cup {"off", "on", "-"}]

Request ==
  [pc : Phases, code : Nat, kind : Kinds, arg : Argument, browser : Browsers, sent : Session,
   session : Session, account : Actors \cup {NoActor}, role : Roles \cup {"none"},
   row : Row \cup {NoAccount}, at : Nat, status : Status, verdict : Verdict]

Answered ==
  [pc : {"answer"}, code : Nat, session : Session, browser : Browsers, sent : Session,
   account : Actors \cup {NoActor}]

\* A session was opened with the row of an account: its epoch is the one the row had
\* when the sessions of the actor had been ended as often as asOf says.
SessionOn(s, rows) ==
  /\ s \in Session
  /\ s.actor # NoActor => rows[s.actor] # NoAccount /\ s.epoch = s.asOf + FirstEpoch(s.actor)

ServedOn(r, rows) ==
  /\ r \in Request /\ SessionOn(r.session, rows)
  /\ r.pc # "answer" => r.kind \in load.kinds /\ r.arg \in Asked(r.kind)
  /\ r.pc = "deriving" => r.kind = "login"
  /\ r.row # NoAccount =>
       r.arg.actor \in Actors /\ rows[r.arg.actor] # NoAccount /\ InStep(r.row, r.arg.actor)

RequestOn(r, rows) ==
  \/ r = Waiting
  \/ r \in Answered /\ SessionOn(r.session, rows)
  \/ ServedOn(r, rows)

RequestsInv ==
  /\ load \in Workloads
  /\ req \in [Threads -> {Waiting} \cup Answered \cup Request]
  /\ \A t \in Threads : RequestOn(req[t], accounts)
  /\ cookies \in [Browsers -> Session]
  /\ \A b \in Browsers : SessionOn(cookies[b], accounts)
  /\ now \in Nat

\* What one thread does to the requests and to the cookies.
Served(t) ==
  /\ \E r : req' = [req EXCEPT ![t] = r] /\ RequestOn(r, accounts')
  /\ \/ cookies' = cookies
     \/ \E b \in Browsers : \E s : cookies' = [cookies EXCEPT ![b] = s] /\ SessionOn(s, accounts')
  /\ load' = load /\ now' = now

\* A session of an account stays one.
LEMMA SessionLater ==
  ASSUME NEW rows, NEW more, NEW s, SessionOn(s, rows), Later(rows, more)
  PROVE  SessionOn(s, more)
  BY DEF SessionOn, Later, Session

\* What a request carries stays true of later rows.
LEMMA RequestLater ==
  ASSUME NEW rows, NEW more, NEW r, RequestOn(r, rows), Later(rows, more)
  PROVE  RequestOn(r, more)
<1>1. CASE r = Waiting
  BY <1>1 DEF RequestOn
<1>2. CASE r \in Answered /\ SessionOn(r.session, rows)
  BY <1>2, SessionLater DEF RequestOn
<1>3. CASE ServedOn(r, rows)
  <2>1. SessionOn(r.session, more)
    BY <1>3, SessionLater DEF ServedOn
  <2> QED BY <1>3, <2>1 DEF RequestOn, ServedOn, Later
<1> QED BY <1>1, <1>2, <1>3 DEF RequestOn

\* A request has its type.
LEMMA RequestType ==
  ASSUME NEW r, NEW rows, RequestOn(r, rows)
  PROVE  r \in {Waiting} \cup Answered \cup Request
  BY DEF RequestOn, ServedOn

\* Serving one request leaves the others.
LEMMA RequestsServed ==
  ASSUME RequestsInv, NEW t \in Threads, Later(accounts, accounts'), Served(t)
  PROVE  RequestsInv'
<1>1. PICK r : req' = [req EXCEPT ![t] = r] /\ RequestOn(r, accounts')
  BY DEF Served
<1>2. req' \in [Threads -> {Waiting} \cup Answered \cup Request]
  BY <1>1, RequestType DEF RequestsInv
<1>3. ASSUME NEW u \in Threads PROVE RequestOn(req'[u], accounts')
  <2>1. CASE u = t
    BY <1>1, <2>1 DEF RequestsInv
  <2>2. CASE u # t
    <3>1. req'[u] = req[u] /\ RequestOn(req[u], accounts)
      BY <1>1, <2>2 DEF RequestsInv
    <3> QED BY <3>1, RequestLater
  <2> QED BY <2>1, <2>2
<1>4. /\ cookies' \in [Browsers -> Session]
      /\ \A b \in Browsers : SessionOn(cookies'[b], accounts')
  <2>1. \A b \in Browsers : SessionOn(cookies[b], accounts')
    BY SessionLater DEF RequestsInv
  <2>2. CASE cookies' = cookies
    BY <2>1, <2>2 DEF RequestsInv
  <2>3. CASE \E b \in Browsers : \E s :
               cookies' = [cookies EXCEPT ![b] = s] /\ SessionOn(s, accounts')
    <3>1. PICK b \in Browsers :
            \E s : cookies' = [cookies EXCEPT ![b] = s] /\ SessionOn(s, accounts')
      BY <2>3
    <3>2. PICK s : cookies' = [cookies EXCEPT ![b] = s] /\ SessionOn(s, accounts')
      BY <3>1
    <3>3. s \in Session
      BY <3>2 DEF SessionOn
    <3> QED BY <2>1, <3>2, <3>3 DEF RequestsInv
  <2> QED BY <2>2, <2>3 DEF Served
<1>5. load' \in Workloads /\ now' \in Nat
  BY DEF Served, RequestsInv
<1>6. \A u \in Threads : RequestOn(req[u], accounts)'
  BY <1>3 DEF RequestOn, ServedOn, SessionOn, InStep, Served
<1>7. \A b \in Browsers : SessionOn(cookies[b], accounts)'
  BY <1>4 DEF SessionOn
<1> QED BY <1>2, <1>4, <1>5, <1>6, <1>7 DEF RequestsInv

\* A request that a thread works on.
LEMMA AtWork ==
  ASSUME RequestsInv, NEW t \in Threads, req[t].pc \in Phases \ {"answer"}
  PROVE  ServedOn(req[t], accounts)
<1>1. RequestOn(req[t], accounts)
  BY DEF RequestsInv
<1>2. req[t] # Waiting
  BY DEF Phases, Waiting
<1>3. req[t] \notin Answered
  BY DEF Answered
<1> QED BY <1>1, <1>2, <1>3 DEF RequestOn

\* A thread answers its request with a session that fits the accounts.
LEMMA Answers ==
  ASSUME NEW t \in Threads, NEW code \in Nat, NEW s, NEW rows, SessionOn(s, rows),
         req[t] \in Request, Answer(t, code, s)
  PROVE  \E r : req' = [req EXCEPT ![t] = r] /\ RequestOn(r, rows)
<1> DEFINE r == [pc |-> "answer", code |-> code, session |-> s, browser |-> req[t].browser,
                 sent |-> req[t].sent, account |-> req[t].account]
<1>1. req' = [req EXCEPT ![t] = r]
  BY DEF Answer
<1>2. r \in Answered /\ r.session = s
  BY DEF Answered, Request, SessionOn
<1>3. RequestOn(r, rows)
  BY <1>2 DEF RequestOn
<1> QED BY <1>1, <1>3

\* A session of nobody fits any rows.
LEMMA AnonymousOn ==
  ASSUME NEW rows, NEW token \in BOOLEAN
  PROVE  SessionOn(Anonymous(token), rows)
  BY DEF SessionOn, Session, Anonymous, Roles

\* current_account() leaves a session of the same actor and epoch, or none.
LEMMA RefreshedOn ==
  ASSUME TablesInv, NEW s, NEW rows, NEW seen \in Table, SessionOn(s, rows), now \in Nat
  PROVE  /\ SessionOn(Refreshed(s, seen, now), rows)
         /\ Honoured(s, seen, now) => /\ Refreshed(s, seen, now).actor = s.actor
                                      /\ s.actor \in Actors /\ seen[s.actor] \in Row
<1>1. CASE Honoured(s, seen, now)
  <2>1. s \in Session /\ s.actor \in Actors /\ seen[s.actor] \in Row
    BY <1>1 DEF Honoured, SessionOn, Session, Table
  <2> DEFINE role == seen[s.actor].role
             mid == [s EXCEPT !.seen = now]
             left == [mid EXCEPT !.role = role]
  <2>2. Refreshed(s, seen, now) = left
    BY <1>1 DEF Refreshed, Honoured
  <2>3. role \in Roles
    BY <2>1 DEF Row
  <2> HIDE DEF role
  <2>4. mid \in Session /\ mid.actor = s.actor /\ mid.epoch = s.epoch /\ mid.asOf = s.asOf
    BY <2>1 DEF Session
  <2> HIDE DEF mid
  <2>5. left \in Session /\ left.actor = s.actor /\ left.epoch = s.epoch /\ left.asOf = s.asOf
    BY <2>3, <2>4 DEF Session
  <2> HIDE DEF left
  <2>6. SessionOn(left, rows)
    BY <2>5 DEF SessionOn
  <2> QED BY <2>1, <2>2, <2>5, <2>6
<1>2. CASE ~Honoured(s, seen, now)
  <2>1. Refreshed(s, seen, now) = s \/ Refreshed(s, seen, now) = Anonymous(FALSE)
    BY <1>2 DEF Refreshed
  <2> QED BY <1>2, <2>1, AnonymousOn
<1> QED BY <1>1, <1>2

-----------------------------------------------------------------------------
(* Each step of a thread is a statement and serves its request.            *)

Turn(t) == Statement(t) /\ Served(t)

Stays == UNCHANGED <<tables, conn>>

\* A step that leaves the tables is a statement that reads nothing.
LEMMA StaysReads ==
  ASSUME NEW t \in Threads, Stays
  PROVE  Statement(t) /\ accounts' = accounts
  BY DEF Stays, Statement, Reads, tables

\* A behaviour has requests of the kinds there are.
LEMMA KindsTyped ==
  ASSUME RequestsInv
  PROVE  load.kinds \subseteq Kinds
  BY WebAssumption DEF RequestsInv, Kinds

\* What a request asks for has its type.
LEMMA AskedTyped ==
  ASSUME NEW k \in Kinds
  PROVE  /\ Asked(k) \subseteq Argument /\ NoArgument \in Argument
         /\ k \in {"login"} \cup Admin => \A arg \in Asked(k) : arg.actor \in Managed
         /\ k = "role" => \A arg \in Asked(k) : arg.to \in GivenRoles
<1>1. NoArgument \in Argument
  BY DEF NoArgument, Argument
<1>2. CASE k = "login"
  BY <1>1, <1>2 DEF Asked, Argument
<1>3. CASE k = "role"
  BY <1>1, <1>3 DEF Asked, Argument
<1>4. CASE k = "disable"
  BY <1>1, <1>4 DEF Asked, Argument
<1>5. CASE k \in {"password", "create"}
  BY <1>1, <1>5 DEF Asked, Argument
<1>6. CASE k \notin {"login", "role", "disable", "password", "create"}
  BY <1>1, <1>6 DEF Asked, Argument, Admin
<1> QED BY <1>2, <1>3, <1>4, <1>5, <1>6

\* A request comes in, is limited and checked.
LEMMA TurnReceive ==
  ASSUME TablesInv, RequestsInv, NEW t \in Threads, NEW b \in Browsers, NEW k \in load.kinds,
         Receive(t, b, k)
  PROVE  Turn(t)
<1> DEFINE session == [cookies[b] EXCEPT !.token = TRUE]
           ok == WithinRate(hits[<<IF session.actor = NoActor THEN b ELSE session.actor,
                                   IF k \in Posts THEN "write" ELSE "read">>], now)
           Code(form) == IF ~ok THEN 429
                         ELSE IF k \in Posts /\ ~FormOk(cookies[b], form) THEN 403 ELSE 0
           Got(arg, code) ==
             [pc |-> IF code = 0 THEN "accepted" ELSE "answer", code |-> code,
              kind |-> k, arg |-> IF code = 0 THEN arg ELSE NoArgument, browser |-> b,
              sent |-> cookies[b], session |-> session,
              account |-> NoActor, role |-> "none", row |-> NoAccount, at |-> 0,
              status |-> NoStatus, verdict |-> NoVerdict]
<1>1. PICK arg \in Asked(k) :
        \E form \in (IF k \in Posts THEN Forms ELSE {CHOOSE f \in Forms : TRUE}) :
          req' = [req EXCEPT ![t] = Got(arg, Code(form))]
  BY DEF Receive
<1>2. PICK form : req' = [req EXCEPT ![t] = Got(arg, Code(form))]
  <2> HIDE DEF Code, Got
  <2> QED BY <1>1
<1>3. Code(form) \in Nat
  OBVIOUS
<1> DEFINE code == Code(form)
<1> HIDE DEF Code, ok
<1>4. k \in Kinds /\ arg \in Argument /\ NoArgument \in Argument
  BY KindsTyped, AskedTyped
<1>5. SessionOn(cookies[b], accounts)
  BY DEF RequestsInv
<1>6. SessionOn(session, accounts)
  BY <1>5 DEF SessionOn, Session
<1>7. /\ NoStatus \in Status /\ NoVerdict \in Verdict
      /\ cookies[b] \in Session /\ session \in Session
  BY <1>5, <1>6 DEF NoStatus, Status, NoVerdict, Verdict, SessionOn
<1>8. code \in Nat
  BY <1>3
<1> HIDE DEF session, code
<1> DEFINE r == Got(arg, code)
<1>9. r \in Request
  <2>1. r.pc \in Phases /\ r.arg \in Argument
    BY <1>4 DEF Phases
  <2>2. r.kind \in Kinds /\ NoActor \in Actors \cup {NoActor} /\ NoAccount \in Row \cup {NoAccount}
    BY <1>4
  <2> QED BY <1>4, <1>7, <1>8, <2>1, <2>2 DEF Request
<1>10. /\ r.session = session /\ r.row = NoAccount /\ r.kind = k /\ r.pc # "deriving"
       /\ r.pc # "answer" => r.arg = arg
  OBVIOUS
<1> HIDE DEF r
<1>11. ServedOn(r, accounts)
  BY <1>6, <1>9, <1>10 DEF ServedOn
<1>12. req' = [req EXCEPT ![t] = r]
  BY <1>2 DEF r, code
<1>13. Stays /\ cookies' = cookies /\ load' = load /\ now' = now
  BY DEF Receive, Stays, world, tables
<1>14. Statement(t) /\ accounts' = accounts
  BY <1>13, StaysReads
<1>15. Served(t)
  BY <1>11, <1>12, <1>13, <1>14 DEF Served, RequestOn
<1> QED BY <1>14, <1>15 DEF Turn

\* An answer that changes neither the accounts nor a cookie.
LEMMA TurnAnswer ==
  ASSUME TablesInv, RequestsInv, NEW t \in Threads, NEW code \in Nat, NEW s,
         SessionOn(s, accounts), req[t] \in Request, Answer(t, code, s), Statement(t),
         accounts' = accounts, cookies' = cookies, load' = load, now' = now
  PROVE  Turn(t)
<1>1. \E r : req' = [req EXCEPT ![t] = r] /\ RequestOn(r, accounts)
  BY Answers
<1> QED BY <1>1 DEF Turn, Served

\* A step that leaves the accounts and the cookies and goes on with the request.
LEMMA TurnOn ==
  ASSUME TablesInv, RequestsInv, NEW t \in Threads, NEW r, ServedOn(r, accounts),
         req' = [req EXCEPT ![t] = r], Statement(t),
         accounts' = accounts, cookies' = cookies, load' = load, now' = now
  PROVE  Turn(t)
  BY DEF Turn, Served, RequestOn

\* current_account() lets the request through, or sends it to the login page.
LEMMA TurnAdmit ==
  ASSUME TablesInv, RequestsInv, NEW t \in Threads, Admit(t)
  PROVE  Turn(t)
<1> DEFINE was == req[t].session
           s == Refreshed(was, Rows(t), now)
<1>1. ServedOn(req[t], accounts) /\ req[t].pc = "accepted"
  BY AtWork DEF Admit, Ready, Phases
<1>2. /\ SessionOn(s, accounts)
      /\ Honoured(was, Rows(t), now) => s.actor \in Actors /\ s.role \in Roles \cup {"none"}
  <2>1. SessionOn(was, accounts) /\ Rows(t) \in Table /\ now \in Nat
    BY <1>1, RowsRead DEF ServedOn, RequestsInv
  <2> HIDE DEF was
  <2>2. SessionOn(s, accounts)
    BY <2>1, RefreshedOn
  <2>3. Honoured(was, Rows(t), now) => s.actor = was.actor /\ was.actor \in Actors
    BY <2>1, RefreshedOn
  <2> HIDE DEF s
  <2> QED BY <2>2, <2>3 DEF SessionOn, Session
<1>3. accounts' = accounts /\ Statement(t)
  BY DEF Admit, Statement, Reads, tables
<1>4. cookies' = cookies /\ load' = load /\ now' = now
  BY DEF Admit, world
<1>5. CASE Honoured(was, Rows(t), now)
  <2> DEFINE r == [[[[req[t] EXCEPT !.pc = "serving"] EXCEPT !.session = s]
                      EXCEPT !.account = s.actor] EXCEPT !.role = s.role]
  <2>1. req' = [req EXCEPT ![t] = r]
    BY <1>5 DEF Admit
  <2> HIDE DEF s
  <2>2. /\ r \in Request /\ r.session = s /\ r.kind = req[t].kind /\ r.arg = req[t].arg
        /\ r.row = req[t].row /\ r.pc = "serving"
    BY <1>1, <1>2, <1>5 DEF ServedOn, Request, Phases, SessionOn
  <2> HIDE DEF r
  <2>3. ServedOn(r, accounts)
    BY <1>1, <1>2, <2>2 DEF ServedOn
  <2> QED BY <1>3, <1>4, <2>1, <2>3, TurnOn
<1>6. CASE ~Honoured(was, Rows(t), now)
  <2>1. Answer(t, 302, s) /\ req[t] \in Request
    BY <1>1, <1>6 DEF Admit, ServedOn
  <2> HIDE DEF s
  <2> QED BY <1>2, <1>3, <1>4, <2>1, TurnAnswer
<1> QED BY <1>5, <1>6

\* The cookie goes out.
LEMMA TurnRespond ==
  ASSUME TablesInv, RequestsInv, NEW t \in Threads, Respond(t)
  PROVE  Turn(t)
<1> DEFINE s == IF req[t].account # NoActor THEN req[t].session
                ELSE Refreshed(req[t].session, Rows(t), now)
           b == req[t].browser
<1>1. req[t].pc = "answer" /\ RequestOn(req[t], accounts)
  BY DEF Respond, RequestsInv
<1>2. b \in Browsers /\ SessionOn(req[t].session, accounts)
  BY <1>1 DEF RequestOn, ServedOn, Answered, Request, Waiting
<1>3. SessionOn(s, accounts)
  <2>1. Rows(t) \in Table /\ now \in Nat
    BY RowsRead DEF RequestsInv
  <2>2. SessionOn(Refreshed(req[t].session, Rows(t), now), accounts)
    BY <1>2, <2>1, RefreshedOn
  <2> QED BY <1>2, <2>2
<1>4. cookies' = cookies \/ cookies' = [cookies EXCEPT ![b] = s]
  BY DEF Respond
<1> HIDE DEF s, b
<1>5. accounts' = accounts /\ Statement(t) /\ load' = load /\ now' = now
  BY DEF Respond, Statement, Reads, tables, world
<1>6. req' = [req EXCEPT ![t] = Waiting] /\ RequestOn(Waiting, accounts)
  BY DEF Respond, RequestOn
<1>7. \E r : req' = [req EXCEPT ![t] = r] /\ RequestOn(r, accounts')
  BY <1>5, <1>6
<1>8. \/ cookies' = cookies
      \/ \E x \in Browsers : \E y : cookies' = [cookies EXCEPT ![x] = y] /\ SessionOn(y, accounts')
  BY <1>2, <1>3, <1>4, <1>5
<1> QED BY <1>5, <1>7, <1>8 DEF Turn, Served

\* The columns each operation leaves.
LEMMA BackoffTyped ==
  ASSUME NEW n \in Nat
  PROVE  Backoff(n) \in Int
<1>1. Threshold \in Nat /\ BaseLock \in Nat /\ MaxLock \in Nat
  BY LimitsAssumption
<1>2. CASE n < Threshold
  BY <1>2 DEF Backoff
<1>3. CASE ~(n < Threshold)
  <2>1. n - Threshold \in Nat
    BY <1>1, <1>3
  <2>2. 2 ^ (n - Threshold) \in Int
    BY <2>1
  <2>3. BaseLock * 2 ^ (n - Threshold) \in Int
    BY <1>1, <2>2
  <2> QED BY <1>1, <1>3, <2>3 DEF Backoff
<1> QED BY <1>2, <1>3

\* A wrong guess counts on from what was read.
LEMMA FailedMove ==
  ASSUME NEW row \in Row, NEW n \in Nat, NEW time \in Nat
  PROVE  LET r == Failed(row, n, time) IN
         /\ r \in Row /\ r.epoch = row.epoch /\ r.ended = row.ended
         /\ r.failures = n + 1 /\ r.lockedUntil = time + Backoff(n + 1)
<1> DEFINE until == time + Backoff(n + 1)
           mid == [row EXCEPT !.failures = n + 1]
           r == [mid EXCEPT !.lockedUntil = until]
<1>1. until \in Int
  <2>1. Backoff(n + 1) \in Int
    BY BackoffTyped
  <2> QED BY <2>1
<1>2. Failed(row, n, time) = r
  BY DEF Failed
<1> HIDE DEF until
<1>3. mid \in Row /\ mid.epoch = row.epoch /\ mid.ended = row.ended /\ mid.failures = n + 1
  BY DEF Row
<1> HIDE DEF mid
<1>4. /\ r \in Row /\ r.epoch = row.epoch /\ r.ended = row.ended
      /\ r.failures = n + 1 /\ r.lockedUntil = until
  BY <1>1, <1>3 DEF Row
<1> HIDE DEF r
<1> QED BY <1>2, <1>4 DEF until

\* A right guess clears the count.
LEMMA AcceptedMove ==
  ASSUME NEW row \in Row
  PROVE  LET r == Accepted(row) IN
         /\ r \in Row /\ r.epoch = row.epoch /\ r.ended = row.ended /\ r.failures = 0
<1> DEFINE mid == [row EXCEPT !.failures = 0]
           r == [mid EXCEPT !.lockedUntil = 0]
<1>1. mid \in Row /\ mid.epoch = row.epoch /\ mid.ended = row.ended /\ mid.failures = 0
  BY DEF Row
<1> HIDE DEF mid
<1>2. r \in Row /\ r.epoch = row.epoch /\ r.ended = row.ended /\ r.failures = 0
  BY <1>1 DEF Row
<1>3. Accepted(row) = r
  BY DEF Accepted, mid
<1> HIDE DEF r
<1> QED BY <1>2, <1>3

\* Whatever ends the sessions of an actor raises the epoch with it.
LEMMA RevokedMove ==
  ASSUME NEW row \in Row
  PROVE  LET r == Ended(Revoked(row)) IN
         /\ r \in Row /\ r.epoch = row.epoch + 1 /\ r.ended = row.ended + 1
         /\ r.failures = row.failures /\ r.lockedUntil = row.lockedUntil
<1> DEFINE mid == Revoked(row)
           r == Ended(mid)
<1>1. /\ mid \in Row /\ mid.epoch = row.epoch + 1 /\ mid.ended = row.ended
      /\ mid.failures = row.failures /\ mid.lockedUntil = row.lockedUntil
  BY DEF Revoked, Row
<1> HIDE DEF mid
<1>2. /\ r \in Row /\ r.epoch = row.epoch + 1 /\ r.ended = row.ended + 1
      /\ r.failures = row.failures /\ r.lockedUntil = row.lockedUntil
  BY <1>1 DEF Ended, Row
<1> HIDE DEF r
<1> QED BY <1>2 DEF r, mid

\* Every change of an account ends the sessions of its actor.
LEMMA ChangedMove ==
  ASSUME NEW row \in Row, NEW kind \in {"role", "disable", "password"}, NEW to,
         kind = "role" => to \in Roles
  PROVE  LET r == Ended(Changed(row, kind, to)) IN
         /\ r \in Row /\ r.epoch = row.epoch + 1 /\ r.ended = row.ended + 1
         /\ r.failures = row.failures /\ r.lockedUntil = row.lockedUntil
<1> DEFINE Same(mid) == /\ mid \in Row /\ mid.epoch = row.epoch /\ mid.ended = row.ended
                        /\ mid.failures = row.failures /\ mid.lockedUntil = row.lockedUntil
<1>1. CASE kind = "role"
  <2> DEFINE mid == [row EXCEPT !.role = to]
  <2>1. Same(mid)
    BY <1>1 DEF Row
  <2>2. Changed(row, kind, to) = Revoked(mid)
    BY <1>1 DEF Changed, WithRole
  <2> HIDE DEF mid
  <2> QED BY <2>1, <2>2, RevokedMove
<1>2. CASE kind = "disable"
  <2> DEFINE mid == [row EXCEPT !.disabled = (to = "off")]
  <2>1. Same(mid)
    BY DEF Row
  <2>2. Changed(row, kind, to) = Revoked(mid)
    BY <1>2 DEF Changed, WithDisabled
  <2> HIDE DEF mid
  <2> QED BY <2>1, <2>2, RevokedMove
<1>3. CASE kind = "password"
  <2> DEFINE mid == [row EXCEPT !.pw = row.pw + 1]
  <2>1. Same(mid)
    BY DEF Row
  <2>2. Changed(row, kind, to) = Revoked(mid)
    BY <1>3 DEF Changed, WithPassword
  <2> HIDE DEF mid
  <2> QED BY <2>1, <2>2, RevokedMove
<1> QED BY <1>1, <1>2, <1>3

\* A new account has counted nothing.
LEMMA NewRowMove ==
  ASSUME NEW role \in Roles
  PROVE  /\ NewRow(role) \in Row /\ NewRow(role).epoch = 0 /\ NewRow(role).ended = 0
         /\ NewRow(role).failures = 0
  BY DEF NewRow, Row

\* A row is replaced by one of the same account.
LEMMA RowReplaced ==
  ASSUME TablesInv, NEW t \in Threads, NEW a \in Actors, NEW r \in Row, NEW addresses,
         CanWrite(t), Write(t, [accounts EXCEPT ![a] = r], addresses), InStep(r, a)
  PROVE  Statement(t) /\ Later(accounts, accounts') /\ accounts'[a] = r
<1>1. RowMove(a, r)
  BY WebAssumption DEF RowMove
<1>2. Writes(t, a, r)
  BY DEF Write, Writes
<1>3. Statement(t)
  BY <1>1, <1>2 DEF Statement
<1>4. accounts'[a] = r
  BY DEF Write, TablesInv, Table
<1> QED BY <1>3, <1>4, TablesMove

\* An answer that does not touch the cookies.
LEMMA TurnWritten ==
  ASSUME TablesInv, RequestsInv, NEW t \in Threads, NEW code \in Nat, NEW s,
         SessionOn(s, accounts'), req[t] \in Request, Answer(t, code, s), Statement(t),
         cookies' = cookies, load' = load, now' = now
  PROVE  Turn(t)
<1>1. \E r : req' = [req EXCEPT ![t] = r] /\ RequestOn(r, accounts')
  BY Answers
<1> QED BY <1>1 DEF Turn, Served

\* An attempt reads the row.
LEMMA TurnStartLogin ==
  ASSUME TablesInv, RequestsInv, NEW t \in Threads, StartLogin(t)
  PROVE  Turn(t)
<1> DEFINE a == req[t].arg.actor
           was == req[t].session
           s == Refreshed(was, Rows(t), now)
           row == Rows(t)[a]
<1>1. ServedOn(req[t], accounts) /\ req[t].pc = "accepted" /\ req[t].kind = "login"
  BY AtWork DEF StartLogin, Ready, Phases
<1>2. req[t] \in Request /\ a \in Actors
  BY <1>1, AskedTyped, WebAssumption DEF ServedOn, Kinds, Posts
<1>3. SessionOn(s, accounts) /\ Rows(t) \in Table /\ Later(Rows(t), accounts)
      /\ InStep(row, a) /\ now \in Nat
  <2>1. SessionOn(was, accounts) /\ now \in Nat
    BY <1>1 DEF ServedOn, RequestsInv
  <2>2. Rows(t) \in Table /\ Later(Rows(t), accounts) /\ InStep(row, a)
    BY <1>2, RowsRead
  <2> QED BY <2>1, <2>2, RefreshedOn
<1>4. row \in Row \cup {NoAccount} /\ (row # NoAccount => accounts[a] # NoAccount)
  BY <1>2, <1>3 DEF Table, Later
<1>5. accounts' = accounts /\ Statement(t)
  BY DEF StartLogin, Statement, Reads, tables
<1>6. cookies' = cookies /\ load' = load /\ now' = now
  BY DEF StartLogin, world
<1>7. CASE req' = [req EXCEPT ![t].pc = "deriving", ![t].session = s, ![t].row = row, ![t].at = now]
  <2> DEFINE r == [[[[req[t] EXCEPT !.pc = "deriving"] EXCEPT !.session = s]
                      EXCEPT !.row = row] EXCEPT !.at = now]
  <2>1. req' = [req EXCEPT ![t] = r]
    BY <1>7
  <2> HIDE DEF s, row
  <2>2. /\ r \in Request /\ r.session = s /\ r.kind = req[t].kind /\ r.arg = req[t].arg
        /\ r.row = row /\ r.pc = "deriving"
    BY <1>2, <1>3, <1>4 DEF Request, Phases, SessionOn
  <2> HIDE DEF r
  <2>3. ServedOn(r, accounts)
    BY <1>1, <1>2, <1>3, <1>4, <2>2 DEF ServedOn
  <2> QED BY <1>5, <1>6, <2>1, <2>3, TurnOn
<1>8. CASE Answer(t, 302, s) \/ Answer(t, 401, s)
  <2> HIDE DEF s
  <2>1. 302 \in Nat /\ 401 \in Nat
    OBVIOUS
  <2> QED BY <1>2, <1>3, <1>5, <1>6, <1>8, <2>1, TurnAnswer
<1> QED BY <1>7, <1>8 DEF StartLogin

\* A wrong guess writes what was read, plus one.
LEMMA TurnWrongGuess ==
  ASSUME TablesInv, RequestsInv, NEW t \in Threads, Ready(t, {"login"}, "deriving"),
         WrongGuess(t), cookies' = cookies, load' = load, now' = now
  PROVE  Turn(t)
<1> DEFINE a == req[t].arg.actor
           row == req[t].row
           s == req[t].session
<1>1. ServedOn(req[t], accounts) /\ req[t].pc = "deriving" /\ req[t].kind = "login"
  BY AtWork DEF Ready, Phases
<1>2. req[t] \in Request /\ a \in Actors /\ req[t].at \in Nat
      /\ row \in Row \cup {NoAccount} /\ SessionOn(s, accounts)
  BY <1>1, AskedTyped, WebAssumption DEF ServedOn, Kinds, Posts, Request
<1>3. row # NoAccount => accounts[a] \in Row /\ InStep(accounts[a], a) /\ accounts[a] # NoAccount
  BY <1>1, <1>2 DEF ServedOn, TablesInv, Table
<1>4. 401 \in Nat /\ 500 \in Nat
  OBVIOUS
<1>5. CASE CanWrite(t) /\ row # NoAccount
  <2> DEFINE r == Failed(accounts[a], row.failures, req[t].at)
  <2>1. PICK addresses : Write(t, [accounts EXCEPT ![a] = r], addresses) /\ Answer(t, 401, s)
    BY <1>5 DEF WrongGuess
  <2>2. r \in Row /\ r.epoch = accounts[a].epoch /\ r.ended = accounts[a].ended
    <3>1. row.failures \in Nat
      BY <1>2, <1>5 DEF Row
    <3> HIDE DEF row
    <3> QED BY ZenonT(60), <1>2, <1>3, <1>5, <3>1, FailedMove
  <2>3. InStep(r, a)
    BY <1>3, <1>5, <2>2 DEF InStep
  <2> HIDE DEF r
  <2>4. Statement(t) /\ Later(accounts, accounts')
    BY <1>2, <1>5, <2>1, <2>2, <2>3, RowReplaced
  <2>5. SessionOn(s, accounts')
    BY <1>2, <2>4, SessionLater
  <2> HIDE DEF s
  <2> QED BY <1>2, <1>4, <2>1, <2>4, <2>5, TurnWritten
<1>6. CASE CanWrite(t) /\ row = NoAccount
  <2>1. PICK addresses : Write(t, accounts, addresses) /\ Answer(t, 401, s)
    BY <1>6 DEF WrongGuess
  <2>2. accounts = [accounts EXCEPT ![a] = accounts[a]] /\ RowMove(a, accounts[a])
    BY <1>2 DEF TablesInv, Table, RowMove
  <2>3. Writes(t, a, accounts[a])
    BY <1>6, <2>1, <2>2 DEF Writes, Write
  <2>4. Statement(t) /\ accounts' = accounts
    BY <1>2, <2>1, <2>2, <2>3 DEF Statement, Write
  <2> HIDE DEF s
  <2> QED BY <1>2, <1>4, <2>1, <2>4, TurnWritten
<1>7. CASE ~CanWrite(t)
  <2>1. LockedOut(t) /\ Answer(t, 500, s)
    BY <1>7 DEF WrongGuess
  <2>2. Statement(t) /\ accounts' = accounts
    BY <2>1 DEF Statement, LockedOut, tables
  <2> HIDE DEF s
  <2> QED BY <1>2, <1>4, <2>1, <2>2, TurnWritten
<1> QED BY <1>5, <1>6, <1>7

\* A right guess opens a session with the epoch that was read.
LEMMA TurnRightGuess ==
  ASSUME TablesInv, RequestsInv, NEW t \in Threads, Ready(t, {"login"}, "deriving"),
         req[t].row # NoAccount, RightGuess(t), cookies' = cookies, load' = load, now' = now
  PROVE  Turn(t)
<1> DEFINE a == req[t].arg.actor
           row == req[t].row
           s == req[t].session
<1>1. ServedOn(req[t], accounts) /\ req[t].pc = "deriving" /\ req[t].kind = "login"
  BY AtWork DEF Ready, Phases
<1>2. req[t] \in Request /\ a \in Actors /\ now \in Nat
      /\ row \in Row /\ SessionOn(s, accounts) /\ InStep(row, a)
  BY <1>1, AskedTyped, WebAssumption DEF ServedOn, Kinds, Posts, Request, RequestsInv
<1>3. accounts[a] \in Row /\ InStep(accounts[a], a) /\ accounts[a] # NoAccount
  BY <1>1, <1>2 DEF ServedOn, TablesInv, Table
<1>4. 401 \in Nat /\ 500 \in Nat /\ 302 \in Nat
  OBVIOUS
<1>5. CASE row.disabled
  <2>1. Answer(t, 401, s) /\ Stays
    BY <1>5 DEF RightGuess, Stays
  <2>2. Statement(t) /\ accounts' = accounts
    BY <2>1, StaysReads
  <2> HIDE DEF s
  <2> QED BY <1>2, <1>4, <2>1, <2>2, TurnWritten
<1>6. CASE ~row.disabled /\ CanWrite(t)
  <2> DEFINE r == Accepted(accounts[a])
             new == SessionOf(a, row, now, row.ended)
  <2>1. PICK addresses : Write(t, [accounts EXCEPT ![a] = r], addresses) /\ Answer(t, 302, new)
    BY <1>6 DEF RightGuess
  <2>2. r \in Row /\ r.epoch = accounts[a].epoch /\ r.ended = accounts[a].ended
    BY <1>3, AcceptedMove
  <2>3. InStep(r, a)
    BY <1>3, <2>2 DEF InStep
  <2> HIDE DEF r
  <2>4. Statement(t) /\ accounts'[a] = r
    BY <1>2, <1>6, <2>1, <2>2, <2>3, RowReplaced
  <2>5. SessionOn(new, accounts')
    <3>1. row.epoch = row.ended + FirstEpoch(a) /\ accounts'[a] # NoAccount
      BY <1>2, <2>2, <2>4, WebAssumption DEF InStep
    <3> QED BY <1>2, <3>1 DEF SessionOf, SessionOn, Session, Row
  <2> HIDE DEF new
  <2> QED BY <1>2, <1>4, <2>1, <2>4, <2>5, TurnWritten
<1>7. CASE ~row.disabled /\ ~CanWrite(t)
  <2>1. LockedOut(t) /\ Answer(t, 500, s)
    BY <1>7 DEF RightGuess
  <2>2. Statement(t) /\ accounts' = accounts
    BY <2>1 DEF Statement, LockedOut, tables
  <2> HIDE DEF s
  <2> QED BY <1>2, <1>4, <2>1, <2>2, TurnWritten
<1> QED BY <1>5, <1>6, <1>7

\* The derivation ends either way.
LEMMA TurnFinishLogin ==
  ASSUME TablesInv, RequestsInv, NEW t \in Threads, FinishLogin(t)
  PROVE  Turn(t)
<1>1. /\ Ready(t, {"login"}, "deriving") /\ cookies' = cookies /\ load' = load /\ now' = now
      /\ (req[t].row # NoAccount /\ RightGuess(t)) \/ WrongGuess(t)
  BY DEF FinishLogin, world
<1> QED BY <1>1, TurnRightGuess, TurnWrongGuess

\* A logout ends the sessions of its actor.
LEMMA TurnLogout ==
  ASSUME TablesInv, RequestsInv, NEW t \in Threads, Logout(t)
  PROVE  Turn(t)
<1> DEFINE a == req[t].session.actor
           s == req[t].session
<1>1. ServedOn(req[t], accounts)
  BY AtWork DEF Logout, Ready, Phases
<1>2. req[t] \in Request /\ SessionOn(s, accounts)
  BY <1>1 DEF ServedOn
<1>3. cookies' = cookies /\ load' = load /\ now' = now
  BY DEF Logout, world
<1>4. 302 \in Nat /\ 500 \in Nat
  OBVIOUS
<1>5. CASE a = NoActor
  <2>1. Answer(t, 302, Anonymous(FALSE)) /\ Stays
    BY <1>5 DEF Logout, Stays
  <2>2. Statement(t) /\ accounts' = accounts
    BY <2>1, StaysReads
  <2> QED BY <1>2, <1>3, <1>4, <2>1, <2>2, AnonymousOn, TurnWritten
<1>6. CASE a # NoActor /\ CanWrite(t)
  <2> DEFINE r == Ended(Revoked(accounts[a]))
  <2>1. /\ Write(t, [accounts EXCEPT ![a] = r], failures)
        /\ Answer(t, 302, Anonymous(FALSE))
    BY <1>6 DEF Logout
  <2>2. a \in Actors /\ accounts[a] \in Row /\ InStep(accounts[a], a)
        /\ accounts[a] # NoAccount
    BY <1>2, <1>6 DEF SessionOn, Session, TablesInv, Table
  <2>3. r \in Row /\ r.epoch = accounts[a].epoch + 1 /\ r.ended = accounts[a].ended + 1
    BY <2>2, RevokedMove
  <2>4. InStep(r, a)
    BY <2>2, <2>3, InStepNext
  <2> HIDE DEF r
  <2>5. Statement(t)
    BY <1>6, <2>1, <2>2, <2>3, <2>4, RowReplaced
  <2> QED BY <1>2, <1>3, <1>4, <2>1, <2>5, AnonymousOn, TurnWritten
<1>7. CASE a # NoActor /\ ~CanWrite(t)
  <2>1. LockedOut(t) /\ Answer(t, 500, s)
    BY <1>7 DEF Logout
  <2>2. Statement(t) /\ accounts' = accounts
    BY <2>1 DEF Statement, LockedOut, tables
  <2> HIDE DEF s
  <2> QED BY <1>2, <1>3, <1>4, <2>1, <2>2, TurnWritten
<1> QED BY <1>5, <1>6, <1>7

\* An administrator changes an account.
LEMMA TurnUpdateAccount ==
  ASSUME TablesInv, RequestsInv, NEW t \in Threads, UpdateAccount(t)
  PROVE  Turn(t)
<1> DEFINE a == req[t].arg.actor
           kind == req[t].kind
           to == req[t].arg.to
           s == req[t].session
<1>1. ServedOn(req[t], accounts) /\ kind \in {"role", "disable", "password"}
      /\ req[t].pc # "answer"
  BY AtWork DEF UpdateAccount, Ready, Phases, Admin
<1>2. /\ req[t] \in Request /\ SessionOn(s, accounts) /\ a \in Actors
      /\ kind = "role" => to \in Roles
  BY <1>1, AskedTyped, WebAssumption DEF ServedOn, Kinds, Posts, Admin
<1>3. cookies' = cookies /\ load' = load /\ now' = now
  BY DEF UpdateAccount, world
<1>4. 403 \in Nat /\ 404 \in Nat /\ 200 \in Nat /\ 500 \in Nat
  OBVIOUS
<1>5. CASE \/ Answer(t, 403, s) /\ UNCHANGED <<tables, conn>>
           \/ Answer(t, 404, s) /\ conn' = Pinned(t) /\ UNCHANGED tables
  <2>1. Statement(t) /\ accounts' = accounts
    BY <1>5 DEF Statement, Reads, tables
  <2> HIDE DEF s
  <2> QED BY <1>2, <1>3, <1>4, <1>5, <2>1, TurnWritten
<1>6. CASE LockedOut(t) /\ Answer(t, 500, s)
  <2>1. Statement(t) /\ accounts' = accounts
    BY <1>6 DEF Statement, LockedOut, tables
  <2> HIDE DEF s
  <2> QED BY <1>2, <1>3, <1>4, <1>6, <2>1, TurnWritten
<1>7. CASE /\ Rows(t)[a] # NoAccount /\ CanWrite(t)
           /\ Write(t, [accounts EXCEPT ![a] = Ended(Changed(accounts[a], kind, to))], failures)
           /\ Answer(t, 200, s)
  <2> DEFINE r == Ended(Changed(accounts[a], kind, to))
  <2>1. accounts[a] \in Row /\ InStep(accounts[a], a) /\ accounts[a] # NoAccount
    BY <1>2, <1>7, WriterReads DEF TablesInv, Table
  <2>2. r \in Row /\ r.epoch = accounts[a].epoch + 1 /\ r.ended = accounts[a].ended + 1
    <3> HIDE DEF kind, to
    <3> QED BY <1>1, <1>2, <2>1, ChangedMove
  <2>3. InStep(r, a)
    <3> HIDE DEF r
    <3> QED BY <1>2, <2>1, <2>2, InStepNext
  <2>4. Write(t, [accounts EXCEPT ![a] = r], failures) /\ CanWrite(t)
    BY <1>7
  <2> HIDE DEF r
  <2>5. Statement(t) /\ Later(accounts, accounts')
    BY <1>2, <2>2, <2>3, <2>4, RowReplaced
  <2>6. SessionOn(s, accounts')
    BY <1>2, <2>5, SessionLater
  <2>7. Answer(t, 200, s)
    BY <1>7
  <2> HIDE DEF s
  <2> QED BY <1>2, <1>3, <1>4, <2>5, <2>6, <2>7, TurnWritten
<1> QED BY <1>5, <1>6, <1>7 DEF UpdateAccount

\* An administrator creates an account, or is refused.
LEMMA TurnCreateAccount ==
  ASSUME TablesInv, RequestsInv, NEW t \in Threads, CreateAccount(t)
  PROVE  Turn(t)
<1> DEFINE a == req[t].arg.actor
           s == req[t].session
<1>1. ServedOn(req[t], accounts) /\ req[t].kind = "create" /\ req[t].pc # "answer"
  BY AtWork DEF CreateAccount, Ready, Phases
<1>2. req[t] \in Request /\ SessionOn(s, accounts) /\ a \in Actors
  BY <1>1, AskedTyped, WebAssumption DEF ServedOn, Kinds, Posts, Admin
<1>3. cookies' = cookies /\ load' = load /\ now' = now
  BY DEF CreateAccount, world
<1>4. 403 \in Nat /\ 400 \in Nat /\ 200 \in Nat /\ 500 \in Nat
  OBVIOUS
<1>5. CASE Answer(t, 403, s) /\ UNCHANGED <<tables, conn>>
  <2>1. Statement(t) /\ accounts' = accounts
    BY <1>5 DEF Statement, Reads, tables
  <2> HIDE DEF s
  <2> QED BY <1>2, <1>3, <1>4, <1>5, <2>1, TurnWritten
<1>6. CASE LockedOut(t) /\ Answer(t, 500, s)
  <2>1. Statement(t) /\ accounts' = accounts
    BY <1>6 DEF Statement, LockedOut, tables
  <2> HIDE DEF s
  <2> QED BY <1>2, <1>3, <1>4, <1>6, <2>1, TurnWritten
<1>7. CASE /\ CanWrite(t) /\ conn' = [conn EXCEPT ![t] = [state |-> "writer"]]
           /\ Answer(t, 400, s) /\ UNCHANGED tables
  <2>1. Statement(t) /\ accounts' = accounts
    BY <1>7 DEF Statement, Refuses, tables
  <2> HIDE DEF s
  <2> QED BY <1>2, <1>3, <1>4, <1>7, <2>1, TurnWritten
<1>8. CASE /\ CanWrite(t) /\ accounts[a] = NoAccount
           /\ Write(t, [accounts EXCEPT ![a] = NewRow("viewer")], failures)
           /\ Answer(t, 200, s)
  <2> DEFINE r == NewRow("viewer")
  <2>1. r \in Row /\ r.epoch = 0 /\ r.ended = 0
    BY NewRowMove DEF Roles
  <2>2. InStep(r, a)
    BY <1>2, <1>8, <2>1 DEF InStep, FirstEpoch, TablesInv, Later
  <2>3. Write(t, [accounts EXCEPT ![a] = r], failures) /\ CanWrite(t)
    BY <1>8
  <2> HIDE DEF r
  <2>4. Statement(t) /\ Later(accounts, accounts')
    BY <1>2, <2>1, <2>2, <2>3, RowReplaced
  <2>5. SessionOn(s, accounts')
    BY <1>2, <2>4, SessionLater
  <2>6. Answer(t, 200, s)
    BY <1>8
  <2> HIDE DEF s
  <2> QED BY <1>2, <1>3, <1>4, <2>4, <2>5, <2>6, TurnWritten
<1> QED BY <1>5, <1>6, <1>7, <1>8 DEF CreateAccount

\* The steps that look after the ledger's health.
LEMMA TurnAskStatus ==
  ASSUME TablesInv, RequestsInv, NEW t \in Threads, AskStatus(t), ledger.size \in Nat
  PROVE  Turn(t)
<1>1. ServedOn(req[t], accounts) /\ req[t].pc = "serving"
  BY AtWork DEF AskStatus, Ready, Phases
<1>2. req[t] \in Request /\ now \in Nat
  BY <1>1 DEF ServedOn, RequestsInv
<1>3. PICK status \in {NoStatus, [reachable |-> TRUE, size |-> ledger.size,
                                  canSign |-> TRUE, readOnly |-> FALSE]} :
        req' = [req EXCEPT ![t].pc = IF status.reachable THEN "asked" ELSE "healthy",
                           ![t].status = status, ![t].at = now]
  BY DEF AskStatus
<1> DEFINE pc == IF status.reachable THEN "asked" ELSE "healthy"
           r == [[[req[t] EXCEPT !.pc = pc] EXCEPT !.status = status] EXCEPT !.at = now]
<1>4. req' = [req EXCEPT ![t] = r]
  BY <1>3
<1>5. status \in Status
  <2> DEFINE given == [reachable |-> TRUE, size |-> ledger.size, canSign |-> TRUE,
                       readOnly |-> FALSE]
  <2>1. NoStatus \in Status
    BY DEF NoStatus, Status
  <2>2. given \in Status
    BY DEF Status
  <2> HIDE DEF given
  <2>3. status \in {NoStatus, given}
    BY DEF given
  <2> QED BY <2>1, <2>2, <2>3
<1>6. pc \in Phases \ {"answer", "deriving"}
  BY DEF Phases
<1> HIDE DEF pc
<1>7. /\ r \in Request /\ r.session = req[t].session /\ r.kind = req[t].kind
      /\ r.arg = req[t].arg /\ r.row = req[t].row /\ r.pc = pc
  BY <1>2, <1>5, <1>6 DEF Request
<1> HIDE DEF r
<1>8. ServedOn(r, accounts)
  BY <1>1, <1>6, <1>7 DEF ServedOn
<1>9. Stays /\ cookies' = cookies /\ load' = load /\ now' = now
  BY DEF AskStatus, Stays, world, tables
<1>10. Statement(t) /\ accounts' = accounts
  BY <1>9, StaysReads
<1> QED BY <1>4, <1>8, <1>9, <1>10, TurnOn

\* The cache is asked.
LEMMA TurnLookUp ==
  ASSUME TablesInv, RequestsInv, NEW t \in Threads, LookUp(t), cache.verdict \in Verdict
  PROVE  Turn(t)
<1>1. ServedOn(req[t], accounts) /\ req[t].pc = "asked"
  BY AtWork DEF LookUp, Ready, Phases
<1>2. req[t] \in Request /\ now \in Nat
  BY <1>1 DEF ServedOn, RequestsInv
<1>3. PICK pc \in {"healthy", "verifying"} : \E verdict \in {cache.verdict, req[t].verdict} :
        req' = [req EXCEPT ![t] = [[[req[t] EXCEPT !.at = now] EXCEPT !.pc = pc]
                                     EXCEPT !.verdict = verdict]]
  <2>1. [req[t] EXCEPT !.verdict = req[t].verdict] = req[t]
    BY <1>2 DEF Request
  <2>2. CASE cache.size = req[t].status.size /\ now - cache.at < Ttl
    BY <2>2 DEF LookUp
  <2>3. CASE ~(cache.size = req[t].status.size /\ now - cache.at < Ttl)
    <3> DEFINE mid == [[req[t] EXCEPT !.at = now] EXCEPT !.pc = "verifying"]
    <3>1. req' = [req EXCEPT ![t] = mid]
      BY <2>3 DEF LookUp
    <3>2. mid \in Request /\ mid.verdict = req[t].verdict
      BY <1>2 DEF Request, Phases
    <3>3. mid = [mid EXCEPT !.verdict = req[t].verdict]
      <4> HIDE DEF mid
      <4> QED BY <3>2 DEF Request
    <3> QED BY <3>1, <3>3
  <2> QED BY <2>2, <2>3
<1>4. PICK verdict \in {cache.verdict, req[t].verdict} :
        req' = [req EXCEPT ![t] = [[[req[t] EXCEPT !.at = now] EXCEPT !.pc = pc]
                                     EXCEPT !.verdict = verdict]]
  BY <1>3
<1> DEFINE r == [[[req[t] EXCEPT !.at = now] EXCEPT !.pc = pc] EXCEPT !.verdict = verdict]
<1>5. verdict \in Verdict
  BY <1>2 DEF Request
<1>6. /\ r \in Request /\ r.session = req[t].session /\ r.kind = req[t].kind
      /\ r.arg = req[t].arg /\ r.row = req[t].row /\ r.pc = pc
  BY <1>2, <1>5 DEF Request, Phases
<1>7. req' = [req EXCEPT ![t] = r]
  BY <1>4
<1> HIDE DEF r
<1>8. ServedOn(r, accounts)
  BY <1>1, <1>6 DEF ServedOn
<1>9. Stays /\ cookies' = cookies /\ load' = load /\ now' = now
  BY DEF LookUp, Stays, world, tables
<1>10. Statement(t) /\ accounts' = accounts
  BY <1>9, StaysReads
<1> QED BY <1>7, <1>8, <1>9, <1>10, TurnOn

\* The verifier reads the ledger.
LEMMA TurnRunVerifier ==
  ASSUME TablesInv, RequestsInv, NEW t \in Threads, RunVerifier(t), ledger.size \in Nat
  PROVE  Turn(t)
<1>1. ServedOn(req[t], accounts) /\ req[t].pc = "verifying"
  BY AtWork DEF RunVerifier, Ready, Phases
<1>2. req[t] \in Request /\ now \in Nat
  BY <1>1 DEF ServedOn, RequestsInv
<1>3. PICK end \in Ends :
        req' = [req EXCEPT ![t].pc = "verified",
                  ![t].verdict = [state |-> VerifyState(end), checkedAt |-> now,
                                  records |-> ledger.size]]
  BY DEF RunVerifier
<1> DEFINE verdict == [state |-> VerifyState(end), checkedAt |-> now, records |-> ledger.size]
           r == [[req[t] EXCEPT !.pc = "verified"] EXCEPT !.verdict = verdict]
<1>4. verdict \in Verdict
  <2>1. VerifyState(end) \in {"NONE", "OK", "FAILED", "UNAVAILABLE"}
    BY DEF VerifyState
  <2> QED BY <1>2, <2>1 DEF Verdict
<1>5. req' = [req EXCEPT ![t] = r]
  BY <1>3
<1> HIDE DEF verdict
<1>6. /\ r \in Request /\ r.session = req[t].session /\ r.kind = req[t].kind
      /\ r.arg = req[t].arg /\ r.row = req[t].row /\ r.pc = "verified"
  BY <1>2, <1>4 DEF Request, Phases
<1> HIDE DEF r
<1>7. ServedOn(r, accounts)
  BY <1>1, <1>6 DEF ServedOn
<1>8. Stays /\ cookies' = cookies /\ load' = load /\ now' = now
  BY DEF RunVerifier, Stays, world, tables
<1>9. Statement(t) /\ accounts' = accounts
  BY <1>8, StaysReads
<1> QED BY <1>5, <1>7, <1>8, <1>9, TurnOn

\* The verdict is kept for the size that was asked.
LEMMA TurnStoreVerdict ==
  ASSUME TablesInv, RequestsInv, NEW t \in Threads, StoreVerdict(t)
  PROVE  Turn(t)
<1>1. ServedOn(req[t], accounts) /\ req[t].pc = "verified"
  BY AtWork DEF StoreVerdict, Ready, Phases
<1> DEFINE r == [req[t] EXCEPT !.pc = "healthy"]
<1>2. req' = [req EXCEPT ![t] = r]
  BY DEF StoreVerdict
<1>3. /\ r \in Request /\ r.session = req[t].session /\ r.kind = req[t].kind
      /\ r.arg = req[t].arg /\ r.row = req[t].row /\ r.pc = "healthy"
  BY <1>1 DEF ServedOn, Request, Phases
<1> HIDE DEF r
<1>4. ServedOn(r, accounts)
  BY <1>1, <1>3 DEF ServedOn
<1>5. Stays /\ cookies' = cookies /\ load' = load /\ now' = now
  BY DEF StoreVerdict, Stays, world, tables
<1>6. Statement(t) /\ accounts' = accounts
  BY <1>5, StaysReads
<1> QED BY <1>2, <1>4, <1>5, <1>6, TurnOn

\* A page is shown, or a decision goes to the daemon.
LEMMA TurnHealthy ==
  ASSUME TablesInv, RequestsInv, NEW t \in Threads, ShowHealth(t) \/ Decide(t)
  PROVE  Turn(t)
<1>1. ServedOn(req[t], accounts)
  BY AtWork DEF ShowHealth, Decide, Ready, Phases
<1>2. req[t] \in Request /\ SessionOn(req[t].session, accounts)
  BY <1>1 DEF ServedOn
<1>3. Stays /\ cookies' = cookies /\ load' = load /\ now' = now
  BY DEF ShowHealth, Decide, Stays, world, tables
<1>4. PICK code \in {200, 409, 503} : Answer(t, code, req[t].session)
  BY DEF ShowHealth, Decide
<1>5. Statement(t) /\ accounts' = accounts
  BY <1>3, StaysReads
<1>6. code \in Nat
  OBVIOUS
<1> DEFINE s == req[t].session
<1>7. SessionOn(s, accounts) /\ Answer(t, code, s)
  BY <1>2, <1>4
<1> HIDE DEF s
<1> QED BY <1>2, <1>3, <1>5, <1>6, <1>7, TurnAnswer

-----------------------------------------------------------------------------
(* How old a verdict is when it is shown, and what it covers.              *)

\* A request asks for the ledger's size, then when it looked into the cache, then for
\* the verdict.
BadgeOn(r, at, time) ==
  /\ r.pc \in {"asked", "verifying"} => (at.cuts = 0 => r.status.size <= at.size)
  /\ r.pc = "verifying" => r.at <= time
  /\ r.pc = "verified" => /\ r.at <= r.verdict.checkedAt
                          /\ at.cuts = 0 => r.status.size <= r.verdict.records
  /\ r.pc = "healthy" =>
       \/ ~r.status.reachable
       \/ /\ r.at - r.verdict.checkedAt < Ttl
          /\ at.cuts = 0 => r.status.size <= r.verdict.records

HealthInv ==
  /\ ledger \in [size : Nat, cuts : Nat]
  /\ cache \in [size : Int, at : Nat, verdict : Verdict]
  /\ cache.at <= cache.verdict.checkedAt
  /\ ledger.cuts = 0 => cache.size <= cache.verdict.records
  /\ \A t \in Threads : BadgeOn(req[t], ledger, now)

LedgerPhases == {"asked", "verifying", "verified", "healthy"}

\* Unless it is shortened the ledger grows, and the clock goes on.
WorldGoesOn ==
  /\ ledger' \in [size : Nat, cuts : Nat]
  /\ ledger'.cuts = 0 => ledger.cuts = 0 /\ ledger.size <= ledger'.size
  /\ now <= now' /\ now' \in Nat

\* What a request knows of the ledger stays true when time goes on.
LEMMA BadgeLater ==
  ASSUME RequestsInv, HealthInv, WorldGoesOn, NEW u \in Threads
  PROVE  BadgeOn(req[u], ledger', now')
<1>1. CASE req[u].pc \notin LedgerPhases
  BY <1>1 DEF BadgeOn, LedgerPhases
<1>2. CASE req[u].pc \in LedgerPhases
  <2>1. req[u] \in Request
    BY <1>2, AtWork DEF LedgerPhases, Phases, ServedOn
  <2>2. /\ req[u].status.size \in Nat /\ req[u].at \in Nat /\ req[u].verdict.checkedAt \in Nat
        /\ req[u].verdict.records \in Nat
    BY <2>1 DEF Request, Status, Verdict
  <2>3. ledger.size \in Nat /\ ledger'.size \in Nat /\ now \in Nat
    BY DEF HealthInv, WorldGoesOn, RequestsInv
  <2>4. BadgeOn(req[u], ledger, now)
    BY DEF HealthInv
  <2> QED BY <2>2, <2>3, <2>4 DEF BadgeOn, WorldGoesOn
<1> QED BY <1>1, <1>2

\* A step of the requests and of the cache, in a world that goes on.
LEMMA HealthMoves ==
  ASSUME RequestsInv, HealthInv, WorldGoesOn,
         cache' \in [size : Int, at : Nat, verdict : Verdict],
         cache'.at <= cache'.verdict.checkedAt,
         ledger'.cuts = 0 => cache'.size <= cache'.verdict.records,
         \A u \in Threads : req'[u] = req[u] \/ BadgeOn(req'[u], ledger', now')
  PROVE  HealthInv'
<1>1. \A u \in Threads : BadgeOn(req'[u], ledger', now')
  BY BadgeLater
<1>2. \A u \in Threads : BadgeOn(req[u], ledger, now)'
  BY <1>1 DEF BadgeOn
<1> QED BY <1>2 DEF HealthInv, WorldGoesOn

\* The clock and the ledger may stay as they are.
LEMMA WorldStays ==
  ASSUME RequestsInv, HealthInv, ledger' = ledger, now' = now
  PROVE  WorldGoesOn
  BY DEF WorldGoesOn, HealthInv, RequestsInv

\* A request that leaves the ledger alone, or is done.
LEMMA HealthOff ==
  ASSUME RequestsInv, HealthInv, NEW t \in Threads, ledger' = ledger, now' = now,
         cache' = cache, \A u \in Threads \ {t} : req'[u] = req[u],
         req'[t].pc \notin LedgerPhases
  PROVE  HealthInv'
<1>1. BadgeOn(req'[t], ledger', now')
  BY DEF BadgeOn, LedgerPhases
<1>2. \A u \in Threads : req'[u] = req[u] \/ BadgeOn(req'[u], ledger', now')
  BY <1>1
<1>3. /\ cache' \in [size : Int, at : Nat, verdict : Verdict]
      /\ cache'.at <= cache'.verdict.checkedAt
      /\ ledger'.cuts = 0 => cache'.size <= cache'.verdict.records
  BY DEF HealthInv
<1> QED BY <1>2, <1>3, WorldStays, HealthMoves

\* An answered request is done with the ledger.
LEMMA AnswerDone ==
  ASSUME RequestsInv, NEW t \in Threads, NEW code, NEW s, Answer(t, code, s)
  PROVE  req'[t].pc = "answer" /\ \A u \in Threads \ {t} : req'[u] = req[u]
<1> DEFINE r == [pc |-> "answer", code |-> code, session |-> s, browser |-> req[t].browser,
                 sent |-> req[t].sent, account |-> req[t].account]
<1>1. req' = [req EXCEPT ![t] = r]
  BY DEF Answer
<1>2. r.pc = "answer"
  OBVIOUS
<1> HIDE DEF r
<1> QED BY <1>1, <1>2 DEF RequestsInv

\* The phase in which a step leaves the request of its thread.
LEMMA PhaseReceive ==
  ASSUME RequestsInv, NEW t \in Threads, NEW b \in Browsers, NEW k \in load.kinds,
         Receive(t, b, k)
  PROVE  (\A u \in Threads \ {t} : req'[u] = req[u]) /\ req'[t].pc \in {"accepted", "answer"}
<1> DEFINE session == [cookies[b] EXCEPT !.token = TRUE]
           ok == WithinRate(hits[<<IF session.actor = NoActor THEN b ELSE session.actor,
                                   IF k \in Posts THEN "write" ELSE "read">>], now)
           Code(form) == IF ~ok THEN 429
                         ELSE IF k \in Posts /\ ~FormOk(cookies[b], form) THEN 403 ELSE 0
           Got(arg, code) ==
             [pc |-> IF code = 0 THEN "accepted" ELSE "answer", code |-> code,
              kind |-> k, arg |-> IF code = 0 THEN arg ELSE NoArgument, browser |-> b,
              sent |-> cookies[b], session |-> session,
              account |-> NoActor, role |-> "none", row |-> NoAccount, at |-> 0,
              status |-> NoStatus, verdict |-> NoVerdict]
<1>1. \E arg \in Asked(k) :
        \E form \in (IF k \in Posts THEN Forms ELSE {CHOOSE f \in Forms : TRUE}) :
          req' = [req EXCEPT ![t] = Got(arg, Code(form))]
  BY DEF Receive
<1>2. \A arg, code : Got(arg, code).pc \in {"accepted", "answer"}
  OBVIOUS
<1> HIDE DEF Code, Got
<1>3. \E r : req' = [req EXCEPT ![t] = r] /\ r.pc \in {"accepted", "answer"}
  BY <1>1, <1>2
<1> QED BY <1>3 DEF RequestsInv

\* The same, of the request that is admitted.
LEMMA PhaseAdmit ==
  ASSUME RequestsInv, NEW t \in Threads, Admit(t)
  PROVE  (\A u \in Threads \ {t} : req'[u] = req[u]) /\ req'[t].pc \in {"serving", "answer"}
<1>1. req[t] \in Request
  BY AtWork DEF Admit, Ready, Phases, ServedOn
<1>2. CASE Honoured(req[t].session, Rows(t), now)
  <2> DEFINE s == Refreshed(req[t].session, Rows(t), now)
             r == [[[[req[t] EXCEPT !.pc = "serving"] EXCEPT !.session = s]
                      EXCEPT !.account = s.actor] EXCEPT !.role = s.role]
  <2>1. req' = [req EXCEPT ![t] = r]
    BY <1>2 DEF Admit
  <2> HIDE DEF s
  <2>2. r.pc = "serving"
    BY <1>1 DEF Request
  <2> HIDE DEF r
  <2> QED BY <2>1, <2>2 DEF RequestsInv
<1>3. CASE ~Honoured(req[t].session, Rows(t), now)
  BY <1>3, AnswerDone DEF Admit
<1> QED BY <1>2, <1>3

\* The same, of the steps that look after the ledger.
LEMMA PhaseLedger ==
  ASSUME RequestsInv, NEW t \in Threads,
         AskStatus(t) \/ LookUp(t) \/ RunVerifier(t) \/ StoreVerdict(t)
  PROVE  (\A u \in Threads \ {t} : req'[u] = req[u]) /\ req'[t].pc \in LedgerPhases
<1>1. req[t] \in Request
  BY AtWork DEF AskStatus, LookUp, RunVerifier, StoreVerdict, Ready, Phases, ServedOn
<1>2. CASE AskStatus(t)
  <2> DEFINE R(status) ==
               [[[req[t] EXCEPT !.pc = IF status.reachable THEN "asked" ELSE "healthy"]
                   EXCEPT !.status = status] EXCEPT !.at = now]
  <2>1. \E status : req' = [req EXCEPT ![t] = R(status)]
    BY ZenonT(60), <1>2 DEF AskStatus
  <2>2. \A status : R(status).pc \in LedgerPhases
    BY <1>1 DEF Request, LedgerPhases
  <2> HIDE DEF R
  <2> QED BY <2>1, <2>2 DEF RequestsInv
<1>3. CASE LookUp(t)
  <2> DEFINE mid == [req[t] EXCEPT !.at = now]
             kept == [[mid EXCEPT !.pc = "healthy"] EXCEPT !.verdict = cache.verdict]
             gone == [mid EXCEPT !.pc = "verifying"]
  <2>1. req' = [req EXCEPT ![t] = kept] \/ req' = [req EXCEPT ![t] = gone]
    BY <1>3 DEF LookUp
  <2>2. kept.pc \in LedgerPhases /\ gone.pc \in LedgerPhases
    BY <1>1 DEF Request, LedgerPhases
  <2> HIDE DEF kept, gone
  <2> QED BY <2>1, <2>2 DEF RequestsInv
<1>4. CASE RunVerifier(t)
  <2> DEFINE R(end) ==
               [[req[t] EXCEPT !.pc = "verified"] EXCEPT
                  !.verdict = [state |-> VerifyState(end), checkedAt |-> now,
                               records |-> ledger.size]]
  <2>1. \E end : req' = [req EXCEPT ![t] = R(end)]
    BY <1>4 DEF RunVerifier
  <2>2. \A end : R(end).pc \in LedgerPhases
    BY <1>1 DEF Request, LedgerPhases
  <2> HIDE DEF R
  <2> QED BY <2>1, <2>2 DEF RequestsInv
<1>5. CASE StoreVerdict(t)
  <2> DEFINE r == [req[t] EXCEPT !.pc = "healthy"]
  <2>1. req' = [req EXCEPT ![t] = r]
    BY <1>5 DEF StoreVerdict
  <2>2. r.pc \in LedgerPhases
    BY <1>1 DEF Request, LedgerPhases
  <2> HIDE DEF r
  <2> QED BY <2>1, <2>2 DEF RequestsInv
<1> QED BY <1>2, <1>3, <1>4, <1>5

\* Steps that do not look at the ledger.
LEMMA HealthOther ==
  ASSUME TablesInv, RequestsInv, HealthInv, NEW t \in Threads,
         \/ \E b \in Browsers, k \in load.kinds : Receive(t, b, k)
         \/ Admit(t) \/ Respond(t) \/ StartLogin(t) \/ FinishLogin(t) \/ Logout(t)
         \/ UpdateAccount(t) \/ CreateAccount(t) \/ ShowHealth(t)
  PROVE  HealthInv'
<1>1. ledger' = ledger /\ now' = now /\ cache' = cache
  <2>1. CASE \E b \in Browsers, k \in load.kinds : Receive(t, b, k)
    BY SMTT(30), <2>1 DEF Receive, world
  <2>2. CASE Admit(t) \/ Respond(t) \/ ShowHealth(t)
    BY <2>2 DEF Admit, Respond, ShowHealth, world
  <2>3. CASE StartLogin(t)
    BY <2>3 DEF StartLogin, world
  <2>4. CASE FinishLogin(t)
    BY <2>4 DEF FinishLogin, world
  <2>5. CASE Logout(t)
    BY <2>5 DEF Logout, world
  <2>6. CASE UpdateAccount(t) \/ CreateAccount(t)
    BY <2>6 DEF UpdateAccount, CreateAccount, world
  <2> QED BY <2>1, <2>2, <2>3, <2>4, <2>5, <2>6
<1>2. (\A u \in Threads \ {t} : req'[u] = req[u]) /\ req'[t].pc \notin LedgerPhases
  <2>1. ASSUME NEW code, NEW s, Answer(t, code, s)
        PROVE  (\A u \in Threads \ {t} : req'[u] = req[u]) /\ req'[t].pc \notin LedgerPhases
    BY <2>1, AnswerDone DEF LedgerPhases
  <2>2. ASSUME NEW b \in Browsers, NEW k \in load.kinds, Receive(t, b, k)
        PROVE  (\A u \in Threads \ {t} : req'[u] = req[u]) /\ req'[t].pc \notin LedgerPhases
    BY <2>2, PhaseReceive DEF LedgerPhases
  <2>3. ASSUME Admit(t)
        PROVE  (\A u \in Threads \ {t} : req'[u] = req[u]) /\ req'[t].pc \notin LedgerPhases
    BY <2>3, PhaseAdmit DEF LedgerPhases
  <2>4. ASSUME Respond(t)
        PROVE  (\A u \in Threads \ {t} : req'[u] = req[u]) /\ req'[t].pc \notin LedgerPhases
    BY <2>4 DEF Respond, RequestsInv, Waiting, LedgerPhases
  <2>5. ASSUME StartLogin(t)
        PROVE  (\A u \in Threads \ {t} : req'[u] = req[u]) /\ req'[t].pc \notin LedgerPhases
    <3> DEFINE s == Refreshed(req[t].session, Rows(t), now)
               row == Rows(t)[req[t].arg.actor]
               r == [[[[req[t] EXCEPT !.pc = "deriving"] EXCEPT !.session = s]
                        EXCEPT !.row = row] EXCEPT !.at = now]
    <3>1. req[t] \in Request
      BY <2>5, AtWork DEF StartLogin, Ready, Phases, ServedOn
    <3>2. Answer(t, 302, s) \/ Answer(t, 401, s) \/ req' = [req EXCEPT ![t] = r]
      BY <2>5 DEF StartLogin
    <3> HIDE DEF s, row
    <3>3. r.pc = "deriving"
      BY <3>1 DEF Request
    <3> HIDE DEF r
    <3> QED BY <2>1, <3>2, <3>3 DEF RequestsInv, LedgerPhases
  <2>6. ASSUME FinishLogin(t) \/ Logout(t) \/ UpdateAccount(t) \/ CreateAccount(t)
               \/ ShowHealth(t)
        PROVE  \E code : \E s : Answer(t, code, s)
    BY ZenonT(60), <2>6 DEF FinishLogin, WrongGuess, RightGuess, Logout, UpdateAccount, CreateAccount,
           ShowHealth
  <2> QED BY <2>1, <2>2, <2>3, <2>4, <2>5, <2>6
<1> QED BY <1>1, <1>2, HealthOff

\* The daemon reports its size, or does not answer.
LEMMA HealthAskStatus ==
  ASSUME RequestsInv, HealthInv, NEW t \in Threads, AskStatus(t)
  PROVE  HealthInv'
<1>1. req[t] \in Request
  BY AtWork DEF AskStatus, Ready, Phases, ServedOn
<1>2. PICK status \in {NoStatus, [reachable |-> TRUE, size |-> ledger.size,
                                  canSign |-> TRUE, readOnly |-> FALSE]} :
        req' = [req EXCEPT ![t].pc = IF status.reachable THEN "asked" ELSE "healthy",
                           ![t].status = status, ![t].at = now]
  BY DEF AskStatus
<1> DEFINE pc == IF status.reachable THEN "asked" ELSE "healthy"
           r == [[[req[t] EXCEPT !.pc = pc] EXCEPT !.status = status] EXCEPT !.at = now]
<1>3. req' = [req EXCEPT ![t] = r]
  BY <1>2
<1>4. r.pc = pc /\ r.status = status
  <2> HIDE DEF pc
  <2> QED BY <1>1 DEF Request
<1> HIDE DEF r
<1>5. (status.reachable => status.size = ledger.size) /\ ledger.size \in Nat
  BY DEF NoStatus, HealthInv
<1>6. ledger' = ledger /\ now' = now /\ cache' \in {cache, NoCache}
  BY DEF AskStatus, world
<1>7. BadgeOn(r, ledger', now')
  BY <1>4, <1>5, <1>6 DEF BadgeOn
<1>8. \A u \in Threads : req'[u] = req[u] \/ BadgeOn(req'[u], ledger', now')
  BY <1>3, <1>7 DEF RequestsInv
<1>9. /\ cache' \in [size : Int, at : Nat, verdict : Verdict]
      /\ cache'.at <= cache'.verdict.checkedAt
      /\ ledger'.cuts = 0 => cache'.size <= cache'.verdict.records
  BY <1>6 DEF HealthInv, NoCache, NoVerdict, Verdict
<1> QED BY <1>6, <1>8, <1>9, WorldStays, HealthMoves

\* The cache answers only for this size, and not when it is old.
LEMMA HealthLookUp ==
  ASSUME RequestsInv, HealthInv, NEW t \in Threads, LookUp(t)
  PROVE  HealthInv'
<1>1. req[t] \in Request /\ req[t].pc = "asked" /\ now \in Nat
  BY AtWork DEF LookUp, Ready, Phases, ServedOn, RequestsInv
<1>2. ledger' = ledger /\ now' = now /\ cache' = cache
  BY DEF LookUp, world
<1>3. /\ cache \in [size : Int, at : Nat, verdict : Verdict]
      /\ cache.at <= cache.verdict.checkedAt
      /\ ledger.cuts = 0 => cache.size <= cache.verdict.records
      /\ BadgeOn(req[t], ledger, now)
  BY DEF HealthInv
<1>4. CASE cache.size = req[t].status.size /\ now - cache.at < Ttl
  <2> DEFINE r == [[[req[t] EXCEPT !.at = now] EXCEPT !.pc = "healthy"]
                     EXCEPT !.verdict = cache.verdict]
  <2>1. req' = [req EXCEPT ![t] = r]
    BY <1>4 DEF LookUp
  <2>2. /\ r.pc = "healthy" /\ r.at = now /\ r.verdict = cache.verdict
        /\ r.status = req[t].status
    BY <1>1 DEF Request
  <2> HIDE DEF r
  <2>3. cache.verdict.checkedAt \in Nat /\ cache.at \in Nat /\ Ttl \in Nat
    BY <1>3, LimitsAssumption DEF Verdict
  <2>4. now - cache.verdict.checkedAt < Ttl
    BY <1>1, <1>3, <1>4, <2>3
  <2>5. BadgeOn(r, ledger', now')
    BY <1>2, <1>3, <1>4, <2>2, <2>4 DEF BadgeOn
  <2>6. \A u \in Threads : req'[u] = req[u] \/ BadgeOn(req'[u], ledger', now')
    BY <2>1, <2>5 DEF RequestsInv
  <2> QED BY <1>2, <1>3, <2>6, WorldStays, HealthMoves
<1>5. CASE ~(cache.size = req[t].status.size /\ now - cache.at < Ttl)
  <2> DEFINE r == [[req[t] EXCEPT !.at = now] EXCEPT !.pc = "verifying"]
  <2>1. req' = [req EXCEPT ![t] = r]
    BY <1>5 DEF LookUp
  <2>2. r.pc = "verifying" /\ r.at = now /\ r.status = req[t].status
    BY <1>1 DEF Request
  <2> HIDE DEF r
  <2>3. BadgeOn(r, ledger', now')
    BY <1>1, <1>2, <1>3, <2>2 DEF BadgeOn
  <2>4. \A u \in Threads : req'[u] = req[u] \/ BadgeOn(req'[u], ledger', now')
    BY <2>1, <2>3 DEF RequestsInv
  <2> QED BY <1>2, <1>3, <2>4, WorldStays, HealthMoves
<1> QED BY <1>4, <1>5

\* The verifier reads what the ledger holds by now.
LEMMA HealthRunVerifier ==
  ASSUME RequestsInv, HealthInv, NEW t \in Threads, RunVerifier(t)
  PROVE  HealthInv'
<1>1. req[t] \in Request /\ req[t].pc = "verifying" /\ BadgeOn(req[t], ledger, now)
  BY AtWork DEF RunVerifier, Ready, Phases, ServedOn, HealthInv
<1>2. ledger' = ledger /\ now' = now /\ cache' = cache
  BY DEF RunVerifier, world
<1>3. PICK end \in Ends :
        req' = [req EXCEPT ![t].pc = "verified",
                  ![t].verdict = [state |-> VerifyState(end), checkedAt |-> now,
                                  records |-> ledger.size]]
  BY DEF RunVerifier
<1> DEFINE verdict == [state |-> VerifyState(end), checkedAt |-> now, records |-> ledger.size]
           r == [[req[t] EXCEPT !.pc = "verified"] EXCEPT !.verdict = verdict]
<1>4. req' = [req EXCEPT ![t] = r]
  BY <1>3
<1>5. verdict.checkedAt = now /\ verdict.records = ledger.size
  OBVIOUS
<1> HIDE DEF verdict
<1>6. r.pc = "verified" /\ r.verdict = verdict /\ r.at = req[t].at /\ r.status = req[t].status
  BY <1>1 DEF Request
<1> HIDE DEF r
<1>7. BadgeOn(r, ledger', now')
  BY <1>1, <1>2, <1>5, <1>6 DEF BadgeOn
<1>8. \A u \in Threads : req'[u] = req[u] \/ BadgeOn(req'[u], ledger', now')
  BY <1>4, <1>7 DEF RequestsInv
<1>9. /\ cache' \in [size : Int, at : Nat, verdict : Verdict]
      /\ cache'.at <= cache'.verdict.checkedAt
      /\ ledger'.cuts = 0 => cache'.size <= cache'.verdict.records
  BY <1>2 DEF HealthInv
<1> QED BY <1>2, <1>8, <1>9, WorldStays, HealthMoves

\* What is kept is no younger than the look into the cache.
LEMMA HealthStoreVerdict ==
  ASSUME RequestsInv, HealthInv, NEW t \in Threads, StoreVerdict(t)
  PROVE  HealthInv'
<1>1. req[t] \in Request /\ req[t].pc = "verified" /\ BadgeOn(req[t], ledger, now)
  BY AtWork DEF StoreVerdict, Ready, Phases, ServedOn, HealthInv
<1>2. ledger' = ledger /\ now' = now
      /\ cache' = [size |-> req[t].status.size, at |-> req[t].at, verdict |-> req[t].verdict]
  BY DEF StoreVerdict, world
<1> DEFINE r == [req[t] EXCEPT !.pc = "healthy"]
<1>3. req' = [req EXCEPT ![t] = r]
  BY DEF StoreVerdict
<1>4. /\ r.pc = "healthy" /\ r.verdict = req[t].verdict /\ r.at = req[t].at
      /\ r.status = req[t].status
  BY <1>1 DEF Request
<1> HIDE DEF r
<1>5. /\ req[t].at \in Nat /\ req[t].verdict \in Verdict /\ req[t].status.size \in Nat
      /\ req[t].verdict.checkedAt \in Nat /\ Ttl \in Nat \ {0}
  BY <1>1, LimitsAssumption DEF Request, Status, Verdict
<1>6. BadgeOn(r, ledger', now')
  BY <1>1, <1>2, <1>4, <1>5 DEF BadgeOn
<1>7. \A u \in Threads : req'[u] = req[u] \/ BadgeOn(req'[u], ledger', now')
  BY <1>3, <1>6 DEF RequestsInv
<1>8. /\ cache' \in [size : Int, at : Nat, verdict : Verdict]
      /\ cache'.at <= cache'.verdict.checkedAt
      /\ ledger'.cuts = 0 => cache'.size <= cache'.verdict.records
  BY <1>1, <1>2, <1>5 DEF BadgeOn
<1> QED BY <1>2, <1>7, <1>8, WorldStays, HealthMoves

\* A decision makes the ledger longer.
LEMMA HealthDecide ==
  ASSUME RequestsInv, HealthInv, NEW t \in Threads, Decide(t)
  PROVE  HealthInv'
<1>1. now' = now /\ cache' \in {cache, NoCache}
      /\ (ledger' = ledger \/ ledger' = [ledger EXCEPT !.size = ledger.size + 1])
  BY DEF Decide
<1>2. \E code : Answer(t, code, req[t].session)
  BY DEF Decide
<1>3. (\A u \in Threads \ {t} : req'[u] = req[u]) /\ req'[t].pc = "answer"
  BY <1>2, AnswerDone
<1>4. WorldGoesOn
  BY <1>1 DEF WorldGoesOn, HealthInv, RequestsInv
<1>5. \A u \in Threads : req'[u] = req[u] \/ BadgeOn(req'[u], ledger', now')
  BY <1>3 DEF BadgeOn
<1>6. /\ cache' \in [size : Int, at : Nat, verdict : Verdict]
      /\ cache'.at <= cache'.verdict.checkedAt
      /\ ledger'.cuts = 0 => cache'.size <= cache'.verdict.records
  BY <1>1, <1>4 DEF HealthInv, NoCache, NoVerdict, Verdict, WorldGoesOn
<1> QED BY <1>4, <1>5, <1>6, HealthMoves

\* The clock goes on, the ledger grows or is shortened.
LEMMA HealthWorld ==
  ASSUME RequestsInv, HealthInv, Tick \/ Ledger
  PROVE  HealthInv'
<1>1. cache' = cache /\ req' = req
  BY DEF Tick, Ledger
<1>2. WorldGoesOn
  <2>1. ledger \in [size : Nat, cuts : Nat] /\ now \in Nat
    BY DEF HealthInv, RequestsInv
  <2>2. CASE Tick
    BY <2>1, <2>2 DEF Tick, WorldGoesOn
  <2>3. CASE Ledger /\ ledger' = [ledger EXCEPT !.size = ledger.size + 1]
    BY <2>1, <2>3 DEF Ledger, WorldGoesOn
  <2>4. CASE Ledger /\ ledger.size > 1
             /\ ledger' = [ledger EXCEPT !.size = ledger.size - 1, !.cuts = ledger.cuts + 1]
    <3> DEFINE mid == [ledger EXCEPT !.size = ledger.size - 1]
    <3>1. mid \in [size : Nat, cuts : Nat] /\ mid.cuts = ledger.cuts
      BY <2>1, <2>4
    <3>2. ledger' = [mid EXCEPT !.cuts = mid.cuts + 1]
      BY <2>4, <3>1
    <3> HIDE DEF mid
    <3>3. ledger' \in [size : Nat, cuts : Nat] /\ ledger'.cuts # 0
      BY <2>1, <3>1, <3>2
    <3>4. now' = now
      BY <2>4 DEF Ledger
    <3> QED BY <2>1, <3>3, <3>4 DEF WorldGoesOn
  <2> QED BY <2>2, <2>3, <2>4 DEF Ledger
<1>3. /\ cache' \in [size : Int, at : Nat, verdict : Verdict]
      /\ cache'.at <= cache'.verdict.checkedAt
      /\ ledger'.cuts = 0 => cache'.size <= cache'.verdict.records
  BY <1>1, <1>2 DEF HealthInv, WorldGoesOn
<1> QED BY <1>1, <1>2, <1>3, HealthMoves
-----------------------------------------------------------------------------
(* What a row counts.                                                      *)

Deriving(t, a) == req[t].pc = "deriving" /\ req[t].arg.actor = a

\* The connection would get the write lock, as far as what it pinned decides.
Fresh(t) == conn[t].state = "pinned" => conn[t].as = version

Tally == [wrong : Nat, alone : BOOLEAN, last : Int]

\* While attempts come one at a time, the one that is derived read the count that the row
\* still has when its write is accepted.
CountOn(a) ==
  /\ accounts[a] = NoAccount => tally[a].wrong = 0
  /\ tally[a].alone =>
       /\ accounts[a] # NoAccount =>
            /\ accounts[a].failures = tally[a].wrong
            /\ tally[a].wrong >= Threshold =>
                 accounts[a].lockedUntil = tally[a].last + Backoff(tally[a].wrong)
       /\ \A t, u \in Threads : Deriving(t, a) /\ Deriving(u, a) => t = u
       /\ \A t \in Threads : Deriving(t, a) /\ Fresh(t) /\ req[t].row # NoAccount =>
            req[t].row.failures = accounts[a].failures

CountInv ==
  /\ tally \in [Actors -> Tally]
  /\ \A a \in Actors : CountOn(a)

\* The row keeps its count, or is new.
Calm(a) ==
  \/ accounts'[a] = accounts[a]
  \/ accounts[a] = NoAccount /\ accounts'[a].failures = 0
  \/ /\ accounts[a] # NoAccount
     /\ accounts'[a].failures = accounts[a].failures
     /\ accounts'[a].lockedUntil = accounts[a].lockedUntil

\* A statement of one connection leaves the others as they were, or stale.
LEMMA OthersStale ==
  ASSUME TablesInv, NEW t \in Threads, Statement(t), NEW u \in Threads \ {t}, Fresh(u)'
  PROVE  Fresh(u)
<1>1. conn'[u] = conn[u]
  BY DEF Statement, Reads, LockedOut, Refuses, Writes, Pinned, TablesInv
<1>2. version \in Nat /\ (version' = version \/ version' = version + 1)
  BY DEF Statement, Reads, LockedOut, Refuses, Writes, tables, TablesInv
<1>3. CASE conn[u].state = "pinned"
  <2>1. conn[u] \in Pin /\ conn[u].as <= version
    BY <1>3 DEF TablesInv, Connection, Untouched, PinSound
  <2>2. conn[u].as \in Nat
    BY <2>1 DEF Pin
  <2>3. conn[u].as = version'
    BY <1>1, <1>3 DEF Fresh
  <2> QED BY <1>2, <2>1, <2>2, <2>3 DEF Fresh
<1> QED BY <1>3 DEF Fresh

\* An attempt that read a row is on an account that is still there.
LEMMA DerivedRow ==
  ASSUME RequestsInv, NEW u \in Threads, NEW a, Deriving(u, a), req[u].row # NoAccount
  PROVE  accounts[a] # NoAccount
  BY AtWork DEF Deriving, Phases, ServedOn

\* One account, while a step does not touch its attempts.
LEMMA CountOnKept ==
  ASSUME TablesInv, RequestsInv, CountInv, NEW t \in Threads, NEW a \in Actors, Statement(t),
         tally'[a] = tally[a], \A u \in Threads \ {t} : req'[u] = req[u],
         ~Deriving(t, a)', Calm(a)
  PROVE  CountOn(a)'
<1>1. tally[a].wrong \in Nat /\ Threshold \in Nat \ {0} /\ CountOn(a)
  BY LimitsAssumption DEF CountInv, Tally
<1>2. accounts'[a] = NoAccount => accounts[a] = NoAccount
  BY TablesMove DEF Later
<1>3. ASSUME NEW u \in Threads, Deriving(u, a)'
      PROVE  u # t /\ Deriving(u, a) /\ req'[u] = req[u]
  BY <1>3 DEF Deriving
<1>4. \A u \in Threads : u # t /\ Fresh(u)' => Fresh(u)
  BY OthersStale
<1>5. \A u \in Threads : Deriving(u, a) /\ req[u].row # NoAccount => accounts[a] # NoAccount
  BY DerivedRow
<1>6. (accounts[a] = NoAccount => tally[a].wrong = 0)'
  BY <1>1, <1>2 DEF CountOn
<1>7. ASSUME tally[a].alone
      PROVE  accounts'[a] # NoAccount =>
               /\ accounts'[a].failures = tally[a].wrong
               /\ tally[a].wrong >= Threshold =>
                    accounts'[a].lockedUntil = tally[a].last + Backoff(tally[a].wrong)
  <2>1. CASE accounts[a] = NoAccount /\ accounts'[a] # NoAccount
    BY <1>1, <2>1 DEF CountOn, Calm
  <2>2. CASE accounts[a] # NoAccount
    BY <1>1, <1>7, <2>2 DEF CountOn, Calm
  <2> QED BY <1>2, <2>1, <2>2
<1>8. ASSUME tally[a].alone, NEW u \in Threads, Deriving(u, a)', Fresh(u)',
             req'[u].row # NoAccount
      PROVE  req'[u].row.failures = accounts'[a].failures
  <2>1. Deriving(u, a) /\ Fresh(u) /\ req'[u] = req[u]
    BY <1>3, <1>4, <1>8
  <2>2. accounts[a] # NoAccount /\ req[u].row.failures = accounts[a].failures
    BY <1>1, <1>5, <1>8, <2>1 DEF CountOn
  <2> QED BY <2>1, <2>2 DEF Calm
<1>9. tally[a].alone =>
        \A x, y \in Threads : Deriving(x, a)' /\ Deriving(y, a)' => x = y
  BY <1>1, <1>3 DEF CountOn
<1> QED BY <1>6, <1>7, <1>8, <1>9 DEF CountOn

\* All accounts, while a step starts no attempt.
LEMMA CountKept ==
  ASSUME TablesInv, RequestsInv, CountInv, NEW t \in Threads, Statement(t), tally' = tally,
         \A u \in Threads \ {t} : req'[u] = req[u], req'[t].pc # "deriving",
         \A a \in Actors : Calm(a)
  PROVE  CountInv'
<1>1. ASSUME NEW a \in Actors PROVE CountOn(a)'
  <2>1. ~Deriving(t, a)' /\ tally'[a] = tally[a]
    BY DEF Deriving
  <2> QED BY <2>1, CountOnKept
<1>2. tally' \in [Actors -> Tally]
  BY DEF CountInv
<1> QED BY <1>1, <1>2 DEF CountInv

\* A step that reads the accounts only and does not start an attempt.
LEMMA CountStays ==
  ASSUME TablesInv, RequestsInv, CountInv, NEW t \in Threads, Statement(t), tally' = tally,
         accounts' = accounts, NEW r, req' = [req EXCEPT ![t] = r], r.pc # "deriving"
  PROVE  CountInv'
<1>1. (\A u \in Threads \ {t} : req'[u] = req[u]) /\ req'[t].pc # "deriving"
  BY DEF RequestsInv
<1>2. \A a \in Actors : Calm(a)
  BY DEF Calm
<1> QED BY <1>1, <1>2, CountKept

\* A step that answers its request.
LEMMA CountAnswered ==
  ASSUME TablesInv, RequestsInv, CountInv, NEW t \in Threads, Statement(t), tally' = tally,
         NEW code, NEW s, Answer(t, code, s), \A a \in Actors : Calm(a)
  PROVE  CountInv'
  BY AnswerDone, CountKept
\* Steps that leave the accounts.
LEMMA CountOther ==
  ASSUME TablesInv, RequestsInv, CountInv, NEW t \in Threads, Turn(t),
         \/ \E b \in Browsers, k \in load.kinds : Receive(t, b, k)
         \/ Admit(t) \/ Respond(t)
         \/ AskStatus(t) \/ LookUp(t) \/ RunVerifier(t) \/ StoreVerdict(t)
         \/ ShowHealth(t) \/ Decide(t)
  PROVE  CountInv'
<1>1. (\A u \in Threads \ {t} : req'[u] = req[u]) /\ req'[t].pc # "deriving"
  <2>1. CASE \E b \in Browsers, k \in load.kinds : Receive(t, b, k)
    BY <2>1, PhaseReceive
  <2>2. CASE Admit(t)
    BY <2>2, PhaseAdmit
  <2>3. CASE Respond(t)
    BY <2>3 DEF Respond, RequestsInv, Waiting
  <2>4. CASE AskStatus(t) \/ LookUp(t) \/ RunVerifier(t) \/ StoreVerdict(t)
    BY <2>4, PhaseLedger DEF LedgerPhases
  <2>5. CASE ShowHealth(t) \/ Decide(t)
    <3>1. \E code : Answer(t, code, req[t].session)
      BY <2>5 DEF ShowHealth, Decide
    <3> QED BY <3>1, AnswerDone
  <2> QED BY <2>1, <2>2, <2>3, <2>4, <2>5
<1>2. tally' = tally /\ accounts' = accounts
  <2>1. CASE \E b \in Browsers, k \in load.kinds : Receive(t, b, k)
    BY SMTT(30), <2>1 DEF Receive, tables
  <2>2. CASE Admit(t) \/ Respond(t)
    BY <2>2 DEF Admit, Respond, tables
  <2>3. CASE AskStatus(t) \/ LookUp(t) \/ RunVerifier(t) \/ StoreVerdict(t)
    BY <2>3 DEF AskStatus, LookUp, RunVerifier, StoreVerdict, tables
  <2>4. CASE ShowHealth(t) \/ Decide(t)
    BY <2>4 DEF ShowHealth, Decide, tables
  <2> QED BY <2>1, <2>2, <2>3, <2>4
<1>3. (\A a \in Actors : Calm(a)) /\ Statement(t)
  BY <1>2 DEF Calm, Turn
<1> QED BY <1>1, <1>2, <1>3, CountKept

\* A logout leaves the count.
LEMMA CountLogout ==
  ASSUME TablesInv, RequestsInv, CountInv, NEW t \in Threads, Turn(t), Logout(t)
  PROVE  CountInv'
<1> DEFINE a == req[t].session.actor
<1>1. SessionOn(req[t].session, accounts)
  BY AtWork DEF Logout, Ready, Phases, ServedOn
<1>2. tally' = tally /\ Statement(t) /\ \E code : \E s : Answer(t, code, s)
  BY DEF Logout, Turn
<1>3. CASE accounts' = accounts
  <2>1. \A x \in Actors : Calm(x)
    BY <1>3 DEF Calm
  <2> QED BY <1>2, <2>1, CountAnswered
<1>4. CASE a # NoActor /\ Write(t, [accounts EXCEPT ![a] = Ended(Revoked(accounts[a]))], failures)
  <2> DEFINE r == Ended(Revoked(accounts[a]))
  <2>1. a \in Actors /\ accounts[a] \in Row /\ accounts[a] # NoAccount
    BY <1>1, <1>4 DEF SessionOn, Session, TablesInv, Table
  <2>2. r.failures = accounts[a].failures /\ r.lockedUntil = accounts[a].lockedUntil
    BY <2>1, RevokedMove
  <2> HIDE DEF r
  <2>3. accounts' = [accounts EXCEPT ![a] = r]
    BY <1>4 DEF r, Write
  <2>4. \A x \in Actors : Calm(x)
    BY <2>1, <2>2, <2>3 DEF Calm, TablesInv, Table
  <2> QED BY <1>2, <2>4, CountAnswered
<1> QED BY <1>3, <1>4 DEF Logout, LockedOut, tables

\* A change of an account leaves the count.
LEMMA CountUpdateAccount ==
  ASSUME TablesInv, RequestsInv, CountInv, NEW t \in Threads, Turn(t), UpdateAccount(t)
  PROVE  CountInv'
<1> DEFINE a == req[t].arg.actor
           kind == req[t].kind
           to == req[t].arg.to
<1>1. ServedOn(req[t], accounts) /\ kind \in {"role", "disable", "password"}
      /\ req[t].pc # "answer"
  BY AtWork DEF UpdateAccount, Ready, Phases, Admin
<1>2. a \in Actors /\ (kind = "role" => to \in Roles)
  BY <1>1, AskedTyped, WebAssumption DEF ServedOn, Kinds, Posts, Admin
<1>3. tally' = tally /\ Statement(t) /\ \E code : \E s : Answer(t, code, s)
  BY DEF UpdateAccount, Turn
<1>4. CASE accounts' = accounts
  <2>1. \A x \in Actors : Calm(x)
    BY <1>4 DEF Calm
  <2> QED BY <1>3, <2>1, CountAnswered
<1>5. CASE /\ Rows(t)[a] # NoAccount /\ CanWrite(t)
           /\ Write(t, [accounts EXCEPT ![a] = Ended(Changed(accounts[a], kind, to))], failures)
  <2> DEFINE r == Ended(Changed(accounts[a], kind, to))
  <2>1. accounts[a] \in Row /\ accounts[a] # NoAccount
    BY <1>2, <1>5, WriterReads DEF TablesInv, Table
  <2>2. r.failures = accounts[a].failures /\ r.lockedUntil = accounts[a].lockedUntil
    <3> HIDE DEF kind, to
    <3> QED BY <1>1, <1>2, <2>1, ChangedMove
  <2>3. accounts' = [accounts EXCEPT ![a] = r]
    BY <1>5 DEF Write
  <2> HIDE DEF r
  <2>4. \A x \in Actors : Calm(x)
    BY <1>2, <2>1, <2>2, <2>3 DEF Calm, TablesInv, Table
  <2> QED BY <1>3, <2>4, CountAnswered
<1> QED BY <1>4, <1>5 DEF UpdateAccount, LockedOut, tables

\* A new account has counted nothing, and nothing was counted for it.
LEMMA CountCreateAccount ==
  ASSUME TablesInv, RequestsInv, CountInv, NEW t \in Threads, Turn(t), CreateAccount(t)
  PROVE  CountInv'
<1> DEFINE a == req[t].arg.actor
<1>1. tally' = tally /\ Statement(t) /\ \E code : \E s : Answer(t, code, s)
  BY DEF CreateAccount, Turn
<1>2. \/ accounts' = accounts
      \/ /\ accounts[a] = NoAccount
         /\ accounts' = [accounts EXCEPT ![a] = NewRow("viewer")]
  BY DEF CreateAccount, LockedOut, tables, Write
<1>3. NewRow("viewer").failures = 0
  BY DEF NewRow
<1>4. \A x \in Actors : Calm(x)
  BY <1>2, <1>3 DEF Calm, TablesInv, Table
<1> QED BY <1>1, <1>4, CountAnswered

\* An account whose attempts overlapped claims nothing.
LEMMA CountOff ==
  ASSUME NEW a \in Actors, tally'[a].alone = FALSE, accounts'[a] = NoAccount => tally'[a].wrong = 0
  PROVE  CountOn(a)'
  BY DEF CountOn

\* An account nobody is trying.
LEMMA CountLone ==
  ASSUME NEW a \in Actors, accounts'[a] # NoAccount, accounts'[a].failures = tally'[a].wrong,
         tally'[a].wrong >= Threshold =>
           accounts'[a].lockedUntil = tally'[a].last + Backoff(tally'[a].wrong),
         \A u \in Threads : ~Deriving(u, a)'
  PROVE  CountOn(a)'
  BY DEF CountOn

\* The attempt reads the count, if it is the only one.
LEMMA CountStartLogin ==
  ASSUME TablesInv, RequestsInv, CountInv, NEW t \in Threads, Turn(t), StartLogin(t)
  PROVE  CountInv'
<1>1. ServedOn(req[t], accounts) /\ req[t].pc = "accepted" /\ req[t].kind = "login"
  BY AtWork DEF StartLogin, Ready, Phases
<1>2. req[t] \in Request /\ req[t].arg.actor \in Actors
  BY <1>1, AskedTyped, WebAssumption DEF ServedOn, Kinds, Posts
<1>3. PICK a \in Actors : a = req[t].arg.actor
  BY <1>2
<1> DEFINE s == Refreshed(req[t].session, Rows(t), now)
           row == Rows(t)[a]
           deriving == {u \in Threads : req[u].pc = "deriving" /\ req[u].arg.actor = a}
<1>4. accounts' = accounts /\ version' = version /\ conn' = Pinned(t) /\ Statement(t)
  BY DEF StartLogin, Turn, tables
<1>5. \A x \in Actors : Calm(x)
  BY <1>4 DEF Calm
<1>6. CASE (Answer(t, 302, s) \/ Answer(t, 401, s)) /\ tally' = tally
  BY <1>4, <1>5, <1>6, CountAnswered
<1>7. CASE /\ req' = [req EXCEPT ![t].pc = "deriving", ![t].session = s,
                                 ![t].row = row, ![t].at = now]
           /\ tally' = IF deriving = {} THEN tally ELSE [tally EXCEPT ![a].alone = FALSE]
  <2> DEFINE r == [[[[req[t] EXCEPT !.pc = "deriving"] EXCEPT !.session = s]
                      EXCEPT !.row = row] EXCEPT !.at = now]
  <2>1. req' = [req EXCEPT ![t] = r]
    BY <1>7
  <2> HIDE DEF s, row
  <2>2. r.pc = "deriving" /\ r.arg = req[t].arg /\ r.row = row
    BY <1>2 DEF Request
  <2> HIDE DEF r
  <2>3. /\ \A u \in Threads \ {t} : req'[u] = req[u]
        /\ req'[t].pc = "deriving" /\ req'[t].arg.actor = a /\ req'[t].row = row
    BY <1>3, <2>1, <2>2 DEF RequestsInv
  <2>4. tally' \in [Actors -> Tally]
    BY <1>7 DEF CountInv, Tally
  <2>5. ASSUME NEW x \in Actors, x # a PROVE CountOn(x)'
    <3>1. ~Deriving(t, x)' /\ tally'[x] = tally[x]
      BY <1>7, <2>3, <2>5 DEF Deriving, CountInv
    <3> QED BY <1>4, <1>5, <2>3, <3>1, CountOnKept
  <2>6. CountOn(a)'
    <3>1. CountOn(a) /\ tally[a] \in Tally
      BY <1>2 DEF CountInv
    <3>2. CASE deriving # {}
      <4>1. tally'[a].alone = FALSE /\ tally'[a].wrong = tally[a].wrong
        BY <1>2, <1>7, <3>1, <3>2 DEF CountInv, Tally
      <4>2. accounts'[a] = NoAccount => tally'[a].wrong = 0
        BY <1>4, <3>1, <4>1 DEF CountOn
      <4> QED BY <4>1, <4>2, CountOff
    <3>3. CASE deriving = {}
      <4>1. tally' = tally
        BY <1>7, <3>3
      <4>2. \A u \in Threads : Deriving(u, a)' => u = t
        BY <2>3, <3>3 DEF Deriving
      <4>3. Fresh(t)' => row = accounts[a]
        <5>1. CASE conn[t].state = "open"
          BY <5>1 DEF row, Rows
        <5>2. CASE conn[t].state # "open"
          <6>1. conn' = conn
            BY <1>4, <5>2 DEF Pinned
          <6> QED BY <1>4, <6>1, RowsRead DEF Fresh, row
        <5> QED BY <5>1, <5>2
      <4> QED BY <1>4, <2>3, <3>1, <4>1, <4>2, <4>3 DEF CountOn
    <3> QED BY <3>2, <3>3
  <2> QED BY <2>4, <2>5, <2>6 DEF CountInv
<1> QED BY <1>6, <1>7, <1>3 DEF StartLogin

\* The lone attempt counts on from what the row still holds.
LEMMA CountWrongGuess ==
  ASSUME TablesInv, RequestsInv, CountInv, NEW t \in Threads, Statement(t),
         Ready(t, {"login"}, "deriving"), WrongGuess(t)
  PROVE  CountInv'
<1> DEFINE row == req[t].row
<1>1. ServedOn(req[t], accounts) /\ req[t].pc = "deriving" /\ req[t].kind = "login"
  BY AtWork DEF Ready, Phases
<1>2. req[t] \in Request /\ req[t].arg.actor \in Actors /\ req[t].at \in Nat
      /\ row \in Row \cup {NoAccount}
  BY <1>1, AskedTyped, WebAssumption DEF ServedOn, Kinds, Posts, Request
<1>3. PICK a \in Actors : a = req[t].arg.actor
  BY <1>2
<1>4. \E code : \E s : Answer(t, code, s)
  BY DEF WrongGuess
<1>5. CASE tally' = tally /\ accounts' = accounts
  <2>1. \A x \in Actors : Calm(x)
    BY <1>5 DEF Calm
  <2> QED BY <1>4, <1>5, <2>1, CountAnswered
<1>6. CASE /\ CanWrite(t) /\ row # NoAccount
           /\ accounts' = [accounts EXCEPT ![a] = Failed(accounts[a], row.failures, req[t].at)]
           /\ tally' = [tally EXCEPT ![a].wrong = tally[a].wrong + 1, ![a].last = req[t].at]
  <2> DEFINE r == Failed(accounts[a], row.failures, req[t].at)
             mid == [tally[a] EXCEPT !.wrong = tally[a].wrong + 1]
             more == [mid EXCEPT !.last = req[t].at]
  <2>1. accounts[a] \in Row /\ accounts[a] # NoAccount
    BY <1>1, <1>2, <1>6, <1>3 DEF ServedOn, TablesInv, Table
  <2>2. row.failures \in Nat
    BY <1>2, <1>6 DEF Row
  <2>3. /\ r \in Row /\ r.failures = row.failures + 1
        /\ r.lockedUntil = req[t].at + Backoff(row.failures + 1)
    <3> HIDE DEF row
    <3> QED BY <1>2, <2>1, <2>2, FailedMove
  <2>4. tally[a] \in Tally /\ CountOn(a) /\ tally[a].wrong \in Nat
    BY <1>2 DEF CountInv, Tally
  <2>5. mid \in Tally /\ mid.wrong = tally[a].wrong + 1 /\ mid.alone = tally[a].alone
    BY <2>4 DEF Tally
  <2>6. tally' = [tally EXCEPT ![a] = more]
    BY <1>6
  <2> HIDE DEF mid
  <2>7. /\ more \in Tally /\ more.wrong = tally[a].wrong + 1 /\ more.alone = tally[a].alone
        /\ more.last = req[t].at
    BY <1>2, <2>5 DEF Tally
  <2>8. accounts'[a] = r /\ \A x \in Actors \ {a} : accounts'[x] = accounts[x]
    BY <1>2, <1>6 DEF TablesInv, Table
  <2> HIDE DEF r, more
  <2>9. tally'[a] = more /\ (\A x \in Actors \ {a} : tally'[x] = tally[x])
        /\ tally' \in [Actors -> Tally]
    BY <1>2, <2>6, <2>7 DEF CountInv
  <2>10. (\A u \in Threads \ {t} : req'[u] = req[u]) /\ req'[t].pc = "answer"
    BY <1>4, AnswerDone
  <2>11. ASSUME NEW x \in Actors, x # a PROVE CountOn(x)'
    <3>1. ~Deriving(t, x)' /\ tally'[x] = tally[x] /\ Calm(x)
      BY <2>8, <2>9, <2>10, <2>11 DEF Deriving, Calm
    <3> QED BY <2>10, <3>1, CountOnKept
  <2>12. CountOn(a)'
    <3>1. r # NoAccount
      BY <2>3, WebAssumption
    <3>2. CASE ~tally[a].alone
      <4>1. tally'[a].alone = FALSE /\ accounts'[a] # NoAccount
        BY <2>7, <2>8, <2>9, <3>1, <3>2 DEF Tally
      <4> QED BY <4>1, CountOff
    <3>3. CASE tally[a].alone
      <4>1. Deriving(t, a) /\ Fresh(t)
        BY <1>1, <1>6, <1>3 DEF Deriving, Fresh, CanWrite
      <4>2. row.failures = tally[a].wrong
        BY <1>6, <2>1, <2>4, <3>3, <4>1 DEF CountOn
      <4>3. \A u \in Threads : ~Deriving(u, a)'
        BY <2>4, <2>10, <3>3, <4>1 DEF CountOn, Deriving
      <4> HIDE DEF row
      <4>4. accounts'[a] # NoAccount /\ accounts'[a].failures = tally'[a].wrong
            /\ accounts'[a].lockedUntil = tally'[a].last + Backoff(tally'[a].wrong)
        BY <2>3, <2>7, <2>8, <2>9, <3>1, <4>2
      <4> QED BY <4>3, <4>4, CountLone
    <3> QED BY <3>2, <3>3
  <2> QED BY <2>9, <2>11, <2>12 DEF CountInv
<1> QED BY <1>5, <1>6, <1>3 DEF WrongGuess, Write, LockedOut, tables

\* After a right guess the count starts again.
LEMMA CountRightGuess ==
  ASSUME TablesInv, RequestsInv, CountInv, NEW t \in Threads, Statement(t),
         Ready(t, {"login"}, "deriving"), req[t].row # NoAccount, RightGuess(t)
  PROVE  CountInv'
<1>1. ServedOn(req[t], accounts) /\ req[t].pc = "deriving" /\ req[t].kind = "login"
  BY AtWork DEF Ready, Phases
<1>2. req[t].arg.actor \in Actors /\ accounts[req[t].arg.actor] \in Row
  BY <1>1, AskedTyped, WebAssumption DEF ServedOn, Kinds, Posts, TablesInv, Table
<1>3. PICK a \in Actors : a = req[t].arg.actor
  BY <1>2
<1> DEFINE alone == \A u \in Threads \ {t} : req[u].pc = "deriving" => req[u].arg.actor # a
<1>4. \E code : \E s : Answer(t, code, s)
  BY DEF RightGuess
<1>5. CASE tally' = tally /\ accounts' = accounts
  <2>1. \A x \in Actors : Calm(x)
    BY <1>5 DEF Calm
  <2> QED BY <1>4, <1>5, <2>1, CountAnswered
<1>6. CASE /\ accounts' = [accounts EXCEPT ![a] = Accepted(accounts[a])]
           /\ tally' = [tally EXCEPT ![a] = [wrong |-> 0, alone |-> alone, last |-> 0]]
  <2> DEFINE r == Accepted(accounts[a])
             none == [wrong |-> 0, alone |-> alone, last |-> 0]
  <2>1. r \in Row /\ r.failures = 0
    BY <1>2, <1>3, AcceptedMove
  <2>2. none \in Tally /\ none.wrong = 0 /\ (none.alone <=> alone)
    BY DEF Tally
  <2>3. accounts'[a] = r /\ \A x \in Actors \ {a} : accounts'[x] = accounts[x]
    BY <1>2, <1>6 DEF TablesInv, Table
  <2> HIDE DEF r
  <2>4. tally' = [tally EXCEPT ![a] = none]
    BY <1>6
  <2> HIDE DEF none, alone
  <2>5. tally'[a] = none /\ (\A x \in Actors \ {a} : tally'[x] = tally[x])
        /\ tally' \in [Actors -> Tally]
    BY <1>2, <2>2, <2>4 DEF CountInv
  <2>6. (\A u \in Threads \ {t} : req'[u] = req[u]) /\ req'[t].pc = "answer"
    BY <1>4, AnswerDone
  <2>7. ASSUME NEW x \in Actors, x # a PROVE CountOn(x)'
    <3>1. ~Deriving(t, x)' /\ tally'[x] = tally[x] /\ Calm(x)
      BY <2>3, <2>5, <2>6, <2>7 DEF Deriving, Calm
    <3> QED BY <2>6, <3>1, CountOnKept
  <2>8. CountOn(a)'
    <3>1. alone => \A u \in Threads : ~Deriving(u, a)'
      BY <2>6 DEF alone, Deriving
    <3>2. ~(0 >= Threshold)
      BY LimitsAssumption
    <3>3. accounts'[a] # NoAccount /\ accounts'[a].failures = 0 /\ tally'[a].wrong = 0
      BY <2>1, <2>2, <2>3, <2>5, WebAssumption
    <3>4. CASE alone
      BY <3>1, <3>2, <3>3, <3>4, CountLone
    <3>5. CASE ~alone
      <4>1. tally'[a].alone = FALSE
        BY <2>2, <2>5, <3>5 DEF Tally
      <4> QED BY <3>3, <4>1, CountOff
    <3> QED BY <3>4, <3>5
  <2> QED BY <2>5, <2>7, <2>8 DEF CountInv
<1> QED BY <1>5, <1>6, <1>3 DEF RightGuess, Write, LockedOut, tables

\* The derivation ends either way.
LEMMA CountFinishLogin ==
  ASSUME TablesInv, RequestsInv, CountInv, NEW t \in Threads, Turn(t), FinishLogin(t)
  PROVE  CountInv'
<1>1. /\ Ready(t, {"login"}, "deriving") /\ Statement(t)
      /\ (req[t].row # NoAccount /\ RightGuess(t)) \/ WrongGuess(t)
  BY DEF FinishLogin, Turn
<1> QED BY <1>1, CountRightGuess, CountWrongGuess
-----------------------------------------------------------------------------
(* The inductive invariant.                                                *)

Bounds == served \in 0 .. load.requests /\ now \in 0 .. MaxTime

WebInv == TablesInv /\ RequestsInv /\ HealthInv /\ CountInv /\ Bounds

\* No connection holds anything at first.
LEMMA TablesInit ==
  ASSUME Init
  PROVE  TablesInv
<1>1. accounts \in Table /\ Later(FirstRows, accounts) /\ version \in Nat
  BY WebAssumption, LaterSame DEF Init, Table
<1>2. ASSUME NEW a \in Actors PROVE InStep(accounts[a], a)
  <2>1. CASE FirstRows[a] = NoAccount
    BY <2>1 DEF Init, InStep
  <2>2. CASE FirstRows[a] # NoAccount
    <3>1. FirstRows[a] \in Row /\ FirstRows[a].ended = 0 /\ FirstRows[a].epoch \in Nat
      BY <2>2, WebAssumption DEF Row
    <3>2. FirstEpoch(a) = FirstRows[a].epoch
      BY <2>2 DEF FirstEpoch
    <3> QED BY <3>1, <3>2 DEF Init, InStep
  <2> QED BY <2>1, <2>2
<1>3. conn \in [Threads -> Connection] /\ \A t \in Threads : conn[t] = Untouched
  BY DEF Init, Connection
<1>4. Untouched.state = "idle"
  BY DEF Untouched
<1>5. \A t \in Threads : PinSound(conn[t], accounts, version)
  BY <1>3, <1>4 DEF PinSound
<1>6. Holders = {}
  BY <1>3, <1>4 DEF Holders
<1> QED BY <1>1, <1>2, <1>3, <1>5, <1>6 DEF TablesInv

\* The browsers hold sessions of the rows as they are at first.
LEMMA RequestsInit ==
  ASSUME Init
  PROVE  RequestsInv
<1>1. PICK who \in SignedIn :
        cookies = [b \in Browsers |->
                     IF who[b] = NoActor THEN Anonymous(TRUE)
                     ELSE [SessionOf(who[b], FirstRows[who[b]], 0, 0) EXCEPT !.token = TRUE]]
  BY DEF Init
<1>2. ASSUME NEW b \in Browsers PROVE SessionOn(cookies[b], accounts)
  <2>1. CASE who[b] = NoActor
    <3>1. cookies[b] = Anonymous(TRUE)
      BY <1>1, <2>1
    <3> QED BY <3>1, AnonymousOn
  <2>2. CASE who[b] # NoActor
    <3>1. /\ who[b] \in Actors /\ FirstRows[who[b]] # NoAccount /\ FirstRows[who[b]] \in Row
          /\ accounts = FirstRows
      BY <2>2, WebAssumption DEF Init
    <3> DEFINE row == FirstRows[who[b]]
               s == SessionOf(who[b], row, 0, 0)
               given == [s EXCEPT !.token = TRUE]
    <3>2. cookies[b] = given
      BY <1>1, <2>2
    <3>3. row.epoch = FirstEpoch(who[b]) /\ row.epoch \in Nat /\ row.role \in Roles
      BY <3>1 DEF FirstEpoch, Row
    <3> HIDE DEF row
    <3>4. s \in Session /\ s.actor = who[b] /\ s.epoch = row.epoch /\ s.asOf = 0
      BY <3>1, <3>3 DEF SessionOf, Session
    <3> HIDE DEF s
    <3>5. given \in Session /\ given.actor = who[b] /\ given.epoch = row.epoch /\ given.asOf = 0
      BY <3>4 DEF Session
    <3> HIDE DEF given
    <3> QED BY <3>1, <3>2, <3>3, <3>5 DEF SessionOn
  <2> QED BY <2>1, <2>2
<1>3. cookies \in [Browsers -> Session]
  <2>1. \A b \in Browsers : cookies[b] \in Session
    BY <1>2 DEF SessionOn
  <2>2. cookies = [b \in Browsers |-> cookies[b]]
    BY <1>1
  <2> QED BY <2>1, <2>2
<1>4. req \in [Threads -> {Waiting}] /\ load \in Workloads /\ now = 0
  BY DEF Init
<1>5. \A t \in Threads : RequestOn(req[t], accounts)
  BY <1>4 DEF RequestOn
<1> QED BY <1>2, <1>3, <1>4, <1>5 DEF RequestsInv

\* The cache is empty at first.
LEMMA HealthInit ==
  ASSUME Init
  PROVE  HealthInv
<1>1. ledger \in [size : Nat, cuts : Nat] /\ cache = NoCache
  BY DEF Init
<1>2. /\ cache \in [size : Int, at : Nat, verdict : Verdict]
      /\ cache.at <= cache.verdict.checkedAt
      /\ cache.size <= cache.verdict.records
  BY <1>1 DEF NoCache, NoVerdict, Verdict
<1>3. \A t \in Threads : req[t].pc = "waiting"
  BY DEF Init, Waiting
<1>4. \A t \in Threads : BadgeOn(req[t], ledger, now)
  BY <1>3 DEF BadgeOn
<1> QED BY <1>1, <1>2, <1>4 DEF HealthInv

\* Nothing was counted at first.
LEMMA CountInit ==
  ASSUME Init
  PROVE  CountInv
<1>1. tally \in [Actors -> Tally] /\ \A a \in Actors : tally[a].wrong = 0
  BY DEF Init, Tally
<1>2. \A a \in Actors : accounts[a] # NoAccount => accounts[a].failures = 0
  BY WebAssumption DEF Init
<1>3. \A t \in Threads : req[t].pc = "waiting"
  BY DEF Init, Waiting
<1>4. ~(0 >= Threshold)
  BY LimitsAssumption
<1> QED BY <1>1, <1>2, <1>3, <1>4 DEF CountInv, CountOn, Deriving

\* No request was received, and the clock is at zero.
LEMMA BoundsInit ==
  ASSUME Init
  PROVE  Bounds
<1>1. load.requests \in Nat /\ MaxTime \in Nat
  BY WebAssumption DEF Init
<1> QED BY <1>1 DEF Init, Bounds

\* What a thread does, as far as all actions of threads do the same.
ThreadNext(t) ==
  \/ \E b \in Browsers, k \in load.kinds : Receive(t, b, k)
  \/ Admit(t) \/ Respond(t)
  \/ StartLogin(t) \/ FinishLogin(t) \/ Logout(t)
  \/ UpdateAccount(t) \/ CreateAccount(t)
  \/ AskStatus(t) \/ LookUp(t) \/ RunVerifier(t) \/ StoreVerdict(t)
  \/ ShowHealth(t) \/ Decide(t)

\* Every step of a thread is a turn.
LEMMA TurnNext ==
  ASSUME TablesInv, RequestsInv, HealthInv, NEW t \in Threads, ThreadNext(t)
  PROVE  Turn(t)
<1>1. ledger.size \in Nat /\ cache.verdict \in Verdict
  BY DEF HealthInv
<1>2. CASE \E b \in Browsers, k \in load.kinds : Receive(t, b, k)
  BY <1>2, TurnReceive
<1>3. CASE Admit(t) \/ Respond(t)
  BY <1>3, TurnAdmit, TurnRespond
<1>4. CASE StartLogin(t) \/ FinishLogin(t) \/ Logout(t)
  BY <1>4, TurnStartLogin, TurnFinishLogin, TurnLogout
<1>5. CASE UpdateAccount(t) \/ CreateAccount(t)
  BY <1>5, TurnUpdateAccount, TurnCreateAccount
<1>6. CASE AskStatus(t) \/ LookUp(t) \/ RunVerifier(t) \/ StoreVerdict(t)
  BY <1>1, <1>6, TurnAskStatus, TurnLookUp, TurnRunVerifier, TurnStoreVerdict
<1>7. CASE ShowHealth(t) \/ Decide(t)
  BY <1>7, TurnHealthy
<1> QED BY <1>2, <1>3, <1>4, <1>5, <1>6, <1>7 DEF ThreadNext

\* Every step of a thread keeps the verdicts.
LEMMA HealthNext ==
  ASSUME TablesInv, RequestsInv, HealthInv, NEW t \in Threads, ThreadNext(t)
  PROVE  HealthInv'
<1>1. CASE \/ \E b \in Browsers, k \in load.kinds : Receive(t, b, k)
           \/ Admit(t) \/ Respond(t) \/ StartLogin(t) \/ FinishLogin(t) \/ Logout(t)
           \/ UpdateAccount(t) \/ CreateAccount(t) \/ ShowHealth(t)
  BY <1>1, HealthOther
<1>2. CASE AskStatus(t) \/ LookUp(t) \/ RunVerifier(t)
  BY <1>2, HealthAskStatus, HealthLookUp, HealthRunVerifier
<1>3. CASE StoreVerdict(t) \/ Decide(t)
  BY <1>3, HealthStoreVerdict, HealthDecide
<1> QED BY <1>1, <1>2, <1>3 DEF ThreadNext

\* Every step of a thread keeps the counts.
LEMMA CountNext ==
  ASSUME TablesInv, RequestsInv, CountInv, NEW t \in Threads, Turn(t), ThreadNext(t)
  PROVE  CountInv'
<1>1. CASE \/ \E b \in Browsers, k \in load.kinds : Receive(t, b, k)
           \/ Admit(t) \/ Respond(t)
           \/ AskStatus(t) \/ LookUp(t) \/ RunVerifier(t) \/ StoreVerdict(t)
           \/ ShowHealth(t) \/ Decide(t)
  BY <1>1, CountOther
<1>2. CASE StartLogin(t) \/ FinishLogin(t)
  BY <1>2, CountStartLogin, CountFinishLogin
<1>3. CASE Logout(t) \/ UpdateAccount(t) \/ CreateAccount(t)
  BY <1>3, CountLogout, CountUpdateAccount, CountCreateAccount
<1> QED BY <1>1, <1>2, <1>3 DEF ThreadNext

\* Every step of a thread keeps the bounds of the model.
LEMMA BoundsThread ==
  ASSUME RequestsInv, Bounds, NEW t \in Threads, ThreadNext(t)
  PROVE  Bounds'
<1>1. load.requests \in Nat
  BY WebAssumption DEF RequestsInv
<1>2. CASE \E b \in Browsers, k \in load.kinds : Receive(t, b, k)
  <2>1. now' = now /\ load' = load /\ served < load.requests /\ served' = served + 1
    BY <1>2 DEF Receive, world
  <2> QED BY <1>1, <2>1 DEF Bounds
<1>3. CASE UNCHANGED <<served, now, load>>
  BY <1>3 DEF Bounds
<1>4. CASE Admit(t) \/ Respond(t) \/ StartLogin(t)
  BY <1>3, <1>4 DEF Admit, Respond, StartLogin, world
<1>5. CASE FinishLogin(t) \/ Logout(t)
  BY <1>3, <1>5 DEF FinishLogin, Logout, world
<1>6. CASE UpdateAccount(t) \/ CreateAccount(t)
  BY <1>3, <1>6 DEF UpdateAccount, CreateAccount, world
<1>7. CASE AskStatus(t) \/ LookUp(t) \/ RunVerifier(t) \/ StoreVerdict(t)
  BY <1>3, <1>7 DEF AskStatus, LookUp, RunVerifier, StoreVerdict, world
<1>8. CASE ShowHealth(t) \/ Decide(t)
  BY <1>3, <1>8 DEF ShowHealth, Decide, world
<1> QED BY <1>2, <1>4, <1>5, <1>6, <1>7, <1>8 DEF ThreadNext

\* Every step of a thread keeps the invariant.
LEMMA ThreadKeepsInv ==
  ASSUME WebInv, NEW t \in Threads, ThreadNext(t)
  PROVE  WebInv'
<1>1. TablesInv /\ RequestsInv /\ HealthInv /\ CountInv /\ Bounds
  BY DEF WebInv
<1>2. Turn(t)
  BY <1>1, TurnNext
<1>3. TablesInv' /\ Later(accounts, accounts')
  BY <1>1, <1>2, TablesMove DEF Turn
<1>4. RequestsInv'
  BY <1>1, <1>2, <1>3, RequestsServed DEF Turn
<1>5. HealthInv' /\ CountInv' /\ Bounds'
  BY <1>1, <1>2, HealthNext, CountNext, BoundsThread
<1> QED BY <1>3, <1>4, <1>5 DEF WebInv

\* The connections, the requests and the counts do not look at the clock or the ledger.
LEMMA QuietKeeps ==
  ASSUME TablesInv, RequestsInv, CountInv, UNCHANGED <<tables, conn, cookies, req, load, tally>>,
         now' \in Nat
  PROVE  TablesInv' /\ RequestsInv' /\ CountInv'
<1>1. accounts' = accounts /\ version' = version /\ conn' = conn
  BY DEF tables
<1>2. TablesInv'
  BY <1>1 DEF TablesInv, Holders
<1>3. RequestsInv'
  <2>1. \A t \in Threads : RequestOn(req[t], accounts)'
    BY <1>1 DEF RequestsInv, RequestOn, ServedOn
  <2> QED BY <1>1, <2>1 DEF RequestsInv
<1>4. CountInv'
  BY <1>1 DEF CountInv, CountOn, Deriving, Fresh
<1> QED BY <1>2, <1>3, <1>4

\* The clock and the ledger keep the invariant.
LEMMA WorldKeepsInv ==
  ASSUME WebInv, Tick \/ Ledger
  PROVE  WebInv'
<1>1. TablesInv /\ RequestsInv /\ HealthInv /\ CountInv /\ Bounds
  BY DEF WebInv
<1>2. HealthInv'
  BY <1>1, HealthWorld
<1>3. MaxTime \in Nat /\ UNCHANGED <<tables, conn, cookies, req, load, tally, served>>
  BY WebAssumption DEF Tick, Ledger
<1>4. Bounds' /\ now' \in Nat
  BY <1>1, <1>3 DEF Tick, Ledger, Bounds
<1> QED BY <1>1, <1>2, <1>3, <1>4, QuietKeeps DEF WebInv

\* Nothing happens.
LEMMA StutterKeepsInv ==
  ASSUME WebInv, UNCHANGED vars
  PROVE  WebInv'
<1>1. TablesInv /\ RequestsInv /\ HealthInv /\ CountInv /\ Bounds
  BY DEF WebInv
<1>2. UNCHANGED <<tables, conn, cookies, req, load, tally, served, now, ledger, cache>>
  BY DEF vars, tables
<1>3. HealthInv' /\ Bounds'
  BY <1>1, <1>2 DEF HealthInv, Bounds
<1>4. now' \in Nat
  BY <1>1, <1>2 DEF RequestsInv
<1> QED BY <1>1, <1>2, <1>3, <1>4, QuietKeeps DEF WebInv

\* The invariant holds in every state.
LEMMA AlwaysWebInv == Spec => []WebInv
<1>1. Init => WebInv
  BY TablesInit, RequestsInit, HealthInit, CountInit, BoundsInit DEF WebInv
<1>2. WebInv /\ [Next]_vars => WebInv'
  <2> SUFFICES ASSUME WebInv, [Next]_vars PROVE WebInv'
    OBVIOUS
  <2>1. ASSUME NEW t \in Threads, ThreadNext(t) PROVE WebInv'
    BY <2>1, ThreadKeepsInv
  <2>2. CASE Tick \/ Ledger
    BY <2>2, WorldKeepsInv
  <2>3. CASE UNCHANGED vars
    BY <2>3, StutterKeepsInv
  <2> QED BY <2>1, <2>2, <2>3 DEF Next, ThreadNext
<1> QED BY <1>1, <1>2, PTL DEF Spec

-----------------------------------------------------------------------------
(* The properties of Web, from the invariant.                              *)

\* The state of the server keeps its types, and one connection at most has the write
\* lock of the accounts database (accounts.py, auth.py, services.py).
THEOREM WebTypeCorrect == Spec => []TypeOK
<1>1. WebInv => TypeOK
  <2> SUFFICES ASSUME WebInv PROVE TypeOK
    OBVIOUS
  <2>1. TablesInv /\ RequestsInv /\ HealthInv /\ Bounds
    BY DEF WebInv
  <2>2. \A a \in Actors : accounts[a] = NoAccount \/ accounts[a].role \in Roles
    BY <2>1 DEF TablesInv, Table, Row
  <2>3. ASSUME NEW t \in Threads
        PROVE  /\ conn[t].state \in {"idle", "open", "pinned", "writer"}
               /\ req[t].pc \in {"waiting", "accepted", "serving", "deriving", "asked",
                                 "verifying", "verified", "healthy", "answer"}
    <3>1. conn[t].state \in {"idle", "open", "pinned", "writer"}
      BY <2>1 DEF TablesInv, Connection, Untouched, Pin
    <3>2. req[t] \in {Waiting} \cup Answered \cup Request
      BY <2>1 DEF RequestsInv
    <3>3. req[t].pc \in {"waiting"} \cup Phases
      BY <3>2 DEF Waiting, Answered, Request, Phases
    <3> QED BY <3>1, <3>3 DEF Phases
  <2>4. \A b \in Browsers : cookies[b].role \in Roles \cup {"none"}
    BY <2>1 DEF RequestsInv, Session
  <2>5. cache.verdict.state \in {"NONE", "OK", "FAILED", "UNAVAILABLE"}
    BY <2>1 DEF HealthInv, Verdict
  <2>6. Cardinality(Holders) <= 1
    <3>1. CASE Holders = {}
      BY <3>1, FS_EmptySet
    <3>2. CASE Holders # {}
      <4>1. PICK t \in Holders : TRUE
        BY <3>2
      <4>2. Holders = {t}
        BY <2>1, <4>1 DEF TablesInv
      <4>3. Cardinality({t}) = 1
        BY FS_Singleton
      <4> QED BY <4>2, <4>3
    <3> QED BY <3>1, <3>2
  <2>7. version \in Nat /\ served \in 0 .. load.requests /\ now \in 0 .. MaxTime
    BY <2>1 DEF TablesInv, Bounds
  <2> QED BY <2>2, <2>3, <2>4, <2>5, <2>6, <2>7 DEF TypeOK, Holders
<1> QED BY <1>1, AlwaysWebInv, PTL

\* However logins, revocations and account changes race on any number of threads, a
\* session that the accounts table would still honour was opened with a password read
\* after its actor's sessions had last been ended (accounts.py:190-267, auth.py:30-84).
THEOREM AlwaysLiveSessionsAreCurrent == Spec => []LiveSessionsAreCurrent
<1>1. WebInv => LiveSessionsAreCurrent
  <2> SUFFICES ASSUME WebInv, NEW s \in Sessions, Honoured(s, accounts, now)
               PROVE  s.asOf = accounts[s.actor].ended
    BY DEF LiveSessionsAreCurrent
  <2>1. TablesInv /\ RequestsInv
    BY DEF WebInv
  <2>2. SessionOn(s, accounts)
    <3>1. CASE s \in {cookies[b] : b \in Browsers}
      BY <2>1, <3>1 DEF RequestsInv
    <3>2. CASE s \in {req[t].session : t \in {u \in Threads : req[u].pc # "waiting"}}
      <4>1. PICK t \in Threads : req[t].pc # "waiting" /\ s = req[t].session
        BY <3>2
      <4>2. RequestOn(req[t], accounts)
        BY <2>1 DEF RequestsInv
      <4> QED BY <4>1, <4>2 DEF RequestOn, ServedOn, Waiting
    <3> QED BY <3>1, <3>2 DEF Sessions
  <2>3. /\ s.actor \in Actors /\ accounts[s.actor] \in Row /\ s.asOf \in Nat
        /\ accounts[s.actor].epoch = s.epoch
    BY <2>1, <2>2 DEF Honoured, SessionOn, Session, TablesInv, Table
  <2>4. s.epoch = s.asOf + FirstEpoch(s.actor)
    BY <2>2 DEF SessionOn, Honoured
  <2>5. accounts[s.actor].epoch = accounts[s.actor].ended + FirstEpoch(s.actor)
    BY <2>1, <2>3, WebAssumption DEF TablesInv, InStep
  <2>6. FirstEpoch(s.actor) \in Nat /\ accounts[s.actor].ended \in Nat
    BY <2>3, WebAssumption DEF FirstEpoch, Row
  <2> QED BY <2>3, <2>4, <2>5, <2>6
<1> QED BY <1>1, AlwaysWebInv, PTL

\* While the attempts on an account are derived one at a time its row counts the wrong
\* guesses since the last right one, and locks for the delay that count asks for, also
\* when another connection's statement came in between (accounts.py:237-281).
THEOREM AlwaysCountedWhenAlone == Spec => []CountedWhenAlone
<1>1. WebInv => CountedWhenAlone
  BY DEF WebInv, CountInv, CountOn, CountedWhenAlone
<1> QED BY <1>1, AlwaysWebInv, PTL

\* What a page shows as verified was read less than the cache's lifetime before and
\* covered every record the daemon reported for the page, unless the ledger was
\* shortened, however many threads share the cache (services.py:84-111).
THEOREM AlwaysBadgeIsFresh == Spec => []BadgeIsFresh
<1>1. WebInv => BadgeIsFresh
  <2> SUFFICES ASSUME WebInv, NEW t \in Threads, req[t].pc = "healthy",
                      BannerKind(req[t].status, req[t].verdict) = "verified"
               PROVE  /\ req[t].at - req[t].verdict.checkedAt < Ttl
                      /\ ledger.cuts = 0 => req[t].verdict.records >= req[t].status.size
    BY DEF BadgeIsFresh
  <2>1. BadgeOn(req[t], ledger, now) /\ RequestsInv
    BY DEF WebInv, HealthInv
  <2>2. req[t].status.reachable
    BY DEF BannerKind
  <2>3. req[t] \in Request
    BY <2>1, AtWork DEF Phases, ServedOn
  <2>4. req[t].status.size \in Nat /\ req[t].verdict.records \in Nat
    BY <2>3 DEF Request, Status, Verdict
  <2> QED BY <2>1, <2>2, <2>4 DEF BadgeOn
<1> QED BY <1>1, AlwaysWebInv, PTL

-----------------------------------------------------------------------------
(* Without refused creations.                                              *)

\* No behaviour has requests that create accounts: none is refused for the table's key.
NoCreations == \A w \in Workloads : "create" \notin w.kinds

\* No connection keeps a transaction open after its request.
NoneOpen == \A t \in Threads : conn[t] = Untouched

\* With no transaction open everyone reads what is committed, and may write.
LEMMA EveryoneWrites ==
  ASSUME NoneOpen, NEW t \in Threads
  PROVE  CanWrite(t) /\ Rows(t) = accounts /\ Pinned(t) = conn
  BY DEF NoneOpen, CanWrite, Rows, Pinned, Untouched

\* Without creations no transaction stays open.
LEMMA NoneOpenNext ==
  ASSUME NoCreations, WebInv, NoneOpen, [Next]_vars
  PROVE  NoneOpen'
<1>1. RequestsInv /\ TablesInv
  BY DEF WebInv
<1>2. \A t \in Threads : CanWrite(t) /\ Pinned(t) = conn
  BY EveryoneWrites
<1>3. CASE conn' = conn
  BY <1>3 DEF NoneOpen
<1>4. ASSUME NEW t \in Threads, conn' = [conn EXCEPT ![t] = Untouched]
      PROVE  NoneOpen'
  BY <1>1, <1>4 DEF NoneOpen, TablesInv
<1>5. ASSUME NEW t \in Threads, ThreadNext(t)
      PROVE  NoneOpen'
  <2>1. CASE \E b \in Browsers, k \in load.kinds : Receive(t, b, k)
    BY <1>3, <2>1 DEF Receive
  <2>2. CASE Admit(t) \/ Respond(t) \/ StartLogin(t)
    BY <1>2, <1>3, <2>2 DEF Admit, Respond, StartLogin
  <2>3. CASE FinishLogin(t)
    BY <1>2, <1>3, <1>4, <2>3 DEF FinishLogin, RightGuess, WrongGuess, Write
  <2>4. CASE Logout(t)
    BY <1>2, <1>3, <1>4, <2>4 DEF Logout, Write
  <2>5. CASE UpdateAccount(t)
    BY <1>2, <1>3, <1>4, <2>5 DEF UpdateAccount, Write
  <2>6. CASE CreateAccount(t)
    <3>1. ServedOn(req[t], accounts) /\ req[t].pc = "serving" /\ req[t].kind = "create"
      BY <1>1, <2>6, AtWork DEF CreateAccount, Ready, Phases
    <3>2. "create" \in load.kinds
      BY <3>1 DEF ServedOn
    <3> QED BY <1>1, <3>2 DEF NoCreations, RequestsInv
  <2>7. CASE AskStatus(t) \/ LookUp(t) \/ RunVerifier(t) \/ StoreVerdict(t)
    BY <1>3, <2>7 DEF AskStatus, LookUp, RunVerifier, StoreVerdict
  <2>8. CASE ShowHealth(t) \/ Decide(t)
    BY <1>3, <2>8 DEF ShowHealth, Decide
  <2> QED BY <1>5, <2>1, <2>2, <2>3, <2>4, <2>5, <2>6, <2>7, <2>8 DEF ThreadNext
<1>6. CASE Tick \/ Ledger
  BY <1>3, <1>6 DEF Tick, Ledger
<1>7. CASE UNCHANGED vars
  BY <1>3, <1>7 DEF vars
<1> QED BY <1>5, <1>6, <1>7 DEF Next, ThreadNext

\* Only Admit takes a request from the hook to its handler.
LEMMA AdmittedByAdmit ==
  ASSUME WebInv, NEW t \in Threads, [Next]_vars,
         req[t].pc = "accepted", req'[t].pc = "serving"
  PROVE  Admit(t)
<1>1. RequestsInv
  BY DEF WebInv
<1>2. req' # req
  OBVIOUS
<1>3. PICK u \in Threads : ThreadNext(u)
  BY <1>2 DEF Next, ThreadNext, Tick, Ledger, vars
<1>4. Turn(u)
  BY <1>3, TurnNext DEF WebInv
<1>5. u = t
  BY <1>1, <1>4 DEF Turn, Served, RequestsInv
<1>6. CASE \E b \in Browsers, k \in load.kinds : Receive(t, b, k)
  BY <1>6 DEF Receive, Waiting
<1>7. CASE Respond(t)
  BY <1>7 DEF Respond
<1>8. CASE StartLogin(t)
  <2>1. ServedOn(req[t], accounts)
    BY <1>1, AtWork DEF Phases
  <2> DEFINE s == Refreshed(req[t].session, Rows(t), now)
             row == Rows(t)[req[t].arg.actor]
             r == [[[[req[t] EXCEPT !.pc = "deriving"] EXCEPT !.session = s]
                      EXCEPT !.row = row] EXCEPT !.at = now]
  <2>2. Answer(t, 302, s) \/ Answer(t, 401, s) \/ req' = [req EXCEPT ![t] = r]
    BY <1>8 DEF StartLogin
  <2> HIDE DEF s, row
  <2>3. r.pc = "deriving"
    BY <2>1 DEF ServedOn, Request
  <2> HIDE DEF r
  <2>4. req' # [req EXCEPT ![t] = r]
    BY <1>1, <2>3 DEF RequestsInv
  <2> QED BY <1>1, <2>2, <2>4, AnswerDone
<1>9. CASE FinishLogin(t)
  BY <1>9 DEF FinishLogin, Ready
<1>10. CASE Logout(t)
  <2>1. \E code : \E s : Answer(t, code, s)
    BY <1>10 DEF Logout
  <2> QED BY <1>1, <2>1, AnswerDone
<1>11. CASE UpdateAccount(t) \/ CreateAccount(t) \/ AskStatus(t)
  BY <1>11 DEF UpdateAccount, CreateAccount, AskStatus, Ready
<1>12. CASE LookUp(t) \/ RunVerifier(t) \/ StoreVerdict(t) \/ ShowHealth(t) \/ Decide(t)
  BY <1>12 DEF LookUp, RunVerifier, StoreVerdict, ShowHealth, Decide, Ready
<1> QED BY <1>3, <1>5, <1>6, <1>7, <1>8, <1>9, <1>10, <1>11, <1>12 DEF ThreadNext

\* Admission reads what is committed.
LEMMA AdmittedNow ==
  ASSUME WebInv, NoneOpen, NEW t \in Threads, Admit(t), req'[t].pc = "serving"
  PROVE  /\ Honoured(req[t].session, accounts, now)
         /\ req'[t].role = accounts[req'[t].account].role
<1>1. RequestsInv /\ TablesInv /\ Rows(t) = accounts
  BY EveryoneWrites DEF WebInv
<1>2. ServedOn(req[t], accounts)
  BY <1>1, AtWork DEF Admit, Ready, Phases
<1> DEFINE was == req[t].session
           s == Refreshed(was, accounts, now)
<1>3. Honoured(was, accounts, now)
  <2>1. ~Honoured(was, accounts, now) => Answer(t, 302, s)
    BY <1>1 DEF Admit
  <2> HIDE DEF s
  <2> QED BY <1>1, <2>1, AnswerDone
<1>4. s.actor = was.actor /\ s.role = accounts[was.actor].role
  <2>1. was \in Session /\ was.actor # NoActor
    BY <1>2, <1>3 DEF ServedOn, Request, Honoured
  <2> DEFINE mid == [was EXCEPT !.seen = now]
  <2>2. s = [mid EXCEPT !.role = accounts[was.actor].role]
    BY <1>3, <2>1 DEF Refreshed
  <2>3. mid \in [actor : Actors \cup {NoActor}, role : Roles \cup {"none"}, epoch : Nat,
                 seen : {now}, token : BOOLEAN, asOf : Nat] /\ mid.actor = was.actor
    BY <2>1 DEF Session
  <2> HIDE DEF mid, was
  <2> QED BY <2>2, <2>3
<1> DEFINE r == [[[[req[t] EXCEPT !.pc = "serving"] EXCEPT !.session = s]
                    EXCEPT !.account = s.actor] EXCEPT !.role = s.role]
<1>5. req' = [req EXCEPT ![t] = r]
  BY <1>1, <1>3 DEF Admit
<1> HIDE DEF s
<1>6. r.account = s.actor /\ r.role = s.role
  BY <1>2 DEF ServedOn, Request
<1> HIDE DEF r
<1>7. req'[t] = r
  BY <1>1, <1>5 DEF RequestsInv
<1> QED BY <1>3, <1>4, <1>6, <1>7

\* Where no account is created, whoever is admitted has a session that the committed row
\* honours, and its role: the refused creation is the one way to an admission on rows that
\* are no longer there, which the run WebDuplicateAccount shows (accounts.py:65-68,
\* auth.py:51-58).
THEOREM AlwaysAdmittedIsCurrent == NoCreations => (Spec => AdmittedIsCurrent)
<1> SUFFICES ASSUME NoCreations PROVE Spec => AdmittedIsCurrent
  OBVIOUS
<1> DEFINE A == \A t \in Threads :
                  req[t].pc = "accepted" /\ req'[t].pc = "serving" =>
                    /\ Honoured(req[t].session, accounts, now)
                    /\ req'[t].role = accounts[req'[t].account].role
<1>1. Init => NoneOpen
  BY DEF Init, NoneOpen
<1>2. WebInv /\ NoneOpen /\ [Next]_vars => NoneOpen'
  BY NoneOpenNext
<1>3. WebInv /\ NoneOpen /\ [Next]_vars => [A]_vars
  <2> SUFFICES ASSUME WebInv, NoneOpen, [Next]_vars, NEW t \in Threads,
                      req[t].pc = "accepted", req'[t].pc = "serving"
               PROVE  /\ Honoured(req[t].session, accounts, now)
                      /\ req'[t].role = accounts[req'[t].account].role
    OBVIOUS
  <2> QED BY AdmittedByAdmit, AdmittedNow
<1>4. AdmittedIsCurrent <=> [][A]_vars
  BY PTL DEF AdmittedIsCurrent
<1> HIDE DEF A
<1> QED BY <1>1, <1>2, <1>3, <1>4, AlwaysWebInv, PTL DEF Spec
=============================================================================
