--------------------------------- MODULE Web ---------------------------------
(***************************************************************************)
(* cva-web serving several requests at a time (src/cva/web/app.py, auth.py,*)
(* accounts.py, services.py, views/auth.py, views/api.py).  Waitress runs  *)
(* each request on one of its threads; every thread has its own SQLite     *)
(* connection, the browsers hold the session cookies, and one verification *)
(* cache is shared.  A tick of the clock is a little over a minute.        *)
(***************************************************************************)
EXTENDS WebAccounts

CONSTANTS
    Threads,      \* the threads of the server
    Browsers,     \* browsers, each at an address of its own
    FirstRows,    \* the accounts table at the start
    SignedIn,     \* the maps from browsers to who is signed in there, or NoActor
    MayDecide,    \* the roles the workflow accepts decisions from
    Workloads,    \* [kinds, requests]: a behaviour has so many of these kinds
    Managed,      \* the actor ids that requests name
    GivenRoles,   \* the roles an administrator gives
    Forms,        \* how a browser can fill in token and origin
    Ends,         \* how the verifier's subprocess can end
    MaxTime, MaxSize, MaxCuts   \* bounds of the model

VARIABLES
    accounts,     \* actor |-> row, as committed
    failures,     \* browser |-> its row of ip_failures
    version,      \* commits to the accounts database
    conn,         \* thread |-> what its connection holds between statements
    cookies,      \* browser |-> the session it sends
    hits,         \* <<identity, bucket>> |-> times, of the RateLimiter
    req,          \* thread |-> the request it serves
    served,       \* requests received
    now,          \* the clock
    load,         \* the workload of this behaviour
    ledger,       \* what the daemon's ledger file holds
    cache,        \* VerifyCache._value
    tally         \* actor |-> the wrong guesses since the last right one

vars == <<accounts, failures, version, conn, cookies, hits, req, served, now,
          load, ledger, cache, tally>>

tables == <<accounts, failures, version>>
world  == <<now, load, ledger>>

Admin == {"role", "disable", "password", "create"}
Posts == Admin \cup {"login", "logout", "act", "reverify"}

\* What is counted about the accounts is counted from the start on.
ASSUME WebAssumption ==
    /\ NoAccount \notin Row
    /\ FirstRows \in [Actors -> Row \cup {NoAccount}]
    /\ \A a \in Actors : FirstRows[a] # NoAccount =>
         FirstRows[a].failures = 0 /\ FirstRows[a].ended = 0
    /\ \A who \in SignedIn :
         /\ who \in [Browsers -> Actors \cup {NoActor}]
         /\ \A b \in Browsers : who[b] # NoActor => FirstRows[who[b]] # NoAccount
    /\ Managed \subseteq Actors
    /\ GivenRoles \subseteq Roles
    /\ Workloads \subseteq [kinds : SUBSET (Posts \cup {"health"}), requests : Nat]
    /\ Ends \subseteq VerifierEnds
    /\ MaxTime \in Nat

NoVerdict == [state |-> "NONE", checkedAt |-> 0, records |-> 0]
NoCache   == [size |-> -1, at |-> 0, verdict |-> NoVerdict]
Waiting   == [pc |-> "waiting"]
Untouched == [state |-> "idle"]

Init ==
    /\ accounts = FirstRows
    /\ failures = [b \in Browsers |-> NoFailures]
    /\ version = 0
    /\ conn = [t \in Threads |-> Untouched]
    /\ \E who \in SignedIn :
         cookies = [b \in Browsers |->
                      IF who[b] = NoActor THEN Anonymous(TRUE)
                      ELSE [SessionOf(who[b], FirstRows[who[b]], 0, 0) EXCEPT !.token = TRUE]]
    /\ hits = [i \in (Actors \cup Browsers) \X {"read", "write"} |-> <<>>]
    /\ req = [t \in Threads |-> Waiting]
    /\ served = 0 /\ now = 0
    /\ load \in Workloads
    /\ ledger = [size |-> 1, cuts |-> 0]
    /\ cache = NoCache
    /\ tally = [a \in Actors |-> [wrong |-> 0, alone |-> TRUE, last |-> 0]]

(***************************************************************************)
(* One connection per thread, in WAL mode.  A statement that writes opens  *)
(* a transaction which only commit() ends.  A refused statement leaves it  *)
(* open: with the write lock ("writer") after a constraint failed, without *)
(* ("open") when another connection has the lock.  The next read in an     *)
(* open transaction pins what it sees.                                     *)
(***************************************************************************)
Rows(t) == IF conn[t].state = "pinned" THEN conn[t].rows ELSE accounts

Pinned(t) ==
    IF conn[t].state = "open"
    THEN [conn EXCEPT ![t] = [state |-> "pinned", rows |-> accounts, as |-> version]]
    ELSE conn

\* Mutant: nobody waits for the lock of another connection.
CanWriteAnyway(t) == conn[t].state = "pinned" => conn[t].as = version

CanWrite(t) ==
    /\ \A u \in Threads \ {t} : conn[u].state # "writer"
    /\ conn[t].state = "pinned" => conn[t].as = version

Write(t, rows, addresses) ==
    /\ accounts' = rows /\ failures' = addresses /\ version' = version + 1
    /\ conn' = [conn EXCEPT ![t] = Untouched]

LockedOut(t) ==
    /\ conn' = [conn EXCEPT ![t] = IF @.state = "idle" THEN [state |-> "open"] ELSE @]
    /\ UNCHANGED tables

(***************************************************************************)
(* A request: the hook before it, the handler, the hook after it.          *)
(***************************************************************************)
Ready(t, k, pc) == req[t].pc = pc /\ req[t].kind \in k

Answer(t, code, session) ==
    req' = [req EXCEPT ![t] = [pc |-> "answer", code |-> code, session |-> session,
                               browser |-> @.browser, sent |-> @.sent,
                               account |-> @.account]]

NoArgument == [actor |-> NoActor, guess |-> 0, to |-> "-"]

\* What a request of each kind asks for.
Asked(k) ==
    CASE k = "login"    -> [actor : Managed, guess : 0 .. 1, to : {"-"}]
      [] k = "role"     -> [actor : Managed, guess : {0}, to : GivenRoles]
      [] k = "disable"  -> [actor : Managed, guess : {0}, to : {"off", "on"}]
      [] k \in {"password", "create"} -> [actor : Managed, guess : {0}, to : {"-"}]
      [] OTHER          -> {NoArgument}

\* _csrf_and_rate(): a token for the session, the rate limit, the two CSRF checks.
Receive(t, b, k) ==
    /\ req[t] = Waiting /\ served < load.requests
    /\ served' = served + 1
    /\ LET session  == [cookies[b] EXCEPT !.token = TRUE]
           identity == IF session.actor = NoActor THEN b ELSE session.actor
           bucket   == <<identity, IF k \in Posts THEN "write" ELSE "read">>
           kept     == Recent(hits[bucket], now)
           ok       == WithinRate(hits[bucket], now)
       IN  /\ hits' = [hits EXCEPT ![bucket] = IF ok THEN Append(kept, now) ELSE kept]
           /\ \E arg \in Asked(k), form \in (IF k \in Posts THEN Forms ELSE {CHOOSE f \in Forms : TRUE}) :
                LET code == IF ~ok THEN 429
                            ELSE IF k \in Posts /\ ~FormOk(cookies[b], form) THEN 403
                            ELSE 0
                IN  req' = [req EXCEPT ![t] =
                      [pc |-> IF code = 0 THEN "accepted" ELSE "answer", code |-> code,
                       kind |-> k, arg |-> IF code = 0 THEN arg ELSE NoArgument, browser |-> b, sent |-> cookies[b],
                       session |-> session,
                       account |-> NoActor, role |-> "none", row |-> NoAccount, at |-> 0,
                       status |-> NoStatus, verdict |-> NoVerdict]]
    /\ UNCHANGED <<tables, conn, cookies, world, cache, tally>>

\* require_login: current_account(), kept for the rest of the request.
Admit(t) ==
    /\ Ready(t, load.kinds \ {"login", "logout"}, "accepted")
    /\ LET s == Refreshed(req[t].session, Rows(t), now)
       IN  IF Honoured(req[t].session, Rows(t), now)
           THEN req' = [req EXCEPT ![t].pc = "serving", ![t].session = s,
                                   ![t].account = s.actor, ![t].role = s.role]
           ELSE Answer(t, 302, s)
    /\ conn' = IF req[t].session.actor = NoActor THEN conn ELSE Pinned(t)
    /\ UNCHANGED <<tables, cookies, hits, served, world, cache, tally>>

\* The after-request hook asks current_account() again; then the cookie goes out,
\* unless it is the one of an anonymous session that did not change.
Respond(t) ==
    /\ req[t].pc = "answer"
    /\ LET s == IF req[t].account # NoActor THEN req[t].session
                ELSE Refreshed(req[t].session, Rows(t), now)
       IN  cookies' = IF s.actor = NoActor /\ s = req[t].sent THEN cookies
                      ELSE [cookies EXCEPT ![req[t].browser] = s]
    /\ conn' = IF req[t].account # NoActor \/ req[t].session.actor = NoActor
               THEN conn ELSE Pinned(t)
    /\ req' = [req EXCEPT ![t] = Waiting]
    /\ UNCHANGED <<tables, hits, served, world, cache, tally>>

(***************************************************************************)
(* Signing in: the row is read, then the password is derived, which takes  *)
(* long, and what was read is acted upon.                                  *)
(***************************************************************************)
StartLogin(t) ==
    /\ Ready(t, {"login"}, "accepted")
    /\ conn' = Pinned(t)
    /\ LET a == req[t].arg.actor
           s == Refreshed(req[t].session, Rows(t), now)
           deriving == {u \in Threads : req[u].pc = "deriving" /\ req[u].arg.actor = a}
       IN  IF Honoured(req[t].session, Rows(t), now)
           THEN Answer(t, 302, s) /\ UNCHANGED tally
           ELSE IF Locked(Rows(t)[a], failures[req[t].browser], now)
           THEN Answer(t, 401, s) /\ UNCHANGED tally
           ELSE /\ req' = [req EXCEPT ![t].pc = "deriving", ![t].session = s,
                                      ![t].row = Rows(t)[a], ![t].at = now]
                /\ tally' = IF deriving = {} THEN tally
                            ELSE [tally EXCEPT ![a].alone = FALSE]
    /\ UNCHANGED <<tables, cookies, hits, served, world, cache>>

\* _record_failure and _record_ip_failure.
WrongGuess(t) ==
    LET a == req[t].arg.actor
        b == req[t].browser
        row == req[t].row
        count == failures[b].failures + 1
    IN  IF CanWrite(t)
        THEN /\ Write(t, IF row = NoAccount THEN accounts
                         ELSE [accounts EXCEPT ![a] = Failed(@, row.failures, req[t].at)],
                      [failures EXCEPT ![b] = [failures |-> count,
                                               lockedUntil |-> req[t].at + Backoff(count)]])
             /\ tally' = IF row = NoAccount THEN tally
                         ELSE [tally EXCEPT ![a].wrong = @ + 1, ![a].last = req[t].at]
             /\ Answer(t, 401, req[t].session)
        ELSE LockedOut(t) /\ Answer(t, 500, req[t].session) /\ UNCHANGED tally

RightGuess(t) ==
    LET a == req[t].arg.actor
        alone == \A u \in Threads \ {t} : req[u].pc = "deriving" => req[u].arg.actor # a
    IN  IF req[t].row.disabled
        THEN Answer(t, 401, req[t].session) /\ UNCHANGED <<tables, conn, tally>>
        ELSE IF CanWrite(t)
        THEN /\ Write(t, [accounts EXCEPT ![a] = Accepted(@)],
                      [failures EXCEPT ![req[t].browser] = NoFailures])
             /\ tally' = [tally EXCEPT ![a] = [wrong |-> 0, alone |-> alone, last |-> 0]]
             /\ Answer(t, 302, SessionOf(a, req[t].row, now, req[t].row.ended))
        ELSE LockedOut(t) /\ Answer(t, 500, req[t].session) /\ UNCHANGED tally

FinishLogin(t) ==
    /\ Ready(t, {"login"}, "deriving")
    /\ IF req[t].row # NoAccount /\ req[t].arg.guess = req[t].row.pw
       THEN RightGuess(t) ELSE WrongGuess(t)
    /\ UNCHANGED <<cookies, hits, served, world, cache>>

\* logout() revokes whatever session the cookie names, live or not.
Logout(t) ==
    /\ Ready(t, {"logout"}, "accepted")
    /\ LET a == req[t].session.actor
       IN  IF a = NoActor
           THEN Answer(t, 302, Anonymous(FALSE)) /\ UNCHANGED <<tables, conn>>
           ELSE IF CanWrite(t)
           THEN /\ Write(t, [accounts EXCEPT ![a] = Ended(Revoked(@))], failures)
                /\ Answer(t, 302, Anonymous(FALSE))
           ELSE LockedOut(t) /\ Answer(t, 500, req[t].session)
    /\ UNCHANGED <<cookies, hits, served, world, cache, tally>>

(***************************************************************************)
(* Account management.  Creating an account that exists is refused by the  *)
(* table's key, after the statement has taken the write lock.              *)
(***************************************************************************)
Changed(row, kind, to) ==
    CASE kind = "role"     -> WithRole(row, to)
      [] kind = "disable"  -> WithDisabled(row, to = "off")
      [] kind = "password" -> WithPassword(row)

UpdateAccount(t) ==
    /\ Ready(t, Admin \ {"create"}, "serving")
    /\ LET a == req[t].arg.actor
       IN  IF req[t].role # "admin"
           THEN Answer(t, 403, req[t].session) /\ UNCHANGED <<tables, conn>>
           ELSE IF Rows(t)[a] = NoAccount
           THEN Answer(t, 404, req[t].session) /\ conn' = Pinned(t) /\ UNCHANGED tables
           ELSE IF CanWrite(t)
           THEN /\ Write(t, [accounts EXCEPT
                               ![a] = Ended(Changed(@, req[t].kind, req[t].arg.to))], failures)
                /\ Answer(t, 200, req[t].session)
           ELSE LockedOut(t) /\ Answer(t, 500, req[t].session)
    /\ UNCHANGED <<cookies, hits, served, world, cache, tally>>

CreateAccount(t) ==
    /\ Ready(t, {"create"}, "serving")
    /\ LET a == req[t].arg.actor
       IN  IF req[t].role # "admin"
           THEN Answer(t, 403, req[t].session) /\ UNCHANGED <<tables, conn>>
           ELSE IF ~CanWrite(t)
           THEN LockedOut(t) /\ Answer(t, 500, req[t].session)
           ELSE IF accounts[a] # NoAccount
           THEN /\ conn' = [conn EXCEPT ![t] = [state |-> "writer"]]
                /\ Answer(t, 400, req[t].session) /\ UNCHANGED tables
           ELSE /\ Write(t, [accounts EXCEPT ![a] = NewRow("viewer")], failures)
                /\ Answer(t, 200, req[t].session)
    /\ UNCHANGED <<cookies, hits, served, world, cache, tally>>

(***************************************************************************)
(* The ledger's health, and a decision written on it.                      *)
(***************************************************************************)
OnLedger == {"health", "reverify", "act"}

\* client().status(), after reverify() emptied the cache.
AskStatus(t) ==
    /\ Ready(t, OnLedger, "serving")
    /\ cache' = IF req[t].kind = "reverify" THEN NoCache ELSE cache
    /\ \E status \in {NoStatus, [reachable |-> TRUE, size |-> ledger.size,
                                 canSign |-> TRUE, readOnly |-> FALSE]} :
         req' = [req EXCEPT ![t].pc = IF status.reachable THEN "asked" ELSE "healthy",
                            ![t].status = status, ![t].at = now]
    /\ UNCHANGED <<tables, conn, cookies, hits, served, world, tally>>

\* Mutant: the verdict is kept whatever the ledger's size.
LookUpAnySize(t) ==
    /\ Ready(t, OnLedger, "asked")
    /\ req' = IF cache.size # -1 /\ now - cache.at < Ttl
              THEN [req EXCEPT ![t].at = now, ![t].pc = "healthy", ![t].verdict = cache.verdict]
              ELSE [req EXCEPT ![t].at = now, ![t].pc = "verifying"]
    /\ UNCHANGED <<tables, conn, cookies, hits, served, world, cache, tally>>

LookUp(t) ==
    /\ Ready(t, OnLedger, "asked")
    /\ req' = IF cache.size = req[t].status.size /\ now - cache.at < Ttl
              THEN [req EXCEPT ![t].at = now, ![t].pc = "healthy", ![t].verdict = cache.verdict]
              ELSE [req EXCEPT ![t].at = now, ![t].pc = "verifying"]
    /\ UNCHANGED <<tables, conn, cookies, hits, served, world, cache, tally>>

\* The subprocess reads the ledger file some time after it was asked to.
RunVerifier(t) ==
    /\ Ready(t, OnLedger, "verifying")
    /\ \E end \in Ends :
         req' = [req EXCEPT ![t].pc = "verified",
                   ![t].verdict = [state |-> VerifyState(end), checkedAt |-> now,
                                   records |-> ledger.size]]
    /\ UNCHANGED <<tables, conn, cookies, hits, served, world, cache, tally>>

StoreVerdict(t) ==
    /\ Ready(t, OnLedger, "verified")
    /\ cache' = [size |-> req[t].status.size, at |-> req[t].at, verdict |-> req[t].verdict]
    /\ req' = [req EXCEPT ![t].pc = "healthy"]
    /\ UNCHANGED <<tables, conn, cookies, hits, served, world, tally>>

ShowHealth(t) ==
    /\ Ready(t, {"health", "reverify"}, "healthy")
    /\ Answer(t, 200, req[t].session)
    /\ UNCHANGED <<tables, conn, cookies, hits, served, world, cache, tally>>

\* The daemon seals it, refuses it, or its answer does not come.
Decide(t) ==
    /\ Ready(t, {"act"}, "healthy")
    /\ IF ~Writable(req[t].status, req[t].verdict)
       THEN Answer(t, 503, req[t].session) /\ UNCHANGED <<ledger, cache>>
       ELSE \/ Answer(t, 409, req[t].session) /\ UNCHANGED <<ledger, cache>>
            \/ Answer(t, 503, req[t].session) /\ UNCHANGED <<ledger, cache>>
            \/ /\ req[t].role \in MayDecide /\ ledger.size < MaxSize
               /\ ledger' = [ledger EXCEPT !.size = @ + 1]
               /\ \/ Answer(t, 200, req[t].session) /\ cache' = NoCache
                  \/ Answer(t, 503, req[t].session) /\ UNCHANGED cache
    /\ UNCHANGED <<tables, conn, cookies, hits, served, now, load, tally>>

(***************************************************************************)
(* The clock, and what other programs do to the ledger's file.             *)
(***************************************************************************)
Tick ==
    /\ now < MaxTime /\ now' = now + 1
    /\ UNCHANGED <<tables, conn, cookies, hits, req, served, load, ledger, cache, tally>>

Ledger ==
    /\ load.kinds \subseteq OnLedger
    /\ \/ ledger.size < MaxSize /\ ledger' = [ledger EXCEPT !.size = @ + 1]
       \/ /\ ledger.cuts < MaxCuts /\ ledger.size > 1
          /\ ledger' = [ledger EXCEPT !.size = @ - 1, !.cuts = @ + 1]
    /\ UNCHANGED <<tables, conn, cookies, hits, req, served, now, load, cache, tally>>

Next ==
    \/ \E t \in Threads :
         \/ \E b \in Browsers, k \in load.kinds : Receive(t, b, k)
         \/ Admit(t) \/ Respond(t)
         \/ StartLogin(t) \/ FinishLogin(t) \/ Logout(t)
         \/ UpdateAccount(t) \/ CreateAccount(t)
         \/ AskStatus(t) \/ LookUp(t) \/ RunVerifier(t) \/ StoreVerdict(t)
         \/ ShowHealth(t) \/ Decide(t)
    \/ Tick \/ Ledger

Spec == Init /\ [][Next]_vars

-----------------------------------------------------------------------------
TypeOK ==
    /\ \A a \in Actors : accounts[a] = NoAccount \/ accounts[a].role \in Roles
    /\ version \in Nat /\ served \in 0 .. load.requests /\ now \in 0 .. MaxTime
    /\ \A t \in Threads :
         /\ conn[t].state \in {"idle", "open", "pinned", "writer"}
         /\ req[t].pc \in {"waiting", "accepted", "serving", "deriving", "asked",
                           "verifying", "verified", "healthy", "answer"}
    /\ \A b \in Browsers : cookies[b].role \in Roles \cup {"none"}
    /\ cache.verdict.state \in {"NONE", "OK", "FAILED", "UNAVAILABLE"}
    \* The write lock of the accounts database is held by one connection at most.
    /\ Cardinality({t \in Threads : conn[t].state = "writer"}) <= 1

Sessions == {cookies[b] : b \in Browsers}
            \cup {req[t].session : t \in {u \in Threads : req[u].pc # "waiting"}}

\* A session the accounts table would still honour was opened with a password
\* read after the last logout, role change, disabling or reset of its actor,
\* however these raced the derivation (accounts.py:190-267, auth.py:30-84).
LiveSessionsAreCurrent ==
    \A s \in Sessions :
        Honoured(s, accounts, now) => s.asOf = accounts[s.actor].ended

\* As long as no two attempts on an account were being derived at once, its row
\* counts the wrong guesses since the last right one, and locks from the
\* threshold on for the delay that count asks for (accounts.py:237-281).
CountedWhenAlone ==
    \A a \in Actors :
        (accounts[a] # NoAccount /\ tally[a].alone) =>
            /\ accounts[a].failures = tally[a].wrong
            /\ tally[a].wrong >= Threshold =>
                 accounts[a].lockedUntil = tally[a].last + Backoff(tally[a].wrong)

\* What a page shows as verified was read from the ledger's file less than the
\* cache's lifetime before, and covered every record the daemon reported for
\* this page, unless the ledger was shortened (services.py:84-111).
BadgeIsFresh ==
    \A t \in Threads :
        req[t].pc = "healthy" /\ BannerKind(req[t].status, req[t].verdict) = "verified" =>
            /\ req[t].at - req[t].verdict.checkedAt < Ttl
            /\ ledger.cuts = 0 => req[t].verdict.records >= req[t].status.size

\* Once the accounts table has revoked a session, no thread admits it: an
\* account that is admitted has the role and the rights of its committed row
\* (accounts.py:65-68, auth.py:51-58).
AdmittedIsCurrent ==
    [][\A t \in Threads :
         req[t].pc = "accepted" /\ req'[t].pc = "serving" =>
             /\ Honoured(req[t].session, accounts, now)
             /\ req'[t].role = accounts[req'[t].account].role]_vars
=============================================================================
