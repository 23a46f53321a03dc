----------------------------- MODULE WebAccounts -----------------------------
(***************************************************************************)
(* The account rows of cva-web (src/cva/web/accounts.py), the session that *)
(* a cookie carries (auth.py, security.py) and the verdict about the       *)
(* ledger on which the workflow may write (services.py, verify_bridge.py). *)
(* Passwords are version numbers: a guess is right when it names the       *)
(* version the row holds.                                                  *)
(***************************************************************************)
EXTENDS Integers, Sequences, FiniteSets

CONSTANTS
    Actors,       \* the actor ids in play
    NoActor,      \* the session of a browser nobody signed in with
    NoAccount,    \* there is no row for an actor id
    Threshold,    \* lockout_threshold
    BaseLock,     \* lockout_base_s, in ticks
    MaxLock,      \* lockout_max_s, in ticks
    Idle,         \* session_idle_timeout_s, in ticks
    Ttl,          \* VerifyCache.ttl_s, in ticks
    PerMinute     \* rate_limit_per_minute, requests in a window of one tick

ASSUME LimitsAssumption ==
    {Threshold, BaseLock, MaxLock, Idle, Ttl, PerMinute} \subseteq Nat \ {0}

Roles == {"viewer", "analyst", "approver", "admin"}

(***************************************************************************)
(* Rows of the accounts table, and the columns each operation writes.      *)
(***************************************************************************)
\* `ended' is not a column: it counts how often the actor's sessions were ended.
Row == [role : Roles, disabled : BOOLEAN, epoch : Nat, pw : Nat, failures : Nat,
        lockedUntil : Int, ended : Nat]

NewRow(role) == [role |-> role, disabled |-> FALSE, epoch |-> 0, pw |-> 0,
                 failures |-> 0, lockedUntil |-> 0, ended |-> 0]

Ended(row) == [row EXCEPT !.ended = @ + 1]

Revoked(row) == [row EXCEPT !.epoch = @ + 1]

WithRole(row, role) == Revoked([row EXCEPT !.role = role])

\* Mutant: only disabling ends the sessions.
WithDisabledOnly(row, disabled) ==
    [row EXCEPT !.disabled = disabled]

WithDisabled(row, disabled) == Revoked([row EXCEPT !.disabled = disabled])

WithPassword(row) == Revoked([row EXCEPT !.pw = @ + 1])

\* The delay after so many failures: none below the threshold, then doubling.
Backoff(failures) ==
    IF failures < Threshold THEN 0
    ELSE LET doubled == BaseLock * 2 ^ (failures - Threshold)
         IN  IF doubled < MaxLock THEN doubled ELSE MaxLock

\* Mutant: the delay is that of the count that was read.
FailedLate(row, failures, time) ==
    [row EXCEPT !.failures = failures + 1,
                !.lockedUntil = time + Backoff(failures)]

\* `failures' is the count the attempt read before it derived the password.
Failed(row, failures, time) ==
    [row EXCEPT !.failures = failures + 1,
                !.lockedUntil = time + Backoff(failures + 1)]

Accepted(row) == [row EXCEPT !.failures = 0, !.lockedUntil = 0]

NoFailures == [failures |-> 0, lockedUntil |-> 0]

Locked(row, address, time) ==
    (row # NoAccount /\ row.lockedUntil > time) \/ address.lockedUntil > time

(***************************************************************************)
(* Sessions.  `asOf' is not in the cookie: it records how often the        *)
(* actor's sessions had been ended when the password was read.             *)
(***************************************************************************)
Anonymous(token) == [actor |-> NoActor, role |-> "none", epoch |-> 0,
                     seen |-> 0, token |-> token, asOf |-> 0]

SessionOf(actor, row, time, asOf) ==
    [actor |-> actor, role |-> row.role, epoch |-> row.epoch, seen |-> time,
     token |-> FALSE, asOf |-> asOf]

\* current_account(): what the row says of the session, and the session left.
Honoured(session, rows, time) ==
    /\ session.actor # NoActor
    /\ LET row == rows[session.actor]
       IN  /\ row # NoAccount
           /\ ~row.disabled
           /\ row.epoch = session.epoch
    /\ time - session.seen <= Idle

Refreshed(session, rows, time) ==
    IF session.actor = NoActor THEN session
    ELSE IF Honoured(session, rows, time)
    THEN [session EXCEPT !.seen = time, !.role = rows[session.actor].role]
    ELSE Anonymous(FALSE)

(***************************************************************************)
(* The hook before every request: a sliding window per (identity, bucket), *)
(* and for writes the session's own token and this dashboard's origin.     *)
(***************************************************************************)
Recent(hits, time) == SelectSeq(hits, LAMBDA at : time - at < 1)

WithinRate(hits, time) == Len(Recent(hits, time)) < PerMinute

FormOk(cookie, form) ==
    /\ cookie.token /\ form.token = "own"
    /\ form.origin = "dashboard"

(***************************************************************************)
(* Verification: verify() turns every way the subprocess can end into one  *)
(* of three states, and LedgerHealth decides what may be written on it.    *)
(***************************************************************************)
VerifierEnds == {"unconfigured", "missing", "timeout", "unstarted",
                 "unreadable", "unparsable", "not_an_object", "clean", "findings"}

VerifyState(end) ==
    CASE end = "clean"    -> "OK"
      [] end = "findings" -> "FAILED"
      [] OTHER            -> "UNAVAILABLE"

NoStatus == [reachable |-> FALSE, size |-> 0, canSign |-> FALSE, readOnly |-> TRUE]

Verified(verdict) == verdict.state = "OK"

Writable(status, verdict) ==
    status.reachable /\ status.canSign /\ ~status.readOnly /\ Verified(verdict)

BannerKind(status, verdict) ==
    IF ~status.reachable THEN "unavailable"
    ELSE CASE verdict.state = "UNAVAILABLE" -> "unverified"
           [] verdict.state = "FAILED"      -> "failed"
           [] verdict.state = "OK"          -> "verified"
=============================================================================
