------------------------------ MODULE Sessions ------------------------------
(***************************************************************************)
(* Signed-in sessions: backend/handlers/session.go, with the handlers of   *)
(* auth.go and users.go that open or end them.                             *)
(*                                                                         *)
(* A session is a chain of refresh-token rows that share a session id.     *)
(* Every refresh spends the row it presents and adds its successor, in one *)
(* immediate transaction; what ends a session (a replay, a deadline, a     *)
(* changed account) is written by a separate UPDATE after it.  Clients are *)
(* not processes here: any token ever handed out may be presented at any   *)
(* time, which covers two tabs, delayed requests and copied cookies.       *)
(*                                                                         *)
(* Time is an integer clock.  A handler reads the clock before it waits    *)
(* for the database's write lock, so it may work with a reading up to Lag  *)
(* old.  Hashing, cookies, JWT encoding and the audit log are left out.    *)
(***************************************************************************)
EXTENDS Integers, FiniteSets

CONSTANTS
    User,       \* accounts
    Sid,        \* session ids (uuid)
    Token,      \* opaque refresh tokens
    NoSid,      \* "no session is spared"
    Grace,      \* reuseGrace
    Idle,       \* SESSION_IDLE_TIMEOUT
    MaxAge,     \* SESSION_MAX_AGE
    AccessTTL,  \* ACCESS_TOKEN_TTL
    Keep,       \* how long past its deadline a row is kept (24h)
    Lag,        \* bound: how stale a handler's clock reading can be
    MaxTime,    \* bound: the clock stops here
    MaxPending, \* bound: handlers that are between two statements at once
    MayCrash    \* whether the process may stop between two statements

\* A row is kept longer than any session lives (24h against 12h), which the
\* environment variables can break and the defaults do not.
ASSUME SessionsAssumption ==
    /\ Grace \in Nat /\ Idle \in Nat /\ MaxAge \in Nat /\ AccessTTL \in Nat
    /\ Keep \in Nat /\ Lag \in Nat /\ MaxTime \in Nat /\ MaxPending \in Nat
    /\ MaxAge + Lag <= Keep
    /\ MayCrash \in BOOLEAN
    /\ NoSid \notin Sid

VARIABLES
    now,        \* the clock
    rows,       \* the refresh_tokens table: Token -> row, for the tokens in it
    held,       \* every token ever handed out, with its session: Token -> Sid
    ending,     \* sessions a refresh has condemned and not yet closed
    account,    \* account[u]: "ready", "setup" or "deleted"
    arriving,   \* accounts whose sign-in passed its checks and has no row yet
    changing,   \* account changes written, whose revocation has not run yet
    deleting,   \* accounts whose tokens are deleted and whose row is not yet
    access      \* access[s]: when the last access token of s runs out, 0 once it has

vars == <<now, rows, held, ending, account, arriving, changing, deleting, access>>
accountVars == <<account, arriving, changing, deleting>>

\* The handlers that still have a statement to run.
Pending == Cardinality(ending) + Cardinality(arriving) + Cardinality(changing)
           + Cardinality(deleting)

NotRotated == -1

Row == [user : User, sid : Sid, startedAt : Nat, usedAt : Nat, expiresAt : Nat,
        revoked : BOOLEAN, rotatedAt : Nat \cup {NotRotated}]

Change == [user : User, spare : Sid \cup {NoSid}]

Opened == {held[t] : t \in DOMAIN held}

LiveRows(s) == {t \in DOMAIN rows : rows[t].sid = s /\ ~rows[t].revoked}
Live(s) == LiveRows(s) # {}

-----------------------------------------------------------------------------
(* session.go: deadlines and the statements the handlers share.            *)

\* A mutation of IdleDeadline: no cap.
IdleDeadlineUncapped(startedAt, at) == at + Idle

\* The next moment the session dies if nobody uses it, never past the hard
\* limit counted from sign-in.
IdleDeadline(startedAt, at) ==
    IF at + Idle > startedAt + MaxAge THEN startedAt + MaxAge ELSE at + Idle

\* The table with the rows of T marked revoked.
RevokeAll(T) ==
    [t \in DOMAIN rows |-> IF t \in T THEN [rows[t] EXCEPT !.revoked = TRUE]
                                      ELSE rows[t]]

\* The table with one more row.
Added(table, t, row) ==
    [x \in DOMAIN table \cup {t} |-> IF x = t THEN row ELSE table[x]]

\* What loadSessionUser accepts: suspension has no handler, so "ready" stands
\* for active, enrolled and past the forced password change.
SessionUserOK(u) == account[u] = "ready"

\* signAccessToken, when the rows are written: it may fail, or the process end before it.
Signed(s) == access' \in {access, [access EXCEPT ![s] = now + AccessTTL]}

-----------------------------------------------------------------------------
(* Signing in: VerifyMFA and SetupConfirm check first and insert later.    *)

\* VerifyMFA up to signedIn: the account was read and found set up.
VerifyMFA(u) ==
    /\ Pending < MaxPending
    /\ SessionUserOK(u)
    /\ arriving' = arriving \cup {u}
    /\ UNCHANGED <<now, rows, held, ending, account, changing, deleting, access>>

\* SetupConfirm up to signedIn: enrolment is written, then the sign-in goes on.
\* A setup ticket outlives the setup it was issued for, so a retried
\* confirmation of a finished setup signs in once more.
SetupConfirm(u) ==
    /\ Pending < MaxPending
    /\ account[u] # "deleted"
    /\ account' = [account EXCEPT ![u] = "ready"]
    /\ arriving' = arriving \cup {u}
    /\ UNCHANGED <<now, rows, held, ending, changing, deleting, access>>

\* issueTokens: the first row of a new session.
IssueTokens(u, s, t) ==
    /\ u \in arriving
    /\ s \notin Opened
    /\ t \notin DOMAIN held
    /\ rows' = Added(rows, t, [user |-> u, sid |-> s, startedAt |-> now, usedAt |-> now,
                               expiresAt |-> IdleDeadline(now, now),
                               revoked |-> FALSE, rotatedAt |-> NotRotated])
    /\ held' = Added(held, t, s)
    /\ Signed(s)
    /\ arriving' = arriving \ {u}
    /\ UNCHANGED <<now, ending, account, changing, deleting>>

-----------------------------------------------------------------------------
(* RefreshTokenHandler.  A token the table does not know, or one that was  *)
(* revoked without being rotated, is answered 401 and changes nothing.     *)

\* The token presented is in the table, and `at` is a clock reading the
\* handler may have taken: after the token was handed out, at most Lag ago.
Presented(t, at) ==
    /\ t \in DOMAIN rows
    /\ rows[t].usedAt <= at /\ at <= now /\ now <= at + Lag

Spent(t) == rows[t].revoked /\ rows[t].rotatedAt # NotRotated

InTime(t, at) == at < rows[t].expiresAt /\ at < rows[t].startedAt + MaxAge

\* The race tolerance without its look at the session: the mutation of
\* RefreshInGrace.
RefreshInGraceBlind(t, at) ==
    /\ Presented(t, at)
    /\ Spent(t) /\ at - rows[t].rotatedAt <= Grace
    /\ SessionUserOK(rows[t].user)
    /\ Signed(rows[t].sid)
    /\ UNCHANGED <<now, rows, held, ending, accountVars>>

\* A token spent moments ago: an access token and no rotation, as long as the
\* session is still alive.
RefreshInGrace(t, at) ==
    /\ Presented(t, at)
    /\ Spent(t) /\ at - rows[t].rotatedAt <= Grace
    /\ \E l \in LiveRows(rows[t].sid) : rows[l].expiresAt > at
    /\ SessionUserOK(rows[t].user)
    /\ Signed(rows[t].sid)
    /\ UNCHANGED <<now, rows, held, ending, accountVars>>

\* A token spent long ago and presented again condemns its session.
RefreshReplay(t, at) ==
    /\ Pending < MaxPending
    /\ Presented(t, at)
    /\ Spent(t) /\ at - rows[t].rotatedAt > Grace
    /\ ending' = ending \cup {rows[t].sid}
    /\ UNCHANGED <<now, rows, held, accountVars, access>>

\* A session past a deadline is condemned.
RefreshTooLate(t, at) ==
    /\ Pending < MaxPending
    /\ Presented(t, at)
    /\ ~rows[t].revoked /\ ~InTime(t, at)
    /\ ending' = ending \cup {rows[t].sid}
    /\ UNCHANGED <<now, rows, held, accountVars, access>>

\* A session whose account is no longer fit to hold one is condemned.
RefreshRefused(t, at) ==
    /\ Pending < MaxPending
    /\ Presented(t, at)
    /\ ~rows[t].revoked /\ InTime(t, at)
    /\ ~SessionUserOK(rows[t].user)
    /\ ending' = ending \cup {rows[t].sid}
    /\ UNCHANGED <<now, rows, held, accountVars, access>>

\* The row that follows t: same session, a new idle deadline.
Successor(t, at) ==
    [rows[t] EXCEPT !.usedAt = at, !.expiresAt = IdleDeadline(rows[t].startedAt, at)]

SpentRow(t, at) == [rows[t] EXCEPT !.revoked = TRUE, !.rotatedAt = at]

\* A rotation that forgets to spend the token it was given.
RotatedUnspent(t, at, n) == Added(rows, n, Successor(t, at))

Rotated(t, at, n) == Added([rows EXCEPT ![t] = SpentRow(t, at)], n, Successor(t, at))

\* The refresh that rotates: both writes and the checks are one transaction.
RefreshRotate(t, at, n) ==
    /\ Presented(t, at)
    /\ ~rows[t].revoked /\ InTime(t, at)
    /\ SessionUserOK(rows[t].user)
    /\ n \notin DOMAIN held
    /\ rows' = Rotated(t, at, n)
    /\ held' = Added(held, n, rows[t].sid)
    /\ Signed(rows[t].sid)
    /\ UNCHANGED <<now, ending, accountVars>>

\* Only the token that was replayed is revoked, the mutation of EndSession.
EndSessionOneRow(s) ==
    /\ s \in ending
    /\ \E t \in DOMAIN rows : rows[t].sid = s /\ rows' = RevokeAll({t})
    /\ ending' = ending \ {s}
    /\ UNCHANGED <<now, held, accountVars, access>>

\* The UPDATE that follows the transaction and closes a condemned session.
EndSession(s) ==
    /\ s \in ending
    /\ rows' = RevokeAll({t \in DOMAIN rows : rows[t].sid = s})
    /\ ending' = ending \ {s}
    /\ UNCHANGED <<now, held, accountVars, access>>

\* Logout: any token of the session closes all of it, expired or not.
Logout(t) ==
    /\ t \in DOMAIN rows
    /\ rows' = RevokeAll({x \in DOMAIN rows : rows[x].sid = rows[t].sid})
    /\ UNCHANGED <<now, held, ending, accountVars, access>>

-----------------------------------------------------------------------------
(* users.go: changes to an account, then revokeUserSessions.               *)

\* ChangePassword; a caller changing its own keeps the session of the access
\* token it called with.
ChangePassword(u, spare) ==
    /\ Pending < MaxPending
    /\ account[u] # "deleted"
    /\ spare # NoSid => /\ access[spare] > now
                        /\ \E t \in DOMAIN rows : rows[t].sid = spare /\ rows[t].user = u
    /\ changing' = changing \cup {[user |-> u, spare |-> spare]}
    /\ UNCHANGED <<now, rows, held, ending, account, arriving, deleting, access>>

\* UpdateUserRole: the new role is written, every session is to be signed out.
UpdateUserRole(u) ==
    /\ Pending < MaxPending
    /\ account[u] # "deleted"
    /\ changing' = changing \cup {[user |-> u, spare |-> NoSid]}
    /\ UNCHANGED <<now, rows, held, ending, account, arriving, deleting, access>>

\* ResetUserMFA: back to setup, every session signed out.
ResetUserMFA(u) ==
    /\ Pending < MaxPending
    /\ account[u] # "deleted"
    /\ account' = [account EXCEPT ![u] = "setup"]
    /\ changing' = changing \cup {[user |-> u, spare |-> NoSid]}
    /\ UNCHANGED <<now, rows, held, ending, arriving, deleting, access>>

\* The comparison with the spared session turned around.
RevokedBySwapped(c) ==
    {t \in DOMAIN rows : rows[t].user = c.user /\ rows[t].sid = c.spare /\ ~rows[t].revoked}

\* Rows of other sessions than the one the change spares.
RevokedBy(c) ==
    {t \in DOMAIN rows : rows[t].user = c.user /\ rows[t].sid # c.spare /\ ~rows[t].revoked}

\* revokeUserSessions, and the variant of it in ChangePassword.
RevokeUserSessions(c) ==
    /\ c \in changing
    /\ rows' = RevokeAll(RevokedBy(c))
    /\ changing' = changing \ {c}
    /\ UNCHANGED <<now, held, ending, account, arriving, deleting, access>>

\* DeleteUser, first statement: the account's tokens are (soft) deleted.
DeleteUserTokens(u) ==
    /\ Pending < MaxPending
    /\ account[u] # "deleted" /\ u \notin deleting
    /\ rows' = [t \in {x \in DOMAIN rows : rows[x].user # u} |-> rows[t]]
    /\ deleting' = deleting \cup {u}
    /\ UNCHANGED <<now, held, ending, account, arriving, changing, access>>

\* DeleteUser, last statement: the account itself.
DeleteUserRow(u) ==
    /\ u \in deleting
    /\ account' = [account EXCEPT ![u] = "deleted"]
    /\ deleting' = deleting \ {u}
    /\ UNCHANGED <<now, rows, held, ending, arriving, changing, access>>

-----------------------------------------------------------------------------
(* The hourly sweep, the clock and a crash.                                *)

\* A sweep that deletes every row past its deadline, the mutation of
\* PruneRefreshTokens.
PruneAtDeadline ==
    /\ rows' = [t \in {x \in DOMAIN rows : rows[x].expiresAt >= now} |-> rows[t]]
    /\ UNCHANGED <<now, held, ending, accountVars, access>>

\* PruneRefreshTokens: rows a day past their deadline are deleted.
PruneRefreshTokens ==
    /\ rows' = [t \in {x \in DOMAIN rows : rows[x].expiresAt >= now - Keep} |-> rows[t]]
    /\ UNCHANGED <<now, held, ending, accountVars, access>>

Tick ==
    /\ now < MaxTime
    /\ now' = now + 1
    /\ access' = [s \in Sid |-> IF access[s] > now' THEN access[s] ELSE 0]
    /\ UNCHANGED <<rows, held, ending, accountVars>>

\* The process stops: what handlers had still to do is forgotten.
Crash ==
    /\ MayCrash
    /\ ending' = {} /\ arriving' = {} /\ changing' = {} /\ deleting' = {}
    /\ UNCHANGED <<now, rows, held, account, access>>

-----------------------------------------------------------------------------
Init ==
    /\ now = 0
    /\ rows = [t \in {} |-> 0]
    /\ held = [t \in {} |-> 0]
    /\ ending = {}
    /\ account \in [User -> {"ready", "setup"}]
    /\ arriving = {} /\ changing = {} /\ deleting = {}
    /\ access = [s \in Sid |-> 0]

SignIn(u) ==
    \/ VerifyMFA(u)
    \/ SetupConfirm(u)
    \/ \E s \in Sid, t \in Token : IssueTokens(u, s, t)

Refresh(t) ==
    \E at \in (now - Lag)..now :
        \/ RefreshInGrace(t, at)
        \/ RefreshReplay(t, at)
        \/ RefreshTooLate(t, at)
        \/ RefreshRefused(t, at)
        \/ \E n \in Token : RefreshRotate(t, at, n)

Administer(u) ==
    \/ \E spare \in Sid \cup {NoSid} : ChangePassword(u, spare)
    \/ UpdateUserRole(u)
    \/ ResetUserMFA(u)
    \/ DeleteUserTokens(u)
    \/ DeleteUserRow(u)

Next ==
    \/ \E u \in User : SignIn(u) \/ Administer(u)
    \/ \E t \in Token : Refresh(t) \/ Logout(t)
    \/ \E s \in Sid : EndSession(s)
    \/ \E c \in changing : RevokeUserSessions(c)
    \/ PruneRefreshTokens
    \/ Tick
    \/ Crash

Spec == Init /\ [][Next]_vars

\* A handler that has committed its transaction goes on to its next statement.
Fairness ==
    /\ \A s \in Sid : WF_vars(EndSession(s))
    /\ \A c \in Change : WF_vars(RevokeUserSessions(c))

FairSpec == Spec /\ Fairness

-----------------------------------------------------------------------------
(* What the session code promises.                                         *)

TypeOK ==
    /\ now \in Nat
    /\ DOMAIN rows \subseteq Token /\ rows \in [DOMAIN rows -> Row]
    /\ DOMAIN held \subseteq Token /\ held \in [DOMAIN held -> Sid]
    /\ ending \subseteq Sid
    /\ account \in [User -> {"ready", "setup", "deleted"}]
    /\ arriving \subseteq User /\ deleting \subseteq User
    /\ changing \subseteq Change
    /\ access \in [Sid -> Nat]

\* The rows of a session agree on whose it is and when it began, they are rows
\* of tokens handed out for it, and no deadline lies before the sign-in or
\* beyond the hard limit counted from it.
RowsConsistent ==
    /\ \A t \in DOMAIN rows :
          /\ t \in DOMAIN held /\ held[t] = rows[t].sid
          /\ rows[t].startedAt <= rows[t].usedAt /\ rows[t].usedAt <= now
          /\ rows[t].startedAt <= rows[t].expiresAt
          /\ rows[t].expiresAt <= rows[t].startedAt + MaxAge
    /\ \A t1, t2 \in DOMAIN rows : rows[t1].sid = rows[t2].sid =>
          rows[t1].user = rows[t2].user /\ rows[t1].startedAt = rows[t2].startedAt

\* A session can be refreshed with at most one token: two tabs that race to
\* refresh never both leave with a cookie of their own
\* (RefreshTokenHandler spends and inserts in one transaction).
OneLiveToken ==
    \A t1, t2 \in DOMAIN rows :
        rows[t1].sid = rows[t2].sid /\ ~rows[t1].revoked /\ ~rows[t2].revoked => t1 = t2

\* The session of a live token may still be refreshed with it.
Refreshable(s) == \E t \in LiveRows(s) : now < rows[t].startedAt + MaxAge + Lag

\* As long as a session can be refreshed, every token it ever handed out is
\* still in the table, so that a replay is recognised as one rather than
\* answered like an unknown token (the promise of PruneRefreshTokens).
ReplayRecognised ==
    \A t \in DOMAIN held : Refreshable(held[t]) => t \in DOMAIN rows

\* The deadline of a session moves forward with every refresh and never past
\* the hard limit counted from its sign-in (models.RefreshToken.ExpiresAt),
\* also when a refresh works with an old clock reading.
DeadlineForwardAndCapped ==
    [][\A t \in DOMAIN rows, n \in DOMAIN rows' :
          ~rows[t].revoked /\ ~rows'[n].revoked /\ rows[t].sid = rows'[n].sid =>
              /\ rows[t].expiresAt <= rows'[n].expiresAt
              /\ rows'[n].expiresAt <= rows[t].startedAt + MaxAge]_vars

\* A session as its holder sees it: see SessionLife.
Phase == [s \in Sid |-> IF s \notin Opened THEN "unopened"
                         ELSE IF Live(s) THEN "open" ELSE "closed"]

Life == INSTANCE SessionLife WITH phase <- Phase

\* Whatever is presented, retried or interrupted, a session opens once, yields
\* access tokens only while it has a live token, and never comes back once it
\* has none.
SessionLifeSpec == Life!Spec

\* A session condemned by a replay, a deadline or a refused account ends: the
\* UPDATE after the rolled-back transaction closes whatever a racing refresh
\* made of the session in between.
CondemnedSessionsClose == \A s \in Sid : s \in ending ~> ~Live(s)

\* A changed password, role or second factor ends the other sessions the
\* account has when the change is written.
AccountChangeSignsOut ==
    \A s \in Sid, c \in Change :
        (c \in changing /\ s # c.spare /\ \E t \in LiveRows(s) : rows[t].user = c.user)
            ~> ~Live(s)
=============================================================================
