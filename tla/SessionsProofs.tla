--------------------------- MODULE SessionsProofs ---------------------------
(***************************************************************************)
(* Proofs about Sessions, for every number of accounts, sessions and       *)
(* tokens, every setting of the deadlines and every interleaving, crashes  *)
(* included.  Only the table of tokens matters to the safety properties,   *)
(* so the inductive invariant TokenInv speaks of now, rows and held, and   *)
(* the lemmas below say what the four ways to change the table do to it.   *)
(***************************************************************************)
EXTENDS Sessions, TLAPS

\* The typing of the variables TokenInv speaks of.
TableType ==
    /\ now \in Nat
    /\ DOMAIN rows \subseteq Token /\ rows \in [DOMAIN rows -> Row]
    /\ DOMAIN held \subseteq Token /\ held \in [DOMAIN held -> Sid]

\* The inductive invariant.
TokenInv ==
    /\ TableType
    /\ RowsConsistent
    /\ OneLiveToken
    /\ ReplayRecognised

-----------------------------------------------------------------------------

\* Revoking any set of rows (EndSession, Logout, revokeUserSessions) keeps the
\* invariant.
LEMMA RevokeKeeps ==
    ASSUME TokenInv, NEW T, rows' = RevokeAll(T), now' = now, held' = held
    PROVE  TokenInv'
<1>1. DOMAIN rows' = DOMAIN rows
  BY DEF RevokeAll
<1>2. \A t \in DOMAIN rows :
          /\ rows'[t] \in Row
          /\ rows'[t].user = rows[t].user /\ rows'[t].sid = rows[t].sid
          /\ rows'[t].startedAt = rows[t].startedAt /\ rows'[t].usedAt = rows[t].usedAt
          /\ rows'[t].expiresAt = rows[t].expiresAt
          /\ ~rows'[t].revoked => ~rows[t].revoked
  BY DEF RevokeAll, TokenInv, TableType, Row
<1>3. TableType'
  BY <1>1, <1>2 DEF TokenInv, TableType, RevokeAll
<1>4. RowsConsistent'
  BY <1>1, <1>2 DEF TokenInv, RowsConsistent
<1>5. OneLiveToken'
  BY <1>1, <1>2 DEF TokenInv, OneLiveToken
<1>6. ReplayRecognised'
  BY <1>1, <1>2 DEF TokenInv, ReplayRecognised, Refreshable, LiveRows
<1>7. QED
  BY <1>3, <1>4, <1>5, <1>6 DEF TokenInv

\* Deleting rows (DeleteUser, PruneRefreshTokens) keeps the invariant when no
\* session that loses a row can still be refreshed with a row that stays.
LEMMA DeleteKeeps ==
    ASSUME TokenInv, NEW D \in SUBSET DOMAIN rows,
           rows' = [t \in D |-> rows[t]], now' = now, held' = held,
           \A t \in DOMAIN rows \ D, x \in D :
               rows[x].sid = rows[t].sid /\ ~rows[x].revoked
                   => ~(now < rows[x].startedAt + MaxAge + Lag)
    PROVE  TokenInv'
<1>1. DOMAIN rows' = D /\ \A t \in D : rows'[t] = rows[t]
  OBVIOUS
<1>2. TableType'
  BY <1>1 DEF TokenInv, TableType
<1>3. RowsConsistent'
  BY <1>1 DEF TokenInv, RowsConsistent
<1>4. OneLiveToken'
  BY <1>1 DEF TokenInv, OneLiveToken
<1>5. ReplayRecognised'
  <2> SUFFICES ASSUME NEW t \in DOMAIN held, Refreshable(held[t])'
               PROVE  t \in D
    BY <1>1 DEF ReplayRecognised
  <2>1. PICK x \in D : /\ rows[x].sid = held[t] /\ ~rows[x].revoked
                       /\ now < rows[x].startedAt + MaxAge + Lag
    BY <1>1 DEF Refreshable, LiveRows
  <2>2. t \in DOMAIN rows
    BY <2>1 DEF TokenInv, ReplayRecognised, Refreshable, LiveRows
  <2>3. rows[t].sid = held[t]
    BY <2>2 DEF TokenInv, RowsConsistent
  <2>4. QED
    BY <2>1, <2>2, <2>3
<1>6. QED
  BY <1>2, <1>3, <1>4, <1>5 DEF TokenInv

\* The idle deadline lies between the sign-in and the hard limit.
LEMMA IdleDeadlineBounds ==
    ASSUME NEW start \in Nat, NEW at \in Nat, start <= at
    PROVE  /\ IdleDeadline(start, at) \in Nat
           /\ start <= IdleDeadline(start, at)
           /\ IdleDeadline(start, at) <= start + MaxAge
BY SessionsAssumption DEF IdleDeadline

\* The first row of a session that never existed keeps the invariant.
LEMMA IssueKeeps ==
    ASSUME TokenInv, NEW u \in User, NEW s \in Sid, NEW t \in Token,
           IssueTokens(u, s, t)
    PROVE  TokenInv'
<1> DEFINE row == [user |-> u, sid |-> s, startedAt |-> now, usedAt |-> now,
                   expiresAt |-> IdleDeadline(now, now),
                   revoked |-> FALSE, rotatedAt |-> NotRotated]
<1>1. /\ DOMAIN rows' = DOMAIN rows \cup {t} /\ DOMAIN held' = DOMAIN held \cup {t}
      /\ rows'[t] = row /\ held'[t] = s /\ now' = now
      /\ t \notin DOMAIN rows /\ t \notin DOMAIN held
  BY DEF IssueTokens, Added, TokenInv, RowsConsistent
<1>2. /\ \A x \in DOMAIN rows : rows'[x] = rows[x] /\ rows[x].sid # s
      /\ \A x \in DOMAIN held : held'[x] = held[x] /\ held[x] # s
  BY <1>1 DEF IssueTokens, Added, Opened, TokenInv, RowsConsistent
<1>3. row \in Row /\ now <= row.expiresAt /\ row.expiresAt <= now + MaxAge
  BY IdleDeadlineBounds DEF Row, TokenInv, TableType, NotRotated
<1>4. rows' \in [DOMAIN rows' -> Row] /\ held' \in [DOMAIN held' -> Sid]
  BY <1>3 DEF TokenInv, TableType, IssueTokens, Added
<1>5. TableType'
  BY <1>1, <1>4 DEF TokenInv, TableType
<1> HIDE DEF row
<1>6. RowsConsistent'
  <2>1. row.startedAt = now /\ row.usedAt = now /\ row.sid = s
    BY DEF row
  <2>2. QED
    BY <1>1, <1>2, <1>3, <2>1 DEF TokenInv, TableType, RowsConsistent
<1>7. row.sid = s
  BY DEF row
<1>8. OneLiveToken'
  BY <1>1, <1>2, <1>7 DEF TokenInv, OneLiveToken
<1>9. ReplayRecognised'
  <2> SUFFICES ASSUME NEW x \in DOMAIN held', Refreshable(held[x])'
               PROVE  x \in DOMAIN rows'
    BY DEF ReplayRecognised
  <2>1. CASE x = t
    BY <2>1, <1>1
  <2>2. CASE x # t
    <3>1. x \in DOMAIN held /\ held'[x] = held[x] /\ held[x] # s
      BY <2>2, <1>1, <1>2
    <3>2. Refreshable(held[x])
      BY <3>1, <1>1, <1>2, <1>7 DEF Refreshable, LiveRows
    <3>3. QED
      BY <3>1, <3>2, <1>1 DEF TokenInv, ReplayRecognised
  <2>3. QED
    BY <2>1, <2>2
<1>10. QED
  BY <1>5, <1>6, <1>8, <1>9 DEF TokenInv

\* Spending a token for its successor keeps the invariant: the successor takes
\* over session, account and sign-in, and is the only live one.
LEMMA RotateKeeps ==
    ASSUME TokenInv, NEW t \in Token, NEW n \in Token, NEW at \in Int,
           RefreshRotate(t, at, n)
    PROVE  TokenInv'
<1> DEFINE old == rows[t]
<1> DEFINE next == Successor(t, at)
<1>1. /\ t \in DOMAIN rows /\ old \in Row /\ ~old.revoked
      /\ old.usedAt <= at /\ at <= now /\ at \in Nat /\ now \in Nat
      /\ n \notin DOMAIN held /\ n \notin DOMAIN rows /\ n # t
      /\ at < old.startedAt + MaxAge /\ now <= at + Lag /\ now' = now
  BY SessionsAssumption
     DEF RefreshRotate, Presented, InTime, TokenInv, TableType, RowsConsistent, Row
<1>2. /\ DOMAIN rows' = DOMAIN rows \cup {n} /\ DOMAIN held' = DOMAIN held \cup {n}
      /\ rows'[n] = next /\ held'[n] = old.sid
      /\ rows'[t] = SpentRow(t, at)
      /\ \A x \in DOMAIN rows \ {t} : rows'[x] = rows[x]
      /\ \A x \in DOMAIN held : held'[x] = held[x]
  BY <1>1 DEF RefreshRotate, Rotated, Added
<1>3. /\ next \in Row /\ ~next.revoked
      /\ next.user = old.user /\ next.sid = old.sid /\ next.startedAt = old.startedAt
      /\ next.usedAt = at
      /\ next.startedAt <= next.expiresAt /\ next.expiresAt <= next.startedAt + MaxAge
  <2>1. old.startedAt \in Nat /\ old.usedAt \in Nat /\ old.startedAt <= old.usedAt
    BY <1>1 DEF Row, TokenInv, RowsConsistent
  <2>2. /\ IdleDeadline(old.startedAt, at) \in Nat
        /\ old.startedAt <= IdleDeadline(old.startedAt, at)
        /\ IdleDeadline(old.startedAt, at) <= old.startedAt + MaxAge
    BY <1>1, <2>1, IdleDeadlineBounds
  <2>3. QED
    BY <1>1, <2>1, <2>2 DEF Row, Successor
<1>4. /\ SpentRow(t, at) \in Row /\ SpentRow(t, at).revoked
      /\ SpentRow(t, at).user = old.user /\ SpentRow(t, at).sid = old.sid
      /\ SpentRow(t, at).startedAt = old.startedAt /\ SpentRow(t, at).usedAt = old.usedAt
      /\ SpentRow(t, at).expiresAt = old.expiresAt
  BY <1>1 DEF Row, SpentRow
<1>5. /\ old.sid = held[t] /\ t \in DOMAIN held /\ old.startedAt <= old.usedAt
      /\ old.startedAt \in Nat /\ old.usedAt \in Nat
  BY <1>1 DEF TokenInv, RowsConsistent, Row
<1> HIDE DEF old, next
<1>6. rows' \in [DOMAIN rows' -> Row] /\ held' \in [DOMAIN held' -> Sid]
  <2>1. \A x \in DOMAIN rows' : rows'[x] \in Row
    BY <1>2, <1>3, <1>4 DEF TokenInv, TableType
  <2>2. \A x \in DOMAIN held' : held'[x] \in Sid
    BY <1>1, <1>2 DEF TokenInv, TableType, Row
  <2>3. /\ rows' = [x \in DOMAIN rows' |-> rows'[x]]
        /\ held' = [x \in DOMAIN held' |-> held'[x]]
    BY DEF RefreshRotate, Rotated, Added
  <2>4. QED
    BY <2>1, <2>2, <2>3
<1>7. TableType'
  BY <1>1, <1>2, <1>6 DEF TokenInv, TableType
<1>8. RowsConsistent'
  <2>1. ASSUME NEW x \in DOMAIN rows'
        PROVE  /\ x \in DOMAIN held' /\ held'[x] = rows'[x].sid
               /\ rows'[x].startedAt <= rows'[x].usedAt /\ rows'[x].usedAt <= now'
               /\ rows'[x].startedAt <= rows'[x].expiresAt
               /\ rows'[x].expiresAt <= rows'[x].startedAt + MaxAge
    <3>1. CASE x = n
      BY <3>1, <1>1, <1>2, <1>3, <1>5
    <3>2. CASE x = t
      BY <3>2, <1>1, <1>2, <1>4, <1>5 DEF TokenInv, RowsConsistent, old
    <3>3. CASE x \in DOMAIN rows \ {t}
      BY <3>3, <1>1, <1>2 DEF TokenInv, RowsConsistent
    <3>4. QED
      BY <3>1, <3>2, <3>3, <1>2
  <2>2. \A x \in DOMAIN rows' : \E y \in DOMAIN rows :
            /\ rows'[x].sid = rows[y].sid /\ rows'[x].user = rows[y].user
            /\ rows'[x].startedAt = rows[y].startedAt
    BY <1>1, <1>2, <1>3, <1>4 DEF old
  <2>3. QED
    BY <2>1, <2>2 DEF TokenInv, RowsConsistent
<1>9. OneLiveToken'
  <2>1. \A x \in DOMAIN rows \ {t} : rows[x].sid = old.sid => rows[x].revoked
    BY <1>1 DEF TokenInv, OneLiveToken, old
  <2>2. QED
    BY <2>1, <1>2, <1>3, <1>4 DEF TokenInv, OneLiveToken
<1>10. ReplayRecognised'
  <2>1. Refreshable(old.sid)
    BY <1>1, <1>5, SessionsAssumption DEF Refreshable, LiveRows, old
  <2> SUFFICES ASSUME NEW x \in DOMAIN held', Refreshable(held[x])'
               PROVE  x \in DOMAIN rows'
    BY DEF ReplayRecognised
  <2>2. CASE x = n
    BY <2>2, <1>2
  <2>3. CASE x # n
    <3>1. x \in DOMAIN held /\ held'[x] = held[x]
      BY <2>3, <1>2
    <3>2. Refreshable(held[x])
      BY <2>1, <3>1, <1>1, <1>2, <1>3, <1>4 DEF Refreshable, LiveRows
    <3>3. QED
      BY <3>1, <3>2, <1>2 DEF TokenInv, ReplayRecognised
  <2>4. QED
    BY <2>2, <2>3
<1>11. QED
  BY <1>7, <1>8, <1>9, <1>10 DEF TokenInv

\* A sweep deletes only rows of sessions that are past their hard limit.
LEMMA PruneKeeps ==
    ASSUME TokenInv, PruneRefreshTokens
    PROVE  TokenInv'
<1> DEFINE D == {x \in DOMAIN rows : rows[x].expiresAt >= now - Keep}
<1>1. rows' = [t \in D |-> rows[t]] /\ now' = now /\ held' = held
  BY DEF PruneRefreshTokens
<1>2. ASSUME NEW t \in DOMAIN rows \ D, NEW x \in D, rows[x].sid = rows[t].sid
      PROVE  ~(now < rows[x].startedAt + MaxAge + Lag)
  <2>1. /\ rows[t].startedAt \in Nat /\ rows[t].expiresAt \in Nat /\ now \in Nat
        /\ rows[t].startedAt <= rows[t].expiresAt /\ rows[x].startedAt = rows[t].startedAt
    BY <1>2 DEF TokenInv, TableType, RowsConsistent, Row
  <2>2. rows[t].expiresAt < now - Keep
    BY <2>1, <1>2, SessionsAssumption
  <2>3. QED
    BY <2>1, <2>2, SessionsAssumption
<1>3. D \in SUBSET DOMAIN rows
  OBVIOUS
<1> HIDE DEF D
<1>4. QED
  BY <1>1, <1>2, <1>3, DeleteKeeps

\* Deleting every row of one account takes whole sessions out of the table.
LEMMA DeleteUserKeeps ==
    ASSUME TokenInv, NEW u \in User, DeleteUserTokens(u)
    PROVE  TokenInv'
<1> DEFINE D == {x \in DOMAIN rows : rows[x].user # u}
<1>1. rows' = [t \in D |-> rows[t]] /\ now' = now /\ held' = held
  BY DEF DeleteUserTokens
<1>2. \A t \in DOMAIN rows \ D, x \in D : rows[x].sid # rows[t].sid
  BY DEF TokenInv, RowsConsistent
<1>3. D \in SUBSET DOMAIN rows
  OBVIOUS
<1> HIDE DEF D
<1>4. QED
  BY <1>1, <1>2, <1>3, DeleteKeeps

\* Time only takes the right to refresh away.
LEMMA TickKeeps ==
    ASSUME TokenInv, Tick
    PROVE  TokenInv'
<1>1. now' = now + 1 /\ rows' = rows /\ held' = held /\ now \in Nat
  BY DEF Tick, TokenInv, TableType
<1>2. \A t \in DOMAIN rows : rows[t].startedAt \in Nat /\ rows[t].usedAt \in Nat
  BY DEF TokenInv, TableType, Row
<1>3. TableType' /\ OneLiveToken'
  BY <1>1 DEF TokenInv, TableType, OneLiveToken
<1>4. RowsConsistent'
  BY <1>1, <1>2 DEF TokenInv, RowsConsistent
<1>5. \A s : Refreshable(s)' => Refreshable(s)
  BY <1>1, <1>2, SessionsAssumption DEF Refreshable, LiveRows
<1>6. ReplayRecognised'
  BY <1>1, <1>5 DEF TokenInv, ReplayRecognised
<1>7. QED
  BY <1>3, <1>4, <1>6 DEF TokenInv

\* The initial table satisfies the invariant: it is empty.
LEMMA InitTokenInv == Init => TokenInv
BY DEF Init, TokenInv, TableType, RowsConsistent, OneLiveToken, ReplayRecognised

\* Every step keeps the invariant.
LEMMA NextTokenInv == TokenInv /\ [Next]_vars => TokenInv'
<1> SUFFICES ASSUME TokenInv, [Next]_vars
             PROVE  TokenInv'
  OBVIOUS
<1>1. ASSUME now' = now, rows' = rows, held' = held
      PROVE  TokenInv'
  BY <1>1 DEF TokenInv, TableType, RowsConsistent, OneLiveToken, ReplayRecognised,
              Refreshable, LiveRows
<1>2. ASSUME NEW u \in User, SignIn(u)
      PROVE  TokenInv'
  <2>1. CASE VerifyMFA(u) \/ SetupConfirm(u)
    BY <2>1, <1>1 DEF VerifyMFA, SetupConfirm
  <2>2. ASSUME NEW s \in Sid, NEW t \in Token, IssueTokens(u, s, t)
        PROVE  TokenInv'
    BY <2>2, IssueKeeps
  <2>3. QED
    BY <1>2, <2>1, <2>2 DEF SignIn
<1>3. ASSUME NEW u \in User, Administer(u)
      PROVE  TokenInv'
  <2>1. CASE DeleteUserTokens(u)
    BY <2>1, DeleteUserKeeps
  <2>2. CASE \/ \E spare \in Sid \cup {NoSid} : ChangePassword(u, spare)
             \/ UpdateUserRole(u) \/ ResetUserMFA(u) \/ DeleteUserRow(u)
    BY <2>2, <1>1 DEF ChangePassword, UpdateUserRole, ResetUserMFA, DeleteUserRow
  <2>3. QED
    BY <1>3, <2>1, <2>2 DEF Administer
<1>4. ASSUME NEW t \in Token, Refresh(t)
      PROVE  TokenInv'
  <2>1. PICK at \in (now - Lag)..now :
            \/ RefreshInGrace(t, at) \/ RefreshReplay(t, at)
            \/ RefreshTooLate(t, at) \/ RefreshRefused(t, at)
            \/ \E n \in Token : RefreshRotate(t, at, n)
    BY <1>4 DEF Refresh
  <2>2. CASE \E n \in Token : RefreshRotate(t, at, n)
    BY <2>2, RotateKeeps
  <2>3. CASE \/ RefreshInGrace(t, at) \/ RefreshReplay(t, at)
             \/ RefreshTooLate(t, at) \/ RefreshRefused(t, at)
    BY <2>3, <1>1 DEF RefreshInGrace, RefreshReplay, RefreshTooLate, RefreshRefused
  <2>4. QED
    BY <2>1, <2>2, <2>3
<1>5. ASSUME NEW t \in Token, Logout(t)
      PROVE  TokenInv'
  BY <1>5, RevokeKeeps DEF Logout
<1>6. ASSUME NEW s \in Sid, EndSession(s)
      PROVE  TokenInv'
  BY <1>6, RevokeKeeps DEF EndSession
<1>7. ASSUME NEW c \in changing, RevokeUserSessions(c)
      PROVE  TokenInv'
  BY <1>7, RevokeKeeps DEF RevokeUserSessions
<1>8. CASE PruneRefreshTokens
  BY <1>8, PruneKeeps
<1>9. CASE Tick
  BY <1>9, TickKeeps
<1>10. CASE Crash \/ UNCHANGED vars
  BY <1>10, <1>1 DEF Crash, vars
<1>11. QED
  BY <1>2, <1>3, <1>4, <1>5, <1>6, <1>7, <1>8, <1>9, <1>10 DEF Next

\* The invariant holds throughout: it carries the theorems below.
THEOREM TokenInvariance == Spec => []TokenInv
<1>1. QED
  BY InitTokenInv, NextTokenInv, PTL DEF Spec

\* No session ever has two tokens that can be refreshed.
THEOREM OneLiveTokenAlways == Spec => []OneLiveToken
<1>1. TokenInv => OneLiveToken
  BY DEF TokenInv
<1>2. QED
  BY <1>1, TokenInvariance, PTL

\* The rows of a session agree with each other and with their deadlines.
THEOREM RowsConsistentAlways == Spec => []RowsConsistent
<1>1. TokenInv => RowsConsistent
  BY DEF TokenInv
<1>2. QED
  BY <1>1, TokenInvariance, PTL

\* While a session can be refreshed, none of its tokens is forgotten, whatever
\* the deadlines are, as long as MaxAge + Lag <= Keep.
THEOREM ReplayRecognisedAlways == Spec => []ReplayRecognised
<1>1. TokenInv => ReplayRecognised
  BY DEF TokenInv
<1>2. QED
  BY <1>1, TokenInvariance, PTL

-----------------------------------------------------------------------------
(* The session as its holder sees it.                                      *)

\* A session is live in a table of rows.
LiveIn(table, s) == \E t \in DOMAIN table : table[t].sid = s /\ ~table[t].revoked

\* Phase in terms of one table and one set of handed-out tokens.
LEMMA PhaseIs ==
    \A s \in Sid : Phase[s] = IF s \notin Opened THEN "unopened"
                              ELSE IF LiveIn(rows, s) THEN "open" ELSE "closed"
BY DEF Phase, Live, LiveRows, LiveIn

\* Phase in the next state.
LEMMA PhaseIsNext ==
    \A s \in Sid : Phase'[s] = IF s \notin Opened' THEN "unopened"
                               ELSE IF LiveIn(rows', s) THEN "open" ELSE "closed"
BY DEF Phase, Live, LiveRows, LiveIn

\* A step that hands out no token and no access, and revives no session, is a
\* step of SessionLife that closes some sessions, or a stutter.
LEMMA ClosingStep ==
    ASSUME TokenInv, held' = held, now' = now, access' = access,
           \A s \in Sid : LiveIn(rows', s) => LiveIn(rows, s)
    PROVE  [Life!Next]_(Life!vars)
<1> DEFINE S == {s \in Sid : Phase[s] = "open" /\ Phase'[s] # "open"}
<1>1. Opened' = Opened
  BY DEF Opened
<1>2. \A s \in Sid : LiveIn(rows, s) => s \in Opened
  BY DEF LiveIn, Opened, TokenInv, RowsConsistent
<1>3. \A s \in Sid : Phase'[s] = IF s \in S THEN "closed" ELSE Phase[s]
  BY <1>1, <1>2, PhaseIs, PhaseIsNext
<1>4. Phase' = [s \in Sid |-> IF s \in S THEN "closed" ELSE Phase[s]]
  BY <1>3 DEF Phase
<1>5. \A s \in S : Phase[s] = "open"
  OBVIOUS
<1>6. S \in SUBSET Sid
  OBVIOUS
<1> HIDE DEF S
<1>7. Life!Close(S)
  BY <1>4, <1>5 DEF Life!Close
<1>8. QED
  BY <1>6, <1>7 DEF Life!Next

\* A sign-in opens a session.
LEMMA OpeningStep ==
    ASSUME TokenInv, NEW u \in User, NEW s \in Sid, NEW t \in Token,
           IssueTokens(u, s, t)
    PROVE  Life!Open(s)
<1>1. /\ DOMAIN rows' = DOMAIN rows \cup {t} /\ DOMAIN held' = DOMAIN held \cup {t}
      /\ rows'[t].sid = s /\ ~rows'[t].revoked /\ held'[t] = s
      /\ t \notin DOMAIN rows /\ t \notin DOMAIN held /\ s \notin Opened
  BY DEF IssueTokens, Added, TokenInv, RowsConsistent
<1>2. /\ \A x \in DOMAIN rows : rows'[x] = rows[x]
      /\ \A x \in DOMAIN held : held'[x] = held[x]
  BY <1>1 DEF IssueTokens, Added
<1>3. Opened' = Opened \cup {s}
  BY <1>1, <1>2 DEF Opened
<1>4. \A x \in Sid : LiveIn(rows', x) <=> (LiveIn(rows, x) \/ x = s)
  BY <1>1, <1>2 DEF LiveIn
<1>5. \A x \in Sid : Phase'[x] = IF x = s THEN "open" ELSE Phase[x]
  BY <1>3, <1>4, PhaseIs, PhaseIsNext
<1>6. Phase' = [Phase EXCEPT ![s] = "open"]
  BY <1>5 DEF Phase
<1>7. Phase[s] = "unopened"
  BY <1>1, PhaseIs
<1>8. QED
  BY <1>6, <1>7 DEF Life!Open, Life!Signed, Signed, IssueTokens

\* A step that grants a further access token to a session that is live and
\* stays so is a Vouch.
LEMMA VouchingStep ==
    ASSUME TokenInv, NEW s \in Sid, LiveIn(rows, s), now' = now,
           Signed(s),
           Opened' = Opened,
           \A x \in Sid : LiveIn(rows', x) <=> LiveIn(rows, x)
    PROVE  Life!Vouch(s)
<1>1. s \in Opened
  BY DEF LiveIn, Opened, TokenInv, RowsConsistent
<1>2. Phase[s] = "open"
  BY <1>1, PhaseIs
<1>3. \A x \in Sid : Phase'[x] = Phase[x]
  BY PhaseIs, PhaseIsNext
<1>4. Phase' = Phase
  BY <1>3 DEF Phase
<1>5. QED
  BY <1>2, <1>4 DEF Life!Vouch, Life!Signed, Signed

\* The tolerated race finds the session live and leaves the table alone.
LEMMA GraceVouches ==
    ASSUME TokenInv, NEW t \in Token, NEW at, RefreshInGrace(t, at)
    PROVE  Life!Next
<1>1. rows[t].sid \in Sid /\ LiveIn(rows, rows[t].sid)
  BY DEF RefreshInGrace, Presented, LiveRows, LiveIn, TokenInv, TableType, Row
<1>2. rows' = rows /\ held' = held /\ now' = now /\ Signed(rows[t].sid)
  BY DEF RefreshInGrace
<1>3. PICK s \in Sid : s = rows[t].sid
  BY <1>1
<1>4. Life!Vouch(s)
  BY <1>1, <1>2, <1>3, VouchingStep DEF Opened, LiveIn, Signed
<1>5. QED
  BY <1>4 DEF Life!Next

\* A rotation keeps its session live and touches no other.
LEMMA RotationVouches ==
    ASSUME TokenInv, NEW t \in Token, NEW n \in Token, NEW at, RefreshRotate(t, at, n)
    PROVE  Life!Next
<1> DEFINE s == rows[t].sid
<1>1. /\ t \in DOMAIN rows /\ ~rows[t].revoked /\ s \in Sid /\ rows[t] \in Row
      /\ n \notin DOMAIN held /\ n \notin DOMAIN rows
      /\ t \in DOMAIN held /\ held[t] = s
  BY DEF RefreshRotate, Presented, TokenInv, TableType, RowsConsistent, Row
<1>2. /\ DOMAIN rows' = DOMAIN rows \cup {n} /\ DOMAIN held' = DOMAIN held \cup {n}
      /\ rows'[n] = Successor(t, at) /\ held'[n] = s
      /\ rows'[t] = SpentRow(t, at)
      /\ \A x \in DOMAIN rows \ {t} : rows'[x] = rows[x]
      /\ \A x \in DOMAIN held : held'[x] = held[x]
  BY <1>1 DEF RefreshRotate, Rotated, Added
<1>3. /\ rows'[n].sid = s /\ ~rows'[n].revoked
      /\ rows'[t].sid = s
  BY <1>1, <1>2 DEF Successor, SpentRow, Row
<1>4. Opened' = Opened
  BY <1>1, <1>2 DEF Opened
<1>5. LiveIn(rows, s)
  BY <1>1 DEF LiveIn
<1>6. \A x \in Sid : LiveIn(rows', x) <=> LiveIn(rows, x)
  BY <1>1, <1>2, <1>3 DEF LiveIn
<1>7. now' = now /\ access' \in {access, [access EXCEPT ![s] = now + AccessTTL]}
  BY DEF RefreshRotate, Signed
<1>8. PICK x \in Sid : x = s
  BY <1>1
<1> HIDE DEF s
<1>9. Life!Vouch(x)
  BY <1>1, <1>4, <1>5, <1>6, <1>7, <1>8, VouchingStep DEF Signed
<1>10. QED
  BY <1>9 DEF Life!Next

\* Revoking rows revives no session.
LEMMA RevokeRevivesNone ==
    ASSUME TokenInv, NEW T, rows' = RevokeAll(T)
    PROVE  \A s \in Sid : LiveIn(rows', s) => LiveIn(rows, s)
<1>1. DOMAIN rows' = DOMAIN rows
  BY DEF RevokeAll
<1>2. \A t \in DOMAIN rows : rows'[t].sid = rows[t].sid /\ (~rows'[t].revoked => ~rows[t].revoked)
  BY DEF RevokeAll, TokenInv, TableType, Row
<1>3. QED
  BY <1>1, <1>2 DEF LiveIn

\* Every step of Sessions is a step of SessionLife or a stutter of it.
LEMMA NextIsLifeStep ==
    ASSUME TokenInv, [Next]_vars
    PROVE  [Life!Next]_(Life!vars)
<1>1. ASSUME rows' = rows, held' = held, now' = now, access' = access
      PROVE  [Life!Next]_(Life!vars)
  BY <1>1, ClosingStep
<1>2. ASSUME NEW u \in User, SignIn(u)
      PROVE  [Life!Next]_(Life!vars)
  <2>1. CASE VerifyMFA(u) \/ SetupConfirm(u)
    BY <2>1, <1>1 DEF VerifyMFA, SetupConfirm
  <2>2. CASE \E s \in Sid, t \in Token : IssueTokens(u, s, t)
    BY <2>2, OpeningStep DEF Life!Next
  <2>3. QED
    BY <1>2, <2>1, <2>2 DEF SignIn
<1>3. ASSUME NEW u \in User, Administer(u)
      PROVE  [Life!Next]_(Life!vars)
  <2>1. CASE DeleteUserTokens(u)
    <3>1. \A s \in Sid : LiveIn(rows', s) => LiveIn(rows, s)
      BY <2>1 DEF DeleteUserTokens, LiveIn
    <3>2. QED
      BY <2>1, <3>1, ClosingStep DEF DeleteUserTokens
  <2>2. CASE \/ \E spare \in Sid \cup {NoSid} : ChangePassword(u, spare)
             \/ UpdateUserRole(u) \/ ResetUserMFA(u) \/ DeleteUserRow(u)
    BY <2>2, <1>1 DEF ChangePassword, UpdateUserRole, ResetUserMFA, DeleteUserRow
  <2>3. QED
    BY <1>3, <2>1, <2>2 DEF Administer
<1>4. ASSUME NEW t \in Token, Refresh(t)
      PROVE  [Life!Next]_(Life!vars)
  <2>1. PICK at \in (now - Lag)..now :
            \/ RefreshInGrace(t, at) \/ RefreshReplay(t, at)
            \/ RefreshTooLate(t, at) \/ RefreshRefused(t, at)
            \/ \E n \in Token : RefreshRotate(t, at, n)
    BY <1>4 DEF Refresh
  <2>2. CASE \E n \in Token : RefreshRotate(t, at, n)
    BY <2>2, RotationVouches
  <2>3. CASE RefreshInGrace(t, at)
    BY <2>3, GraceVouches
  <2>4. CASE RefreshReplay(t, at) \/ RefreshTooLate(t, at) \/ RefreshRefused(t, at)
    BY <2>4, <1>1 DEF RefreshReplay, RefreshTooLate, RefreshRefused
  <2>5. QED
    BY <2>1, <2>2, <2>3, <2>4
<1>5. ASSUME NEW t \in Token, Logout(t)
      PROVE  [Life!Next]_(Life!vars)
  BY <1>5, RevokeRevivesNone, ClosingStep DEF Logout
<1>6. ASSUME NEW s \in Sid, EndSession(s)
      PROVE  [Life!Next]_(Life!vars)
  BY <1>6, RevokeRevivesNone, ClosingStep DEF EndSession
<1>7. ASSUME NEW c \in changing, RevokeUserSessions(c)
      PROVE  [Life!Next]_(Life!vars)
  BY <1>7, RevokeRevivesNone, ClosingStep DEF RevokeUserSessions
<1>8. CASE PruneRefreshTokens
  <2>1. \A s \in Sid : LiveIn(rows', s) => LiveIn(rows, s)
    BY <1>8 DEF PruneRefreshTokens, LiveIn
  <2>2. QED
    BY <1>8, <2>1, ClosingStep DEF PruneRefreshTokens
<1>9. CASE Tick
  <2>1. Phase' = Phase
    BY <1>9 DEF Tick, Phase, Opened, Live, LiveRows
  <2>2. Life!Tick
    BY <1>9, <2>1 DEF Tick, Life!Tick
  <2>3. QED
    BY <2>2 DEF Life!Next
<1>10. CASE Crash \/ UNCHANGED vars
  BY <1>10, <1>1 DEF Crash, vars
<1>11. QED
  BY <1>2, <1>3, <1>4, <1>5, <1>6, <1>7, <1>8, <1>9, <1>10 DEF Next

\* Sessions implements SessionLife: a session opens once, yields access tokens
\* only while it has a live token, and never comes back.
THEOREM ImplementsSessionLife == Spec => SessionLifeSpec
<1>1. Init => Life!Init
  BY DEF Init, Life!Init, Phase, Opened
<1>2. TokenInv /\ [Next]_vars => [Life!Next]_(Life!vars)
  BY NextIsLifeStep
<1>3. QED
  BY <1>1, <1>2, TokenInvariance, PTL DEF Spec, SessionLifeSpec, Life!Spec

-----------------------------------------------------------------------------
(* Typing and the deadlines of a session.                                  *)

\* Every variable keeps its type.
THEOREM TypeCorrect == Spec => []TypeOK
<1> DEFINE RestType ==
        /\ ending \subseteq Sid
        /\ account \in [User -> {"ready", "setup", "deleted"}]
        /\ arriving \subseteq User /\ deleting \subseteq User
        /\ changing \subseteq Change
        /\ access \in [Sid -> Nat]
<1>1. Init => RestType
  BY DEF Init
<1>2. ASSUME TokenInv, RestType, [Next]_vars
      PROVE  RestType'
  <2>1. \A s \in Sid : [access EXCEPT ![s] = now + AccessTTL] \in [Sid -> Nat]
    BY <1>2, SessionsAssumption DEF TokenInv, TableType
  <2>2. \A t \in DOMAIN rows : rows[t].sid \in Sid
    BY <1>2 DEF TokenInv, TableType, Row
  <2>3. ASSUME NEW u \in User, SignIn(u) \/ Administer(u)
        PROVE  RestType'
    <3>1. CASE SignIn(u)
      BY <1>2, <2>1, <3>1 DEF SignIn, VerifyMFA, SetupConfirm, IssueTokens, Signed
    <3>2. CASE Administer(u)
      BY <1>2, <3>2 DEF Administer, ChangePassword, UpdateUserRole, ResetUserMFA,
                        DeleteUserTokens, DeleteUserRow, Change
    <3>3. QED
      BY <2>3, <3>1, <3>2
  <2>4. ASSUME NEW t \in Token, Refresh(t) \/ Logout(t)
        PROVE  RestType'
    BY <1>2, <2>1, <2>2, <2>4
       DEF Refresh, Logout, Presented, RefreshInGrace, RefreshReplay, RefreshTooLate,
           RefreshRefused, RefreshRotate, Signed, accountVars
  <2>5. CASE \/ \E s \in Sid : EndSession(s)
             \/ \E c \in changing : RevokeUserSessions(c)
             \/ PruneRefreshTokens \/ Crash \/ UNCHANGED vars
    BY <1>2, <2>5 DEF EndSession, RevokeUserSessions, PruneRefreshTokens, Crash,
                      accountVars, vars
  <2>6. CASE Tick
    <3>1. access' = [s \in Sid |-> IF access[s] > now' THEN access[s] ELSE 0]
      BY <2>6 DEF Tick
    <3>2. access' \in [Sid -> Nat]
      BY <1>2, <3>1
    <3>3. QED
      BY <1>2, <2>6, <3>2 DEF Tick, accountVars
  <2>7. QED
    BY <1>2, <2>3, <2>4, <2>5, <2>6 DEF Next
<1>3. TokenInv /\ RestType => TypeOK
  BY DEF TokenInv, TableType, TypeOK
<1> HIDE DEF RestType
<1>4. QED
  BY <1>1, <1>2, <1>3, TokenInvariance, PTL DEF Spec

\* The deadline of a row is the one its last use gave it.
DeadlineFromUse ==
    \A t \in DOMAIN rows : rows[t].expiresAt = IdleDeadline(rows[t].startedAt, rows[t].usedAt)

\* Only an insertion sets a deadline, so the relation to the last use stays.
LEMMA NextDeadlineFromUse ==
    ASSUME TokenInv, DeadlineFromUse, [Next]_vars
    PROVE  DeadlineFromUse'
<1>1. ASSUME rows' = rows
      PROVE  DeadlineFromUse'
  BY <1>1 DEF DeadlineFromUse, IdleDeadline
<1>2. ASSUME NEW T, rows' = RevokeAll(T)
      PROVE  DeadlineFromUse'
  <2>1. \A t \in DOMAIN rows : /\ rows'[t].startedAt = rows[t].startedAt
                               /\ rows'[t].usedAt = rows[t].usedAt
                               /\ rows'[t].expiresAt = rows[t].expiresAt
    BY <1>2 DEF RevokeAll, TokenInv, TableType, Row
  <2>2. QED
    BY <1>2, <2>1 DEF DeadlineFromUse, RevokeAll, IdleDeadline
<1>3. ASSUME NEW D \in SUBSET DOMAIN rows, rows' = [t \in D |-> rows[t]]
      PROVE  DeadlineFromUse'
  BY <1>3 DEF DeadlineFromUse, IdleDeadline
<1>4. ASSUME NEW u \in User, SignIn(u) \/ Administer(u)
      PROVE  DeadlineFromUse'
  <2>1. CASE \E s \in Sid, t \in Token : IssueTokens(u, s, t)
    BY <2>1 DEF IssueTokens, Added, DeadlineFromUse, IdleDeadline
  <2>2. CASE DeleteUserTokens(u)
    BY <2>2, <1>3 DEF DeleteUserTokens
  <2>3. QED
    BY <1>1, <1>4, <2>1, <2>2 DEF SignIn, Administer, VerifyMFA, SetupConfirm,
                                  ChangePassword, UpdateUserRole, ResetUserMFA,
                                  DeleteUserRow
<1>5. ASSUME NEW t \in Token, Refresh(t)
      PROVE  DeadlineFromUse'
  <2>1. ASSUME NEW at, NEW n \in Token, RefreshRotate(t, at, n)
        PROVE  DeadlineFromUse'
    <3>1. rows[t] \in Row /\ t \in DOMAIN rows /\ n \notin DOMAIN rows
      BY <2>1 DEF RefreshRotate, Presented, TokenInv, TableType, RowsConsistent
    <3>2. /\ DOMAIN rows' = DOMAIN rows \cup {n}
          /\ rows'[n] = Successor(t, at) /\ rows'[t] = SpentRow(t, at)
          /\ \A x \in DOMAIN rows \ {t} : rows'[x] = rows[x]
      BY <2>1, <3>1 DEF RefreshRotate, Rotated, Added
    <3>3. rows'[n].expiresAt = IdleDeadline(rows'[n].startedAt, rows'[n].usedAt)
      BY <3>1, <3>2 DEF Successor, Row, IdleDeadline
    <3>4. rows'[t].expiresAt = IdleDeadline(rows'[t].startedAt, rows'[t].usedAt)
      BY <3>1, <3>2 DEF SpentRow, Row, DeadlineFromUse, IdleDeadline
    <3>5. QED
      BY <3>2, <3>3, <3>4 DEF DeadlineFromUse, IdleDeadline
  <2>2. QED
    BY <1>1, <1>5, <2>1 DEF Refresh, RefreshInGrace, RefreshReplay, RefreshTooLate,
                            RefreshRefused
<1>6. CASE (\E t \in Token : Logout(t)) \/ (\E s \in Sid : EndSession(s))
             \/ (\E c \in changing : RevokeUserSessions(c))
  BY <1>2, <1>6 DEF Logout, EndSession, RevokeUserSessions
<1>7. CASE PruneRefreshTokens
  BY <1>3, <1>7 DEF PruneRefreshTokens
<1>8. CASE Tick \/ Crash \/ UNCHANGED vars
  BY <1>1, <1>8 DEF Tick, Crash, vars
<1>9. QED
  BY <1>4, <1>5, <1>6, <1>7, <1>8 DEF Next

\* A later use gives a later deadline.
LEMMA IdleDeadlineMonotone ==
    ASSUME NEW start \in Nat, NEW a \in Nat, NEW b \in Nat, a <= b
    PROVE  IdleDeadline(start, a) <= IdleDeadline(start, b)
BY SessionsAssumption DEF IdleDeadline

\* The step that moves a deadline: from a live row of a session to a live row
\* of it in the next state, whatever the step.
DeadlineStep ==
    \A t \in DOMAIN rows, n \in DOMAIN rows' :
        ~rows[t].revoked /\ ~rows'[n].revoked /\ rows[t].sid = rows'[n].sid =>
            /\ rows[t].expiresAt <= rows'[n].expiresAt
            /\ rows'[n].expiresAt <= rows[t].startedAt + MaxAge

\* A row that was in the table before keeps its deadline, and the successor
\* of a rotation has one that is no earlier.
LEMMA DeadlinesMoveForward ==
    ASSUME TokenInv, DeadlineFromUse, [Next]_vars
    PROVE  DeadlineStep
<1> DEFINE Kept(n) == /\ n \in DOMAIN rows /\ rows'[n].sid = rows[n].sid
                      /\ rows'[n].expiresAt = rows[n].expiresAt
                      /\ ~rows'[n].revoked => ~rows[n].revoked
<1>1. ASSUME \A n \in DOMAIN rows' : Kept(n)
      PROVE  DeadlineStep
  <2> SUFFICES ASSUME NEW t \in DOMAIN rows, NEW n \in DOMAIN rows',
                      ~rows[t].revoked, ~rows'[n].revoked, rows[t].sid = rows'[n].sid
               PROVE  /\ rows[t].expiresAt <= rows'[n].expiresAt
                      /\ rows'[n].expiresAt <= rows[t].startedAt + MaxAge
    BY DEF DeadlineStep
  <2>1. t = n
    BY <1>1 DEF TokenInv, OneLiveToken
  <2>2. rows[t].expiresAt \in Nat /\ rows[t].expiresAt <= rows[t].startedAt + MaxAge
    BY DEF TokenInv, TableType, RowsConsistent, Row
  <2>3. QED
    BY <1>1, <2>1, <2>2
<1>2. ASSUME NEW T, rows' = RevokeAll(T)
      PROVE  DeadlineStep
  <2>1. \A n \in DOMAIN rows' : Kept(n)
    BY <1>2 DEF RevokeAll, TokenInv, TableType, Row
  <2>2. QED
    BY <1>1, <2>1
<1>3. ASSUME NEW D \in SUBSET DOMAIN rows, rows' = [t \in D |-> rows[t]]
      PROVE  DeadlineStep
  <2>1. \A n \in DOMAIN rows' : Kept(n)
    BY <1>3
  <2>2. QED
    BY <1>1, <2>1
<1>4. ASSUME rows' = rows
      PROVE  DeadlineStep
  BY <1>1, <1>4
<1>5. ASSUME NEW u \in User, SignIn(u) \/ Administer(u)
      PROVE  DeadlineStep
  <2>1. ASSUME NEW s \in Sid, NEW x \in Token, IssueTokens(u, s, x)
        PROVE  DeadlineStep
    <3>1. /\ DOMAIN rows' = DOMAIN rows \cup {x} /\ rows'[x].sid = s
          /\ \A t \in DOMAIN rows : rows[t].sid # s
          /\ \A t \in DOMAIN rows : rows'[t] = rows[t]
      BY <2>1 DEF IssueTokens, Added, Opened, TokenInv, RowsConsistent
    <3>2. \A t \in DOMAIN rows : Kept(t)
      BY <3>1
    <3> SUFFICES ASSUME NEW t \in DOMAIN rows, NEW n \in DOMAIN rows',
                        ~rows[t].revoked, ~rows'[n].revoked, rows[t].sid = rows'[n].sid
                 PROVE  /\ rows[t].expiresAt <= rows'[n].expiresAt
                        /\ rows'[n].expiresAt <= rows[t].startedAt + MaxAge
      BY DEF DeadlineStep
    <3>3. n \in DOMAIN rows /\ n = t
      BY <3>1 DEF TokenInv, OneLiveToken
    <3>4. rows[t].expiresAt \in Nat /\ rows[t].expiresAt <= rows[t].startedAt + MaxAge
      BY DEF TokenInv, TableType, RowsConsistent, Row
    <3>5. QED
      BY <3>1, <3>3, <3>4
  <2>2. CASE DeleteUserTokens(u)
    BY <2>2, <1>3 DEF DeleteUserTokens
  <2>3. QED
    BY <1>4, <1>5, <2>1, <2>2 DEF SignIn, Administer, VerifyMFA, SetupConfirm,
                                  ChangePassword, UpdateUserRole, ResetUserMFA,
                                  DeleteUserRow
<1>6. ASSUME NEW t \in Token, Refresh(t)
      PROVE  DeadlineStep
  <2>1. ASSUME NEW at \in (now - Lag)..now, NEW x \in Token, RefreshRotate(t, at, x)
        PROVE  DeadlineStep
    <3>1. /\ rows[t] \in Row /\ t \in DOMAIN rows /\ x \notin DOMAIN rows
          /\ ~rows[t].revoked /\ rows[t].usedAt <= at /\ now \in Nat
      BY <2>1 DEF RefreshRotate, Presented, TokenInv, TableType, RowsConsistent
    <3>2. /\ DOMAIN rows' = DOMAIN rows \cup {x}
          /\ rows'[x] = Successor(t, at) /\ rows'[t] = SpentRow(t, at)
          /\ \A y \in DOMAIN rows \ {t} : rows'[y] = rows[y]
      BY <2>1, <3>1 DEF RefreshRotate, Rotated, Added
    <3>3. at \in Nat
      BY <2>1, <3>1, SessionsAssumption DEF Row
    <3>4. /\ rows'[x].sid = rows[t].sid
          /\ rows'[x].expiresAt = IdleDeadline(rows[t].startedAt, at)
      BY <3>1, <3>2 DEF Successor, Row
    <3>5. /\ rows[t].expiresAt <= rows'[x].expiresAt
          /\ rows'[x].expiresAt <= rows[t].startedAt + MaxAge
      <4>1. rows[t].expiresAt = IdleDeadline(rows[t].startedAt, rows[t].usedAt)
        BY <3>1 DEF DeadlineFromUse
      <4>2. /\ rows[t].startedAt \in Nat /\ rows[t].usedAt \in Nat
            /\ rows[t].startedAt <= rows[t].usedAt
        BY <3>1 DEF Row, TokenInv, RowsConsistent
      <4>3. rows[t].startedAt <= at
        BY <3>1, <3>3, <4>2
      <4>4. QED
        BY <3>1, <3>3, <3>4, <4>1, <4>2, <4>3, IdleDeadlineMonotone, IdleDeadlineBounds
    <3>6. rows'[t].revoked
      BY <3>1, <3>2 DEF SpentRow, Row
    <3> SUFFICES ASSUME NEW y \in DOMAIN rows, NEW n \in DOMAIN rows',
                        ~rows[y].revoked, ~rows'[n].revoked, rows[y].sid = rows'[n].sid
                 PROVE  /\ rows[y].expiresAt <= rows'[n].expiresAt
                        /\ rows'[n].expiresAt <= rows[y].startedAt + MaxAge
      BY DEF DeadlineStep
    <3>7. CASE n = x
      <4>1. y = t
        BY <3>1, <3>4, <3>7 DEF TokenInv, OneLiveToken
      <4>2. QED
        BY <3>5, <3>7, <4>1
    <3>8. CASE n # x
      <4>1. n \in DOMAIN rows \ {t} /\ rows'[n] = rows[n] /\ n = y
        BY <3>2, <3>6, <3>8 DEF TokenInv, OneLiveToken
      <4>2. rows[y].expiresAt \in Nat /\ rows[y].expiresAt <= rows[y].startedAt + MaxAge
        BY DEF TokenInv, TableType, RowsConsistent, Row
      <4>3. QED
        BY <4>1, <4>2
    <3>9. QED
      BY <3>7, <3>8
  <2>2. QED
    BY <1>4, <1>6, <2>1 DEF Refresh, RefreshInGrace, RefreshReplay, RefreshTooLate,
                            RefreshRefused
<1>7. CASE (\E t \in Token : Logout(t)) \/ (\E s \in Sid : EndSession(s))
             \/ (\E c \in changing : RevokeUserSessions(c))
  BY <1>2, <1>7 DEF Logout, EndSession, RevokeUserSessions
<1>8. CASE PruneRefreshTokens
  BY <1>3, <1>8 DEF PruneRefreshTokens
<1>9. CASE Tick \/ Crash \/ UNCHANGED vars
  BY <1>4, <1>9 DEF Tick, Crash, vars
<1>10. QED
  BY <1>5, <1>6, <1>7, <1>8, <1>9 DEF Next

\* A session's deadline only moves forward, and never past the hard limit.
THEOREM DeadlinesForwardAndCapped == Spec => DeadlineForwardAndCapped
<1>1. Init => DeadlineFromUse
  BY DEF Init, DeadlineFromUse
<1>2. TokenInv /\ DeadlineFromUse /\ [Next]_vars => DeadlineFromUse'
  BY NextDeadlineFromUse
<1>3. TokenInv /\ DeadlineFromUse /\ [Next]_vars => [DeadlineStep]_vars
  BY DeadlinesMoveForward
<1>4. QED
  BY <1>1, <1>2, <1>3, TokenInvariance, PTL
     DEF Spec, DeadlineForwardAndCapped, DeadlineStep
=============================================================================
