----------------------------- MODULE SessionLife -----------------------------
(***************************************************************************)
(* What a signed-in session promises, whatever tables, cookies and token   *)
(* rotations keep it going: it is opened once, it vouches for its holder   *)
(* only while it is open, and once it is closed it stays closed.  Sessions *)
(* (handlers/session.go) is shown to implement this module.                *)
(***************************************************************************)
EXTENDS Naturals

CONSTANTS
    Sid,        \* session identifiers
    AccessTTL   \* how long one access token is accepted

VARIABLES
    now,        \* the clock
    phase,      \* phase[s]: "unopened", "open" or "closed"
    access      \* access[s]: when the last access token of s runs out, 0 once it has

vars == <<now, phase, access>>

TypeOK ==
    /\ now \in Nat
    /\ phase \in [Sid -> {"unopened", "open", "closed"}]
    /\ access \in [Sid -> Nat]

Init ==
    /\ now = 0
    /\ phase = [s \in Sid |-> "unopened"]
    /\ access = [s \in Sid |-> 0]

\* A further access token, or none if it cannot be signed.
Signed(s) == access' \in {access, [access EXCEPT ![s] = now + AccessTTL]}

\* A sign-in opens a session that never existed and hands out its first
\* access token.
Open(s) ==
    /\ phase[s] = "unopened"
    /\ phase' = [phase EXCEPT ![s] = "open"]
    /\ Signed(s)
    /\ UNCHANGED now

\* An open session, and only an open one, yields a further access token.
Vouch(s) ==
    /\ phase[s] = "open"
    /\ Signed(s)
    /\ UNCHANGED <<now, phase>>

\* A logout closes one session; a changed password, role or second factor
\* closes several at once.
Close(S) ==
    /\ \A s \in S : phase[s] = "open"
    /\ phase' = [s \in Sid |-> IF s \in S THEN "closed" ELSE phase[s]]
    /\ UNCHANGED <<now, access>>

Tick ==
    /\ now' = now + 1
    /\ access' = [s \in Sid |-> IF access[s] > now' THEN access[s] ELSE 0]
    /\ UNCHANGED phase

Next ==
    \/ \E s \in Sid : Open(s) \/ Vouch(s)
    \/ \E S \in SUBSET Sid : Close(S)
    \/ Tick

Spec == Init /\ [][Next]_vars
=============================================================================
