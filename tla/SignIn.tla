------------------------------- MODULE SignIn -------------------------------
(***************************************************************************)
(* Password and authenticator of one account: setting them up behind a     *)
(* setup ticket (auth.go), what others change (users.go), and the codes    *)
(* that unlock cluster secrets (secrets_unlock.go).                        *)
(*                                                                         *)
(* A handler reads the row and then writes some of its columns, with       *)
(* nothing held in between; a request is here from its read to its write,  *)
(* with the copy it works on.  SetupInit mints a seed and takes a password *)
(* at once, and the two have one number.  The sessions that are opened are *)
(* Sessions' business.  The role "bootstrap", which no row is given any    *)
(* more, is left out.                                                      *)
(***************************************************************************)
EXTENDS Naturals
CONSTANTS
    MaxSeeds,    \* bound: seeds minted
    MaxStep,     \* bound: windows of 30 seconds that pass
    MaxRequests  \* bound: requests under way at once

(* What the constants may be. *)
SignInBounds == MaxSeeds \in Nat /\ MaxStep \in Nat \ {0} /\ MaxRequests \in Nat

VARIABLES
    user,      \* the row: models.User
    seeds,     \* seeds minted so far
    ticket,    \* there is a setup ticket that has not expired
    requests,  \* requests between their read and their write
    now,       \* the window
    usedStep,  \* usedSteps of the account, in the memory of the process
    taken,     \* history: the codes this process has unlocked secrets with
    shown,     \* history: the seeds somebody confirmed with a code
    crossed    \* history: a write was about a row that had changed, see below
vars == <<user, seeds, ticket, requests, now, usedStep, taken, shown, crossed>>

None == 0
\* A password that was not chosen in a setup.
Given == MaxSeeds + 1
SetUp == user.enabled /\ ~user.force

\* An account that somebody made, or the first root (bootstrapAdmin).
Init ==
    /\ \E force \in BOOLEAN :
         user = [password |-> Given, pending |-> None, seed |-> None,
                 enabled |-> FALSE, force |-> force]
    /\ seeds = 0 /\ ticket = FALSE /\ requests = {}
    /\ now = 1 /\ usedStep = 0 /\ taken = {} /\ shown = {} /\ crossed = FALSE

\* Two requests may be alike in all but that they are two.
Free == {n \in 1..MaxRequests : \A q \in requests : q.slot # n}
Begins(op, number) ==
    /\ Free # {}
    /\ requests' = requests \cup
         {[op |-> op, copy |-> user, number |-> number, slot |-> CHOOSE n \in Free : TRUE]}
Ends(q) == requests' = requests \ {q}

-----------------------------------------------------------------------------
\* A password that matches; bcrypt matches nothing with an empty hash.
Login ==
    /\ user.password # None /\ ~SetUp
    /\ ticket' = TRUE
    /\ UNCHANGED <<user, seeds, requests, now, usedStep, taken, shown, crossed>>
\* stageTokenTTL is over.
TicketExpires ==
    /\ ticket' = FALSE
    /\ UNCHANGED <<user, seeds, requests, now, usedStep, taken, shown, crossed>>

(* SetupInit is refused once the account is set up. *)
MayInit == ticket /\ ~SetUp
SetupInit ==
    /\ MayInit /\ seeds < MaxSeeds
    /\ Begins("init", seeds + 1)
    /\ seeds' = seeds + 1
    /\ UNCHANGED <<user, ticket, now, usedStep, taken, shown, crossed>>
(* Its update: seed and pending password, whatever the row says by now. *)
InitWrites(q) ==
    /\ q.op = "init" /\ Ends(q)
    /\ user' = [user EXCEPT !.seed = q.number, !.pending = q.number]
    /\ crossed' = (crossed \/ user # q.copy)
    /\ UNCHANGED <<seeds, ticket, now, usedStep, taken, shown>>

(* SetupConfirm with a code of the seed it read; a setup that is over is    *)
(* not refused.                                                             *)
SetupConfirm ==
    /\ ticket /\ user.seed # None
    /\ Begins("confirm", user.seed)
    /\ shown' = shown \cup {user.seed}
    /\ UNCHANGED <<user, seeds, ticket, now, usedStep, taken, crossed>>
(* Its update: the pending password of the copy, and the account is set up. *)
ConfirmWrites(q) ==
    /\ q.op = "confirm" /\ Ends(q)
    /\ user' = [user EXCEPT !.password = q.copy.pending, !.pending = None,
                            !.enabled = TRUE, !.force = FALSE]
    /\ crossed' = (crossed \/ user # q.copy \/ q.copy.pending = None)
    /\ UNCHANGED <<seeds, ticket, now, usedStep, taken, shown>>

(* ResetUserMFA and ChangePassword: each a single update. *)
ResetUserMFA ==
    /\ user' = [user EXCEPT !.seed = None, !.enabled = FALSE]
    /\ UNCHANGED <<seeds, ticket, requests, now, usedStep, taken, shown, crossed>>
ChangePassword ==
    /\ user' = [user EXCEPT !.password = Given, !.force = FALSE]
    /\ UNCHANGED <<seeds, ticket, requests, now, usedStep, taken, shown, crossed>>

-----------------------------------------------------------------------------
(* UnlockSecrets of somebody signed in, who knows the password, up to the   *)
(* check of the code.                                                       *)
UnlockSecrets(step) ==
    /\ SetUp /\ user.password # None
    /\ Begins("unlock", step)
    /\ UNCHANGED <<user, seeds, ticket, now, usedStep, taken, shown, crossed>>

(* checkSignInCode: one window either side, later than any used before. *)
checkSignInCode(q) ==
    /\ q.copy.seed # None /\ q.number \in {now - 1, now, now + 1}
    /\ q.number > usedStep
\* Under usedStepsMu, the code is checked and its window taken.
Unlock(q) ==
    /\ q.op = "unlock" /\ checkSignInCode(q) /\ Ends(q)
    /\ usedStep' = q.number
    /\ taken' = taken \cup {<<q.copy.seed, q.number>>}
    /\ UNCHANGED <<user, seeds, ticket, now, shown, crossed>>
Refuse(q) ==
    /\ q.op = "unlock" /\ ~checkSignInCode(q) /\ Ends(q)
    /\ UNCHANGED <<user, seeds, ticket, now, usedStep, taken, shown, crossed>>

Tick ==
    /\ now < MaxStep
    /\ now' = now + 1
    /\ UNCHANGED <<user, seeds, ticket, requests, usedStep, taken, shown, crossed>>
(* A restart forgets the windows that were used. *)
Restart ==
    /\ requests' = {} /\ usedStep' = 0 /\ taken' = {}
    /\ UNCHANGED <<user, seeds, ticket, now, shown, crossed>>

Next ==
    \/ Login \/ TicketExpires \/ SetupInit \/ SetupConfirm
    \/ ResetUserMFA \/ ChangePassword
    \/ \E step \in 1..(MaxStep + 1) : UnlockSecrets(step)
    \/ \E q \in requests : InitWrites(q) \/ ConfirmWrites(q) \/ Unlock(q) \/ Refuse(q)
    \/ Tick \/ Restart
Spec == Init /\ [][Next]_vars

-----------------------------------------------------------------------------
Passwords == 0..Given
Row == [password : Passwords, pending : 0..MaxSeeds, seed : 0..MaxSeeds,
        enabled : BOOLEAN, force : BOOLEAN]
(* The row and the requests are well formed. *)
TypeOK ==
    /\ user \in Row /\ seeds \in 0..MaxSeeds /\ ticket \in BOOLEAN
    /\ requests \subseteq [op : {"init", "confirm", "unlock"}, copy : Row,
                           number : 1..(MaxSeeds + MaxStep), slot : 1..MaxRequests]
    /\ now \in 1..MaxStep /\ usedStep \in 0..(MaxStep + 1) /\ crossed \in BOOLEAN
    /\ taken \subseteq (1..MaxSeeds) \X (1..(MaxStep + 1)) /\ shown \subseteq 1..MaxSeeds

(* auth.go: an account that asks for a code can be signed in to: it has a   *)
(* password, and a seed that somebody confirmed, whatever setups, resets    *)
(* and changes of the password came in whatever order.  A setup or a        *)
(* confirmation that wrote over a row changed since it was read may leave   *)
(* halves of two setups; so does a confirmation sent again with the ticket  *)
(* of a setup that is over, which leaves no password.                       *)
SetupIsWhole ==
    user.enabled /\ ~crossed => user.password # None /\ user.seed \in shown

(* "a code seen over a shoulder cannot be replayed within its thirty        *)
(* seconds" (secrets_unlock.go, usedSteps): however requests overlap, one   *)
(* code unlocks once in the life of a process.                              *)
CodesUnlockOnce ==
    \A q \in requests : Unlock(q) => <<q.copy.seed, q.number>> \notin taken
=============================================================================
