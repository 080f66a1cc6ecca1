----------------------------- MODULE VaultCode ------------------------------
(***************************************************************************)
(* The second factor of one account's vault (vault_mfa.go): setting it up, *)
(* trading a code for a vault session, an administrator's reset.           *)
(*                                                                         *)
(* Every handler reads the row, decides on that copy and then writes; the  *)
(* only check made inside the writing statement is last_step < step.  A    *)
(* request is here from its read to its last write, with the copy it works *)
(* on.  Seeds are numbered in the order they are minted, 0 being none.     *)
(***************************************************************************)
EXTENDS Naturals
CONSTANTS
    MaxFailures,  \* vaultMFAMaxFailures
    LockSteps,    \* vaultMFALockout, in windows of 30 seconds
    MaxStep,      \* bound: windows that pass
    MaxSeeds,     \* bound: seeds minted
    MaxResets,    \* bound: resets asked for
    MaxRequests   \* bound: requests under way at once

(* What the constants may be. *)
CodeBounds ==
    /\ MaxFailures \in Nat \ {0} /\ LockSteps \in Nat /\ MaxStep \in Nat \ {0}
    /\ MaxSeeds \in Nat /\ MaxResets \in Nat /\ MaxRequests \in Nat

VARIABLES
    factor,    \* the row: models.VaultMFA
    now,       \* the 30-second window
    requests,  \* requests between their read and their last write
    sessions,  \* vault sessions handed out
    seeds,     \* seeds minted so far
    resets,    \* resets that were asked for
    landed,    \* resets whose write was made
    spent,     \* the codes accepted, seed and window
    rolledBack \* a request wrote a generation from a copy out of date
vars == <<factor, now, requests, sessions, seeds, resets, landed, spent, rolledBack>>

NoSeed == 0
NoFactor == [found |-> FALSE, seed |-> NoSeed, enabled |-> FALSE, generation |-> 0,
             lastStep |-> 0, failures |-> 0, lockedUntil |-> 0]

Init ==
    /\ factor = NoFactor
    /\ now = 1
    /\ requests = {} /\ sessions = {} /\ spent = {}
    /\ seeds = 0 /\ resets = 0 /\ landed = 0
    /\ rolledBack = FALSE

\* Two requests may be alike in all but that they are two.
Free == {n \in 1..MaxRequests : \A q \in requests : q.slot # n}
Begins(op, step) ==
    /\ Free # {}
    /\ requests' = requests \cup
         {[op |-> op, copy |-> factor, step |-> step, era |-> landed,
           slot |-> CHOOSE n \in Free : TRUE]}
Ends(q) == requests' = requests \ {q}

-----------------------------------------------------------------------------
Tick ==
    /\ now < MaxStep
    /\ now' = now + 1
    /\ UNCHANGED <<factor, requests, sessions, seeds, resets, landed, spent, rolledBack>>

(* SetupVaultMFA up to the mint: refused once the factor is on. *)
SetupBegins ==
    /\ seeds < MaxSeeds /\ ~factor.enabled
    /\ Begins("setup", seeds + 1)
    /\ seeds' = seeds + 1
    /\ UNCHANGED <<factor, now, sessions, resets, landed, spent, rolledBack>>

(* The row Setup saves: all of its copy, with a new seed and nothing spent. *)
SetupRow(q) ==
    [q.copy EXCEPT !.found = TRUE, !.enabled = FALSE, !.failures = 0, !.lockedUntil = 0,
       !.lastStep = 0, !.seed = q.step,
       !.generation = IF @ = 0 THEN 1 ELSE @]

(* Save: an INSERT for an account that had no row when it was read, which a *)
(* row made meanwhile turns down; else an UPDATE of every column.           *)
SetupSaves(q) ==
    /\ q.op = "setup" /\ Ends(q)
    /\ factor' = IF ~q.copy.found /\ factor.found THEN factor ELSE SetupRow(q)
    /\ rolledBack' = (rolledBack \/ factor'.generation < factor.generation)
    /\ UNCHANGED <<now, sessions, seeds, resets, landed, spent>>

(* ConfirmVaultMFA and VerifyVaultMFA up to the check of the code: the one  *)
(* is for a factor not yet on, the other for one that is.                   *)
CodeBegins(op, code) ==
    /\ factor.found
    /\ \/ op = "confirm" /\ ~factor.enabled /\ factor.seed # NoSeed
       \/ op = "verify" /\ factor.enabled
    /\ Begins(op, code)
    /\ UNCHANGED <<factor, now, sessions, seeds, resets, landed, spent, rolledBack>>

\* Codes: 0 is a wrong one, any other the code of that window.
WrongCode == 0
Locked(copy) == now <= copy.lockedUntil
Matches(q) == q.copy.seed # NoSeed /\ q.step # WrongCode /\ q.step \in {now - 1, now, now + 1}

(* checkVaultCode turning a code down without a write. *)
CodeRefused(q) ==
    /\ q.op \in {"confirm", "verify"} /\ Ends(q)
    /\ \/ Locked(q.copy)
       \/ Matches(q) /\ q.step <= q.copy.lastStep
       \/ Matches(q) /\ q.step <= factor.lastStep
    /\ UNCHANGED <<factor, now, sessions, seeds, resets, landed, spent, rolledBack>>

(* failVaultCode: counted from the copy, locked at the limit. *)
CodeFails(q) ==
    /\ q.op \in {"confirm", "verify"} /\ Ends(q)
    /\ ~Locked(q.copy) /\ ~Matches(q)
    /\ factor' = IF q.copy.failures + 1 >= MaxFailures
                 THEN [factor EXCEPT !.failures = 0, !.lockedUntil = now + LockSteps]
                 ELSE [factor EXCEPT !.failures = q.copy.failures + 1]
    /\ UNCHANGED <<now, sessions, seeds, resets, landed, spent, rolledBack>>

\* The window looked up on the copy alone.
UnspentOnCopy(q) == q.step > q.copy.lastStep
(* "UPDATE ... WHERE last_step < step", and the copy's own check before it. *)
Unspent(q) == q.step > q.copy.lastStep /\ factor.lastStep < q.step

(* checkVaultCode accepting a code: the window is taken in one statement.   *)
(* Verify goes on to its session, Confirm to turning the factor on.         *)
CodeAccepted(q) ==
    /\ q.op \in {"confirm", "verify"}
    /\ ~Locked(q.copy) /\ Matches(q) /\ Unspent(q)
    /\ factor' = [factor EXCEPT !.lastStep = q.step, !.failures = 0, !.lockedUntil = 0]
    /\ requests' = (requests \ {q}) \cup
         {[q EXCEPT !.op = IF q.op = "confirm" THEN "enable" ELSE "session"]}
    /\ spent' = spent \cup {<<q.copy.seed, q.step>>}
    /\ UNCHANGED <<now, sessions, seeds, resets, landed, rolledBack>>

(* The rest of ConfirmVaultMFA: enabled_at, whatever the row holds by now. *)
Enable(q) ==
    /\ q.op = "enable"
    /\ factor' = [factor EXCEPT !.enabled = TRUE]
    /\ requests' = (requests \ {q}) \cup {[q EXCEPT !.op = "session"]}
    /\ UNCHANGED <<now, sessions, seeds, resets, landed, spent, rolledBack>>

(* issueVaultSession, for the generation of the copy. *)
IssueSession(q) ==
    /\ q.op = "session" /\ Ends(q)
    /\ sessions' = sessions \cup {[generation |-> q.copy.generation, era |-> q.era]}
    /\ UNCHANGED <<factor, now, seeds, resets, landed, spent, rolledBack>>

(* ResetUserVaultMFA up to its read. *)
ResetBegins ==
    /\ factor.found /\ resets < MaxResets
    /\ Begins("reset", 0)
    /\ resets' = resets + 1
    /\ UNCHANGED <<factor, now, sessions, seeds, landed, spent, rolledBack>>

\* The generation is left as it was.
ResetRowSameGeneration(q) ==
    [factor EXCEPT !.seed = NoSeed, !.enabled = FALSE, !.failures = 0, !.lockedUntil = 0]

(* The columns a reset writes; the window of the last code is not one. *)
ResetRow(q) ==
    [factor EXCEPT !.seed = NoSeed, !.enabled = FALSE, !.failures = 0, !.lockedUntil = 0,
                   !.generation = q.copy.generation + 1]

ResetWrites(q) ==
    /\ q.op = "reset" /\ Ends(q)
    /\ factor' = ResetRow(q)
    /\ rolledBack' = (rolledBack \/ q.copy.generation # factor.generation)
    /\ landed' = landed + 1
    /\ UNCHANGED <<now, sessions, seeds, resets, spent>>

Next ==
    \/ Tick
    \/ SetupBegins
    \/ \E op \in {"confirm", "verify"}, code \in 0..MaxStep : CodeBegins(op, code)
    \/ ResetBegins
    \/ \E q \in requests : SetupSaves(q)
    \/ \E q \in requests : CodeRefused(q)
    \/ \E q \in requests : CodeFails(q)
    \/ \E q \in requests : CodeAccepted(q)
    \/ \E q \in requests : Enable(q)
    \/ \E q \in requests : IssueSession(q)
    \/ \E q \in requests : ResetWrites(q)

Spec == Init /\ [][Next]_vars

-----------------------------------------------------------------------------
Factor == [found : BOOLEAN, seed : 0..MaxSeeds, enabled : BOOLEAN,
           generation : 0..MaxResets + 1, lastStep : 0..MaxStep, failures : 0..MaxFailures,
           lockedUntil : 0..MaxStep + LockSteps]

(* The row, the requests and what they have done are well formed. *)
TypeOK ==
    /\ factor \in Factor
    /\ now \in 1..MaxStep
    /\ requests \subseteq [op : {"setup", "confirm", "verify", "enable", "session", "reset"},
                           copy : Factor, step : 0..MaxStep + MaxSeeds, era : 0..MaxResets,
                           slot : 1..MaxRequests]
    /\ sessions \subseteq [generation : 0..MaxResets + 1, era : 0..MaxResets]
    /\ seeds \in 0..MaxSeeds /\ resets \in 0..MaxResets /\ landed \in 0..resets
    /\ spent \subseteq (1..MaxSeeds) \X (1..MaxStep)
    /\ rolledBack \in BOOLEAN

(* VaultSessionRequired. *)
Accepted(s) == factor.enabled /\ factor.generation = s.generation

(* models.go, VaultMFA.LastStep: "A code is good for one use"; vault_mfa.go,*)
(* checkVaultCode: "two requests racing with one code cannot both win".     *)
(* A code accepted before is accepted again only by a request that read the *)
(* seed before it was replaced, whose windows the new seed starts over.     *)
LetsInOnce ==
    \A q \in requests :
       (q.op \in {"confirm", "verify"} /\ q \notin requests'
          /\ \E op \in {"enable", "session"} : [q EXCEPT !.op = op] \in requests' \ requests)
       /\ <<q.copy.seed, q.step>> \in spent
         => factor.seed # q.copy.seed
CodeOpensOnce == [][LetsInOnce]_vars

(* models.go, VaultMFA.Generation: "A reset therefore ends every session    *)
(* issued under the old secret".  A session that is accepted was asked for  *)
(* after the last reset that took effect, unless a generation went back: a  *)
(* setup that saved its copy over a reset, or two resets from one read.     *)
ResetEndsSessions ==
    \A s \in sessions : Accepted(s) => s.era = landed \/ rolledBack
=============================================================================
