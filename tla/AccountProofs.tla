----------------------------- MODULE AccountProofs ----------------------------
(***************************************************************************)
(* Proofs about an account's vault code and its role: about VaultCode, for *)
(* any limits and any number of requests under way, that a code opens the  *)
(* vault once and that no session outlives a reset, each with the          *)
(* exception its property names; and, in sections of their own below, of   *)
(* Accounts, VaultItems, SignIn, Access, HostKeys and Provisioning, which  *)
(* share no state with it: who is let in, with which rights, and with      *)
(* which credentials.                                                      *)
(*                                                                         *)
(* The first rests on the row: its last_step is not below any window spent *)
(* with the seed it holds.  A setup starts the windows over, and is the    *)
(* only one to; so the seed it will save must be one that nobody has yet.  *)
(* The second rests on the generations: until one goes back, every session *)
(* and every copy from before the last reset is of an earlier one.         *)
(***************************************************************************)
EXTENDS VaultCode, FiniteSetTheorems, TLAPS

(* The numbers of the row and of the copies of it: all the proofs need. *)
Row == [found : BOOLEAN, seed : Nat, enabled : BOOLEAN, generation : Nat, lastStep : Nat,
        failures : Nat, lockedUntil : Nat]
Numbers ==
    /\ factor \in Row
    /\ now \in Nat /\ seeds \in Nat /\ landed \in Nat
    /\ rolledBack \in BOOLEAN
    /\ requests \subseteq [op : {"setup", "confirm", "verify", "enable", "session", "reset"},
                           copy : Row, step : Nat, era : Nat, slot : Nat]
    /\ \A s \in sessions : s.generation \in Nat /\ s.era \in Nat
    /\ spent \subseteq Nat \X Nat

(* No seed is above the count of them; a setup's is nobody else's. *)
SeedsMinted ==
    /\ factor.seed <= seeds
    /\ \A q \in requests : q.copy.seed <= seeds
    /\ \A q \in requests : q.op = "setup" => q.step <= seeds /\ q.step # NoSeed
    /\ \A p \in spent : p[1] <= seeds /\ p[1] # NoSeed
UnsavedIsNew ==
    \A q \in requests : q.op = "setup" =>
        /\ factor.seed # q.step
        /\ \A r \in requests : /\ r.copy.seed # q.step
                               /\ r.op = "setup" /\ r # q => r.step # q.step
        /\ \A p \in spent : p[1] # q.step

(* The row remembers the last window spent with its seed. *)
SpentRemembered == \A p \in spent : factor.seed = p[1] => p[2] <= factor.lastStep

(* What was asked for before the last reset is of an earlier generation. *)
Earlier(generation, era) ==
    /\ generation <= factor.generation
    /\ era <= landed
    /\ era # landed => generation < factor.generation
GenerationsGrow ==
    ~rolledBack =>
        /\ \A q \in requests : Earlier(q.copy.generation, q.era)
        /\ \A s \in sessions : Earlier(s.generation, s.era)

IInv == Numbers /\ SeedsMinted /\ UnsavedIsNew /\ SpentRemembered /\ GenerationsGrow

-----------------------------------------------------------------------------
LEMMA Start == Init => IInv
<1> SUFFICES ASSUME Init PROVE IInv OBVIOUS
<1>1. NoFactor \in Row BY DEF NoFactor, Row, NoSeed
<1>2. NoFactor.seed = 0 BY DEF NoFactor, NoSeed
<1>3. Numbers BY <1>1 DEF Init, Numbers
<1> QED BY <1>2, <1>3 DEF Init, IInv, SeedsMinted, UnsavedIsNew, SpentRemembered,
                          GenerationsGrow

(* A request joins the others with a copy of the row. *)
LEMMA Beginning ==
    ASSUME IInv, NEW op \in {"setup", "confirm", "verify", "reset"}, NEW step \in Nat,
           Begins(op, step), UNCHANGED <<factor, now, sessions, landed, spent, rolledBack>>,
           \/ op # "setup" /\ seeds' = seeds
           \/ op = "setup" /\ step = seeds + 1 /\ seeds' = seeds + 1
    PROVE  IInv'
<1> DEFINE slot == CHOOSE n \in Free : TRUE
           new == [op |-> op, copy |-> factor, step |-> step, era |-> landed, slot |-> slot]
<1>1. requests' = requests \cup {new} BY DEF Begins
<1>2. slot \in Nat BY DEF Begins, Free
<1> HIDE DEF slot
<1>3. new \in [op : {"setup", "confirm", "verify", "enable", "session", "reset"},
               copy : Row, step : Nat, era : Nat, slot : Nat]
      BY <1>2 DEF IInv, Numbers
<1>4. /\ new.op = op /\ new.copy = factor /\ new.step = step /\ new.era = landed
      /\ seeds \in Nat /\ seeds' \in Nat /\ seeds <= seeds'
      BY DEF IInv, Numbers
<1> HIDE DEF new
<1>5. Numbers' BY <1>1, <1>3, <1>4 DEF IInv, Numbers
<1>6. /\ \A q \in requests : q.copy.seed \in Nat /\ q.step \in Nat
      /\ factor.seed \in Nat /\ factor.generation \in Nat /\ landed \in Nat
      /\ \A p \in spent : p[1] \in Nat
      BY DEF IInv, Numbers, Row
<1>7. SeedsMinted' BY <1>1, <1>4, <1>6 DEF IInv, SeedsMinted, NoSeed
<1>8. UnsavedIsNew'
  <2>1. CASE op # "setup"
        BY <1>1, <1>4, <2>1 DEF IInv, UnsavedIsNew
  <2>2. CASE op = "setup"
        BY <1>1, <1>4, <1>6, <2>2 DEF IInv, UnsavedIsNew, SeedsMinted
  <2> QED BY <2>1, <2>2
<1>9. SpentRemembered' BY DEF IInv, SpentRemembered
<1>10. GenerationsGrow' BY <1>1, <1>4, <1>6 DEF IInv, GenerationsGrow, Earlier
<1> QED BY <1>5, <1>7, <1>8, <1>9, <1>10 DEF IInv

(* A request ends, or goes on under another name that is not a setup; the  *)
(* row keeps its seed, its windows and its generation, and moves ahead.    *)
LEMMA Moving ==
    ASSUME IInv, NEW q \in requests, Numbers',
           \/ requests' = requests \ {q}
           \/ \E op \in {"enable", "session"} :
                  requests' = (requests \ {q}) \cup {[q EXCEPT !.op = op]},
           factor'.seed = factor.seed, factor'.generation = factor.generation,
           factor.lastStep <= factor'.lastStep,
           UNCHANGED <<seeds, landed, rolledBack>>,
           \/ spent' = spent
           \/ /\ spent' = spent \cup {<<q.copy.seed, q.step>>}
              /\ q.copy.seed # NoSeed /\ q.step <= factor'.lastStep,
           \/ sessions' = sessions
           \/ sessions' = sessions \cup {[generation |-> q.copy.generation, era |-> q.era]}
    PROVE  IInv'
<1>1. \A r \in requests' : \E o \in requests :
        /\ r.copy = o.copy /\ r.era = o.era
        /\ r.op = "setup" => r = o
  <2>1. \A op \in {"enable", "session"} :
          /\ [q EXCEPT !.op = op].copy = q.copy /\ [q EXCEPT !.op = op].era = q.era
          /\ [q EXCEPT !.op = op].op = op
        BY DEF IInv, Numbers
  <2> QED BY <2>1
<1>2. \A p \in spent' : p \in spent \/ (p[1] = q.copy.seed /\ p[1] # NoSeed /\ p[2] <= factor'.lastStep)
      OBVIOUS
<1>3. \A s \in sessions' : s \in sessions \/ (s.generation = q.copy.generation /\ s.era = q.era)
      OBVIOUS
<1>4. /\ factor.lastStep \in Nat /\ factor'.lastStep \in Nat
      /\ \A p \in spent : p[2] \in Nat
      BY DEF IInv, Numbers, Row
<1>5. SeedsMinted' BY <1>1, <1>2 DEF IInv, SeedsMinted
<1>6. UnsavedIsNew' BY <1>1, <1>2 DEF IInv, UnsavedIsNew
<1>7. SpentRemembered' BY <1>2, <1>4 DEF IInv, SpentRemembered
<1>8. GenerationsGrow' BY <1>1, <1>3 DEF IInv, GenerationsGrow, Earlier
<1> QED BY <1>5, <1>6, <1>7, <1>8 DEF IInv

(* Every step keeps the invariant. *)
LEMMA Step == CodeBounds /\ IInv /\ [Next]_vars => IInv'
<1> SUFFICES ASSUME CodeBounds, IInv, [Next]_vars PROVE IInv' OBVIOUS
<1>0. Numbers /\ SeedsMinted /\ UnsavedIsNew /\ SpentRemembered /\ GenerationsGrow BY DEF IInv
<1>0a. \A q \in requests :
          /\ q.copy \in Row /\ q.step \in Nat /\ q.era \in Nat /\ q.slot \in Nat
          /\ \A op \in {"enable", "session"} :
               [q EXCEPT !.op = op] \in [op : {"setup", "confirm", "verify", "enable", "session", "reset"},
                                         copy : Row, step : Nat, era : Nat, slot : Nat]
       BY <1>0 DEF Numbers
<1>0b. \A q \in requests : \A s : s = [generation |-> q.copy.generation, era |-> q.era]
                              => s.generation \in Nat /\ s.era \in Nat
  <2> TAKE q \in requests
  <2> TAKE s
  <2> HAVE s = [generation |-> q.copy.generation, era |-> q.era]
  <2>1. s.generation = q.copy.generation /\ s.era = q.era OBVIOUS
  <2>2. q.copy.generation \in Nat BY <1>0a DEF Row
  <2> QED BY <1>0a, <2>1, <2>2
<1>0c. LockSteps \in Nat /\ MaxFailures \in Nat BY DEF CodeBounds
<1>1. CASE UNCHANGED vars
  BY <1>0, <1>1 DEF vars, IInv, Numbers, SeedsMinted, UnsavedIsNew, SpentRemembered,
                    GenerationsGrow, Earlier
<1>2. CASE Tick
  BY <1>0, <1>2 DEF Tick, IInv, Numbers, SeedsMinted, UnsavedIsNew, SpentRemembered,
                    GenerationsGrow, Earlier
<1>3. CASE SetupBegins
  <2>1. seeds + 1 \in Nat BY <1>0 DEF Numbers
  <2> QED BY <1>3, <2>1, Beginning DEF SetupBegins
<1>4. ASSUME NEW op \in {"confirm", "verify"}, NEW code \in 0..MaxStep, CodeBegins(op, code)
      PROVE  IInv'
  <2>1. code \in Nat BY DEF CodeBounds
  <2> QED BY <1>4, <2>1, Beginning DEF CodeBegins
<1>5. CASE ResetBegins BY <1>5, Beginning DEF ResetBegins
<1>6. ASSUME NEW q \in requests, SetupSaves(q) PROVE IInv'
  <2>1. CASE factor' = factor
    BY <1>0, <1>6, <2>1 DEF SetupSaves, Ends, IInv, Numbers, SeedsMinted, UnsavedIsNew,
                            SpentRemembered, GenerationsGrow, Earlier
  <2>2. CASE factor' # factor
    <3>1. factor' = SetupRow(q) BY <1>6, <2>2 DEF SetupSaves
    <3>2. /\ factor' \in Row /\ factor'.seed = q.step /\ factor'.generation \in Nat
      <4> DEFINE generation == IF q.copy.generation = 0 THEN 1 ELSE q.copy.generation
      <4>1. q.copy \in Row /\ q.step \in Nat BY <1>0a
      <4>2. generation \in Nat BY <4>1 DEF Row
      <4>3. factor' = [q.copy EXCEPT !.found = TRUE, !.enabled = FALSE, !.failures = 0,
                                     !.lockedUntil = 0, !.lastStep = 0, !.seed = q.step,
                                     !.generation = generation]
            BY <3>1, <4>1 DEF SetupRow, Row
      <4> HIDE DEF generation
      <4> QED BY <4>1, <4>2, <4>3 DEF Row
    <3>3. requests' = requests \ {q} /\ q.op = "setup"
          /\ UNCHANGED <<now, sessions, seeds, landed, spent>>
          BY <1>6 DEF SetupSaves, Ends
    <3>4. Numbers' BY <1>0, <1>6, <3>2, <3>3 DEF Numbers, SetupSaves
    <3>5. SeedsMinted' BY <1>0, <3>2, <3>3 DEF SeedsMinted
    <3>6. UnsavedIsNew' BY <1>0, <3>2, <3>3 DEF UnsavedIsNew
    <3>7. SpentRemembered' BY <1>0, <3>2, <3>3 DEF SpentRemembered, UnsavedIsNew
    <3>8. GenerationsGrow'
      <4> SUFFICES ASSUME ~rolledBack' PROVE GenerationsGrow' BY DEF GenerationsGrow
      <4>1. ~rolledBack /\ factor'.generation >= factor.generation /\ factor.generation \in Nat
        <5>1. rolledBack' <=> rolledBack \/ factor'.generation < factor.generation
              BY <1>6 DEF SetupSaves
        <5>2. ~rolledBack /\ ~(factor'.generation < factor.generation) BY <5>1
        <5>3. factor.generation \in Nat BY <1>0 DEF Numbers, Row
        <5> QED BY <3>2, <5>2, <5>3
      <4>2. /\ \A r \in requests : r.copy.generation \in Nat
            /\ \A s \in sessions : s.generation \in Nat
            BY <1>0, <1>0a DEF Numbers, Row
      <4> QED BY <1>0, <3>2, <3>3, <4>1, <4>2 DEF GenerationsGrow, Earlier
    <3> QED BY <3>4, <3>5, <3>6, <3>7, <3>8 DEF IInv
  <2> QED BY <2>1, <2>2
<1>7. ASSUME NEW q \in requests, CodeRefused(q) PROVE IInv'
  <2>1. requests' = requests \ {q} /\ UNCHANGED <<factor, now, sessions, seeds, landed, spent, rolledBack>>
        BY <1>7 DEF CodeRefused, Ends
  <2>2. Numbers' BY <1>0, <2>1 DEF Numbers
  <2>3. factor.lastStep <= factor'.lastStep BY <1>0, <2>1 DEF Numbers, Row
  <2> QED BY <2>1, <2>2, <2>3, Moving
<1>8. ASSUME NEW q \in requests, CodeFails(q) PROVE IInv'
  <2>1. requests' = requests \ {q} /\ UNCHANGED <<now, sessions, seeds, landed, spent, rolledBack>>
        BY <1>8 DEF CodeFails, Ends
  <2>2. /\ factor' \in Row /\ factor'.seed = factor.seed /\ factor'.generation = factor.generation
        /\ factor'.lastStep = factor.lastStep /\ factor.lastStep \in Nat
    <3>1. q.copy.failures + 1 \in Nat /\ now + LockSteps \in Nat
          BY <1>0, <1>0a, <1>0c DEF Numbers, Row
    <3>2. factor \in Row BY <1>0 DEF Numbers
    <3> QED BY <1>8, <3>1, <3>2 DEF CodeFails, Row
  <2>3. Numbers' BY <1>0, <2>1, <2>2 DEF Numbers
  <2> QED BY <2>1, <2>2, <2>3, Moving
<1>9. ASSUME NEW q \in requests, CodeAccepted(q) PROVE IInv'
  <2> DEFINE op == IF q.op = "confirm" THEN "enable" ELSE "session"
  <2>1. /\ requests' = (requests \ {q}) \cup {[q EXCEPT !.op = op]}
        /\ UNCHANGED <<now, sessions, seeds, landed, rolledBack>>
        /\ spent' = spent \cup {<<q.copy.seed, q.step>>}
        BY <1>9 DEF CodeAccepted
  <2>2. /\ factor' \in Row /\ factor'.seed = factor.seed /\ factor'.generation = factor.generation
        /\ factor'.lastStep = q.step /\ factor.lastStep < q.step /\ factor.lastStep \in Nat
    <3>1. factor \in Row /\ q.step \in Nat BY <1>0, <1>0a DEF Numbers
    <3> QED BY <1>9, <3>1 DEF CodeAccepted, Unspent, Row
  <2>3. q.copy.seed # NoSeed /\ q.copy.seed \in Nat /\ q.step \in Nat
        BY <1>0a, <1>9 DEF CodeAccepted, Matches, Row
  <2>4. op \in {"enable", "session"} OBVIOUS
  <2> HIDE DEF op
  <2>5. Numbers' BY <1>0, <1>0a, <2>1, <2>2, <2>3, <2>4 DEF Numbers
  <2> QED BY <2>1, <2>2, <2>3, <2>4, <2>5, Moving
<1>10. ASSUME NEW q \in requests, Enable(q) PROVE IInv'
  <2>1. /\ requests' = (requests \ {q}) \cup {[q EXCEPT !.op = "session"]}
        /\ UNCHANGED <<now, sessions, seeds, landed, rolledBack, spent>>
        BY <1>10 DEF Enable
  <2>2. /\ factor' \in Row /\ factor'.seed = factor.seed /\ factor'.generation = factor.generation
        /\ factor'.lastStep = factor.lastStep /\ factor.lastStep \in Nat
    <3>1. factor \in Row BY <1>0 DEF Numbers
    <3> QED BY <1>10, <3>1 DEF Enable, Row
  <2>3. Numbers' BY <1>0, <1>0a, <2>1, <2>2 DEF Numbers
  <2> QED BY <2>1, <2>2, <2>3, Moving
<1>11. ASSUME NEW q \in requests, IssueSession(q) PROVE IInv'
  <2>1. /\ requests' = requests \ {q}
        /\ sessions' = sessions \cup {[generation |-> q.copy.generation, era |-> q.era]}
        /\ UNCHANGED <<factor, now, seeds, landed, rolledBack, spent>>
        BY <1>11 DEF IssueSession, Ends
  <2>2. Numbers' BY <1>0, <1>0a, <1>0b, <2>1 DEF Numbers
  <2>3. factor.lastStep <= factor'.lastStep BY <1>0, <2>1 DEF Numbers, Row
  <2> QED BY <2>1, <2>2, <2>3, Moving
<1>12. ASSUME NEW q \in requests, ResetWrites(q) PROVE IInv'
  <2>1. /\ requests' = requests \ {q} /\ landed' = landed + 1
        /\ UNCHANGED <<now, sessions, seeds, spent>>
        /\ rolledBack' = (rolledBack \/ q.copy.generation # factor.generation)
        BY <1>12 DEF ResetWrites, Ends
  <2>2. /\ factor' \in Row /\ factor'.seed = NoSeed
        /\ factor'.generation = q.copy.generation + 1
    <3>1. factor \in Row /\ q.copy.generation + 1 \in Nat BY <1>0, <1>0a DEF Numbers, Row
    <3> QED BY <1>12, <3>1 DEF ResetWrites, ResetRow, Row, NoSeed
  <2>3. Numbers' BY <1>0, <2>1, <2>2 DEF Numbers
  <2>4. SeedsMinted' BY <1>0, <2>1, <2>2 DEF SeedsMinted, Numbers, NoSeed
  <2>5. UnsavedIsNew' BY <1>0, <2>1, <2>2 DEF UnsavedIsNew, SeedsMinted
  <2>6. SpentRemembered' BY <1>0, <2>1, <2>2 DEF SpentRemembered, SeedsMinted
  <2>7. GenerationsGrow'
    <3> SUFFICES ASSUME ~rolledBack' PROVE GenerationsGrow' BY DEF GenerationsGrow
    <3>1. ~rolledBack /\ factor'.generation = factor.generation + 1
          BY <2>1, <2>2
    <3>2. /\ \A r \in requests : r.copy.generation \in Nat /\ r.era \in Nat
          /\ \A s \in sessions : s.generation \in Nat /\ s.era \in Nat
          /\ factor.generation \in Nat /\ landed \in Nat
          BY <1>0, <1>0a DEF Numbers, Row
    <3> QED BY <1>0, <2>1, <3>1, <3>2 DEF GenerationsGrow, Earlier
  <2> QED BY <2>3, <2>4, <2>5, <2>6, <2>7 DEF IInv
<1> QED BY <1>1, <1>2, <1>3, <1>4, <1>5, <1>6, <1>7, <1>8, <1>9, <1>10, <1>11, <1>12 DEF Next

LEMMA Inductive == ASSUME CodeBounds PROVE Spec => []IInv
<1>1. IInv /\ [Next]_vars => IInv' BY Step
<1> QED BY <1>1, Start, PTL DEF Spec

-----------------------------------------------------------------------------
(* vault_mfa.go, VaultSessionRequired: a session that is accepted was asked *)
(* for after the last reset that took effect, unless a generation went back. *)
THEOREM ResetsEnd == ASSUME CodeBounds PROVE Spec => []ResetEndsSessions
<1>1. IInv => ResetEndsSessions
      BY DEF IInv, GenerationsGrow, Earlier, ResetEndsSessions, Accepted, Numbers, Row
<1> QED BY <1>1, Inductive, PTL

(* checkVaultCode: of any number of requests with one code, one is let in, *)
(* unless the seed was replaced while they were under way.                 *)
THEOREM OpensOnce == ASSUME CodeBounds PROVE Spec => CodeOpensOnce
<1>1. IInv /\ [Next]_vars =>
        [LetsInOnce]_vars
  <2> SUFFICES ASSUME IInv, [Next]_vars, NEW q \in requests,
                      q.op \in {"confirm", "verify"}, q \notin requests',
                      NEW op \in {"enable", "session"}, [q EXCEPT !.op = op] \in requests' \ requests,
                      <<q.copy.seed, q.step>> \in spent, factor.seed = q.copy.seed
               PROVE  FALSE
      BY DEF LetsInOnce
  <2>1. CodeAccepted(q)
    <3>1. ~\E r \in requests : requests' = requests \ {r} OBVIOUS
    <3>2. ~(requests \subseteq requests') OBVIOUS
    <3>3. \E r \in requests : CodeAccepted(r) \/ Enable(r)
          BY <3>1, <3>2 DEF Next, vars, Tick, SetupBegins, CodeBegins, ResetBegins, Begins,
             SetupSaves, CodeRefused, CodeFails, IssueSession, ResetWrites, Ends
    <3> QED BY <3>3 DEF CodeAccepted, Enable
  <2>2. factor.lastStep < q.step BY <2>1 DEF CodeAccepted, Unspent
  <2>3. q.step <= factor.lastStep BY DEF IInv, SpentRemembered
  <2> QED BY <2>2, <2>3 DEF IInv, Numbers, Row
<1> QED BY <1>1, Inductive, PTL DEF Spec, CodeOpensOnce

(* The types of VaultCode.  A setup's number is a seed, any other request's *)
(* a window; each reset that lands was asked for, by a request of its own,  *)
(* and moves on by one a generation that some row had.                      *)
RequestKinds == {"setup", "confirm", "verify", "enable", "session", "reset"}
RequestType == [op : RequestKinds, copy : Factor, step : 0..MaxStep + MaxSeeds,
                era : 0..MaxResets, slot : 1..MaxRequests]
Numbered(q) ==
    /\ q.step \in IF q.op = "setup" THEN 1..MaxSeeds ELSE 0..MaxStep
    /\ q.copy.generation <= landed + 1
Resetting == {q \in requests : q.op = "reset"}
CodeInv ==
    /\ TypeOK
    /\ factor.generation <= landed + 1
    /\ \A q \in requests : Numbered(q)
    /\ IsFiniteSet(requests) /\ landed + Cardinality(Resetting) <= resets

(* The least values are within the bounds. *)
LEMMA CodeRanges ==
    ASSUME CodeBounds
    PROVE  /\ 0 \in 0..MaxSeeds /\ 0 \in 0..MaxStep /\ 0 \in 0..MaxFailures
           /\ 0 \in 0..MaxResets + 1 /\ 1 \in 0..MaxResets + 1 /\ 0 \in 0..MaxStep + LockSteps
           /\ 1 \in 1..MaxStep /\ 0 \in 0..MaxResets /\ 0 \in 0..0
BY DEF CodeBounds

LEMMA CodeBegan ==
    ASSUME CodeBounds, CodeInv, NEW op \in {"setup", "confirm", "verify", "reset"},
           NEW step \in 0..MaxStep + MaxSeeds, Begins(op, step),
           UNCHANGED <<factor, now, sessions, landed, spent, rolledBack>>,
           step \in IF op = "setup" THEN 1..MaxSeeds ELSE 0..MaxStep,
           seeds' \in 0..MaxSeeds, resets' \in 0..MaxResets, resets <= resets',
           op = "reset" => resets' = resets + 1
    PROVE  CodeInv'
<1> DEFINE slot == CHOOSE n \in Free : TRUE
<1>1. slot \in 1..MaxRequests BY DEF Begins, Free
<1>2. requests' = requests \cup
         {[op |-> op, copy |-> factor, step |-> step, era |-> landed, slot |-> slot]}
      BY DEF Begins
<1> HIDE DEF slot
<1>3. /\ factor \in Factor /\ landed \in Nat /\ resets \in Nat /\ landed \in 0..resets
      /\ resets \in 0..MaxResets /\ factor.generation <= landed + 1
      BY DEF CodeBounds, CodeInv, TypeOK
<1>4. landed \in 0..MaxResets BY <1>3 DEF CodeBounds
<1>5. PICK new : new = [op |-> op, copy |-> factor, step |-> step, era |-> landed, slot |-> slot]
      OBVIOUS
<1>6. /\ requests' = requests \cup {new} /\ new \in RequestType
      /\ new.op = op /\ new.copy = factor /\ new.step = step
      BY <1>1, <1>2, <1>3, <1>4, <1>5 DEF RequestType, RequestKinds
<1>7. Numbered(new)' /\ \A q \in requests : Numbered(q)'
  <2>1. landed' = landed OBVIOUS
  <2>2. Numbered(new)' BY <1>3, <1>6, <2>1 DEF Numbered
  <2>3. \A q \in requests : Numbered(q)' BY <2>1 DEF Numbered, CodeInv
  <2> QED BY <2>2, <2>3
<1>8. landed' \in 0..resets' BY <1>3
<1>9. TypeOK' BY <1>6, <1>8 DEF CodeInv, TypeOK, RequestType, RequestKinds
<1>10. IsFiniteSet(requests') BY <1>6, FS_AddElement DEF CodeInv
<1>11. IsFiniteSet(Resetting) BY FS_Subset DEF CodeInv, Resetting
<1>12. Resetting' = IF op = "reset" THEN Resetting \cup {new} ELSE Resetting
       BY <1>6 DEF Resetting
<1>13. Cardinality(Resetting) \in Nat BY <1>11, FS_CardinalityType
<1>14. Cardinality(Resetting') <= Cardinality(Resetting) + (resets' - resets)
  <2>1. CASE op = "reset"
    <3>1. Cardinality(Resetting \cup {new}) =
             IF new \in Resetting THEN Cardinality(Resetting) ELSE Cardinality(Resetting) + 1
          BY <1>11, FS_AddElement
    <3>2. Cardinality(Resetting') = Cardinality(Resetting \cup {new}) BY <1>12, <2>1
    <3>3. resets' - resets = 1 BY <2>1, <1>3
    <3> QED BY <1>13, <3>1, <3>2, <3>3
  <2>2. CASE op # "reset"
    <3>1. Cardinality(Resetting') = Cardinality(Resetting) BY <1>12, <2>2
    <3>2. resets' \in Nat /\ resets <= resets' BY DEF CodeBounds
    <3> QED BY <1>3, <1>13, <3>1, <3>2
  <2> QED BY <2>1, <2>2
<1>15. landed' + Cardinality(Resetting') <= resets'
  <2>1. landed + Cardinality(Resetting) <= resets BY DEF CodeInv
  <2>2. Cardinality(Resetting') \in Nat
        BY <1>10, <1>12, FS_Subset, FS_CardinalityType DEF Resetting
  <2>3. resets' \in Nat BY DEF CodeBounds
  <2> QED BY <1>3, <1>13, <1>14, <2>1, <2>2, <2>3
<1> QED BY <1>3, <1>6, <1>7, <1>9, <1>10, <1>15 DEF CodeInv

(* A request ends, or goes on; only a reset ends one that was asked for. *)
LEMMA CodeWent ==
    ASSUME CodeBounds, CodeInv, NEW q \in requests,
           \/ requests' = requests \ {q}
           \/ \E op \in {"enable", "session"} :
                  q.op \in {"confirm", "verify", "enable"} /\ requests' = (requests \ {q}) \cup {[q EXCEPT !.op = op]},
           factor' \in Factor, factor'.generation <= landed' + 1,
           sessions' \subseteq [generation : 0..MaxResets + 1, era : 0..MaxResets],
           spent' \subseteq (1..MaxSeeds) \X (1..MaxStep), rolledBack' \in BOOLEAN,
           UNCHANGED <<now, seeds, resets>>,
           landed' = landed \/ (landed' = landed + 1 /\ q.op = "reset" /\ requests' = requests \ {q})
    PROVE  CodeInv'
<1>1. /\ requests \subseteq RequestType /\ \A r \in requests : Numbered(r)
      /\ landed \in Nat /\ resets \in Nat
      BY DEF CodeBounds, CodeInv, TypeOK, RequestType, RequestKinds
<1>2. \A r \in requests' : r \in RequestType /\ Numbered(r)'
  <2>1. \A r \in requests : Numbered(r)'
    <3>1. \A r \in requests : r.copy.generation \in Nat BY <1>1 DEF RequestType, Factor, CodeBounds
    <3> QED BY <1>1, <3>1 DEF Numbered
  <2>2. ASSUME NEW op \in {"enable", "session"}, q.op \in {"confirm", "verify", "enable"}
        PROVE  [q EXCEPT !.op = op] \in RequestType /\ Numbered([q EXCEPT !.op = op])'
    <3>1. q \in RequestType /\ q.op # "setup" /\ Numbered(q)' BY <1>1, <2>1, <2>2
    <3> DEFINE r == [q EXCEPT !.op = op]
    <3>2. r \in RequestType /\ r.op = op /\ r.step = q.step /\ r.copy = q.copy
          BY <3>1 DEF RequestType, RequestKinds
    <3> HIDE DEF r
    <3>3. Numbered(r)' BY <3>1, <3>2 DEF Numbered
    <3> QED BY <3>2, <3>3 DEF r
  <2> QED BY <1>1, <2>1, <2>2
<1>3. IsFiniteSet(requests) /\ IsFiniteSet(requests \ {q}) BY FS_RemoveElement DEF CodeInv
<1>4. IsFiniteSet(requests')
  <2>1. \A r : IsFiniteSet((requests \ {q}) \cup {r}) BY <1>3, FS_AddElement
  <2> QED BY <1>3, <2>1
<1>5. IsFiniteSet(Resetting) /\ Cardinality(Resetting) \in Nat
      BY <1>3, FS_Subset, FS_CardinalityType DEF Resetting
<1>6. Resetting' = Resetting \ {q}
  <2>1. \A op \in {"enable", "session"} : [q EXCEPT !.op = op].op # "reset"
        BY <1>1 DEF RequestType
  <2> QED BY <2>1 DEF Resetting
<1>7. Cardinality(Resetting') = IF q \in Resetting THEN Cardinality(Resetting) - 1
                                ELSE Cardinality(Resetting)
      BY <1>5, <1>6, FS_RemoveElement
<1>8. landed + Cardinality(Resetting) <= resets BY DEF CodeInv
<1>9. Cardinality(Resetting') \in Nat BY <1>4, FS_Subset, FS_CardinalityType DEF Resetting
<1>10. landed' + Cardinality(Resetting') <= resets
  <2>1. CASE q.op = "reset"
    <3>1. q \in Resetting BY <2>1 DEF Resetting
    <3> QED BY <1>1, <1>5, <1>7, <1>8, <1>9, <3>1
  <2>2. CASE q.op # "reset" BY <1>1, <1>5, <1>7, <1>8, <1>9, <2>2
  <2> QED BY <2>1, <2>2
<1>11. landed' \in 0..resets' BY <1>1, <1>9, <1>10
<1>12. TypeOK' BY <1>2, <1>11 DEF CodeInv, TypeOK, RequestType, RequestKinds
<1> QED BY <1>2, <1>4, <1>10, <1>12 DEF CodeInv

(* vault_mfa.go: the row, its copies and the codes keep their types and bounds. *)
THEOREM CodesTyped == ASSUME CodeBounds PROVE Spec => []TypeOK
<1>1. Init => CodeInv
  <2> SUFFICES ASSUME Init PROVE CodeInv OBVIOUS
  <2>1. NoFactor \in Factor /\ NoFactor.generation = 0
        BY CodeRanges DEF NoFactor, Factor, NoSeed
  <2>2. requests = {} /\ Resetting = {} BY DEF Init, Resetting
  <2>3. TypeOK BY <2>1, <2>2, CodeRanges DEF Init, TypeOK
  <2> QED BY <2>1, <2>2, <2>3, FS_EmptySet DEF Init, CodeInv
<1>2. CodeInv /\ [Next]_vars => CodeInv'
  <2> SUFFICES ASSUME CodeInv, [Next]_vars PROVE CodeInv' OBVIOUS
  <2>0. /\ factor \in Factor /\ factor.generation \in Nat /\ landed \in Nat /\ resets \in Nat
        /\ now \in 1..MaxStep /\ seeds \in 0..MaxSeeds /\ resets \in 0..MaxResets
        /\ factor.generation <= landed + 1 /\ rolledBack \in BOOLEAN
        /\ landed \in 0..MaxResets
        /\ sessions \subseteq [generation : 0..MaxResets + 1, era : 0..MaxResets]
        /\ spent \subseteq (1..MaxSeeds) \X (1..MaxStep)
        BY DEF CodeInv, TypeOK, Factor, CodeBounds
  <2>q. \A q \in requests : /\ q \in RequestType /\ Numbered(q) /\ q.copy \in Factor
                            /\ q.copy.generation \in 0..MaxResets + 1
                            /\ q.step \in Nat /\ q.era \in 0..MaxResets
        BY DEF CodeInv, TypeOK, RequestType, RequestKinds, Factor
  <2>1. CASE UNCHANGED vars
    <3>1. UNCHANGED <<TypeOK, Resetting>> /\ \A q \in requests : Numbered(q)' = Numbered(q)
          BY <2>1 DEF vars, TypeOK, Resetting, Numbered
    <3> QED BY <2>1, <3>1 DEF vars, CodeInv
  <2>2. CASE Tick
    <3>1. now' \in 1..MaxStep BY <2>0, <2>2 DEF Tick, CodeBounds
    <3>2. TypeOK' BY <2>2, <3>1 DEF Tick, CodeInv, TypeOK
    <3>3. Resetting' = Resetting /\ \A q \in requests : Numbered(q)' = Numbered(q)
          BY <2>2 DEF Tick, Resetting, Numbered
    <3> QED BY <2>2, <3>2, <3>3 DEF Tick, CodeInv
  <2>3. CASE SetupBegins
    <3>1. seeds + 1 \in 1..MaxSeeds /\ seeds + 1 \in 0..MaxStep + MaxSeeds
          BY <2>0, <2>3 DEF SetupBegins, CodeBounds
    <3> QED BY <2>0, <2>3, <3>1, CodeBegan DEF SetupBegins
  <2>4. ASSUME NEW op \in {"confirm", "verify"}, NEW code \in 0..MaxStep, CodeBegins(op, code)
        PROVE  CodeInv'
    <3>1. code \in 0..MaxStep + MaxSeeds BY DEF CodeBounds
    <3> QED BY <2>0, <2>4, <3>1, CodeBegan DEF CodeBegins
  <2>5. CASE ResetBegins
    <3>1. 0 \in 0..MaxStep /\ 0 \in 0..MaxStep + MaxSeeds /\ resets + 1 \in 0..MaxResets
          BY <2>0, <2>5 DEF ResetBegins, CodeBounds
    <3> QED BY <2>0, <2>5, <3>1, CodeBegan DEF ResetBegins
  <2>6. ASSUME NEW q \in requests, SetupSaves(q) PROVE CodeInv'
    <3>1. q.step \in 1..MaxSeeds /\ q.step \in 0..MaxSeeds
          BY <2>q, <2>6 DEF SetupSaves, Numbered, CodeBounds
    <3> DEFINE g == IF q.copy.generation = 0 THEN 1 ELSE q.copy.generation
    <3>2. SetupRow(q) = [q.copy EXCEPT !.found = TRUE, !.enabled = FALSE, !.failures = 0,
                            !.lockedUntil = 0, !.lastStep = 0, !.seed = q.step, !.generation = g]
          BY <2>q DEF SetupRow, Factor
    <3>3. g \in 0..MaxResets + 1 /\ g <= landed + 1 BY <2>0, <2>q DEF CodeBounds, Numbered
    <3> HIDE DEF g
    <3>4. SetupRow(q) \in Factor /\ SetupRow(q).generation = g
          BY <2>q, <3>1, <3>2, <3>3, CodeRanges DEF Factor
    <3>5. factor' \in Factor /\ factor'.generation <= landed' + 1
          BY <2>0, <2>6, <3>3, <3>4 DEF SetupSaves
    <3> QED BY <2>0, <2>6, <3>5, CodeWent DEF SetupSaves, Ends
  <2>7. ASSUME NEW q \in requests, CodeRefused(q) PROVE CodeInv'
        BY <2>0, <2>7, CodeWent DEF CodeRefused, Ends
  <2>8. ASSUME NEW q \in requests, CodeFails(q) PROVE CodeInv'
    <3>1. now + LockSteps \in 0..MaxStep + LockSteps BY <2>0 DEF CodeBounds
    <3>2. q.copy.failures \in Nat BY <2>q DEF Factor, CodeBounds
    <3>3. q.copy.failures + 1 >= MaxFailures \/ q.copy.failures + 1 \in 0..MaxFailures
          BY <3>2 DEF CodeBounds
    <3>4. factor' \in Factor /\ factor'.generation = factor.generation
          BY <2>0, <2>8, <3>1, <3>3, CodeRanges DEF CodeFails, Factor
    <3> QED BY <2>0, <2>8, <3>4, CodeWent DEF CodeFails, Ends
  <2>9. ASSUME NEW q \in requests, CodeAccepted(q) PROVE CodeInv'
    <3>1. q.op # "setup" BY <2>9 DEF CodeAccepted
    <3>2. q.step \in 1..MaxStep /\ q.step \in 0..MaxStep
          BY <2>q, <2>9, <3>1 DEF CodeAccepted, Matches, WrongCode, Numbered, CodeBounds
    <3>3. q.copy.seed \in 1..MaxSeeds
          BY <2>q, <2>9 DEF CodeAccepted, Matches, NoSeed, Factor, CodeBounds
    <3>4. factor' \in Factor /\ factor'.generation = factor.generation
          BY <2>0, <2>9, <3>2, CodeRanges DEF CodeAccepted, Factor
    <3> QED BY <2>0, <2>9, <3>2, <3>3, <3>4, CodeWent DEF CodeAccepted
  <2>10. ASSUME NEW q \in requests, Enable(q) PROVE CodeInv'
    <3>1. factor' \in Factor /\ factor'.generation = factor.generation
          BY <2>0, <2>10 DEF Enable, Factor
    <3> QED BY <2>0, <2>10, <3>1, CodeWent DEF Enable
  <2>11. ASSUME NEW q \in requests, IssueSession(q) PROVE CodeInv'
        BY <2>0, <2>q, <2>11, CodeWent DEF IssueSession, Ends
  <2>12. ASSUME NEW q \in requests, ResetWrites(q) PROVE CodeInv'
    <3>1. landed + 1 <= resets
      <4>1. q \in Resetting BY <2>12 DEF Resetting, ResetWrites
      <4>2. IsFiniteSet(Resetting) BY FS_Subset DEF CodeInv, Resetting
      <4>3. Cardinality(Resetting) \in Nat /\ Cardinality(Resetting) # 0
            BY <4>1, <4>2, FS_CardinalityType, FS_EmptySet
      <4> QED BY <2>0, <4>3 DEF CodeInv
    <3>2. q.copy.generation <= landed + 1 /\ q.copy.generation \in Nat
          BY <2>q DEF Numbered, CodeBounds
    <3>3. q.copy.generation + 1 \in 0..MaxResets + 1
          BY <2>0, <3>1, <3>2 DEF CodeBounds
    <3>4. factor' \in Factor /\ factor'.generation = q.copy.generation + 1
          BY <2>0, <2>12, <3>3, CodeRanges DEF ResetWrites, ResetRow, Factor, NoSeed
    <3> QED BY <2>0, <2>12, <3>2, <3>4, CodeWent DEF ResetWrites, Ends
  <2> QED BY <2>1, <2>2, <2>3, <2>4, <2>5, <2>6, <2>7, <2>8, <2>9, <2>10, <2>11, <2>12
          DEF Next
<1>3. CodeInv => TypeOK BY DEF CodeInv
<1> QED BY <1>1, <1>2, <1>3, PTL DEF Spec

-----------------------------------------------------------------------------
(***************************************************************************)
(* The accounts (Accounts), for any accounts, any cap and any number of    *)
(* requests under way: no single request takes the number of root accounts *)
(* out of its bounds.  The invariant is what the checks of the handlers    *)
(* leave behind in a request: the count it made allows the write it makes. *)
(***************************************************************************)
CONSTANTS Users, FirstRoot, MaxRootUsers
VARIABLES
    role,    \* as in Accounts
    changing \* its requests: role changes and deletions under way
Root == INSTANCE Accounts WITH requests <- changing

(* The operators of FiniteSets that the instance brings are these. *)
LEMMA SameFinite == \A S : Root!IsFiniteSet(S) <=> IsFiniteSet(S)
BY Zenon DEF Root!IsFiniteSet, IsFiniteSet
LEMMA SameCardinality == \A S : Root!Cardinality(S) = Cardinality(S)
BY Zenon DEF Root!Cardinality, Cardinality, Root!IsFiniteSet, IsFiniteSet

(* The roots a request has counted allow its write. *)
CountAllows(q) ==
    /\ q.to = "root" => Cardinality(q.counted) < MaxRootUsers
    /\ q.to # "root" /\ q.user \in q.counted => Cardinality(q.counted) > 1

RootInv == Root!TypeOK /\ \A q \in changing : CountAllows(q)

LEMMA RootStart == Root!AccountsAssumption /\ Root!Init => RootInv
BY DEF Root!AccountsAssumption, Root!Init, RootInv, Root!TypeOK, Root!Roles, Root!NoAccount

(* A request that was allowed is a request of the right type. *)
LEMMA Asking ==
    ASSUME RootInv, NEW u \in Root!Accounts, NEW to \in Root!Roles \cup {Root!Deleted},
           Root!Asks(u, to),
           to = "root" => Cardinality(Root!Roots) < MaxRootUsers,
           to # "root" /\ role[u] = "root" => Cardinality(Root!Roots) > 1
    PROVE  RootInv'
<1> DEFINE slot == CHOOSE n \in Root!Free : TRUE
           q == [user |-> u, from |-> role[u], to |-> to, counted |-> Root!Roots, slot |-> slot]
<1>1. changing' = changing \cup {q} /\ role' = role BY DEF Root!Asks
<1>2. u \in Users /\ role[u] \in Root!Roles /\ Root!Roots \in SUBSET Users
      BY DEF Root!Accounts, Root!Roots
<1>2a. slot \in 1..MaxRequests BY DEF Root!Asks, Root!Free
<1> HIDE DEF slot
<1>3. q \in [user : Users, from : Root!Roles, to : Root!Roles \cup {Root!Deleted},
             counted : SUBSET Users, slot : 1..MaxRequests]
      BY <1>2, <1>2a
<1>4. CountAllows(q) BY <1>2 DEF CountAllows, Root!Roots
<1> HIDE DEF q
<1> QED BY <1>1, <1>3, <1>4 DEF RootInv, Root!TypeOK, CountAllows

LEMMA RootStep == Root!AccountsAssumption /\ RootInv /\ [Root!Next]_(Root!vars) => RootInv'
<1> SUFFICES ASSUME Root!AccountsAssumption, RootInv, [Root!Next]_(Root!vars)
             PROVE  RootInv'
    OBVIOUS
<1>1. CASE UNCHANGED Root!vars BY <1>1 DEF Root!vars, RootInv, Root!TypeOK, CountAllows
<1>2. ASSUME NEW c \in Users, NEW u \in Users, NEW r \in Root!Roles, Root!CreateUser(c, u, r)
      PROVE  RootInv'
      BY <1>2 DEF Root!CreateUser, RootInv, Root!TypeOK, CountAllows, Root!Roles,
                 Root!NoAccount, Root!Deleted
<1>3. ASSUME NEW c \in Users, NEW u \in Users, NEW to \in Root!Roles, Root!RoleChangeBegins(c, u, to)
      PROVE  RootInv'
      BY <1>3, Asking, SameCardinality DEF Root!RoleChangeBegins, Root!MayChange
<1>4. ASSUME NEW c \in Users, NEW u \in Users, Root!DeletionBegins(c, u) PROVE RootInv'
      BY <1>4, Asking, SameCardinality DEF Root!DeletionBegins, Root!MayDelete, Root!Deleted
<1>5. ASSUME NEW q \in changing, Root!Write(q) PROVE RootInv'
      BY <1>5 DEF Root!Write, RootInv, Root!TypeOK, CountAllows
<1> QED BY <1>1, <1>2, <1>3, <1>4, <1>5 DEF Root!Next

LEMMA RootInvariant == ASSUME Root!AccountsAssumption PROVE Root!Spec => []RootInv
<1>1. Root!Init => RootInv BY RootStart
<1>2. RootInv /\ [Root!Next]_(Root!vars) => RootInv' BY RootStep
<1> QED BY <1>1, <1>2, PTL DEF Root!Spec

(* A write by a request whose count still stands keeps to the bounds. *)
LEMMA WriteKeeps ==
    ASSUME Root!AccountsAssumption, RootInv, Root!WithinBounds, NEW q \in changing, Root!Write(q),
           q.counted = Root!Roots
    PROVE  Root!WithinBounds'
<1>0. /\ IsFiniteSet(Root!Roots) /\ Cardinality(Root!Roots) \in 1..MaxRootUsers
      /\ MaxRootUsers \in Nat /\ Cardinality(Root!Roots) \in Nat
  <2>1. IsFiniteSet(Root!Roots) BY FS_Subset, SameFinite DEF Root!AccountsAssumption, Root!Roots
  <2> QED BY <2>1, FS_CardinalityType, SameCardinality
         DEF Root!AccountsAssumption, Root!WithinBounds
<1>1. CountAllows(q) /\ q.user \in Users BY DEF RootInv, Root!TypeOK
<1>2. CASE q.user \notin Root!Accounts BY <1>2 DEF Root!Write, Root!WithinBounds, Root!Roots
<1>3. CASE q.user \in Root!Accounts /\ q.to = "root"
  <2>1. Root!Roots' = Root!Roots \cup {q.user} BY <1>1, <1>3 DEF Root!Write, Root!Roots,
                                                                 RootInv, Root!TypeOK
  <2>2. Cardinality(Root!Roots) < MaxRootUsers BY <1>1, <1>3 DEF CountAllows
  <2>3. Cardinality(Root!Roots') = IF q.user \in Root!Roots THEN Cardinality(Root!Roots)
                              ELSE Cardinality(Root!Roots) + 1
        BY <1>0, <2>1, FS_AddElement
  <2> QED BY <1>0, <2>2, <2>3, SameCardinality DEF Root!WithinBounds
<1>4. CASE q.user \in Root!Accounts /\ q.to # "root"
  <2>1. Root!Roots' = Root!Roots \ {q.user} BY <1>1, <1>4 DEF Root!Write, Root!Roots,
                                                              RootInv, Root!TypeOK
  <2>2. q.user \in Root!Roots => Cardinality(Root!Roots) > 1 BY <1>1, <1>4 DEF CountAllows
  <2>3. Cardinality(Root!Roots') = IF q.user \in Root!Roots THEN Cardinality(Root!Roots) - 1
                              ELSE Cardinality(Root!Roots)
        BY <1>0, <2>1, FS_RemoveElement
  <2> QED BY <1>0, <2>2, <2>3, SameCardinality DEF Root!WithinBounds
<1> QED BY <1>2, <1>3, <1>4

-----------------------------------------------------------------------------
(* The accounts and the requests under way are well formed. *)
THEOREM AccountsTyped == ASSUME Root!AccountsAssumption PROVE Root!Spec => []Root!TypeOK
BY RootInvariant, PTL DEF RootInv

(* users.go: the number of roots leaves 1..MaxRootUsers only by a write    *)
(* whose count another write has overtaken, for any cap and any number of  *)
(* requests at once.                                                       *)
THEOREM OnlyRacesBreakTheBounds ==
    ASSUME Root!AccountsAssumption PROVE Root!Spec => Root!RootsStayWithinBounds
<1>1. RootInv /\ [Root!Next]_(Root!vars) =>
        [Root!LeavesBoundsOnlyMiscounted]_(Root!vars)
  <2> SUFFICES ASSUME RootInv, [Root!Next]_(Root!vars), Root!WithinBounds, ~Root!WithinBounds'
               PROVE  \E q \in changing \ changing' : q.counted # Root!Roots
      BY DEF Root!LeavesBoundsOnlyMiscounted
  <2>1. Root!Roots' # Root!Roots BY DEF Root!WithinBounds
  <2>2. PICK q \in changing : Root!Write(q)
    <3>1. ~UNCHANGED Root!vars BY <2>1 DEF Root!vars, Root!Roots
    <3>2. ~\E c \in Users, u \in Users, r \in Root!Roles : Root!CreateUser(c, u, r)
          BY <2>1 DEF Root!CreateUser, Root!Roots, Root!NoAccount, RootInv, Root!TypeOK
    <3>3. role' # role BY <2>1 DEF Root!Roots
    <3> QED BY <3>1, <3>2, <3>3 DEF Root!Next, Root!RoleChangeBegins, Root!DeletionBegins,
                                    Root!Asks
  <2>3. q.counted # Root!Roots BY <2>2, WriteKeeps
  <2> QED BY <2>2, <2>3 DEF Root!Write
<1> QED BY <1>1, RootInvariant, PTL DEF Root!Spec, Root!RootsStayWithinBounds

-----------------------------------------------------------------------------
(***************************************************************************)
(* The items of a vault (VaultItems), for any browsers and any bounds: its *)
(* types, and that no edit of an item is lost.                             *)
(*                                                                         *)
(* A version stands for one text of the row: the invariant says that what  *)
(* a list, a form or an edit under way holds of the version on disk is     *)
(* the text on disk, and that none of them is ahead of it.  Every edit     *)
(* that lands moves the version past all the copies taken of it.           *)
(***************************************************************************)
CONSTANTS Editor, MaxText
VARIABLES item, list, form, edits, written
Items == INSTANCE VaultItems WITH requests <- edits

(* A list is not ahead of the row, and shows the text of its version. *)
ListsTrue ==
    \A e \in Editor : list[e].shown =>
        /\ item.state # "unmade"
        /\ list[e].version <= item.version
        /\ list[e].version = item.version => list[e].overview = item.text

(* A form belongs to the list it was opened from; its secret is no older. *)
FormsTrue ==
    \A e \in Editor : form[e].open =>
        /\ list[e].shown
        /\ form[e].loaded /\ list[e].version = item.version
             => form[e].secret \in {item.text, Items!Blank}

(* An edit was put together from the text of its base version. *)
EditTrue(q) ==
    /\ q.base <= q.read /\ q.read <= item.version
    /\ q.base = item.version => q.overview = item.text /\ q.secret \in {item.text, Items!Blank}
EditsTrue == \A q \in edits : item.state # "unmade" /\ EditTrue(q)

ItemInv == Items!TypeOK /\ ListsTrue /\ FormsTrue /\ EditsTrue

(* An editor stays typed when it opens and when its secret arrives. *)
FormType == [open : BOOLEAN, loaded : BOOLEAN, secret : 0..MaxText]
LEMMA FormTyped ==
    ASSUME MaxText \in Nat
    PROVE  /\ \A f \in FormType : [f EXCEPT !.open = TRUE] \in FormType
           /\ \A f \in FormType, s \in 0..MaxText :
                 [f EXCEPT !.loaded = TRUE, !.secret = s] \in FormType
<1>1. ASSUME NEW f \in FormType PROVE [f EXCEPT !.open = TRUE] \in FormType BY DEF FormType
<1>2. ASSUME NEW f \in FormType, NEW s \in 0..MaxText
      PROVE  [f EXCEPT !.loaded = TRUE, !.secret = s] \in FormType
      BY DEF FormType
<1> QED BY Zenon, <1>1, <1>2

(* Every step of the server and of a browser keeps the invariant. *)
LEMMA ItemStep == Items!ItemBounds /\ ItemInv /\ [Items!Next]_(Items!vars) => ItemInv'
<1> SUFFICES ASSUME Items!ItemBounds, ItemInv, [Items!Next]_(Items!vars) PROVE ItemInv' OBVIOUS
<1>0. /\ Items!TypeOK /\ ListsTrue /\ FormsTrue /\ EditsTrue /\ MaxText \in Nat
      BY DEF ItemInv, Items!ItemBounds
<1> USE <1>0
<1>1. CASE UNCHANGED Items!vars
  BY <1>1 DEF Items!vars, ItemInv, Items!TypeOK, ListsTrue, FormsTrue, EditsTrue, EditTrue
<1>2. CASE Items!CreateItem
  <2>1. \A e \in Editor : ~list[e].shown /\ ~form[e].open
        BY <1>2 DEF Items!CreateItem, ListsTrue, FormsTrue
  <2>2. edits = {} BY <1>2 DEF Items!CreateItem, EditsTrue
  <2>3. Items!TypeOK' BY <1>2, <2>2 DEF Items!CreateItem, Items!TypeOK
  <2> QED BY <1>2, <2>1, <2>2, <2>3 DEF Items!CreateItem, ItemInv, ListsTrue, FormsTrue,
                                        EditsTrue
<1>3. CASE Items!DeleteItem
  <2>1. Items!TypeOK' BY <1>3 DEF Items!DeleteItem, Items!TypeOK
  <2>2. UNCHANGED <<list, form, edits>> /\ item'.version = item.version
        /\ item'.text = item.text /\ item'.state # "unmade"
        BY <1>3 DEF Items!DeleteItem, Items!TypeOK
  <2> QED BY <2>1, <2>2 DEF ItemInv, ListsTrue, FormsTrue, EditsTrue, EditTrue
<1>4. ASSUME NEW e \in Editor, Items!LoadItems(e) PROVE ItemInv'
  <2>1. Items!TypeOK' BY <1>4 DEF Items!LoadItems, Items!TypeOK, Items!Nothing,
                                  Items!Closed,
                           Items!Blank
  <2>2. ListsTrue' BY <1>4 DEF Items!LoadItems, ListsTrue, Items!TypeOK, Items!Nothing
  <2>3. FormsTrue' BY <1>4 DEF Items!LoadItems, FormsTrue, Items!TypeOK, Items!Closed
  <2>4. EditsTrue' BY <1>4 DEF Items!LoadItems, EditsTrue, EditTrue
  <2> QED BY <2>1, <2>2, <2>3, <2>4 DEF ItemInv
<1>5. ASSUME NEW e \in Editor, Items!OpenEditor(e) PROVE ItemInv'
  <2>1. Items!TypeOK'
    <3>1. Items!Closed \in FormType BY DEF Items!Closed, Items!Blank, FormType
    <3>2. [Items!Closed EXCEPT !.open = TRUE] \in FormType BY Zenon, <3>1, FormTyped
    <3> QED BY <1>5, <3>2 DEF Items!OpenEditor, Items!TypeOK, FormType
  <2>2. FormsTrue' BY <1>5 DEF Items!OpenEditor, FormsTrue, Items!TypeOK, Items!Closed
  <2> QED BY <1>5, <2>1, <2>2 DEF Items!OpenEditor, ItemInv, ListsTrue, EditsTrue, EditTrue
<1>6. ASSUME NEW e \in Editor, Items!Reveal(e) PROVE ItemInv'
  <2>1. PICK answer \in {Items!Blank} \cup (IF Items!Live THEN {item.text} ELSE {}) :
           form' = [form EXCEPT ![e].loaded = TRUE, ![e].secret = answer]
        BY <1>6 DEF Items!Reveal
  <2>2. answer \in {item.text, Items!Blank} OBVIOUS
  <2>3. Items!TypeOK'
    <3>1. answer \in 0..MaxText /\ form[e] \in FormType
          BY <2>2 DEF Items!TypeOK, Items!Blank, FormType
    <3>2. [form[e] EXCEPT !.loaded = TRUE, !.secret = answer] \in FormType
          BY Zenon, <3>1, FormTyped
    <3>3. form' = [form EXCEPT ![e] = [form[e] EXCEPT !.loaded = TRUE, !.secret = answer]]
          BY <2>1 DEF Items!TypeOK
    <3> QED BY <1>6, <3>2, <3>3 DEF Items!Reveal, Items!TypeOK, FormType
  <2>4. FormsTrue' BY <1>6, <2>1, <2>2 DEF Items!Reveal, FormsTrue, Items!TypeOK
  <2> QED BY <1>6, <2>3, <2>4 DEF Items!Reveal, ItemInv, ListsTrue, EditsTrue, EditTrue
<1>7. ASSUME NEW e \in Editor, Items!Cancel(e) PROVE ItemInv'
  <2>1. Items!TypeOK' BY <1>7 DEF Items!Cancel, Items!TypeOK, Items!Closed, Items!Blank
  <2>2. FormsTrue' BY <1>7 DEF Items!Cancel, FormsTrue, Items!TypeOK, Items!Closed
  <2> QED BY <1>7, <2>1, <2>2 DEF Items!Cancel, ItemInv, ListsTrue, EditsTrue, EditTrue
<1>8. ASSUME NEW e \in Editor, Items!SaveItem(e) PROVE ItemInv'
  <2> DEFINE edit == [base |-> list[e].version, read |-> item.version,
                      overview |-> list[e].overview, secret |-> form[e].secret,
                      text |-> written + 1]
  <2>1. list[e].shown /\ edits' = edits \cup {edit} /\ UNCHANGED <<item, list, form>>
        /\ form[e].open /\ form[e].loaded /\ written < MaxText /\ written' = written + 1
        BY <1>8 DEF Items!SaveItem, FormsTrue
  <2>2. /\ list[e].version \in Nat /\ list[e].overview \in 0..MaxText /\ item.version \in Nat
        /\ form[e].secret \in 0..MaxText /\ written + 1 \in 1..MaxText
        BY <2>1 DEF Items!TypeOK
  <2>3. Items!TypeOK'
    <3>1. edit \in [base : Nat, read : Nat, overview : 0..MaxText, secret : 0..MaxText,
                    text : 1..MaxText]
          BY <2>2
    <3> HIDE DEF edit
    <3> QED BY <2>1, <2>2, <3>1 DEF Items!TypeOK
  <2>4. EditTrue(edit) BY <2>1, <2>2 DEF EditTrue, ListsTrue, FormsTrue
  <2>5. item.state # "unmade" BY <2>1 DEF ListsTrue
  <2> HIDE DEF edit
  <2>6. EditsTrue' BY <2>1, <2>4, <2>5 DEF EditsTrue, EditTrue
  <2> QED BY <2>1, <2>3, <2>6 DEF ItemInv, ListsTrue, FormsTrue
<1>9. ASSUME NEW q \in edits, Items!UpdateVaultItem(q) PROVE ItemInv'
  <2>1. CASE item' = item
    BY <1>9, <2>1 DEF Items!UpdateVaultItem, ItemInv, Items!TypeOK, ListsTrue, FormsTrue,
                      EditsTrue, EditTrue
  <2>2. CASE item' # item
    <3>1. /\ item.version = q.base /\ q.text \in 1..MaxText
          /\ item' = [item EXCEPT !.version = q.read + 1, !.text = q.text]
          BY <1>9, <2>2 DEF Items!UpdateVaultItem, Items!Updated, Items!TypeOK
    <3>2. q.read = item.version
      <4>1. q.base \in Nat /\ q.read \in Nat /\ item.version \in Nat BY DEF Items!TypeOK
      <4>2. q.base <= q.read /\ q.read <= item.version BY DEF EditsTrue, EditTrue
      <4> QED BY <3>1, <4>1, <4>2
    <3>3. /\ item'.version = item.version + 1 /\ item.version \in Nat
          /\ item'.state = item.state
          BY <3>1, <3>2 DEF Items!TypeOK
    <3>4. Items!TypeOK'
      <4>1. item' = [state |-> item.state, version |-> q.read + 1, text |-> q.text]
            BY <3>1 DEF Items!TypeOK
      <4>2. q.read + 1 \in Nat /\ q.text \in 0..MaxText BY <3>1, <3>2, <3>3
      <4> QED BY <1>9, <4>1, <4>2 DEF Items!UpdateVaultItem, Items!TypeOK
    <3>5. ListsTrue' BY <1>9, <3>3 DEF Items!UpdateVaultItem, ListsTrue, Items!TypeOK
    <3>6. FormsTrue'
      <4>1. \A f \in Editor : list[f].shown => list[f].version # item'.version
            BY <3>3 DEF ListsTrue, Items!TypeOK
      <4> QED BY <1>9, <4>1 DEF Items!UpdateVaultItem, FormsTrue
    <3>7. EditsTrue' BY <1>9, <3>3 DEF Items!UpdateVaultItem, EditsTrue, EditTrue,
                                       Items!TypeOK
    <3> QED BY <3>4, <3>5, <3>6, <3>7 DEF ItemInv
  <2> QED BY <2>1, <2>2
<1> QED BY <1>1, <1>2, <1>3, <1>4, <1>5, <1>6, <1>7, <1>8, <1>9 DEF Items!Next

LEMMA ItemStart == Items!ItemBounds /\ Items!Init => ItemInv
BY DEF Items!ItemBounds, Items!Init, ItemInv, Items!TypeOK, ListsTrue, FormsTrue,
       EditsTrue, Items!Unmade, Items!Nothing, Items!Closed, Items!Blank

LEMMA ItemInvariant == ASSUME Items!ItemBounds PROVE Items!Spec => []ItemInv
<1>1. Items!Init => ItemInv BY ItemStart
<1>2. ItemInv /\ [Items!Next]_(Items!vars) => ItemInv' BY ItemStep
<1> QED BY <1>1, <1>2, PTL DEF Items!Spec

-----------------------------------------------------------------------------
(* The item, the lists, the forms and the edits under way are well formed. *)
THEOREM ItemsTyped == ASSUME Items!ItemBounds PROVE Items!Spec => []Items!TypeOK
BY ItemInvariant, PTL DEF ItemInv

(* vault.go, UpdateVaultItem: an edit that lands has replaced the overview *)
(* and the secret that its author was looking at, for any number of        *)
(* browsers and of edits under way at once.                                *)
THEOREM NoneLost == ASSUME Items!ItemBounds PROVE Items!Spec => Items!NoEditIsLost
<1>1. ItemInv /\ [Items!Next]_(Items!vars) =>
        [Items!EditsKept]_(Items!vars)
  <2> SUFFICES ASSUME ItemInv, [Items!Next]_(Items!vars), NEW q \in edits, q \notin edits',
                      item'.text # item.text
               PROVE  q.overview = item.text /\ q.secret \in {item.text, Items!Blank}
      BY DEF Items!EditsKept
  <2>1. Items!UpdateVaultItem(q)
    <3>1. \E r \in edits : Items!UpdateVaultItem(r)
          BY DEF Items!Next, Items!vars, Items!CreateItem, Items!DeleteItem,
                 Items!LoadItems, Items!OpenEditor, Items!Reveal, Items!Cancel,
                 Items!SaveItem
    <3> QED BY <3>1 DEF Items!UpdateVaultItem
  <2>2. item.version = q.base BY <2>1 DEF Items!UpdateVaultItem, Items!Updated
  <2> QED BY <2>2 DEF ItemInv, EditsTrue, EditTrue
<1> QED BY <1>1, ItemInvariant, PTL DEF Items!Spec, Items!NoEditIsLost

-----------------------------------------------------------------------------
(***************************************************************************)
(* Password and authenticator (SignIn), for any number of setups and of    *)
(* requests under way: an account that asks for a code can be signed in    *)
(* to, and a code unlocks secrets once.                                    *)
(*                                                                         *)
(* A setup that goes on while the account is not set up reads a row that   *)
(* is not on; a confirmation, one whose seed was shown.  While nothing was *)
(* written over a row changed meanwhile, what is written is of that row.   *)
(* And no window spent is later than the one remembered.                   *)
(***************************************************************************)
CONSTANTS LastStep
VARIABLES user, ticket, asked, usedStep, taken, shown, crossed
Setup == INSTANCE SignIn WITH MaxStep <- LastStep, requests <- asked

(* The fields of the row and of the copies of it. *)
UserRow == [password : Nat, pending : Nat, seed : Nat, enabled : BOOLEAN, force : BOOLEAN]
SetupTyped ==
    /\ user \in UserRow
    /\ seeds \in Nat /\ now \in Nat /\ usedStep \in Nat /\ crossed \in BOOLEAN
    /\ \A q \in asked : q.copy \in UserRow /\ q.number \in Nat \ {0}
    /\ taken \subseteq Nat \X Nat

(* What was on when it was read had been set up then. *)
SetUpOnce ==
    /\ user.enabled => ~user.force
    /\ \A q \in asked : q.op = "init" => ~q.copy.enabled
(* Whoever confirms a setup has shown a code of the seed it read. *)
ConfirmedShown == \A q \in asked : q.op = "confirm" => q.copy.seed \in shown
(* Of the windows spent, the last is remembered. *)
TakenRemembered == \A p \in taken : p[2] <= usedStep

SetupInv == SetupTyped /\ SetUpOnce /\ ConfirmedShown /\ TakenRemembered /\ Setup!SetupIsWhole

LEMMA SetupStart == Setup!SignInBounds /\ Setup!Init => SetupInv
<1> SUFFICES ASSUME Setup!SignInBounds, Setup!Init PROVE SetupInv OBVIOUS
<1>1. PICK force \in BOOLEAN : user = [password |-> Setup!Given, pending |-> Setup!None,
                                      seed |-> Setup!None, enabled |-> FALSE, force |-> force]
      BY DEF Setup!Init
<1>2. Setup!Given \in Nat /\ Setup!None \in Nat
      BY DEF Setup!SignInBounds, Setup!Given, Setup!None
<1>3. user \in UserRow /\ ~user.enabled BY <1>1, <1>2 DEF UserRow
<1>4. /\ asked = {} /\ taken = {} /\ seeds \in Nat /\ now \in Nat /\ usedStep \in Nat
      /\ crossed \in BOOLEAN
      BY DEF Setup!Init
<1> QED BY <1>3, <1>4 DEF SetupInv, SetupTyped, SetUpOnce, ConfirmedShown, TakenRemembered,
                         Setup!SetupIsWhole

(* A request joins the others with a copy of the row. *)
LEMMA SetupBeginning ==
    ASSUME SetupInv, NEW op \in {"init", "confirm", "unlock"}, NEW number \in Nat \ {0},
           Setup!Begins(op, number), UNCHANGED <<user, now, usedStep, taken, crossed>>,
           seeds' \in Nat, shown \subseteq shown',
           op = "init" => ~Setup!SetUp,
           op = "confirm" => user.seed \in shown'
    PROVE  SetupInv'
<1> DEFINE slot == CHOOSE n \in Setup!Free : TRUE
           new == [op |-> op, copy |-> user, number |-> number, slot |-> slot]
<1>1. asked' = asked \cup {new} BY DEF Setup!Begins
<1>2. new.op = op /\ new.copy = user /\ new.number = number OBVIOUS
<1> HIDE DEF new
<1>3. SetupTyped' BY <1>1, <1>2 DEF SetupInv, SetupTyped
<1>4. SetUpOnce' BY <1>1, <1>2 DEF SetupInv, SetUpOnce, Setup!SetUp, SetupTyped, UserRow
<1>5. ConfirmedShown' BY <1>1, <1>2 DEF SetupInv, ConfirmedShown
<1>6. TakenRemembered' /\ Setup!SetupIsWhole'
      BY DEF SetupInv, TakenRemembered, Setup!SetupIsWhole
<1> QED BY <1>3, <1>4, <1>5, <1>6 DEF SetupInv

(* Every step keeps the invariant. *)
LEMMA SetupStep == Setup!SignInBounds /\ SetupInv /\ [Setup!Next]_(Setup!vars) => SetupInv'
<1> SUFFICES ASSUME Setup!SignInBounds, SetupInv, [Setup!Next]_(Setup!vars)
             PROVE  SetupInv'
    OBVIOUS
<1>0. SetupTyped /\ SetUpOnce /\ ConfirmedShown /\ TakenRemembered /\ Setup!SetupIsWhole
      BY DEF SetupInv
<1>1. CASE UNCHANGED Setup!vars
      BY <1>1 DEF Setup!vars, SetupInv, SetupTyped, SetUpOnce, ConfirmedShown, TakenRemembered,
                  Setup!SetupIsWhole
<1>2. CASE Setup!Login \/ Setup!TicketExpires \/ Setup!Tick
      BY <1>2 DEF Setup!Login, Setup!TicketExpires, Setup!Tick, SetupInv, SetupTyped, SetUpOnce,
                  ConfirmedShown, TakenRemembered, Setup!SetupIsWhole
<1>3. CASE Setup!SetupInit
  <2>1. seeds + 1 \in Nat \ {0} BY <1>0 DEF SetupTyped
  <2> QED BY <1>3, <2>1, SetupBeginning DEF Setup!SetupInit, Setup!MayInit
<1>4. CASE Setup!SetupConfirm
  <2>1. user.seed \in Nat \ {0} /\ seeds \in Nat
        BY <1>0, <1>4 DEF Setup!SetupConfirm, Setup!None, SetupTyped, UserRow
  <2> QED BY <1>4, <2>1, SetupBeginning DEF Setup!SetupConfirm
<1>5. ASSUME NEW step \in 1..(LastStep + 1), Setup!UnlockSecrets(step) PROVE SetupInv'
  <2>1. step \in Nat \ {0} /\ seeds \in Nat BY <1>0 DEF SetupTyped, Setup!SignInBounds
  <2> QED BY <1>5, <2>1, SetupBeginning DEF Setup!UnlockSecrets
<1>6. CASE Setup!ResetUserMFA
  <2>1. user' \in UserRow /\ ~user'.enabled
        BY <1>0, <1>6 DEF Setup!ResetUserMFA, SetupTyped, UserRow, Setup!None
  <2> QED BY <1>0, <1>6, <2>1 DEF Setup!ResetUserMFA, SetupInv, SetupTyped, SetUpOnce,
             ConfirmedShown, TakenRemembered, Setup!SetupIsWhole
<1>7. CASE Setup!ChangePassword
  <2>1. /\ user' \in UserRow /\ ~user'.force /\ user'.password # Setup!None
        /\ user'.seed = user.seed /\ user'.enabled = user.enabled
    <3>1. Setup!Given \in Nat /\ Setup!Given # Setup!None
          BY DEF Setup!Given, Setup!None, Setup!SignInBounds
    <3> QED BY <1>0, <1>7, <3>1 DEF Setup!ChangePassword, SetupTyped, UserRow
  <2> QED BY <1>0, <1>7, <2>1 DEF Setup!ChangePassword, SetupInv, SetupTyped, SetUpOnce,
             ConfirmedShown, TakenRemembered, Setup!SetupIsWhole
<1>8. ASSUME NEW q \in asked, Setup!InitWrites(q) PROVE SetupInv'
  <2>1. /\ user' \in UserRow /\ user'.enabled = user.enabled /\ user'.force = user.force
        /\ crossed' \in BOOLEAN /\ (~crossed' => ~crossed /\ user = q.copy)
        BY <1>0, <1>8 DEF Setup!InitWrites, SetupTyped, UserRow
  <2>2. ~crossed' => ~user'.enabled BY <1>0, <1>8, <2>1 DEF SetUpOnce, Setup!InitWrites
  <2>3. asked' \subseteq asked /\ UNCHANGED <<seeds, now, usedStep, taken, shown>>
        BY <1>8 DEF Setup!InitWrites, Setup!Ends
  <2> QED BY <1>0, <2>1, <2>2, <2>3 DEF SetupInv, SetupTyped, SetUpOnce, ConfirmedShown,
             TakenRemembered, Setup!SetupIsWhole
<1>9. ASSUME NEW q \in asked, Setup!ConfirmWrites(q) PROVE SetupInv'
  <2>1. /\ user' \in UserRow /\ user'.password = q.copy.pending /\ user'.seed = user.seed
        /\ ~user'.force
        /\ crossed' \in BOOLEAN
        /\ ~crossed' => user = q.copy /\ q.copy.pending # Setup!None
        BY <1>0, <1>9 DEF Setup!ConfirmWrites, SetupTyped, UserRow, Setup!None
  <2>2. q.copy.seed \in shown BY <1>0, <1>9 DEF ConfirmedShown, Setup!ConfirmWrites
  <2>3. asked' \subseteq asked /\ UNCHANGED <<seeds, now, usedStep, taken, shown>>
        BY <1>9 DEF Setup!ConfirmWrites, Setup!Ends
  <2> QED BY <1>0, <2>1, <2>2, <2>3 DEF SetupInv, SetupTyped, SetUpOnce, ConfirmedShown,
             TakenRemembered, Setup!SetupIsWhole
<1>10. ASSUME NEW q \in asked, Setup!Unlock(q) PROVE SetupInv'
  <2>1. /\ usedStep' = q.number /\ usedStep < q.number
        /\ taken' = taken \cup {<<q.copy.seed, q.number>>}
        /\ asked' \subseteq asked /\ UNCHANGED <<user, seeds, now, shown, crossed>>
        BY <1>10 DEF Setup!Unlock, Setup!checkSignInCode, Setup!Ends
  <2>2. q.copy.seed \in Nat /\ q.number \in Nat /\ usedStep \in Nat
        /\ \A p \in taken : p[2] \in Nat
        BY <1>0 DEF SetupTyped, UserRow
  <2>3. TakenRemembered' BY <1>0, <2>1, <2>2 DEF TakenRemembered
  <2> QED BY <1>0, <2>1, <2>2, <2>3 DEF SetupInv, SetupTyped, SetUpOnce, ConfirmedShown,
             Setup!SetupIsWhole
<1>11. ASSUME NEW q \in asked, Setup!Refuse(q) PROVE SetupInv'
  <2>1. asked' \subseteq asked /\ UNCHANGED <<user, seeds, now, usedStep, taken, shown, crossed>>
        BY <1>11 DEF Setup!Refuse, Setup!Ends
  <2> QED BY <1>0, <2>1 DEF SetupInv, SetupTyped, SetUpOnce, ConfirmedShown, TakenRemembered,
             Setup!SetupIsWhole
<1>12. CASE Setup!Restart
      BY <1>0, <1>12 DEF Setup!Restart, SetupInv, SetupTyped, SetUpOnce, ConfirmedShown,
                         TakenRemembered, Setup!SetupIsWhole
<1> QED BY <1>1, <1>2, <1>3, <1>4, <1>5, <1>6, <1>7, <1>8, <1>9, <1>10, <1>11, <1>12
           DEF Setup!Next

LEMMA SetupInvariant == ASSUME Setup!SignInBounds PROVE Setup!Spec => []SetupInv
<1>1. Setup!Init => SetupInv BY SetupStart
<1>2. SetupInv /\ [Setup!Next]_(Setup!vars) => SetupInv' BY SetupStep
<1> QED BY <1>1, <1>2, PTL DEF Setup!Spec

(* auth.go: an account that asks for a code has a password and a confirmed *)
(* seed, unless a setup or a confirmation was written over a row that had  *)
(* changed since it was read, or with no setup under way.                  *)
THEOREM SetupsAreWhole == ASSUME Setup!SignInBounds PROVE Setup!Spec => []Setup!SetupIsWhole
BY SetupInvariant, PTL DEF SetupInv

LEMMA FreshCode == SetupInv => Setup!CodesUnlockOnce
BY DEF SetupInv, SetupTyped, TakenRemembered, Setup!CodesUnlockOnce, Setup!Unlock,
       Setup!checkSignInCode

(* secrets_unlock.go, usedSteps: however requests overlap, a code unlocks  *)
(* once in the life of a process.                                          *)
THEOREM CodesAreSpent ==
    ASSUME Setup!SignInBounds PROVE Setup!Spec => [][Setup!CodesUnlockOnce]_(Setup!vars)
<1>1. SetupInv /\ [Setup!Next]_(Setup!vars) => [Setup!CodesUnlockOnce]_(Setup!vars) BY FreshCode
<1> QED BY <1>1, SetupInvariant, PTL DEF Setup!Spec

(* The types of SignIn.  What a request carries is a seed or a window, as   *)
(* its handler has it; and to be set up an account had a seed.              *)
SignInNumbered(q) ==
    q.number \in IF q.op = "unlock" THEN 1..(LastStep + 1) ELSE 1..MaxSeeds
SignInInv ==
    /\ Setup!TypeOK
    /\ \A q \in asked : SignInNumbered(q)
    /\ user.enabled => MaxSeeds # 0
SignInRequest == [op : {"init", "confirm", "unlock"}, copy : Setup!Row,
                  number : 1..(MaxSeeds + LastStep), slot : 1..MaxRequests]

LEMMA SignInRanges ==
    ASSUME Setup!SignInBounds
    PROVE  /\ Setup!None \in 0..MaxSeeds /\ Setup!None \in Setup!Passwords
           /\ Setup!Given \in Setup!Passwords /\ 1 \in 1..LastStep /\ 0 \in 0..(LastStep + 1)
           /\ 0..MaxSeeds \subseteq Setup!Passwords /\ 1..MaxSeeds \subseteq 0..MaxSeeds
           /\ 1..(LastStep + 1) \subseteq 0..(LastStep + 1)
           /\ 0 \in 0..MaxSeeds
BY DEF Setup!SignInBounds, Setup!None, Setup!Given, Setup!Passwords

LEMMA SignInBegan ==
    ASSUME Setup!SignInBounds, SignInInv, NEW op \in {"init", "confirm", "unlock"}, NEW number,
           Setup!Begins(op, number), UNCHANGED <<user, ticket, now, usedStep, taken, crossed>>,
           number \in IF op = "unlock" THEN 1..(LastStep + 1) ELSE 1..MaxSeeds,
           op = "unlock" => user.enabled,
           seeds' \in 0..MaxSeeds, shown' \subseteq 1..MaxSeeds
    PROVE  SignInInv'
<1> DEFINE slot == CHOOSE n \in Setup!Free : TRUE
<1>1. slot \in 1..MaxRequests BY DEF Setup!Begins, Setup!Free
<1>2. asked' = asked \cup {[op |-> op, copy |-> user, number |-> number, slot |-> slot]}
      BY DEF Setup!Begins
<1> HIDE DEF slot
<1>3. PICK new : new = [op |-> op, copy |-> user, number |-> number, slot |-> slot] OBVIOUS
<1>4. user \in Setup!Row /\ (op = "unlock" => MaxSeeds # 0) BY DEF SignInInv, Setup!TypeOK
<1>5. number \in 1..(MaxSeeds + LastStep) BY <1>4 DEF Setup!SignInBounds
<1>6. /\ asked' = asked \cup {new} /\ new \in SignInRequest
      /\ new.op = op /\ new.copy = user /\ new.number = number
      BY <1>1, <1>2, <1>3, <1>4, <1>5 DEF SignInRequest
<1>7. SignInNumbered(new)' /\ \A q \in asked : SignInNumbered(q)'
      BY <1>6 DEF SignInNumbered, SignInInv
<1>8. Setup!TypeOK' BY <1>6 DEF SignInInv, Setup!TypeOK, SignInRequest
<1> QED BY <1>6, <1>7, <1>8 DEF SignInInv

(* What ends, ends; the row and what is remembered keep their types. *)
LEMMA SignInWent ==
    ASSUME SignInInv, asked' \subseteq asked, user' \in Setup!Row, user'.enabled => MaxSeeds # 0,
           UNCHANGED seeds, ticket' \in BOOLEAN, now' \in 1..LastStep,
           usedStep' \in 0..(LastStep + 1), crossed' \in BOOLEAN,
           taken' \subseteq (1..MaxSeeds) \X (1..(LastStep + 1)), UNCHANGED shown
    PROVE  SignInInv'
<1>1. Setup!TypeOK' BY DEF SignInInv, Setup!TypeOK
<1>2. \A q \in asked' : SignInNumbered(q)' BY DEF SignInInv, SignInNumbered
<1> QED BY <1>1, <1>2 DEF SignInInv

(* auth.go and secrets_unlock.go: the row, its copies and the codes keep     *)
(* their types and bounds.                                                   *)
THEOREM SignInsTyped == ASSUME Setup!SignInBounds PROVE Setup!Spec => []Setup!TypeOK
<1>1. Setup!Init => SignInInv
  <2> SUFFICES ASSUME Setup!Init PROVE SignInInv OBVIOUS
  <2>1. PICK force \in BOOLEAN : user = [password |-> Setup!Given, pending |-> Setup!None,
                                      seed |-> Setup!None, enabled |-> FALSE, force |-> force]
        BY DEF Setup!Init
  <2>2. user \in Setup!Row /\ ~user.enabled BY <2>1, SignInRanges DEF Setup!Row
  <2>3. Setup!TypeOK BY <2>2, SignInRanges DEF Setup!Init, Setup!TypeOK
  <2> QED BY <2>2, <2>3 DEF Setup!Init, SignInInv
<1>2. SignInInv /\ [Setup!Next]_(Setup!vars) => SignInInv'
  <2> SUFFICES ASSUME SignInInv, [Setup!Next]_(Setup!vars) PROVE SignInInv' OBVIOUS
  <2>0. /\ user \in Setup!Row /\ user.enabled \in BOOLEAN /\ user.seed \in 0..MaxSeeds
        /\ user.password \in Setup!Passwords
        /\ seeds \in 0..MaxSeeds /\ ticket \in BOOLEAN
        /\ now \in 1..LastStep /\ usedStep \in 0..(LastStep + 1) /\ crossed \in BOOLEAN
        /\ taken \subseteq (1..MaxSeeds) \X (1..(LastStep + 1)) /\ shown \subseteq 1..MaxSeeds
        /\ user.enabled => MaxSeeds # 0
        BY DEF SignInInv, Setup!TypeOK, Setup!Row
  <2>q. \A q \in asked : /\ q.copy \in Setup!Row /\ q.copy.pending \in 0..MaxSeeds
                         /\ q.copy.seed \in 0..MaxSeeds /\ SignInNumbered(q)
        BY DEF SignInInv, Setup!TypeOK, Setup!Row
  <2>1. CASE UNCHANGED Setup!vars BY <2>0, <2>1, SignInWent DEF Setup!vars
  <2>2. CASE Setup!Login \/ Setup!TicketExpires
        BY <2>0, <2>2, SignInWent DEF Setup!Login, Setup!TicketExpires
  <2>3. CASE Setup!Tick
    <3>1. now' \in 1..LastStep BY <2>0, <2>3 DEF Setup!Tick, Setup!SignInBounds
    <3> QED BY <2>0, <2>3, <3>1, SignInWent DEF Setup!Tick
  <2>4. CASE Setup!SetupInit
    <3>1. seeds + 1 \in 1..MaxSeeds /\ seeds + 1 \in 0..MaxSeeds
          BY <2>0, <2>4 DEF Setup!SetupInit, Setup!SignInBounds
    <3> QED BY <2>0, <2>4, <3>1, SignInBegan DEF Setup!SetupInit
  <2>5. CASE Setup!SetupConfirm
    <3>1. user.seed \in 1..MaxSeeds
          BY <2>0, <2>5 DEF Setup!SetupConfirm, Setup!SignInBounds, Setup!None
    <3> QED BY <2>0, <2>5, <3>1, SignInBegan DEF Setup!SetupConfirm
  <2>6. ASSUME NEW step \in 1..(LastStep + 1), Setup!UnlockSecrets(step) PROVE SignInInv'
        BY <2>0, <2>6, SignInBegan DEF Setup!UnlockSecrets, Setup!SetUp
  <2>7. CASE Setup!ResetUserMFA
    <3>1. user' \in Setup!Row /\ ~user'.enabled
          BY <2>0, <2>7, SignInRanges DEF Setup!ResetUserMFA, Setup!Row
    <3> QED BY <2>0, <2>7, <3>1, SignInWent DEF Setup!ResetUserMFA
  <2>8. CASE Setup!ChangePassword
    <3>1. user' \in Setup!Row /\ user'.enabled = user.enabled
          BY <2>0, <2>8, SignInRanges DEF Setup!ChangePassword, Setup!Row
    <3> QED BY <2>0, <2>8, <3>1, SignInWent DEF Setup!ChangePassword
  <2>9. ASSUME NEW q \in asked, Setup!InitWrites(q) PROVE SignInInv'
    <3>1. q.number \in 0..MaxSeeds
          BY <2>q, <2>9, SignInRanges DEF Setup!InitWrites, SignInNumbered
    <3>2. user' \in Setup!Row /\ user'.enabled = user.enabled
          BY <2>0, <2>9, <3>1 DEF Setup!InitWrites, Setup!Row
    <3> QED BY <2>0, <2>9, <3>2, SignInWent DEF Setup!InitWrites, Setup!Ends
  <2>10. ASSUME NEW q \in asked, Setup!ConfirmWrites(q) PROVE SignInInv'
    <3>1. MaxSeeds # 0
          BY <2>q, <2>10 DEF Setup!ConfirmWrites, SignInNumbered, Setup!SignInBounds
    <3>2. user' \in Setup!Row
          BY <2>0, <2>q, <2>10, SignInRanges DEF Setup!ConfirmWrites, Setup!Row
    <3> QED BY <2>0, <2>10, <3>1, <3>2, SignInWent DEF Setup!ConfirmWrites, Setup!Ends
  <2>11. ASSUME NEW q \in asked, Setup!Unlock(q) PROVE SignInInv'
    <3>1. q.number \in 1..(LastStep + 1) /\ q.number \in 0..(LastStep + 1)
          BY <2>q, <2>11, SignInRanges DEF Setup!Unlock, SignInNumbered
    <3>2. q.copy.seed \in 1..MaxSeeds
          BY <2>q, <2>11 DEF Setup!Unlock, Setup!checkSignInCode, Setup!None, Setup!SignInBounds
    <3>3. taken' \subseteq (1..MaxSeeds) \X (1..(LastStep + 1))
          BY <2>0, <2>11, <3>1, <3>2 DEF Setup!Unlock
    <3> QED BY <2>0, <2>11, <3>1, <3>3, SignInWent DEF Setup!Unlock, Setup!Ends
  <2>12. ASSUME NEW q \in asked, Setup!Refuse(q) PROVE SignInInv'
        BY <2>0, <2>12, SignInWent DEF Setup!Refuse, Setup!Ends
  <2>13. CASE Setup!Restart BY <2>0, <2>13, SignInRanges, SignInWent DEF Setup!Restart
  <2> QED BY <2>1, <2>2, <2>3, <2>4, <2>5, <2>6, <2>7, <2>8, <2>9, <2>10, <2>11, <2>12, <2>13
          DEF Setup!Next
<1>3. SignInInv => Setup!TypeOK BY DEF SignInInv
<1> QED BY <1>1, <1>2, <1>3, PTL DEF Setup!Spec

-----------------------------------------------------------------------------
(***************************************************************************)
(* Permissions and namespaces (Access), for any groups, permissions and    *)
(* namespaces: what a request is allowed is what was decided about the     *)
(* person while it read.                                                   *)
(*                                                                         *)
(* What holds at a moment of the reading is among what held meanwhile; so  *)
(* if only one thing held, each of the queries saw it.                     *)
(***************************************************************************)
CONSTANTS Groups, FirstScopes, Permissions, RoleHolds, Namespaces, MaxChanges
VARIABLES groups, members, grants, scopes, adding, deletion, request, changes, meanwhile
Allowed == INSTANCE Access

Words == Allowed!Decisions \cup {Allowed!Unsaid}
Reading == {"groups", "grants", "held", "scopes"}
TablesTyped ==
    /\ members \subseteq Groups /\ adding \subseteq Groups /\ groups \subseteq Groups
    /\ grants \in [Allowed!Subjects -> [Permissions -> Words]]
    /\ scopes \subseteq Allowed!Subjects \X Namespaces
RequestTyped ==
    /\ request \in [step : Reading \cup {"none", "answered"}, in : SUBSET Groups,
                    held : SUBSET Permissions, namespaces : SUBSET Namespaces,
                    lost : SUBSET {"own", "scopes"}]
    /\ meanwhile \in [own : SUBSET (Permissions \X Words), given : SUBSET Namespaces,
                      unscoped : BOOLEAN, moved : BOOLEAN]

(* The namespaces that some scope gives the person. *)
GivenNow == {n \in Namespaces : \E s \in members \cup {Allowed!Person} : <<s, n>> \in scopes}

(* This moment is among those noted. *)
MomentNoted ==
    request.step \in Reading =>
        /\ \A p \in Permissions : <<p, grants[Allowed!Person][p]>> \in meanwhile.own
        /\ GivenNow \subseteq meanwhile.given
        /\ GivenNow = {} => meanwhile.unscoped
        /\ request.step = "scopes" /\ ~meanwhile.moved /\ "scopes" \notin request.lost
             => request.in = members

AllowedInv == TablesTyped /\ RequestTyped /\ MomentNoted /\ Allowed!AllowedAsDecided

LEMMA AllowedStart == Allowed!AccessAssumption /\ Allowed!Init => AllowedInv
BY DEF Allowed!AccessAssumption, Allowed!Init, AllowedInv, TablesTyped, RequestTyped, MomentNoted,
       Words, Reading, Allowed!Nothing, Allowed!NoRequest, Allowed!AllowedAsDecided,
       Allowed!OwnDecisionsRule, Allowed!ScopedSeeTheirsOnly, Allowed!Subjects

(* Whoever changes a table notes what holds from then on. *)
LEMMA Noting ==
    ASSUME AllowedInv, TablesTyped', request' = request, Allowed!Notes
    PROVE  AllowedInv'
<1>0. TablesTyped /\ RequestTyped /\ MomentNoted /\ Allowed!AllowedAsDecided BY DEF AllowedInv
<1>1. CASE request.step \notin Reading
  <2>1. request.step \in {"none", "answered"} BY <1>0, <1>1 DEF RequestTyped
  <2>2. meanwhile' = meanwhile BY <2>1 DEF Allowed!Notes
  <2> QED BY <1>0, <1>1, <2>2 DEF AllowedInv, RequestTyped, MomentNoted, Allowed!AllowedAsDecided,
             Allowed!OwnDecisionsRule, Allowed!ScopedSeeTheirsOnly
<1>2. CASE request.step \in Reading
  <2> DEFINE held_ == grants'[Allowed!Person]
             own_ == {<<p, held_[p]>> : p \in Permissions}
             none_ == GivenNow' = {}
  <2>1. request.step \notin {"none", "answered"} BY <1>2 DEF Reading
  <2>2. Allowed!Moment(held_, scopes', members') =
          [own |-> own_, given |-> GivenNow', unscoped |-> none_, moved |-> FALSE]
        BY Zenon DEF Allowed!Moment, GivenNow
  <2> DEFINE now_ == [own |-> own_, given |-> GivenNow', unscoped |-> none_, moved |-> FALSE]
  <2>3. meanwhile' = [own |-> meanwhile.own \cup now_.own, given |-> meanwhile.given \cup now_.given,
                      unscoped |-> meanwhile.unscoped \/ now_.unscoped,
                      moved |-> meanwhile.moved \/ members' # members]
        BY <2>1, <2>2, Zenon DEF Allowed!Notes
  <2>4. held_ \in [Permissions -> Words] BY DEF TablesTyped, Allowed!Subjects
  <2>5. /\ own_ \in SUBSET (Permissions \X Words) /\ GivenNow' \in SUBSET Namespaces
        /\ none_ \in BOOLEAN
        BY <2>4 DEF GivenNow
  <2>6. /\ meanwhile'.own = meanwhile.own \cup own_
        /\ meanwhile'.given = meanwhile.given \cup GivenNow'
        /\ meanwhile'.unscoped = (meanwhile.unscoped \/ none_)
        /\ meanwhile'.moved = (meanwhile.moved \/ members' # members)
        BY <2>3
  <2>6a. /\ \A p \in Permissions : <<p, held_[p]>> \in meanwhile'.own
         /\ GivenNow' \subseteq meanwhile'.given
         /\ GivenNow' = {} => meanwhile'.unscoped
        BY <2>6
  <2> HIDE DEF own_, none_, now_, held_
  <2>7. RequestTyped'
    <3>1. /\ meanwhile.own \in SUBSET (Permissions \X Words) /\ meanwhile.given \in SUBSET Namespaces
          /\ meanwhile.unscoped \in BOOLEAN /\ meanwhile.moved \in BOOLEAN
          BY <1>0 DEF RequestTyped
    <3>2. /\ meanwhile.own \cup own_ \in SUBSET (Permissions \X Words)
          /\ meanwhile.given \cup GivenNow' \in SUBSET Namespaces
          BY <2>5, <3>1
    <3>3. (meanwhile.unscoped \/ none_) \in BOOLEAN /\ (meanwhile.moved \/ members' # members) \in BOOLEAN
          OBVIOUS
    <3>4. meanwhile' = [own |-> meanwhile.own \cup own_, given |-> meanwhile.given \cup GivenNow',
                        unscoped |-> meanwhile.unscoped \/ none_,
                        moved |-> meanwhile.moved \/ members' # members]
          BY <2>3 DEF now_
    <3>5. meanwhile' \in [own : SUBSET (Permissions \X Words), given : SUBSET Namespaces,
                          unscoped : BOOLEAN, moved : BOOLEAN]
          BY <3>2, <3>3, <3>4, Zenon
    <3> QED BY <1>0, <3>5 DEF RequestTyped
  <2>7a. MomentNoted'
    <3>1. request.step = "scopes" /\ ~meanwhile'.moved /\ "scopes" \notin request.lost
            => request.in = members'
          BY <1>0, <1>2, <2>6 DEF MomentNoted
    <3> QED BY <2>6a, <3>1 DEF MomentNoted, held_
  <2>8. Allowed!OwnDecisionsRule'
    <3> SUFFICES ASSUME request.step \in {"held", "scopes", "answered"}, "own" \notin request.lost,
                        NEW p \in Permissions,
                        NEW d \in Allowed!Decisions,
                        {x \in meanwhile'.own : x[1] = p} = {<<p, d>>}
                 PROVE  p \in request.held <=> d = "granted"
        BY DEF Allowed!OwnDecisionsRule
    <3>1. <<p, grants[Allowed!Person][p]>> \in meanwhile.own BY <1>0, <1>2 DEF MomentNoted
    <3>2. {x \in meanwhile.own : x[1] = p} = {<<p, d>>} BY <2>6, <3>1
    <3> QED BY <1>0, <3>2 DEF Allowed!AllowedAsDecided, Allowed!OwnDecisionsRule
  <2>9. Allowed!ScopedSeeTheirsOnly'
        BY <1>2 DEF Allowed!ScopedSeeTheirsOnly, Reading
  <2> QED BY <2>7, <2>7a, <2>8, <2>9 DEF AllowedInv, Allowed!AllowedAsDecided
<1> QED BY <1>1, <1>2

(* A request moves on, and the tables and the notes stay. *)
LEMMA AllowedReads ==
    ASSUME Allowed!AccessAssumption, AllowedInv,
           \/ Allowed!ReadGroups \/ Allowed!ReadGroupGrants \/ Allowed!ReadOwnGrants
           \/ Allowed!ReadGroupsAgain \/ Allowed!ReadScopes \/ Allowed!Answered
    PROVE  AllowedInv'
<1>0. TablesTyped /\ RequestTyped /\ MomentNoted /\ Allowed!AllowedAsDecided BY DEF AllowedInv
<1>0a. /\ grants[Allowed!Person] \in [Permissions -> Words] /\ members \subseteq Groups
       BY <1>0 DEF TablesTyped, Allowed!Subjects
<1>1. CASE Allowed!ReadGroups
  <2>1. /\ \E in \in SUBSET members : request' = [Allowed!NoRequest EXCEPT !.step = "groups", !.in = in]
        /\ meanwhile' = Allowed!Moment(grants[Allowed!Person], scopes, members)
        /\ UNCHANGED <<groups, members, grants, scopes, adding>>
        BY <1>1 DEF Allowed!ReadGroups, Allowed!tables
  <2>2. /\ request'.step = "groups"
        /\ request' \in [step : Reading \cup {"none", "answered"}, in : SUBSET Groups,
                         held : SUBSET Permissions, namespaces : SUBSET Namespaces,
                         lost : SUBSET {"own", "scopes"}]
        BY <1>0a, <2>1 DEF Allowed!NoRequest, Reading
  <2> DEFINE held_ == grants[Allowed!Person]
             own_ == {<<p, held_[p]>> : p \in Permissions}
             none_ == GivenNow = {}
  <2>a. meanwhile' = [own |-> own_, given |-> GivenNow, unscoped |-> none_, moved |-> FALSE]
        BY <2>1, Zenon DEF Allowed!Moment, GivenNow
  <2>b. /\ own_ \in SUBSET (Permissions \X Words) /\ GivenNow \in SUBSET Namespaces
        /\ none_ \in BOOLEAN
        BY <1>0a DEF GivenNow
  <2> HIDE DEF own_, none_, held_
  <2>c. meanwhile' \in [own : SUBSET (Permissions \X Words), given : SUBSET Namespaces,
                        unscoped : BOOLEAN, moved : BOOLEAN]
        BY <2>a, <2>b, Zenon
  <2>3. /\ meanwhile'.own = {<<p, grants[Allowed!Person][p]>> : p \in Permissions}
        /\ meanwhile'.given = GivenNow /\ meanwhile'.unscoped = (GivenNow = {})
        BY <2>a DEF own_, none_, held_
  <2>4. TablesTyped' BY <1>0, <2>1 DEF TablesTyped
  <2>5. GivenNow' = GivenNow BY <2>1 DEF GivenNow
  <2>6. MomentNoted' BY <2>1, <2>2, <2>3, <2>5 DEF MomentNoted
  <2> QED BY <2>2, <2>c, <2>4, <2>6 DEF AllowedInv, RequestTyped, Allowed!AllowedAsDecided,
             Allowed!OwnDecisionsRule, Allowed!ScopedSeeTheirsOnly
<1>2. CASE Allowed!ReadGroupGrants
  <2>1. PICK held \in SUBSET Permissions : request' = [request EXCEPT !.step = "grants", !.held = held]
    <3>1. PICK held \in Allowed!Overruled(RoleHolds, request.in) \cup {RoleHolds} :
                 request' = [request EXCEPT !.step = "grants", !.held = held]
          BY <1>2, Zenon DEF Allowed!ReadGroupGrants
    <3>2. held \in SUBSET Permissions BY <3>1 DEF Allowed!Overruled, Allowed!AccessAssumption
    <3> QED BY <3>1, <3>2
  <2>2. request.step = "groups" /\ UNCHANGED <<groups, members, grants, scopes, adding, meanwhile>>
        BY <1>2, Zenon DEF Allowed!ReadGroupGrants, Allowed!tables
  <2>3. RequestTyped' /\ request'.step = "grants" BY <1>0, <2>1, <2>2 DEF RequestTyped, Reading
  <2> QED BY <1>0, <2>2, <2>3 DEF AllowedInv, TablesTyped, MomentNoted, GivenNow, Reading,
             Allowed!AllowedAsDecided, Allowed!OwnDecisionsRule, Allowed!ScopedSeeTheirsOnly
<1>3. CASE Allowed!ReadOwnGrants
  <2>0. CASE request' = [request EXCEPT !.step = "held", !.lost = {"own"}]
    <3>1. request.step = "grants" /\ UNCHANGED <<groups, members, grants, scopes, adding, meanwhile>>
          BY <1>3, Zenon DEF Allowed!ReadOwnGrants, Allowed!tables
    <3>2. RequestTyped' /\ request'.step = "held" /\ request'.lost = {"own"}
          BY <1>0, <2>0, <3>1 DEF RequestTyped, Reading
    <3> QED BY <1>0, <3>1, <3>2 DEF AllowedInv, TablesTyped, MomentNoted, GivenNow, Reading,
               Allowed!AllowedAsDecided, Allowed!OwnDecisionsRule, Allowed!ScopedSeeTheirsOnly
  <2>1. ASSUME NEW held \in Allowed!Overruled(request.held, {Allowed!Person}),
                request' = [request EXCEPT !.step = "held", !.held = held]
         PROVE  AllowedInv'
    <3>2. request.step = "grants" /\ UNCHANGED <<groups, members, grants, scopes, adding, meanwhile>>
          BY <1>3, Zenon DEF Allowed!ReadOwnGrants, Allowed!tables
    <3>3. held \in SUBSET Permissions BY DEF Allowed!Overruled
    <3>4. /\ RequestTyped' /\ request'.step = "held" /\ request'.held = held
          /\ request'.lost = request.lost
          BY <1>0, <2>1, <3>2, <3>3 DEF RequestTyped, Reading
    <3>5. Allowed!OwnDecisionsRule'
      <4> SUFFICES ASSUME NEW p \in Permissions, NEW d \in Allowed!Decisions,
                          {x \in meanwhile.own : x[1] = p} = {<<p, d>>}
                   PROVE  p \in held <=> d = "granted"
          BY <3>2, <3>4 DEF Allowed!OwnDecisionsRule
      <4>1. <<p, grants[Allowed!Person][p]>> \in meanwhile.own
            BY <1>0, <3>2 DEF MomentNoted, Reading
      <4>2. grants[Allowed!Person][p] = d BY <4>1
      <4>3. Allowed!Rows({Allowed!Person}, p) = {d}
        <5>1. {grants[s][p] : s \in {Allowed!Person}} = {grants[Allowed!Person][p]} OBVIOUS
        <5>2. d # Allowed!Unsaid BY Zenon DEF Allowed!Decisions, Allowed!Unsaid
        <5> QED BY <4>2, <5>1, <5>2 DEF Allowed!Rows
      <4>4. IF Allowed!Rows({Allowed!Person}, p) = {} THEN p \in held <=> p \in request.held
            ELSE \E e \in Allowed!Rows({Allowed!Person}, p) : p \in held <=> e = "granted"
            BY DEF Allowed!Overruled
      <4> QED BY <4>3, <4>4
    <3>6. MomentNoted' BY <1>0, <3>2, <3>4 DEF MomentNoted, GivenNow, Reading
    <3> QED BY <1>0, <3>2, <3>4, <3>5, <3>6 DEF AllowedInv, TablesTyped, Allowed!AllowedAsDecided,
               Allowed!ScopedSeeTheirsOnly
  <2> QED BY <1>3, <2>0, <2>1, Zenon DEF Allowed!ReadOwnGrants
<1>4. CASE Allowed!ReadGroupsAgain
  <2>1. /\ request.step = "held" /\ UNCHANGED <<groups, members, grants, scopes, adding, meanwhile>>
        /\ \E L \in SUBSET {"scopes"} :
             request' = [request EXCEPT !.step = "scopes", !.in = IF L = {} THEN members ELSE {},
                                        !.lost = @ \cup L]
        BY <1>4, Zenon DEF Allowed!ReadGroupsAgain, Allowed!tables
  <2>1a. PICK L \in SUBSET {"scopes"} :
               request' = [request EXCEPT !.step = "scopes", !.in = IF L = {} THEN members ELSE {},
                                          !.lost = @ \cup L]
         BY <2>1, Zenon
  <2> DEFINE in_ == IF L = {} THEN members ELSE {}
             lost_ == request.lost \cup L
  <2>1b. /\ in_ \in SUBSET Groups /\ lost_ \in SUBSET {"own", "scopes"}
         /\ in_ = members \/ "scopes" \in lost_
         /\ "own" \notin lost_ => "own" \notin request.lost
    <3>1. request.lost \in SUBSET {"own", "scopes"} BY <1>0 DEF RequestTyped
    <3>2. L = {} \/ L = {"scopes"} OBVIOUS
    <3> QED BY <1>0a, <3>1, <3>2
  <2>1c. request' = [request EXCEPT !.step = "scopes", !.in = in_, !.lost = lost_]
         BY <2>1a, Zenon
  <2> HIDE DEF in_, lost_
  <2>2. /\ RequestTyped' /\ request'.step = "scopes" /\ request'.held = request.held
        /\ request'.in = in_ /\ request'.lost = lost_
        BY <1>0, <2>1, <2>1b, <2>1c DEF RequestTyped, Reading
  <2> QED BY <1>0, <2>1, <2>1b, <2>2 DEF AllowedInv, TablesTyped, MomentNoted, GivenNow, Reading,
             Allowed!AllowedAsDecided, Allowed!OwnDecisionsRule, Allowed!ScopedSeeTheirsOnly
<1>5. CASE Allowed!ReadScopes
  <2> DEFINE given == Allowed!ScopesOf(scopes, request.in)
             Read(L) == IF L = {} THEN given ELSE {}
  <2>0. /\ request.step = "scopes" /\ UNCHANGED <<groups, members, grants, scopes, adding, meanwhile>>
        /\ \E L \in SUBSET {"scopes"} :
             request' = [request EXCEPT !.step = "answered", !.in = {},
                           !.namespaces = Allowed!Shown(Read(L)), !.lost = @ \cup L]
        BY <1>5, Zenon DEF Allowed!ReadScopes, Allowed!tables
  <2>1. PICK L \in SUBSET {"scopes"} :
             request' = [request EXCEPT !.step = "answered", !.in = {},
                           !.namespaces = Allowed!Shown(Read(L)), !.lost = @ \cup L]
        BY <2>0, Zenon
  <2> DEFINE G == Read(L)
  <2>1b. G = given \/ "scopes" \in L OBVIOUS
  <2>2. given \subseteq Namespaces BY <1>0 DEF Allowed!ScopesOf, TablesTyped
  <2> DEFINE seen == Allowed!Shown(G)
  <2>2a. /\ seen \in SUBSET Namespaces
         /\ Allowed!ManageClusters \in request.held \/ G = {} \/ seen = G
         BY <2>2 DEF Allowed!Shown
  <2>2c. request' = [request EXCEPT !.step = "answered", !.in = {}, !.namespaces = seen,
                                    !.lost = @ \cup L]
        BY <2>1, Zenon
  <2> HIDE DEF seen, given, G, Read
  <2>1a. request.step = "scopes" /\ UNCHANGED <<groups, members, grants, scopes, adding, meanwhile>>
        BY <2>0, Zenon
  <2>3. /\ RequestTyped' /\ request'.step = "answered" /\ request'.held = request.held
        /\ request'.namespaces = seen /\ request'.lost = request.lost \cup L
        BY <1>0, <2>1a, <2>2a, <2>2c DEF RequestTyped, Reading
  <2>3a. TablesTyped' /\ MomentNoted'
        BY <1>0, <2>1a, <2>3 DEF TablesTyped, MomentNoted, Reading
  <2>3b. Allowed!OwnDecisionsRule'
        BY <1>0, <2>1a, <2>3 DEF Allowed!AllowedAsDecided, Allowed!OwnDecisionsRule
  <2>4. CASE ~meanwhile.moved /\ "scopes" \notin request'.lost
    <3>1. given = GivenNow
      <4>1. request.in = members BY <1>0, <2>1a, <2>3, <2>4 DEF MomentNoted, Reading
      <4> DEFINE subjects == members \cup {Allowed!Person}
                 told == {x \in scopes : x[1] \in subjects}
      <4>2. given = {x[2] : x \in told} BY <4>1 DEF Allowed!ScopesOf, given
      <4>3. \A x \in scopes : x = <<x[1], x[2]>> /\ x[2] \in Namespaces BY <1>0 DEF TablesTyped
      <4>4. ASSUME NEW n \in given PROVE n \in GivenNow
        <5>1. PICK x \in told : n = x[2] BY <4>2
        <5>2. <<x[1], n>> \in scopes /\ x[1] \in subjects /\ n \in Namespaces BY <4>3, <5>1
        <5> QED BY <5>2 DEF GivenNow
      <4>5. ASSUME NEW n \in GivenNow PROVE n \in given
        <5>1. PICK s \in subjects : <<s, n>> \in scopes BY DEF GivenNow
        <5>2. <<s, n>> \in told /\ <<s, n>>[2] = n BY <5>1
        <5> QED BY <4>2, <5>2
      <4> QED BY <4>4, <4>5
    <3>2. given \subseteq meanwhile.given /\ (given = {} => meanwhile.unscoped)
          BY <1>0, <2>1a, <3>1 DEF MomentNoted, Reading
    <3>3. \/ seen \subseteq meanwhile.given \/ Allowed!ManageClusters \in request.held
          \/ meanwhile.unscoped
          BY <2>1b, <2>2a, <2>3, <2>4, <3>2
    <3>4. Allowed!ScopedSeeTheirsOnly' BY <2>1a, <2>3, <3>3 DEF Allowed!ScopedSeeTheirsOnly
    <3> QED BY <2>3, <2>3a, <2>3b, <3>4 DEF AllowedInv, Allowed!AllowedAsDecided
  <2>5. CASE meanwhile.moved \/ "scopes" \in request'.lost
    <3>1. Allowed!ScopedSeeTheirsOnly' BY <2>1a, <2>5 DEF Allowed!ScopedSeeTheirsOnly
    <3> QED BY <2>3, <2>3a, <2>3b, <3>1 DEF AllowedInv, Allowed!AllowedAsDecided
  <2> QED BY <2>4, <2>5
<1>6. CASE Allowed!Answered
  <2>1. /\ request' = Allowed!NoRequest /\ meanwhile' = Allowed!Nothing
        /\ UNCHANGED <<groups, members, grants, scopes, adding>>
        BY <1>6 DEF Allowed!Answered, Allowed!tables
  <2>2. RequestTyped' /\ request'.step = "none"
        BY <2>1 DEF RequestTyped, Allowed!NoRequest, Allowed!Nothing
  <2> QED BY <1>0, <2>1, <2>2 DEF AllowedInv, TablesTyped, MomentNoted, Reading,
             Allowed!AllowedAsDecided, Allowed!OwnDecisionsRule, Allowed!ScopedSeeTheirsOnly
<1> QED BY <1>1, <1>2, <1>3, <1>4, <1>5, <1>6

(* Every step keeps the invariant. *)
LEMMA AllowedStep == Allowed!AccessAssumption /\ AllowedInv /\ [Allowed!Next]_(Allowed!vars)
                       => AllowedInv'
<1> SUFFICES ASSUME Allowed!AccessAssumption, AllowedInv, [Allowed!Next]_(Allowed!vars)
             PROVE  AllowedInv'
    OBVIOUS
<1>0. TablesTyped BY DEF AllowedInv
<1>1. CASE UNCHANGED Allowed!vars
      BY <1>1 DEF Allowed!vars, AllowedInv, TablesTyped, RequestTyped, MomentNoted, GivenNow,
         Allowed!AllowedAsDecided, Allowed!OwnDecisionsRule, Allowed!ScopedSeeTheirsOnly
<1>2. CASE \/ Allowed!ReadGroups \/ Allowed!ReadGroupGrants \/ Allowed!ReadOwnGrants
           \/ Allowed!ReadGroupsAgain \/ Allowed!ReadScopes \/ Allowed!Answered
      BY <1>2, AllowedReads
<1>3. ASSUME NEW s \in Allowed!Subjects, NEW p \in Permissions,
             Allowed!GrantPermission(s, p) \/ Allowed!RevokePermission(s, p)
      PROVE  AllowedInv'
  <2>1. PICK d \in Words : Allowed!SetGrant(s, p, d)
        BY <1>3 DEF Allowed!GrantPermission, Allowed!RevokePermission, Words
  <2>2. TablesTyped' BY <1>0, <2>1 DEF Allowed!SetGrant, TablesTyped
  <2> QED BY <2>1, <2>2, Noting DEF Allowed!SetGrant
<1>4. ASSUME NEW s \in Allowed!Subjects, NEW n \in Namespaces, Allowed!AddNamespaceScope(s, n)
      PROVE  AllowedInv'
  <2>1. TablesTyped' BY <1>0, <1>4 DEF Allowed!AddNamespaceScope, TablesTyped
  <2> QED BY <1>4, <2>1, Noting DEF Allowed!AddNamespaceScope
<1>5. ASSUME NEW x \in scopes, Allowed!RemoveNamespaceScope(x) PROVE AllowedInv'
  <2>1. TablesTyped' BY <1>0, <1>5 DEF Allowed!RemoveNamespaceScope, TablesTyped
  <2> QED BY <1>5, <2>1, Noting DEF Allowed!RemoveNamespaceScope
<1>6. ASSUME NEW g \in Groups,
             \/ Allowed!CreateMember(g) \/ Allowed!RemoveGroupMember(g)
             \/ Allowed!DeleteMembers(g) \/ Allowed!DeleteGrants(g) \/ Allowed!DeleteScopes(g)
      PROVE  AllowedInv'
  <2>1. /\ request' = request /\ Allowed!Notes
        /\ members' \subseteq members \cup {g} /\ adding' \subseteq adding /\ groups' = groups
        /\ scopes' \subseteq scopes
        /\ grants' = grants \/ grants' = [grants EXCEPT ![g] = [p \in Permissions |-> Allowed!Unsaid]]
        BY <1>6 DEF Allowed!CreateMember, Allowed!RemoveGroupMember, Allowed!DeleteMembers,
           Allowed!DeleteGrants, Allowed!DeleteScopes
  <2>2. TablesTyped' BY <1>0, <2>1 DEF TablesTyped, Words
  <2> QED BY <2>1, <2>2, Noting
<1>7. ASSUME NEW g \in Groups, Allowed!AddGroupMember(g) \/ Allowed!DeleteGroup(g)
      PROVE  AllowedInv'
  <2>1. /\ UNCHANGED <<members, grants, scopes, request, meanwhile>>
        /\ adding' \subseteq adding \cup {g} /\ groups' \subseteq groups
        BY <1>7 DEF Allowed!AddGroupMember, Allowed!DeleteGroup, Allowed!tables
  <2> QED BY <2>1 DEF AllowedInv, TablesTyped, RequestTyped, MomentNoted, GivenNow,
             Allowed!AllowedAsDecided, Allowed!OwnDecisionsRule, Allowed!ScopedSeeTheirsOnly
<1> QED BY <1>1, <1>2, <1>3, <1>4, <1>5, <1>6, <1>7 DEF Allowed!Next

LEMMA AllowedInvariant == ASSUME Allowed!AccessAssumption PROVE Allowed!Spec => []AllowedInv
<1>1. Allowed!Init => AllowedInv BY AllowedStart
<1>2. AllowedInv /\ [Allowed!Next]_(Allowed!vars) => AllowedInv' BY AllowedStep
<1> QED BY <1>1, <1>2, PTL DEF Allowed!Spec

(* iam.go: what a request is allowed, while others change grants, groups   *)
(* and scopes between its queries, is what was decided about the person.   *)
THEOREM DecisionsRule ==
    ASSUME Allowed!AccessAssumption PROVE Allowed!Spec => []Allowed!AllowedAsDecided
BY AllowedInvariant, PTL DEF AllowedInv

(* The types of Access: a deletion goes its way, statement after statement. *)
Deletions == [Groups -> {"none", "members", "grants", "scopes", "done"}]
DeletionKept == deletion \in Deletions

LEMMA DeletionGoesOn == DeletionKept /\ [Allowed!Next]_(Allowed!vars) => DeletionKept'
<1> SUFFICES ASSUME deletion \in Deletions, [Allowed!Next]_(Allowed!vars)
             PROVE  deletion' \in Deletions
    BY DEF DeletionKept
<1>1. ASSUME NEW g \in Groups,
             NEW from, NEW to \in {"members", "grants", "scopes", "done"},
             Allowed!DeletionGoes(g, from, to)
      PROVE  deletion' \in Deletions
      BY <1>1 DEF Allowed!DeletionGoes, Deletions
<1>2. ASSUME NEW g \in Groups,
             Allowed!DeleteGroup(g) \/ Allowed!DeleteMembers(g) \/ Allowed!DeleteGrants(g)
               \/ Allowed!DeleteScopes(g)
      PROVE  deletion' \in Deletions
      BY <1>1, <1>2 DEF Allowed!DeleteGroup, Allowed!DeleteMembers, Allowed!DeleteGrants,
                        Allowed!DeleteScopes
<1>3. ASSUME UNCHANGED deletion PROVE deletion' \in Deletions BY <1>3
<1>4. ASSUME NEW g \in Groups,
             Allowed!AddGroupMember(g) \/ Allowed!CreateMember(g) \/ Allowed!RemoveGroupMember(g)
      PROVE  UNCHANGED deletion
      BY <1>4 DEF Allowed!AddGroupMember, Allowed!CreateMember, Allowed!RemoveGroupMember
<1>5. CASE UNCHANGED Allowed!vars BY <1>3, <1>5 DEF Allowed!vars
<1>6. CASE Allowed!Next
      BY <1>2, <1>3, <1>4, <1>6
         DEF Allowed!Next, Allowed!ReadGroups, Allowed!ReadGroupGrants, Allowed!ReadOwnGrants,
             Allowed!ReadGroupsAgain, Allowed!ReadScopes, Allowed!Answered,
             Allowed!GrantPermission, Allowed!RevokePermission, Allowed!SetGrant,
             Allowed!AddNamespaceScope, Allowed!RemoveNamespaceScope
<1> QED BY <1>5, <1>6

(* iam.go: the tables of permissions, scopes and groups keep their types. *)
THEOREM AccessTyped == ASSUME Allowed!AccessAssumption PROVE Allowed!Spec => []Allowed!TypeOK
<1>1. Allowed!Init => DeletionKept BY DEF Allowed!Init, DeletionKept, Deletions
<1>2. AllowedInv /\ DeletionKept => Allowed!TypeOK
      BY DEF AllowedInv, TablesTyped, Words, DeletionKept, Deletions, Allowed!TypeOK
<1> QED BY <1>1, <1>2, AllowedInvariant, DeletionGoesOn, PTL DEF Allowed!Spec

-----------------------------------------------------------------------------
(***************************************************************************)
(* The connection of a repository (HostKeys), for any servers, keys, edits *)
(* and requests: a pin that is set is one the server at the row's URL has  *)
(* presented.                                                              *)
(*                                                                         *)
(* What a request has heard was presented by the server of its copy, and   *)
(* an edit leaves of the copy what it does not change.                     *)
(***************************************************************************)
CONSTANTS Hosts, Published, HostKeys, FirstKey, Edits, MaxEdits, MaxRekeys
VARIABLES row, made, apps, presents, known, talks, altered, rekeys, served, swapped
Keys == INSTANCE HostKeys WITH requests <- talks, edits <- altered, crossed <- swapped

Fields == {"url", "key", "pin", "secret"}
Rows == [url : Hosts, key : Nat, pin : Keys!Pins, secret : Nat,
         status : {"pending", "connected", "failed"}]

(* A pin of a row is one that the server at its URL has had. *)
Honest(r) == r.pin = Keys!NotPinned \/ <<r.url, r.pin>> \in served \cup swapped

RowTold ==
    /\ row = Keys!NoRow \/ row \in Rows
    /\ row # Keys!NoRow => made /\ Honest(row)
ServersTold ==
    /\ presents \in [Hosts -> HostKeys] /\ known \in [Hosts -> Keys!Pins]
    /\ \A h \in Hosts : <<h, presents[h]>> \in served
(* What a request will write: a test what it heard, if it knew no pin, and an *)
(* edit its copy, which differs from what it read only where it was asked to. *)
RequestTold(q) ==
    /\ q.op \in {"test", "look", "tested", "failed", "save", "delete", "clone", "cloned"}
    /\ q.op = "test" => q.copy \in Rows /\ q.read = q.copy
    /\ q.op \in {"test", "look", "tested", "clone", "cloned"} => q.copy.url \in Hosts
    /\ q.op \in {"tested", "cloned"} => q.heard \in Keys!Pins
    /\ q.op = "tested" /\ q.heard # Keys!NotPinned =>
         q.read.pin = Keys!NotPinned /\ <<q.copy.url, q.heard>> \in served
    /\ q.op = "save" =>
         /\ made /\ q.copy \in Rows /\ Honest(q.copy)
         /\ \A f \in Fields \ q.names : q.copy[f] = q.read[f]

PinInv == RowTold /\ ServersTold /\ \A q \in talks : RequestTold(q)

LEMMA RowsTold == ASSUME NEW r \in Rows
                  PROVE  r # Keys!NoRow /\ r.url \in Hosts /\ r.pin \in Keys!Pins /\ r.key \in Nat /\ r.secret \in Nat
<1>1. r.status # "none" BY DEF Rows
<1>2. Keys!NoRow.status = "none" BY DEF Keys!NoRow
<1> QED BY <1>1, <1>2 DEF Rows

LEMMA PinStart == Keys!HostAssumption /\ Keys!Init => PinInv
BY DEF Keys!HostAssumption, Keys!Init, PinInv, RowTold, ServersTold, Keys!Pins

(* The other requests stay, and the row and the servers. *)
LEMMA OneGoesOn ==
    ASSUME PinInv, NEW q, NEW R, R \subseteq talks, talks' = R \cup {q}, RequestTold(q),
           UNCHANGED <<presents, known, served, swapped>>, made => made', RowTold'
    PROVE  PinInv'
<1>1. ServersTold' BY DEF PinInv, ServersTold
<1>2. \A r \in R \cup {q} : RequestTold(r)' BY DEF PinInv, RequestTold, Honest
<1> QED BY <1>1, <1>2 DEF PinInv
LEMMA OneEnds ==
    ASSUME PinInv, talks' \subseteq talks, RowTold', ServersTold',
           served \subseteq served', swapped \subseteq swapped', made => made'
    PROVE  PinInv'
<1>1. \A r \in talks : RequestTold(r)' BY DEF PinInv, RequestTold, Honest
<1> QED BY <1>1 DEF PinInv

LEMMA NewRequest ==
    ASSUME NEW op, NEW copy
    PROVE  LET q == Keys!Request(op, copy)
           IN  q.op = op /\ q.read = copy /\ q.copy = copy /\ q.names = {} /\ q.heard = Keys!NotPinned
BY DEF Keys!Request

(* An edit changes what it is asked to, and forgets the pin with the URL. *)
LEMMA ChangedIs ==
    ASSUME NEW copy \in Rows, NEW names, NEW h \in Hosts, Honest(copy),
           "url" \in names <=> h # copy.url
    PROVE  LET c == Keys!Changed(copy, names, h)
               all == names \cup IF "url" \in names THEN {"pin"} ELSE {}
           IN  c \in Rows /\ Honest(c) /\ \A f \in Fields \ all : c[f] = copy[f]
<1> DEFINE url == IF "url" \in names THEN h ELSE copy.url
           key == IF "key" \in names THEN copy.key + 1 ELSE copy.key
           secret == IF "secret" \in names THEN copy.secret + 1 ELSE copy.secret
           pin == IF Keys!Forgets(names) THEN Keys!NotPinned ELSE copy.pin
           status == IF names = {"secret"} THEN copy.status ELSE "pending"
           c == Keys!Changed(copy, names, h)
<1>1. c = [url |-> url, key |-> key, pin |-> pin, secret |-> secret, status |-> status]
      BY DEF Keys!Changed, Rows
<1>2. /\ url \in Hosts /\ key \in Nat /\ secret \in Nat /\ pin \in Keys!Pins
      /\ status \in {"pending", "connected", "failed"}
      BY DEF Rows, Keys!Pins
<1>3. pin = Keys!NotPinned \/ <<url, pin>> \in served \cup swapped BY DEF Honest, Keys!Forgets
<1>4. /\ "url" \notin names => url = copy.url
      /\ "key" \notin names => key = copy.key
      /\ "secret" \notin names => secret = copy.secret
      /\ "pin" \notin names /\ "url" \notin names => pin = copy.pin
      BY DEF Keys!Forgets
<1> HIDE DEF url, key, pin, secret, status, c
<1>5. c \in Rows BY <1>1, <1>2 DEF Rows
<1>6. c.url = url /\ c.key = key /\ c.pin = pin /\ c.secret = secret BY <1>1
<1>7. Honest(c) BY <1>3, <1>6 DEF Honest
<1>8. ASSUME NEW f \in Fields \ (names \cup IF "url" \in names THEN {"pin"} ELSE {})
      PROVE  c[f] = copy[f]
      BY <1>4, <1>6 DEF Fields
<1> QED BY <1>5, <1>7, <1>8 DEF c

(* Requests that only begin. *)
LEMMA ConnectionAsked ==
    ASSUME Keys!HostAssumption, PinInv,
           \/ \E h \in Hosts, imported \in BOOLEAN : Keys!CreateGitopsRepo(h, imported)
           \/ \E h \in Hosts : Keys!ServerRekeys(h) \/ Keys!CloneBegins(h)
           \/ Keys!TestGitopsRepoConnection \/ Keys!ListBranches \/ Keys!Checkout
           \/ \E names \in Edits, h \in Hosts : Keys!UpdateGitopsRepo(names, h)
           \/ Keys!DeleteGitopsRepo \/ Keys!AppComesOrGoes
    PROVE  PinInv' /\ Keys!PinHolds
<1>0. RowTold /\ ServersTold BY DEF PinInv
<1>00. row' = row /\ known' = known /\ PinInv' => Keys!PinHolds
       BY DEF Keys!PinHolds, Keys!OnlyAsMeant, Keys!PinIsOfItsServer, PinInv, RowTold,
              Honest
<1>1. ASSUME NEW h \in Hosts, NEW imported \in BOOLEAN, Keys!CreateGitopsRepo(h, imported)
      PROVE  PinInv' /\ Keys!PinHolds
  <2> DEFINE new == [url |-> h, key |-> 1, pin |-> Keys!NotPinned, secret |-> 1, status |-> "pending"]
  <2>1. /\ ~made /\ made' = TRUE /\ row' = new
        /\ IF imported THEN Keys!Begins(Keys!Request("test", new)) ELSE UNCHANGED talks
        /\ UNCHANGED <<apps, presents, known, altered, rekeys, served, swapped>>
        BY <1>1 DEF Keys!CreateGitopsRepo
  <2>2. new \in Rows /\ new.pin = Keys!NotPinned /\ new.url = h BY DEF Rows, Keys!Pins
  <2> HIDE DEF new
  <2>3. RowTold' BY <2>1, <2>2 DEF RowTold, Honest
  <2>3a. (made => made') /\ UNCHANGED <<presents, known, served, swapped>> BY <2>1
  <2>4. ASSUME imported PROVE PinInv'
    <3>1. talks' = talks \cup {Keys!Request("test", new)} BY <2>1, <2>4 DEF Keys!Begins
    <3> DEFINE q == Keys!Request("test", new)
    <3>2. q.op = "test" /\ q.copy = new /\ q.read = new BY NewRequest
    <3> HIDE DEF q
    <3>3. RequestTold(q) BY <2>1, <2>2, <3>2, RowsTold DEF RequestTold
    <3> QED BY <2>3, <2>3a, <3>1, <3>3, OneGoesOn DEF q
  <2>5. ASSUME ~imported PROVE PinInv'
    <3>1. talks' = talks /\ ServersTold' BY <1>0, <2>1, <2>5 DEF ServersTold
    <3> QED BY <2>3, <2>3a, <3>1, OneEnds
  <2>6. row = Keys!NoRow BY <1>0, <2>1 DEF RowTold
  <2>7. Keys!PinHolds BY <2>1, <2>2, <2>6 DEF Keys!PinHolds, Keys!OnlyAsMeant,
                                              Keys!PinIsOfItsServer
  <2> QED BY <2>4, <2>5, <2>7
<1>2. ASSUME NEW h \in Hosts, Keys!ServerRekeys(h) PROVE PinInv' /\ Keys!PinHolds
  <2>1. PICK key \in HostKeys : presents' = [presents EXCEPT ![h] = key]
                                /\ served' = served \cup {<<h, key>>}
        BY <1>2 DEF Keys!ServerRekeys
  <2>2. UNCHANGED <<row, made, apps, known, talks, altered, swapped>> BY <1>2
                                                                      DEF Keys!ServerRekeys
  <2>3. ServersTold' BY <1>0, <2>1, <2>2 DEF ServersTold
  <2>4. RowTold' BY <1>0, <2>1, <2>2 DEF RowTold, Honest
  <2> QED BY <1>00, <2>1, <2>2, <2>3, <2>4, OneEnds
<1>3. ASSUME NEW h \in Hosts, Keys!CloneBegins(h) PROVE PinInv' /\ Keys!PinHolds
  <2> DEFINE copy == [url |-> h, pin |-> Keys!pinnedKnownHosts(h)]
             q == Keys!Request("clone", copy)
  <2>1. /\ talks' = talks \cup {q}
        /\ UNCHANGED <<row, made, apps, presents, known, altered, rekeys, served, swapped>>
        BY <1>3 DEF Keys!CloneBegins, Keys!Begins
  <2>2. q.op = "clone" /\ q.copy = copy BY NewRequest
  <2>3. copy.url = h OBVIOUS
  <2> HIDE DEF q, copy
  <2>4. RequestTold(q) BY <2>2, <2>3 DEF RequestTold
  <2>5. RowTold' BY <1>0, <2>1 DEF RowTold, Honest
  <2> QED BY <1>00, <2>1, <2>4, <2>5, OneGoesOn
<1>4. CASE Keys!TestGitopsRepoConnection \/ Keys!ListBranches \/ Keys!Checkout
  <2>1. PICK op \in {"test", "look"} : Keys!Reads(op)
        BY <1>4 DEF Keys!TestGitopsRepoConnection, Keys!ListBranches, Keys!Checkout
  <2> DEFINE q == Keys!Request(op, row)
  <2>2. /\ row # Keys!NoRow /\ talks' = talks \cup {q}
        /\ UNCHANGED <<row, made, apps, presents, known, altered, rekeys, served, swapped>>
        BY <2>1 DEF Keys!Reads, Keys!Begins
  <2>3. q.op = op /\ q.copy = row /\ q.read = row BY NewRequest
  <2>4. row \in Rows /\ row.url \in Hosts BY <1>0, <2>2, RowsTold DEF RowTold
  <2> HIDE DEF q
  <2>5. RequestTold(q) BY <2>2, <2>3, <2>4 DEF RequestTold
  <2>6. RowTold' BY <1>0, <2>2 DEF RowTold, Honest
  <2> QED BY <1>00, <2>2, <2>5, <2>6, OneGoesOn
<1>5. ASSUME NEW names \in Edits, NEW h \in Hosts, Keys!UpdateGitopsRepo(names, h)
      PROVE  PinInv' /\ Keys!PinHolds
  <2> DEFINE all == names \cup IF "url" \in names THEN {"pin"} ELSE {}
             copy == Keys!Changed(row, names, h)
             q == [Keys!Request("save", row) EXCEPT !.copy = copy, !.names = all]
  <2>1. /\ row # Keys!NoRow /\ ("url" \in names <=> h # row.url) /\ talks' = talks \cup {q}
        /\ UNCHANGED <<row, made, apps, presents, known, rekeys, served, swapped>>
        BY <1>5, Zenon DEF Keys!UpdateGitopsRepo, Keys!Begins
  <2>2. made /\ row \in Rows /\ Honest(row) BY <1>0, <2>1 DEF RowTold
  <2>3. copy \in Rows /\ Honest(copy) /\ \A f \in Fields \ all : copy[f] = row[f]
        BY <2>1, <2>2, ChangedIs
  <2> HIDE DEF copy, all
  <2>4. q.op = "save" /\ q.copy = copy /\ q.read = row /\ q.names = all
        BY DEF Keys!Request
  <2> HIDE DEF q
  <2>5. RequestTold(q) BY <2>1, <2>2, <2>3, <2>4 DEF RequestTold, Honest
  <2>6. RowTold' BY <1>0, <2>1 DEF RowTold, Honest
  <2> QED BY <1>00, <2>1, <2>5, <2>6, OneGoesOn
<1>6. CASE Keys!DeleteGitopsRepo
  <2> DEFINE q == Keys!Request("delete", row)
  <2>1. /\ talks' = talks \cup {q}
        /\ UNCHANGED <<row, made, apps, presents, known, rekeys, served, swapped>>
        BY <1>6 DEF Keys!DeleteGitopsRepo, Keys!Begins
  <2>2. q.op = "delete" BY NewRequest
  <2> HIDE DEF q
  <2>3. RequestTold(q) BY <2>2 DEF RequestTold
  <2>4. RowTold' BY <1>0, <2>1 DEF RowTold, Honest
  <2> QED BY <1>00, <2>1, <2>3, <2>4, OneGoesOn
<1>7. CASE Keys!AppComesOrGoes
  <2>1. UNCHANGED <<row, made, presents, known, talks, rekeys, served, swapped>>
        BY <1>7 DEF Keys!AppComesOrGoes
  <2>2. RowTold' /\ ServersTold' BY <1>0, <2>1 DEF RowTold, Honest, ServersTold
  <2> QED BY <1>00, <2>1, <2>2, OneEnds
<1> QED BY <1>1, <1>2, <1>3, <1>4, <1>5, <1>6, <1>7

(* What a request makes of what it was told. *)
LEMMA ConnectionAnswered ==
    ASSUME Keys!HostAssumption, PinInv, NEW q \in talks,
           \/ Keys!Talks(q) \/ Keys!RecordFailure(q) \/ Keys!RecordSuccess(q) \/ Keys!Save(q) \/ Keys!Delete(q)
           \/ Keys!Clone(q) \/ Keys!rememberKnownHosts(q)
    PROVE  PinInv' /\ Keys!PinHolds
<1>0. RowTold /\ ServersTold /\ RequestTold(q) BY DEF PinInv
<1>00. row' = row /\ known' = known /\ PinInv' => Keys!PinHolds
       BY DEF Keys!PinHolds, Keys!OnlyAsMeant, Keys!PinIsOfItsServer, PinInv, RowTold,
              Honest
<1>1. CASE Keys!Talks(q)
  <2> DEFINE key == presents[q.copy.url]
             told == [q EXCEPT !.op = "tested", !.heard = Keys!ToPin(q.copy.pin, key)]
             not == [q EXCEPT !.op = "failed"]
  <2>1. /\ q.op \in {"test", "look"}
        /\ UNCHANGED <<row, made, apps, presents, known, altered, rekeys, served, swapped>>
        /\ \/ Keys!Ends(q)
           \/ q.op = "test" /\ Keys!GoesOn(q, told)
           \/ q.op = "test" /\ Keys!GoesOn(q, not)
        BY <1>1, Zenon DEF Keys!Talks
  <2>2. RowTold' /\ ServersTold' BY <1>0, <2>1 DEF RowTold, Honest, ServersTold
  <2>3. CASE Keys!Ends(q) BY <1>00, <2>1, <2>2, <2>3, OneEnds DEF Keys!Ends
  <2>4. CASE q.op = "test" /\ Keys!GoesOn(q, told)
    <3>1. q.copy \in Rows /\ q.copy.url \in Hosts /\ q.copy.pin \in Keys!Pins /\ q.read = q.copy
          BY <1>0, <2>4, RowsTold DEF RequestTold
    <3>2. key \in HostKeys /\ <<q.copy.url, key>> \in served BY <1>0, <3>1 DEF ServersTold
    <3>3. told.op = "tested" /\ told.copy = q.copy /\ told.read = q.read
          /\ told.heard = Keys!ToPin(q.copy.pin, key)
          OBVIOUS
    <3> HIDE DEF told
    <3>4. RequestTold(told) BY <2>1, <3>1, <3>2, <3>3 DEF RequestTold, Keys!ToPin, Keys!Pins
    <3> QED BY <1>00, <2>1, <2>2, <2>4, <3>4, OneGoesOn DEF Keys!GoesOn
  <2>5. CASE q.op = "test" /\ Keys!GoesOn(q, not)
    <3>1. not.op = "failed" OBVIOUS
    <3> HIDE DEF not
    <3>2. RequestTold(not) BY <3>1 DEF RequestTold
    <3> QED BY <1>00, <2>1, <2>2, <2>5, <3>2, OneGoesOn DEF Keys!GoesOn
  <2> QED BY <2>1, <2>3, <2>4, <2>5
<1>2. CASE Keys!RecordFailure(q)
  <2>1. /\ talks' = talks \ {q} /\ row' = IF row = Keys!NoRow THEN row ELSE [row EXCEPT !.status = "failed"]
        /\ UNCHANGED <<made, apps, presents, known, altered, rekeys, served, swapped>>
        BY <1>2 DEF Keys!RecordFailure, Keys!Ends
  <2>2. row # Keys!NoRow => row' \in Rows /\ \A f \in Fields : row'[f] = row[f]
        BY <1>0, <2>1 DEF RowTold, Rows, Fields
  <2>3. RowTold' /\ ServersTold'
        BY <1>0, <2>1, <2>2, RowsTold DEF RowTold, Honest, ServersTold, Fields
  <2>4. Keys!PinHolds BY <2>1, <2>2, <2>3 DEF Keys!PinHolds, Keys!OnlyAsMeant,
                                              Keys!PinIsOfItsServer, RowTold, Honest, Fields
  <2> QED BY <2>1, <2>3, <2>4, OneEnds
<1>3. CASE Keys!RecordSuccess(q)
  <2> DEFINE pin == IF q.heard = Keys!NotPinned THEN row.pin ELSE q.heard
  <2>1. /\ q.op = "tested" /\ talks' = talks \ {q}
        /\ row' = IF row = Keys!NoRow THEN row ELSE [row EXCEPT !.status = "connected", !.pin = pin]
        /\ swapped \subseteq swapped'
        /\ row # Keys!NoRow /\ q.heard # Keys!NotPinned /\ row.url # q.copy.url =>
             <<row.url, q.heard>> \in swapped'
        /\ UNCHANGED <<made, apps, presents, known, altered, rekeys, served>>
        BY <1>3, Zenon DEF Keys!RecordSuccess, Keys!Ends
  <2>2. row # Keys!NoRow => pin \in Keys!Pins BY <1>0, <2>1, RowsTold DEF RowTold,
                                                                          RequestTold
  <2>3. ServersTold' BY <1>0, <2>1 DEF ServersTold
  <2>4. CASE row = Keys!NoRow
    <3>1. RowTold' BY <1>0, <2>1, <2>4 DEF RowTold
    <3> QED BY <1>00, <2>1, <2>3, <2>4, <3>1, OneEnds
  <2>5. CASE row # Keys!NoRow
    <3>1. row \in Rows BY <1>0, <2>5 DEF RowTold
    <3>2. row' = [url |-> row.url, key |-> row.key, pin |-> pin, secret |-> row.secret,
                  status |-> "connected"]
          BY <2>1, <2>5, <3>1 DEF Rows
    <3> HIDE DEF pin
    <3>3. row' \in Rows /\ row'.url = row.url /\ row'.pin = pin /\ row'.key = row.key
          /\ row'.secret = row.secret
          BY <2>2, <2>5, <3>1, <3>2 DEF Rows
    <3>4. Honest(row)'
      <4>1. CASE q.heard = Keys!NotPinned
        <5>1. pin = row.pin /\ Honest(row) BY <1>0, <2>5, <4>1 DEF RowTold, pin
        <5>2. swapped \subseteq swapped' BY <2>1
        <5>3. served' = served BY <2>1
        <5> QED BY <3>3, <5>1, <5>2, <5>3, Zenon DEF Honest
      <4>2. CASE q.heard # Keys!NotPinned
        <5>1. <<q.copy.url, q.heard>> \in served BY <1>0, <2>1, <4>2 DEF RequestTold
        <5>2. pin = q.heard BY <4>2 DEF pin
        <5>3. row.url = q.copy.url \/ <<row.url, q.heard>> \in swapped' BY <2>1, <2>5, <4>2
        <5> QED BY <2>1, <3>3, <5>1, <5>2, <5>3 DEF Honest
      <4> QED BY <4>1, <4>2
    <3>5. RowTold' BY <1>0, <2>1, <2>5, <3>3, <3>4 DEF RowTold
    <3>6. Keys!OnlyAsMeant
      <4>1. ASSUME NEW f \in {"url", "key", "pin", "secret"}, row'[f] # row[f]
            PROVE  \E r \in talks \ talks' : Keys!Meant(r, f) \/ Keys!Stale(r, f)
        <5>1. f = "pin" /\ q.heard # Keys!NotPinned BY <3>3, <4>1 DEF pin
        <5>2. q.read.pin = Keys!NotPinned BY <1>0, <2>1, <5>1 DEF RequestTold
        <5>3. Keys!Meant(q, f) \/ Keys!Stale(q, f)
              BY <2>1, <5>1, <5>2 DEF Keys!Meant, Keys!Stale
        <5> QED BY <2>1, <5>3
      <4> QED BY <2>1, <4>1 DEF Keys!OnlyAsMeant
    <3>7. Keys!PinIsOfItsServer' BY <3>4 DEF Keys!PinIsOfItsServer, Honest
    <3> QED BY <2>1, <2>3, <3>5, <3>6, <3>7, OneEnds DEF Keys!PinHolds
  <2> QED BY <2>4, <2>5
<1>4. CASE Keys!Save(q)
  <2>1. /\ q.op = "save" /\ talks' = talks \ {q} /\ row' = q.copy
        /\ UNCHANGED <<made, apps, presents, known, altered, rekeys, served, swapped>>
        BY <1>4 DEF Keys!Save, Keys!Ends
  <2>2. made /\ q.copy \in Rows /\ Honest(q.copy) /\ \A f \in Fields \ q.names : q.copy[f] = q.read[f]
        BY <1>0, <2>1 DEF RequestTold
  <2>3. RowTold' /\ ServersTold'
        BY <1>0, <2>1, <2>2 DEF RowTold, Honest, ServersTold
  <2>4. Keys!OnlyAsMeant
    <3>1. ASSUME NEW f \in {"url", "key", "pin", "secret"}, row'[f] # row[f]
          PROVE  Keys!Meant(q, f) \/ Keys!Stale(q, f)
          BY <2>1, <2>2, <3>1 DEF Keys!Meant, Keys!Stale, Fields
    <3>2. q \in talks \ talks' BY <2>1
    <3> QED BY <2>1, <3>1, <3>2 DEF Keys!OnlyAsMeant
  <2>5. Keys!PinIsOfItsServer' BY <2>1, <2>2 DEF Keys!PinIsOfItsServer, Honest
  <2> QED BY <2>1, <2>3, <2>4, <2>5, OneEnds DEF Keys!PinHolds
<1>5. CASE Keys!Delete(q)
  <2>1. /\ talks' = talks \ {q} /\ row' = Keys!NoRow
        /\ UNCHANGED <<made, apps, presents, known, altered, rekeys, served, swapped>>
        BY <1>5 DEF Keys!Delete, Keys!Ends
  <2>2. RowTold' /\ ServersTold' BY <1>0, <2>1 DEF RowTold, ServersTold
  <2>3. Keys!PinHolds BY <2>1 DEF Keys!PinHolds, Keys!OnlyAsMeant, Keys!PinIsOfItsServer
  <2> QED BY <2>1, <2>2, <2>3, OneEnds
<1>6. CASE Keys!Clone(q)
  <2> DEFINE key == presents[q.copy.url]
             told == [q EXCEPT !.op = "cloned", !.heard = key]
  <2>1. /\ q.op = "clone" /\ (Keys!GoesOn(q, told) \/ Keys!Ends(q))
        /\ UNCHANGED <<row, made, apps, presents, known, altered, rekeys, served, swapped>>
        BY <1>6, Zenon DEF Keys!Clone
  <2>2. RowTold' /\ ServersTold' BY <1>0, <2>1 DEF RowTold, Honest, ServersTold
  <2>3. CASE Keys!Ends(q) BY <1>00, <2>1, <2>2, <2>3, OneEnds DEF Keys!Ends
  <2>4. CASE Keys!GoesOn(q, told)
    <3>1. q.copy.url \in Hosts /\ key \in Keys!Pins BY <1>0, <2>1 DEF RequestTold,
                                                                      ServersTold, Keys!Pins
    <3>2. told.op = "cloned" /\ told.copy = q.copy /\ told.heard = key OBVIOUS
    <3> HIDE DEF told
    <3>3. RequestTold(told) BY <2>1, <3>1, <3>2 DEF RequestTold
    <3> QED BY <1>00, <2>1, <2>2, <2>4, <3>3, OneGoesOn DEF Keys!GoesOn
  <2> QED BY <2>1, <2>3, <2>4
<1>7. CASE Keys!rememberKnownHosts(q)
  <2>1. /\ q.op = "cloned" /\ talks' = talks \ {q}
        /\ known' = Keys!Remembered(q.copy.url, q.heard)
        /\ UNCHANGED <<row, made, apps, presents, altered, rekeys, served, swapped>>
        BY <1>7 DEF Keys!rememberKnownHosts, Keys!Ends
  <2>2. q.copy.url \in Hosts /\ q.heard \in Keys!Pins BY <1>0, <2>1 DEF RequestTold
  <2>3. /\ known' \in [Hosts -> Keys!Pins]
        /\ \A h \in Hosts : known[h] # Keys!NotPinned => known'[h] = known[h]
        BY <1>0, <2>1, <2>2 DEF ServersTold, Keys!Remembered
  <2>4. RowTold' /\ ServersTold' BY <1>0, <2>1, <2>3 DEF RowTold, Honest, ServersTold
  <2>5. Keys!PinHolds
        BY <1>0, <2>1, <2>3 DEF Keys!PinHolds, Keys!OnlyAsMeant, Keys!PinIsOfItsServer,
                                RowTold, Honest
  <2> QED BY <2>1, <2>4, <2>5, OneEnds
<1> QED BY <1>1, <1>2, <1>3, <1>4, <1>5, <1>6, <1>7

LEMMA PinStep ==
    Keys!HostAssumption /\ PinInv /\ [Keys!Next]_(Keys!vars) => PinInv' /\ [Keys!PinHolds]_(Keys!vars)
<1> SUFFICES ASSUME Keys!HostAssumption, PinInv, [Keys!Next]_(Keys!vars)
             PROVE  PinInv' /\ [Keys!PinHolds]_(Keys!vars)
    OBVIOUS
<1>1. CASE UNCHANGED Keys!vars
  <2>1. UNCHANGED <<row, made, presents, known, talks, served, swapped>> BY <1>1
                                                                         DEF Keys!vars
  <2>2. RowTold' /\ ServersTold' BY <2>1 DEF PinInv, RowTold, Honest, ServersTold
  <2> QED BY <1>1, <2>1, <2>2, OneEnds
<1>2. CASE Keys!Next BY <1>2, ConnectionAsked, ConnectionAnswered DEF Keys!Next
<1> QED BY <1>1, <1>2

(* gitops_repos.go and ssh_known_hosts.go: a pin is of the server that the  *)
(* connection reaches, or one of those that are known to have been crossed, *)
(* and changes only as somebody meant or by a request that writes over what *)
(* others changed while it was under way, an edit or a second first test,   *)
(* for any servers and requests at once.                                    *)
THEOREM PinsAreKept == ASSUME Keys!HostAssumption PROVE Keys!Spec => Keys!PinsStand
<1>1. Keys!Init => PinInv BY PinStart
<1>2. PinInv /\ [Keys!Next]_(Keys!vars) => PinInv' /\ [Keys!PinHolds]_(Keys!vars) BY PinStep
<1> QED BY <1>1, <1>2, PTL DEF Keys!Spec, Keys!PinsStand

(* The types of HostKeys.  The key and the secret of a row or of a copy     *)
(* that will be saved are of an edit that was made, or the first.           *)
Versioned(r) == r.key \in 1..(altered + 1) /\ r.secret \in 1..(altered + 1)
Carries(q) ==
    /\ q.slot \in 1..MaxRequests /\ q.heard \in Keys!Pins
    /\ q.op = "save" => Versioned(q.copy)
ConnectionInv ==
    /\ PinInv /\ altered \in 0..MaxEdits
    /\ row # Keys!NoRow => Versioned(row)
    /\ \A q \in talks : Carries(q)

LEMMA ConnectionWent ==
    ASSUME Keys!HostAssumption, ConnectionInv, PinInv', altered' \in 0..MaxEdits, altered <= altered',
           row' = row \/ (row' # Keys!NoRow => Versioned(row)'),
           \A q \in talks' \ talks : Carries(q)'
    PROVE  ConnectionInv'
<1>1. altered \in Nat /\ altered' \in Nat BY DEF ConnectionInv, Keys!HostAssumption
<1>2. ASSUME NEW r, Versioned(r) PROVE Versioned(r)' BY <1>1, <1>2 DEF Versioned
<1>3. row' # Keys!NoRow => Versioned(row)'
  <2>1. CASE row' = row /\ row # Keys!NoRow
    <3>1. PICK r : r = row OBVIOUS
    <3>2. Versioned(r) BY <2>1, <3>1 DEF ConnectionInv
    <3>3. Versioned(r)' BY <1>2, <3>2
    <3> QED BY <2>1, <3>1, <3>3 DEF Versioned
  <2> QED BY <2>1
<1>4. \A q \in talks : Carries(q)' BY <1>2 DEF ConnectionInv, Carries
<1> QED BY <1>3, <1>4 DEF ConnectionInv

(* A new request has a slot that was free, and has heard nothing. *)
LEMMA ConnectionRequest ==
    ASSUME Keys!Free # {}, NEW op, NEW copy
    PROVE  /\ Keys!Request(op, copy).slot \in 1..MaxRequests
           /\ Keys!Request(op, copy).heard \in Keys!Pins /\ Keys!Request(op, copy).op = op
BY DEF Keys!Request, Keys!Free, Keys!Pins

LEMMA ConnectionStep ==
    ASSUME Keys!HostAssumption, ConnectionInv, PinInv', [Keys!Next]_(Keys!vars)
    PROVE  ConnectionInv'
<1>0. altered \in 0..MaxEdits /\ altered \in Nat /\ altered <= altered /\ PinInv
      /\ (row # Keys!NoRow => row \in Rows /\ Versioned(row))
      BY DEF ConnectionInv, PinInv, RowTold, Keys!HostAssumption
<1>q. \A q \in talks : Carries(q) /\ RequestTold(q) BY DEF ConnectionInv, PinInv
<1>1. CASE UNCHANGED Keys!vars BY <1>0, <1>1, ConnectionWent DEF Keys!vars
<1>2. ASSUME NEW h \in Hosts, NEW imported \in BOOLEAN, Keys!CreateGitopsRepo(h, imported)
      PROVE  ConnectionInv'
  <2>1. PICK new : new = [url |-> h, key |-> 1, pin |-> Keys!NotPinned, secret |-> 1,
                          status |-> "pending"]
        OBVIOUS
  <2>2. /\ row' = new /\ UNCHANGED altered
        /\ (Keys!Begins(Keys!Request("test", new)) \/ UNCHANGED talks)
        BY <1>2, <2>1, Zenon DEF Keys!CreateGitopsRepo
  <2>3. Versioned(row)' BY <1>0, <2>1, <2>2 DEF Versioned
  <2>4. ASSUME NEW q \in talks' \ talks PROVE Carries(q)'
    <3>1. q = Keys!Request("test", new) /\ Keys!Free # {} BY <2>2, <2>4 DEF Keys!Begins
    <3> QED BY <3>1, ConnectionRequest DEF Carries
  <2> QED BY <1>0, <2>2, <2>3, <2>4, ConnectionWent
<1>3. ASSUME NEW h \in Hosts, Keys!ServerRekeys(h) PROVE ConnectionInv'
      BY <1>0, <1>3, ConnectionWent DEF Keys!ServerRekeys
<1>4. ASSUME NEW op \in {"test", "look", "clone", "delete"}, NEW copy,
             Keys!Begins(Keys!Request(op, copy)), UNCHANGED row,
             altered' \in 0..MaxEdits, altered <= altered'
      PROVE  ConnectionInv'
  <2>1. ASSUME NEW q \in talks' \ talks PROVE Carries(q)'
    <3>1. q = Keys!Request(op, copy) /\ Keys!Free # {} BY <1>4, <2>1 DEF Keys!Begins
    <3> QED BY <3>1, ConnectionRequest DEF Carries
  <2> QED BY <1>4, <2>1, ConnectionWent
<1>5. ASSUME NEW h \in Hosts, Keys!CloneBegins(h) PROVE ConnectionInv'
  <2>1. PICK copy : copy = [url |-> h, pin |-> Keys!pinnedKnownHosts(h)] OBVIOUS
  <2>2. Keys!Begins(Keys!Request("clone", copy)) /\ UNCHANGED <<row, altered>>
        BY <1>5, <2>1 DEF Keys!CloneBegins
  <2> QED BY <1>0, <1>4, <2>2
<1>6. CASE Keys!TestGitopsRepoConnection \/ Keys!ListBranches \/ Keys!Checkout
  <2>1. PICK op \in {"test", "look"} : Keys!Reads(op)
        BY <1>6 DEF Keys!TestGitopsRepoConnection, Keys!ListBranches, Keys!Checkout
  <2>2. PICK copy : copy = row OBVIOUS
  <2>3. Keys!Begins(Keys!Request(op, copy)) /\ UNCHANGED <<row, altered>>
        BY <2>1, <2>2 DEF Keys!Reads
  <2> QED BY <1>0, <1>4, <2>3
<1>7. ASSUME Keys!Counted PROVE altered' \in 0..MaxEdits /\ altered' = altered + 1
      BY <1>0, <1>7 DEF Keys!Counted, Keys!HostAssumption
<1>8. CASE Keys!DeleteGitopsRepo
  <2>1. PICK copy : copy = row OBVIOUS
  <2>2. Keys!Begins(Keys!Request("delete", copy)) /\ UNCHANGED row /\ Keys!Counted
        BY <1>8, <2>1 DEF Keys!DeleteGitopsRepo
  <2> QED BY <1>0, <1>4, <1>7, <2>2
<1>9. CASE Keys!AppComesOrGoes
      BY <1>0, <1>7, <1>9, ConnectionWent DEF Keys!AppComesOrGoes
<1>10. ASSUME NEW names \in Edits, NEW h \in Hosts, Keys!UpdateGitopsRepo(names, h)
       PROVE  ConnectionInv'
  <2>1. PICK copy : copy = Keys!Changed(row, names, h) OBVIOUS
  <2>2. PICK all : all = names \cup IF "url" \in names THEN {"pin"} ELSE {} OBVIOUS
  <2>3. PICK r : r = row OBVIOUS
  <2>4. /\ row # Keys!NoRow /\ UNCHANGED row /\ Keys!Counted
        /\ Keys!Begins([Keys!Request("save", r) EXCEPT !.copy = copy, !.names = all])
        BY <1>10, <2>1, <2>2, <2>3, Zenon DEF Keys!UpdateGitopsRepo
  <2>5. /\ copy.key = (IF "key" \in names THEN row.key + 1 ELSE row.key)
        /\ copy.secret = (IF "secret" \in names THEN row.secret + 1 ELSE row.secret)
        BY <1>0, <2>1, <2>4 DEF Keys!Changed, Rows
  <2>6. copy.key \in 1..(altered' + 1) /\ copy.secret \in 1..(altered' + 1)
        BY <1>0, <1>7, <2>4, <2>5 DEF Versioned
  <2>7. ASSUME NEW q \in talks' \ talks PROVE Carries(q)'
    <3>1. q = [Keys!Request("save", r) EXCEPT !.copy = copy, !.names = all] /\ Keys!Free # {}
          BY <2>4, <2>7 DEF Keys!Begins
    <3>2. q.copy = copy /\ q.slot = Keys!Request("save", r).slot
          /\ q.heard = Keys!Request("save", r).heard
          BY <3>1 DEF Keys!Request
    <3> QED BY <2>6, <3>1, <3>2, ConnectionRequest DEF Carries, Versioned
  <2> QED BY <1>0, <1>7, <2>4, <2>7, ConnectionWent
<1>11. ASSUME NEW q \in talks,
              Keys!Talks(q) \/ Keys!RecordFailure(q) \/ Keys!RecordSuccess(q) \/ Keys!Save(q)
                \/ Keys!Delete(q) \/ Keys!Clone(q) \/ Keys!rememberKnownHosts(q)
       PROVE  ConnectionInv'
  <2>1. CASE Keys!Delete(q) \/ Keys!rememberKnownHosts(q)
        BY <1>0, <2>1, ConnectionWent DEF Keys!Delete, Keys!rememberKnownHosts, Keys!Ends
  <2>2. CASE Keys!Save(q)
    <3>1. Versioned(row)' BY <1>q, <2>2 DEF Keys!Save, Carries, Versioned
    <3> QED BY <1>0, <2>2, <3>1, ConnectionWent DEF Keys!Save, Keys!Ends
  <2>3. CASE Keys!RecordFailure(q) \/ Keys!RecordSuccess(q)
    <3>1. row # Keys!NoRow => row'.key = row.key /\ row'.secret = row.secret
          BY <1>0, <2>3 DEF Keys!RecordFailure, Keys!RecordSuccess, Rows
    <3>2. row = Keys!NoRow => row' = row
          BY <2>3 DEF Keys!RecordFailure, Keys!RecordSuccess
    <3>3. UNCHANGED altered /\ talks' = talks \ {q}
          BY <2>3 DEF Keys!RecordFailure, Keys!RecordSuccess, Keys!Ends
    <3>4. row # Keys!NoRow => Versioned(row)' BY <1>0, <3>1, <3>3 DEF Versioned
    <3> QED BY <1>0, <3>2, <3>3, <3>4, ConnectionWent
  <2>4. CASE Keys!Talks(q) \/ Keys!Clone(q)
    <3>1. PICK key : key = presents[q.copy.url] OBVIOUS
    <3>2. PICK pin : pin = Keys!ToPin(q.copy.pin, key) OBVIOUS
    <3>3. q.op \in {"test", "look", "clone"} BY <2>4 DEF Keys!Talks, Keys!Clone
    <3>4. q.copy.url \in Hosts BY <1>q, <3>3 DEF RequestTold
    <3>5. key \in Keys!Pins /\ pin \in Keys!Pins
          BY <1>0, <3>1, <3>2, <3>4 DEF PinInv, ServersTold, Keys!Pins, Keys!ToPin
    <3>6. /\ UNCHANGED <<row, altered>>
          /\ \/ talks' = talks \ {q}
             \/ talks' = (talks \ {q}) \cup {[q EXCEPT !.op = "failed"]}
             \/ talks' = (talks \ {q}) \cup {[q EXCEPT !.op = "tested", !.heard = pin]}
             \/ talks' = (talks \ {q}) \cup {[q EXCEPT !.op = "cloned", !.heard = key]}
          BY <2>4, <3>1, <3>2, Zenon DEF Keys!Talks, Keys!Clone, Keys!Ends, Keys!GoesOn
    <3>7. ASSUME NEW r \in talks' \ talks PROVE Carries(r)'
      <4>1. /\ r.slot = q.slot
            /\ r.heard \in Keys!Pins /\ r.op # "save"
        <5>1. \/ r = [q EXCEPT !.op = "failed"]
              \/ r = [q EXCEPT !.op = "tested", !.heard = pin]
              \/ r = [q EXCEPT !.op = "cloned", !.heard = key]
              BY <3>6, <3>7
        <5>2. [q EXCEPT !.op = "failed"].op = "failed"
              /\ [q EXCEPT !.op = "failed"].slot = q.slot
              /\ [q EXCEPT !.op = "failed"].heard = q.heard
              OBVIOUS
        <5>3. [q EXCEPT !.op = "tested", !.heard = pin].op = "tested"
              /\ [q EXCEPT !.op = "tested", !.heard = pin].slot = q.slot
              /\ [q EXCEPT !.op = "tested", !.heard = pin].heard = pin
              OBVIOUS
        <5>4. [q EXCEPT !.op = "cloned", !.heard = key].op = "cloned"
              /\ [q EXCEPT !.op = "cloned", !.heard = key].slot = q.slot
              /\ [q EXCEPT !.op = "cloned", !.heard = key].heard = key
              OBVIOUS
        <5>5. q.heard \in Keys!Pins BY <1>q DEF Carries
        <5> QED BY <3>5, <5>1, <5>2, <5>3, <5>4, <5>5
      <4> QED BY <1>q, <4>1 DEF Carries
    <3> QED BY <1>0, <3>6, <3>7, ConnectionWent
  <2> QED BY <1>11, <2>1, <2>2, <2>3, <2>4
<1> QED BY <1>1, <1>2, <1>3, <1>5, <1>6, <1>8, <1>9, <1>10, <1>11 DEF Keys!Next

(* gitops_repos.go: the row, its copies and the pins keep their types and  *)
(* the keys their bounds.                                                  *)
THEOREM ConnectionTyped == ASSUME Keys!HostAssumption PROVE Keys!Spec => []Keys!TypeOK
<1>1. Keys!Init => ConnectionInv
      BY PinStart DEF Keys!Init, ConnectionInv, Keys!HostAssumption
<1>2. ConnectionInv /\ [Keys!Next]_(Keys!vars) => ConnectionInv'
      BY ConnectionStep, PinStep DEF ConnectionInv
<1>3. ConnectionInv => Keys!TypeOK
  <2> SUFFICES ASSUME ConnectionInv PROVE Keys!TypeOK OBVIOUS
  <2>1. \A n : n \in 1..(altered + 1) => n \in 1..(MaxEdits + 1)
        BY DEF ConnectionInv, Keys!HostAssumption
  <2> QED BY <2>1 DEF ConnectionInv, PinInv, RowTold, ServersTold, Rows, Versioned, Carries,
                      Keys!TypeOK
<1> QED BY <1>1, <1>2, <1>3, PTL DEF Keys!Spec

-----------------------------------------------------------------------------
(***************************************************************************)
(* Repositories (Provisioning), for any users and any number of requests   *)
(* at once: a row goes only as somebody meant, and what clones with a key  *)
(* can, or its user was told.                                              *)
(*                                                                         *)
(* A key is in the row or at ArgoCD only when the request it was made for  *)
(* is past its commit, after which a warning is not taken back.  A row is  *)
(* known by the request that made it, which is then done; so the row that  *)
(* a rejection has read is the only one that it can hit.                   *)
(***************************************************************************)
CONSTANTS Requesters, Admins, MaxJobs, MaxOpen, MaxCrashes
VARIABLES scm, argo, job, gone, crashes
Repo == INSTANCE Provisioning WITH Users <- Requesters, MaxRequests <- MaxJobs

Creating == {"ask", "create", "key", "commit", "unlist", "list"}
Removing == {"purge", "unargo", "erase"}
Landing == {"unlist", "list", "done"}
Askers == Requesters \cup {"-"}
RepoRow == [by : Nat, user : Askers, status : {"imported", "pending_approval", "created"}, key : Nat]
RepoRows == {<<>>} \cup {<<r>> : r \in RepoRow}
Jobs == [what : {"-", "create", "reject", "delete"}, user : Askers,
         at : {"unborn", "drop", "done"} \cup Creating \cup Removing, saw : RepoRows, key : Nat,
         warned : SUBSET {"key", "argo", "lost"}]
RepoTyped ==
    /\ row \in RepoRows /\ job \in [Repo!Requests -> Jobs]
    /\ scm \in [there : BOOLEAN, keys : SUBSET Nat] /\ gone \subseteq Nat
    /\ argo \in [app : Nat, key : Nat]

(* A request with this number is past its commit. *)
Landed(k) == k \in Repo!Requests /\ job[k].at \in Landing
(* The request that made this row is done; one of before the first has none. *)
MadeBefore(r) ==
    r[1].by = 0 \/ (r[1].by \in Repo!Requests /\ job[r[1].by].at = "done")

(* What a request under way is about, and what it knows. *)
JobTold(s) ==
    /\ job[s].at \in Creating => job[s].what = "create"
    /\ job[s].at \in {"commit", "unlist", "list"} =>
         job[s].key \in {0, s} /\ (job[s].key = s => Repo!Opens(s))
    /\ job[s].at = "drop" =>
         /\ job[s].what = "reject" /\ Repo!Pending(job[s].saw) /\ MadeBefore(job[s].saw)
         /\ row # <<>> /\ row[1].by = job[s].saw[1].by => row = job[s].saw
    /\ job[s].at \in Removing =>
         job[s].what = "delete" /\ (job[s].user \in Admins \/ Repo!Of(job[s].saw, job[s].user))
(* Whose keys are in use. *)
KeysLanded ==
    /\ row # <<>> => MadeBefore(row) /\ (row[1].key = 0 \/ Landed(row[1].key))
    /\ argo.key \in {0, Repo!unregistered} \/ Landed(argo.key)
    /\ argo.app = 0 \/ Landed(argo.app)

RepoInv == RepoTyped /\ KeysLanded /\ Repo!KeysOpen /\ \A s \in Repo!Requests : JobTold(s)

(* An answer is not taken back, and a key not forgotten. *)
Onward ==
    /\ scm.keys \cup gone \subseteq scm'.keys \cup gone'
    /\ \A k \in Repo!Requests :
         /\ job[k].at \in Landing =>
              job'[k].at \in Landing /\ (job[k].warned \subseteq job'[k].warned \/ "lost" \in job'[k].warned)
         /\ job[k].at = "done" => job'[k].at = "done"

LEMMA RepoStart == Repo!ProvisioningBounds /\ Repo!Init => RepoInv
<1> SUFFICES ASSUME Repo!ProvisioningBounds, Repo!Init PROVE RepoInv OBVIOUS
<1>0. /\ Repo!Unborn \in Jobs /\ Repo!Unborn.at = "unborn"
      BY DEF Repo!Unborn, Jobs, RepoRows, Askers
<1>1. row \in RepoRows /\ (row # <<>> => row[1].by = 0 /\ row[1].key = 0)
  <2>1. CASE row = <<>> BY <2>1 DEF RepoRows
  <2>2. CASE \E who \in Requesters \ Admins : row = Repo!Row(0, who, "imported", 0)
    <3>1. PICK who \in Requesters : row = <<[by |-> 0, user |-> who, status |-> "imported", key |-> 0]>>
          BY <2>2 DEF Repo!Row
    <3> QED BY <3>1 DEF RepoRows, RepoRow, Askers
  <2> QED BY <2>1, <2>2 DEF Repo!Init
<1>2. /\ argo = [app |-> 0, key |-> MaxJobs + 1] /\ scm.keys = {} /\ gone = {}
      /\ scm \in [there : BOOLEAN, keys : SUBSET Nat] /\ MaxJobs + 1 \in Nat
      /\ job = [s \in Repo!Requests |-> Repo!Unborn]
      BY DEF Repo!Init, Repo!unregistered, Repo!ProvisioningBounds
<1>3. RepoTyped BY <1>0, <1>1, <1>2 DEF RepoTyped
<1>4. \A s \in Repo!Requests : JobTold(s) BY <1>0, <1>2 DEF JobTold, Creating, Removing
<1> QED BY <1>1, <1>2, <1>3, <1>4
        DEF RepoInv, KeysLanded, Repo!KeysOpen, Repo!Opens, MadeBefore, Repo!unregistered

(* What has landed stays, and opens what it opened. *)
LEMMA LandedStays ==
    ASSUME RepoInv, Onward
    PROVE  \A k : Landed(k) => /\ Landed(k)'
                               /\ Repo!Opens(k) => Repo!Opens(k)'
                               /\ \A w : Repo!Told(k, w) => Repo!Told(k, w)'
<1> SUFFICES ASSUME NEW k, Landed(k)
             PROVE  /\ Landed(k)'
                    /\ Repo!Opens(k) => Repo!Opens(k)'
                    /\ \A w : Repo!Told(k, w) => Repo!Told(k, w)'
    OBVIOUS
<1>1. /\ k \in Repo!Requests /\ Landed(k)'
      /\ job[k].warned \subseteq job'[k].warned \/ "lost" \in job'[k].warned
      BY DEF Landed, Onward
<1>2. ASSUME NEW w, Repo!Told(k, w) PROVE Repo!Told(k, w)'
      BY <1>1, <1>2, Zenon DEF Repo!Told
<1>3. Repo!Opens(k) => Repo!Opens(k)' BY <1>2 DEF Onward, Repo!Opens
<1> QED BY <1>1, <1>2, <1>3

LEMMA MadeBeforeStays ==
    ASSUME Onward, NEW r, MadeBefore(r) PROVE MadeBefore(r)'
BY DEF Onward, MadeBefore, Repo!Requests

(* A row that stays keeps its key and its request. *)
LEMMA RowStands ==
    ASSUME RepoInv, Onward, row' = row, row # <<>>
    PROVE  MadeBefore(row)' /\ (row[1].key = 0 \/ Landed(row[1].key)') /\ Repo!Opens(row[1].key)'
<1>1. MadeBefore(row)' BY DEF Onward, MadeBefore, Repo!Requests, RepoInv, KeysLanded
<1>2. PICK c : c = row[1].key OBVIOUS
<1>3. Repo!Opens(c) /\ (c = 0 \/ Landed(c)) BY <1>2 DEF RepoInv, KeysLanded, Repo!KeysOpen
<1>4. Repo!Opens(c)' /\ (c = 0 \/ Landed(c)') BY <1>3, LandedStays DEF Repo!Opens
<1> QED BY <1>1, <1>2, <1>4 DEF Repo!Opens, Repo!Told, Landed

(* While row and ArgoCD stay, so does what is known of their keys. *)
LEMMA KeysStay ==
    ASSUME RepoInv, Onward, row' = row \/ row' = <<>>, argo' = argo
    PROVE  KeysLanded' /\ Repo!KeysOpen'
<1>1. row' # <<>> => MadeBefore(row)'
      BY DEF Onward, MadeBefore, Repo!Requests, RepoInv, KeysLanded
<1>2. Repo!Opens(0)' BY DEF Repo!Opens
<1>3. KeysLanded' BY <1>1, LandedStays DEF RepoInv, KeysLanded, MadeBefore, Repo!unregistered
<1>4. row' # <<>> => Repo!Opens(row[1].key)'
  <2> SUFFICES ASSUME row' = row, row # <<>> PROVE Repo!Opens(row[1].key)' OBVIOUS
  <2> DEFINE k == row[1].key
  <2>1. Repo!Opens(k) /\ (k = 0 \/ Landed(k)) BY DEF RepoInv, KeysLanded, Repo!KeysOpen
  <2>2. PICK c : c = k OBVIOUS
  <2>3. Repo!Opens(c)' BY <1>2, <2>1, <2>2, LandedStays
  <2> QED BY <2>2, <2>3 DEF Repo!Opens, Repo!Told
<1>5. argo.app # 0 => (argo.key # Repo!unregistered /\ Repo!Opens(argo.key)') \/ Repo!Told(argo.app, "argo")'
      BY <1>2, LandedStays DEF RepoInv, KeysLanded, Repo!KeysOpen
<1> QED BY <1>3, <1>4, <1>5 DEF Repo!KeysOpen, Repo!unregistered, Repo!Opens, Repo!Told

(* The other requests know what they knew. *)
LEMMA OthersTold ==
    ASSUME RepoInv, Onward, NEW s \in Repo!Requests,
           \A t \in Repo!Requests \ {s} : job'[t] = job[t],
           row' = row \/ row' = <<>> \/ (row'[1].by = s /\ s # 0 /\ job[s].at # "done")
    PROVE  \A t \in Repo!Requests \ {s} : JobTold(t)'
<1> SUFFICES ASSUME NEW t \in Repo!Requests \ {s} PROVE JobTold(t)' OBVIOUS
<1>1. JobTold(t) /\ job'[t] = job[t] BY DEF RepoInv
<1>2. Repo!Opens(t) => Repo!Opens(t)' BY <1>1 DEF Onward, Repo!Opens, Repo!Told
<1>3. ASSUME job[t].at = "drop"
      PROVE  MadeBefore(job[t].saw)' /\ (row' # <<>> /\ row'[1].by = job[t].saw[1].by => row' = job[t].saw)
  <2>1. MadeBefore(job[t].saw) /\ (row # <<>> /\ row[1].by = job[t].saw[1].by => row = job[t].saw)
        BY <1>1, <1>3 DEF JobTold
  <2>2. MadeBefore(job[t].saw)' BY <1>1, <2>1, MadeBeforeStays DEF MadeBefore
  <2> QED BY <2>1, <2>2 DEF MadeBefore
<1> QED BY <1>1, <1>2, <1>3 DEF JobTold, MadeBefore

(* A request that goes on, or ends. *)
LEMMA GoesOn ==
    ASSUME RepoInv, NEW s \in Repo!Requests, NEW j \in Jobs, job' = [job EXCEPT ![s] = j],
           scm.keys \cup gone \subseteq scm'.keys \cup gone', job[s].at # "done",
           job[s].at \in Landing => j.at \in Landing /\ job[s].warned \subseteq j.warned
    PROVE  /\ Onward /\ job' \in [Repo!Requests -> Jobs] /\ job'[s] = j
           /\ \A t \in Repo!Requests \ {s} : job'[t] = job[t]
<1>1. job \in [Repo!Requests -> Jobs] BY DEF RepoInv, RepoTyped
<1>2. job' \in [Repo!Requests -> Jobs] /\ job'[s] = j BY <1>1
<1>3. \A t \in Repo!Requests \ {s} : job'[t] = job[t] BY <1>1
<1> QED BY <1>2, <1>3 DEF Onward

(* What a step has to show. *)
LEMMA RepoGoesOn ==
    ASSUME RepoInv, NEW s \in Repo!Requests, NEW j \in Jobs, job' = [job EXCEPT ![s] = j],
           scm' \in [there : BOOLEAN, keys : SUBSET Nat], gone' \subseteq Nat,
           scm.keys \cup gone \subseteq scm'.keys \cup gone', job[s].at # "done",
           job[s].at \in Landing => j.at \in Landing /\ job[s].warned \subseteq j.warned,
           argo' \in [app : Nat, key : Nat], row' \in RepoRows,
           row' = row \/ row' = <<>> \/ (row'[1].by = s /\ s # 0),
           Onward => KeysLanded' /\ Repo!KeysOpen' /\ JobTold(s)'
    PROVE  RepoInv'
<1>1. /\ Onward /\ job' \in [Repo!Requests -> Jobs]
      /\ \A t \in Repo!Requests \ {s} : job'[t] = job[t]
      BY GoesOn
<1>2. RepoTyped' BY <1>1 DEF RepoTyped, Repo!Requests
<1>3. \A t \in Repo!Requests \ {s} : JobTold(t)' BY <1>1, OthersTold
<1> QED BY <1>1, <1>2, <1>3 DEF RepoInv, Repo!Requests

(* What the steps write of a request: j is of the one that was i. *)
Steps == {"unborn", "drop", "done"} \cup Creating \cup Removing
Warnings == {"key", "argo", "lost"}
Moved(j, i, step, w) ==
    /\ j.what = i.what /\ j.user = i.user /\ j.at = step /\ j.saw = i.saw
    /\ j.key = i.key /\ j.warned = i.warned \cup w
Over(j, w) == j.at = "done" /\ j.warned = w
Newborn(j, what, who, step, saw) ==
    j.what = what /\ j.user = who /\ j.at = step /\ j.saw = saw /\ j.warned = {}
Becomes(s, j) == j \in Jobs /\ job' = [job EXCEPT ![s] = j]

LEMMA MovesOn ==
    ASSUME RepoInv, NEW s \in Repo!Requests, NEW step \in Steps, Repo!Moves(s, step)
    PROVE  \E j : Becomes(s, j) /\ Moved(j, job[s], step, {})
<1>1. PICK i \in Jobs : i = job[s] BY DEF RepoInv, RepoTyped
<1> DEFINE j == [i EXCEPT !.at = step]
<1>2. j \in Jobs BY DEF Jobs, Steps
<1>3. Moved(j, i, step, {}) BY DEF Jobs, Moved
<1>4. job' = [job EXCEPT ![s] = j] BY <1>1 DEF RepoInv, RepoTyped, Repo!Moves
<1> QED BY <1>1, <1>2, <1>3, <1>4 DEF Becomes

LEMMA MovesOnWarned ==
    ASSUME RepoInv, NEW s \in Repo!Requests, NEW step \in Steps, NEW w \in SUBSET Warnings,
           Repo!MovesWarned(s, step, w)
    PROVE  \E j : Becomes(s, j) /\ Moved(j, job[s], step, w)
<1>1. PICK i \in Jobs : i = job[s] BY DEF RepoInv, RepoTyped
<1> DEFINE j == [i EXCEPT !.at = step, !.warned = @ \cup w]
<1>2. j \in Jobs BY DEF Jobs, Steps, Warnings
<1>3. Moved(j, i, step, w) BY DEF Jobs, Moved
<1>4. job' = [job EXCEPT ![s] = j] BY <1>1, Zenon DEF Repo!MovesWarned
<1> QED BY <1>1, <1>2, <1>3, <1>4 DEF Becomes

LEMMA UnbornIs ==
    /\ Repo!Unborn \in Jobs
    /\ Repo!Unborn.warned = {} /\ Repo!Unborn.key = 0
BY DEF Repo!Unborn, Jobs, RepoRows, Askers

LEMMA ComesToAnEnd ==
    ASSUME NEW s \in Repo!Requests, NEW w \in SUBSET Warnings, Repo!Ends(s, w)
    PROVE  \E j : Becomes(s, j) /\ Over(j, w)
<1>1. PICK i \in Jobs : i = Repo!Unborn BY UnbornIs
<1> DEFINE j == [i EXCEPT !.at = "done", !.warned = w]
<1>2. j \in Jobs BY DEF Jobs, Warnings
<1>3. Over(j, w) BY DEF Jobs, Over
<1>4. job' = [job EXCEPT ![s] = j] BY <1>1, Zenon DEF Repo!Ends
<1> QED BY <1>2, <1>3, <1>4 DEF Becomes

LEMMA ComesToBe ==
    ASSUME NEW s \in Repo!Requests, NEW what \in {"create", "reject", "delete"},
           NEW who \in Askers, NEW step \in Steps, NEW saw \in RepoRows,
           Repo!Born(s, what, who, step, saw)
    PROVE  \E j : Becomes(s, j) /\ Newborn(j, what, who, step, saw)
<1>1. PICK i \in Jobs : i = Repo!Unborn /\ i.warned = {} BY UnbornIs
<1> DEFINE j == [i EXCEPT !.what = what, !.user = who, !.at = step, !.saw = saw]
<1>2. j \in Jobs BY DEF Jobs, Steps
<1>3. Newborn(j, what, who, step, saw) BY <1>1 DEF Jobs, Newborn
<1>4. job' = [job EXCEPT ![s] = j] BY <1>1, Zenon DEF Repo!Born
<1> QED BY <1>2, <1>3, <1>4 DEF Becomes

LEMMA KeyComes ==
    ASSUME RepoInv, NEW s \in Repo!Requests, NEW w \in SUBSET Warnings, NEW k \in Nat,
           Repo!TakesKey(s, k, w)
    PROVE  \E j : /\ Becomes(s, j) /\ j.what = job[s].what /\ j.at = "commit" /\ j.key = k
                  /\ j.warned = job[s].warned \cup w
<1>1. PICK i \in Jobs : i = job[s] BY DEF RepoInv, RepoTyped
<1> DEFINE j == [i EXCEPT !.at = "commit", !.key = k, !.warned = @ \cup w]
<1>2. j \in Jobs BY DEF Jobs, Steps, Warnings, Creating
<1>3. j.what = i.what /\ j.at = "commit" /\ j.key = k /\ j.warned = i.warned \cup w BY DEF Jobs
<1>4. job' = [job EXCEPT ![s] = j] BY <1>1, Zenon DEF Repo!TakesKey
<1> QED BY <1>1, <1>2, <1>3, <1>4 DEF Becomes

(* A step of request s, which is j from then on. *)
LEMMA RepoSteps ==
    ASSUME RepoInv, NEW s \in Repo!Requests, NEW j, Becomes(s, j), j.at # job[s].at,
           scm' \in [there : BOOLEAN, keys : SUBSET Nat], gone' \subseteq Nat,
           scm.keys \cup gone \subseteq scm'.keys \cup gone', job[s].at # "done",
           job[s].at \in Landing => j.at \in Landing /\ job[s].warned \subseteq j.warned,
           argo' \in [app : Nat, key : Nat], row' \in RepoRows,
           row' = row \/ row' = <<>> \/ (row'[1].by = s /\ s # 0),
           Onward /\ job'[s] = j => KeysLanded' /\ Repo!KeysOpen' /\ JobTold(s)',
           row # <<>> /\ row' # row => Repo!LosesKnowingly(IF job[s].at = "unborn" THEN j ELSE job[s])
    PROVE  RepoInv' /\ Repo!RowsGoKnowingly
<1>1. j \in Jobs /\ job' = [job EXCEPT ![s] = j] BY DEF Becomes
<1>2. Onward /\ job'[s] = j BY <1>1, GoesOn
<1>3. RepoInv' BY <1>1, <1>2, RepoGoesOn
<1>4. Repo!RowsGoKnowingly BY <1>2 DEF Repo!RowsGoKnowingly, Repo!At
<1> QED BY <1>3, <1>4

(* One that takes the row at most, and has no key to answer for. *)
LEMMA QuietSteps ==
    ASSUME RepoInv, NEW s \in Repo!Requests, NEW j, Becomes(s, j), j.at # job[s].at,
           scm' \in [there : BOOLEAN, keys : SUBSET Nat], gone' \subseteq Nat,
           scm.keys \cup gone \subseteq scm'.keys \cup gone', job[s].at # "done",
           job[s].at \in Landing => j.at \in Landing /\ job[s].warned \subseteq j.warned,
           argo' = argo, row' = row \/ row' = <<>>,
           Onward /\ job'[s] = j => JobTold(s)',
           row # <<>> /\ row' # row => Repo!LosesKnowingly(IF job[s].at = "unborn" THEN j ELSE job[s])
    PROVE  RepoInv' /\ Repo!RowsGoKnowingly
<1>1. argo' \in [app : Nat, key : Nat] /\ row' \in RepoRows BY DEF RepoInv, RepoTyped, RepoRows
<1> QED BY <1>1, KeysStay, RepoSteps

(* Requests, one by one. *)
LEMMA Creates ==
    ASSUME RepoInv, NEW s \in Repo!Requests, NEW who \in Requesters, NEW manual \in BOOLEAN,
           Repo!CreateRepository(s, who, manual)
    PROVE  RepoInv' /\ Repo!RowsGoKnowingly
<1> DEFINE step == IF manual THEN "ask" ELSE "create"
<1>1. /\ job[s].at = "unborn" /\ UNCHANGED <<scm, argo, gone>>
      /\ row' = row \/ (row' = <<>> /\ Repo!Of(row, who))
      /\ Repo!Born(s, "create", who, step, <<>>)
      BY DEF Repo!CreateRepository, Repo!Begins, Repo!At
<1>2. step \in Steps /\ step \in {"ask", "create"} BY DEF Steps, Creating
<1>3. PICK j : Becomes(s, j) /\ Newborn(j, "create", who, step, <<>>)
      BY <1>1, <1>2, ComesToBe DEF RepoRows, Askers
<1>4. j.what = "create" /\ j.at \in {"ask", "create"} /\ j.user = who BY <1>2, <1>3 DEF Newborn
<1>5. Onward /\ job'[s] = j => JobTold(s)' BY <1>4 DEF JobTold, Removing
<1> QED BY <1>1, <1>3, <1>4, <1>5, QuietSteps DEF RepoInv, RepoTyped, Landing, Repo!LosesKnowingly

LEMMA ApprovesOrRejects ==
    ASSUME RepoInv, NEW s \in Repo!Requests, NEW who \in Requesters,
           Repo!ApproveRepository(s, who) \/ Repo!RejectRepository(s, who)
    PROVE  RepoInv' /\ Repo!RowsGoKnowingly
<1>1. /\ job[s].at = "unborn" /\ UNCHANGED <<row, scm, argo, gone>> /\ Repo!Pending(row)
      BY DEF Repo!ApproveRepository, Repo!RejectRepository, Repo!Begins, Repo!At
<1>2. /\ row \in RepoRows /\ row # <<>> /\ row[1].user \in Askers /\ <<>> \in RepoRows
      /\ MadeBefore(row) /\ who \in Askers
      BY <1>1 DEF RepoInv, RepoTyped, KeysLanded, RepoRows, RepoRow, Repo!Pending, Askers
<1>3. CASE Repo!ApproveRepository(s, who)
  <2>1. PICK j : Becomes(s, j) /\ Newborn(j, "create", row[1].user, "create", <<>>)
        BY <1>2, <1>3, ComesToBe DEF Repo!ApproveRepository, Steps, Creating
  <2>2. Onward /\ job'[s] = j => JobTold(s)' BY <2>1 DEF JobTold, Removing, Newborn
  <2> QED BY <1>1, <2>1, <2>2, QuietSteps DEF RepoInv, RepoTyped, Landing, Newborn
<1>4. CASE Repo!RejectRepository(s, who)
  <2>1. PICK j : Becomes(s, j) /\ Newborn(j, "reject", who, "drop", row)
        BY <1>2, <1>4, ComesToBe DEF Repo!RejectRepository, Steps
  <2>2. ASSUME Onward, job'[s] = j PROVE JobTold(s)'
    <3>1. MadeBefore(row)' BY <1>1, <1>2, <2>2 DEF MadeBefore, Onward, Repo!Requests
    <3>2. j.what = "reject" /\ j.at = "drop" /\ j.saw = row BY <2>1 DEF Newborn
    <3> QED BY <1>1, <2>2, <3>1, <3>2 DEF JobTold, Creating, Removing, MadeBefore, Repo!Pending
  <2> QED BY <1>1, <2>1, <2>2, QuietSteps DEF RepoInv, RepoTyped, Landing, Newborn
<1> QED BY <1>3, <1>4

LEMMA AsksToDelete ==
    ASSUME RepoInv, NEW s \in Repo!Requests, NEW who \in Requesters,
           Repo!DeleteRepository(s, who)
    PROVE  RepoInv' /\ Repo!RowsGoKnowingly
<1> DEFINE step == IF who \in Admins THEN "purge" ELSE "erase"
<1>1. /\ job[s].at = "unborn" /\ UNCHANGED <<row, scm, argo, gone>>
      /\ who \in Admins \/ Repo!Of(row, who)
      /\ Repo!Born(s, "delete", who, step, row)
      BY DEF Repo!DeleteRepository, Repo!Begins, Repo!At
<1>2. step \in Steps /\ step \in {"purge", "erase"} BY DEF Steps, Removing
<1>3. PICK j : Becomes(s, j) /\ Newborn(j, "delete", who, step, row)
      BY <1>1, <1>2, ComesToBe DEF RepoInv, RepoTyped, Askers
<1>4. j.what = "delete" /\ j.at \in {"purge", "erase"} /\ j.user = who /\ j.saw = row
      BY <1>2, <1>3 DEF Newborn
<1>5. Onward /\ job'[s] = j => JobTold(s)' BY <1>1, <1>4 DEF JobTold, Creating, Repo!Of
<1> QED BY <1>1, <1>3, <1>4, <1>5, QuietSteps DEF RepoInv, RepoTyped, Landing

(* What is created, asked for or imported is new, and has the workspace's key. *)
LEMMA RowComes ==
    ASSUME RepoInv, NEW s \in Repo!Requests, NEW j, Becomes(s, j), j.at = "done",
           job[s].at \in {"unborn", "ask", "list"}, row = <<>>,
           job[s].at \in Landing => job[s].warned \subseteq j.warned,
           NEW who \in Askers, NEW status \in {"imported", "pending_approval", "created"},
           NEW k \in Nat, k = 0 \/ (Repo!Opens(k) /\ k = s /\ job[s].at = "list"),
           row' = Repo!Row(s, who, status, k), UNCHANGED <<scm, argo, gone>>
    PROVE  RepoInv' /\ Repo!RowsGoKnowingly
<1>1. /\ row' = <<[by |-> s, user |-> who, status |-> status, key |-> k]>> /\ s \in Nat /\ s # 0
      BY DEF Repo!Row, Repo!Requests
<1>2. row' \in RepoRows /\ row'[1].by = s /\ row'[1].key = k BY <1>1 DEF RepoRows, RepoRow
<1>3. ASSUME Onward, job'[s] = j PROVE KeysLanded' /\ Repo!KeysOpen' /\ JobTold(s)'
  <2>1. JobTold(s)' BY <1>3 DEF JobTold, Creating, Removing
  <2>2. MadeBefore(row)' BY <1>2, <1>3 DEF MadeBefore, Repo!Requests
  <2>3. Landed(s)' BY <1>3 DEF Landed, Landing, Repo!Requests
  <2>4. (k = 0 \/ Landed(k)') /\ Repo!Opens(k)'
    <3>1. job[s].at = "list" => Landed(s) BY DEF Landed, Landing
    <3> QED BY <1>3, <2>3, <3>1, LandedStays DEF Repo!Opens
  <2>4a. Repo!Opens(0)' BY DEF Repo!Opens
  <2>5. /\ argo.key \in {0, Repo!unregistered} \/ Landed(argo.key)'
        /\ argo.app = 0 \/ Landed(argo.app)'
        /\ argo.app # 0 => (argo.key # Repo!unregistered /\ Repo!Opens(argo.key)')
                             \/ Repo!Told(argo.app, "argo")'
        BY <1>3, <2>4a, LandedStays DEF RepoInv, KeysLanded, Repo!KeysOpen, Repo!unregistered
  <2>6. KeysLanded' BY <1>2, <2>2, <2>4, <2>5 DEF KeysLanded, Repo!unregistered, Landed
  <2>7. Repo!KeysOpen' BY <1>2, <2>4, <2>5 DEF Repo!KeysOpen, Repo!unregistered, Repo!Opens, Repo!Told
  <2> QED BY <2>1, <2>6, <2>7
<1> QED BY <1>1, <1>2, <1>3, RepoSteps DEF RepoInv, RepoTyped, Landing

LEMMA PendingOrImported ==
    ASSUME RepoInv, NEW s \in Repo!Requests,
           Repo!CreatePending(s) \/ (\E who \in Requesters, listed \in BOOLEAN :
                                       Repo!ImportRepository(s, who, listed))
    PROVE  RepoInv' /\ Repo!RowsGoKnowingly
<1>0. job[s] \in Jobs BY DEF RepoInv, RepoTyped
<1>1. CASE Repo!CreatePending(s)
  <2>1. job[s].at = "ask" /\ UNCHANGED <<scm, argo, gone>> /\ Repo!Ends(s, job[s].warned)
        BY <1>1 DEF Repo!CreatePending, Repo!At, Repo!Answers
  <2>2. PICK j : Becomes(s, j) /\ Over(j, job[s].warned)
        BY <1>0, <2>1, ComesToAnEnd DEF Jobs, Warnings
  <2>3. job[s].user \in Askers BY <1>0 DEF Jobs
  <2>4. CASE row = <<>> /\ row' = Repo!Row(s, job[s].user, "pending_approval", 0)
        BY <2>1, <2>2, <2>3, <2>4, RowComes DEF Over
  <2>5. CASE row' = row
    <3>2. Onward /\ job'[s] = j => JobTold(s)' BY <2>2 DEF JobTold, Creating, Removing, Over
    <3> QED BY <2>1, <2>2, <2>5, <3>2, QuietSteps DEF RepoInv, RepoTyped, Landing, Over
  <2> QED BY <1>1, <2>4, <2>5 DEF Repo!CreatePending
<1>2. ASSUME NEW who \in Requesters, NEW listed \in BOOLEAN, Repo!ImportRepository(s, who, listed)
      PROVE  RepoInv' /\ Repo!RowsGoKnowingly
  <2>1. /\ job[s].at = "unborn" /\ UNCHANGED <<scm, argo, gone>> /\ Repo!Ends(s, {}) /\ row = <<>>
        /\ row' = Repo!Row(s, who, "imported", 0)
        BY <1>2 DEF Repo!ImportRepository, Repo!Begins, Repo!At
  <2>2. PICK j : Becomes(s, j) /\ Over(j, {}) BY <2>1, ComesToAnEnd
  <2> QED BY <2>1, <2>2, RowComes DEF Over, Askers, Landing
<1> QED BY <1>1, <1>2

(* A provision that fails ends without a row or an application. *)
LEMMA Gives ==
    ASSUME RepoInv, NEW s \in Repo!Requests, job[s].at \in {"create", "commit"},
           Repo!Fails(s), UNCHANGED <<row, scm, argo, gone>>
    PROVE  RepoInv' /\ Repo!RowsGoKnowingly
<1>1. PICK j : Becomes(s, j) /\ Over(j, {}) BY ComesToAnEnd DEF Repo!Fails
<1>2. Onward /\ job'[s] = j => JobTold(s)' BY <1>1 DEF JobTold, Creating, Removing, Over
<1> QED BY <1>1, <1>2, QuietSteps DEF RepoInv, RepoTyped, Landing, Over

LEMMA RepositoryOrKey ==
    ASSUME RepoInv, NEW s \in Repo!Requests, Repo!ProvisionSCM(s) \/ Repo!ProvisionKey(s)
    PROVE  RepoInv' /\ Repo!RowsGoKnowingly
<1>0. /\ scm \in [there : BOOLEAN, keys : SUBSET Nat] /\ gone \subseteq Nat
      /\ job[s] \in Jobs /\ s \in Nat
      BY DEF RepoInv, RepoTyped, Repo!Requests
<1>1. CASE Repo!ProvisionSCM(s)
  <2>1. job[s].at = "create" /\ UNCHANGED <<row, argo, gone>> BY <1>1 DEF Repo!ProvisionSCM, Repo!At
  <2>2. CASE Repo!CreatesRepository /\ Repo!Moves(s, "key")
    <3>1. PICK j : Becomes(s, j) /\ Moved(j, job[s], "key", {})
          BY <2>2, MovesOn DEF Steps, Creating
    <3>2. scm' \in [there : BOOLEAN, keys : SUBSET Nat] /\ scm'.keys = scm.keys
          BY <1>0, <2>2 DEF Repo!CreatesRepository
    <3>3. job[s].what = "create" BY <2>1 DEF RepoInv, JobTold, Creating
    <3>4. Onward /\ job'[s] = j => JobTold(s)' BY <3>1, <3>3 DEF JobTold, Removing, Moved
    <3> QED BY <1>0, <2>1, <3>1, <3>2, <3>4, QuietSteps DEF Landing, Moved
  <2>3. CASE Repo!Fails(s) /\ UNCHANGED scm BY <2>1, <2>3, Gives
  <2> QED BY <1>1, <2>2, <2>3 DEF Repo!ProvisionSCM
<1>2. CASE Repo!ProvisionKey(s)
  <2>1. job[s].at = "key" /\ UNCHANGED <<row, argo, gone>> BY <1>2 DEF Repo!ProvisionKey, Repo!At
  <2>2. job[s].what = "create" BY <2>1 DEF RepoInv, JobTold, Creating
  <2>3. CASE Repo!AddsDeployKey(s) /\ Repo!TakesKey(s, s, {})
    <3>1. PICK j : Becomes(s, j) /\ j.what = job[s].what /\ j.at = "commit" /\ j.key = s
          BY <1>0, <2>3, KeyComes DEF Warnings
    <3>2. scm' \in [there : BOOLEAN, keys : SUBSET Nat] /\ scm'.keys = scm.keys \cup {s}
          BY <1>0, <2>3 DEF Repo!AddsDeployKey
    <3>3. Onward /\ job'[s] = j => JobTold(s)'
          BY <2>1, <2>2, <3>1, <3>2 DEF JobTold, Removing, Repo!Opens
    <3> QED BY <1>0, <2>1, <3>1, <3>2, <3>3, QuietSteps DEF Landing
  <2>4. ASSUME NEW k \in {s, 0}, Repo!TakesKey(s, k, {"key"}) /\ UNCHANGED scm
        PROVE  RepoInv' /\ Repo!RowsGoKnowingly
    <3>1. PICK j : /\ Becomes(s, j) /\ j.what = job[s].what /\ j.at = "commit" /\ j.key = k
                   /\ j.warned = job[s].warned \cup {"key"}
          BY <1>0, <2>4, KeyComes DEF Warnings
    <3>3. Onward /\ job'[s] = j => JobTold(s)'
          BY <2>1, <2>2, <3>1 DEF JobTold, Removing, Repo!Opens, Repo!Told
    <3> QED BY <1>0, <2>1, <2>4, <3>1, <3>3, QuietSteps DEF Landing
  <2> QED BY <1>2, <2>3, <2>4 DEF Repo!ProvisionKey
<1> QED BY <1>1, <1>2

(* ArgoCD gets the application, the key, both or neither. *)
LEMMA Deploys ==
    ASSUME Repo!ProvisioningBounds, RepoInv, NEW s \in Repo!Requests, Repo!ProvisionArgo(s)
    PROVE  RepoInv' /\ Repo!RowsGoKnowingly
<1>0. /\ scm \in [there : BOOLEAN, keys : SUBSET Nat] /\ gone \subseteq Nat
      /\ argo \in [app : Nat, key : Nat] /\ s \in Nat /\ s # 0 /\ s # Repo!unregistered
      /\ row \in RepoRows /\ 0 # Repo!unregistered
      BY DEF RepoInv, RepoTyped, Repo!Requests, Repo!unregistered, Repo!ProvisioningBounds
<1>1. /\ job[s].at = "commit" /\ UNCHANGED <<row, scm, gone>>
      /\ job[s].what = "create" /\ job[s].key \in {0, s} /\ (job[s].key = s => Repo!Opens(s))
      BY DEF Repo!ProvisionArgo, Repo!At, RepoInv, JobTold, Creating
<1>2. ASSUME NEW j, Becomes(s, j), NEW w, Moved(j, job[s], "unlist", w), NEW key, NEW app,
             key = argo.key \/ key = job[s].key, app = argo.app \/ (app = s /\ argo.app = 0),
             argo' = [app |-> app, key |-> key], key = job[s].key \/ app = argo.app \/ "argo" \in w
      PROVE  RepoInv' /\ Repo!RowsGoKnowingly
  <2>1. argo' \in [app : Nat, key : Nat] /\ argo'.app = app /\ argo'.key = key
        BY <1>0, <1>1, <1>2
  <2>2. ASSUME Onward, job'[s] = j PROVE KeysLanded' /\ Repo!KeysOpen' /\ JobTold(s)'
    <3>1. Landed(s)' /\ job[s].warned \subseteq j.warned /\ w \subseteq j.warned
          BY <1>2, <2>2 DEF Landed, Landing, Moved, Repo!Requests
    <3>2. job[s].key = s => Repo!Opens(s)' BY <1>1, <2>2, <3>1 DEF Repo!Opens, Repo!Told
    <3>3. JobTold(s)' BY <1>1, <1>2, <2>2, <3>2 DEF JobTold, Removing, Moved
    <3>4. row # <<>> => /\ MadeBefore(row)' /\ (row[1].key = 0 \/ Landed(row[1].key)')
                        /\ Repo!Opens(row[1].key)'
          BY <1>1, <2>2, RowStands
    <3>5. /\ key \in {0, Repo!unregistered} \/ Landed(key)'
          /\ app = 0 \/ Landed(app)'
          BY <1>1, <1>2, <2>2, <3>1, LandedStays DEF RepoInv, KeysLanded, Repo!unregistered
    <3>6. KeysLanded' BY <1>1, <2>1, <3>4, <3>5 DEF KeysLanded, MadeBefore, Landed, Repo!unregistered
    <3>7. app # 0 => (key # Repo!unregistered /\ Repo!Opens(key)') \/ Repo!Told(app, "argo")'
      <4>1. CASE key = job[s].key
        <5>1. CASE key = s BY <1>0, <3>2, <4>1, <5>1
        <5>2. CASE key = 0 BY <1>0, <5>2 DEF Repo!Opens
        <5> QED BY <1>1, <4>1, <5>1, <5>2
      <4>2. CASE key = argo.key /\ app = argo.app
        <5>1. CASE key = 0 BY <1>0, <5>1 DEF Repo!Opens
        <5>2. CASE key # 0
              BY <2>2, <4>2, <5>2, LandedStays DEF RepoInv, KeysLanded, Repo!KeysOpen
        <5> QED BY <5>1, <5>2
      <4>3. CASE app = s /\ "argo" \in w BY <2>2, <3>1, <4>3 DEF Repo!Told
      <4> QED BY <1>2, <4>1, <4>2, <4>3
    <3>8. Repo!KeysOpen'
          BY <1>1, <2>1, <3>4, <3>7 DEF Repo!KeysOpen, Repo!unregistered, Repo!Opens, Repo!Told
    <3> QED BY <3>3, <3>6, <3>8
  <2> QED BY <1>0, <1>1, <1>2, <2>1, <2>2, RepoSteps DEF Landing, Moved
<1>3. CASE Repo!Moves(s, "unlist") /\ UNCHANGED argo
  <2>1. PICK j : Becomes(s, j) /\ Moved(j, job[s], "unlist", {})
        BY <1>3, MovesOn DEF Steps, Creating
  <2>2. argo' = [app |-> argo.app, key |-> argo.key] BY <1>0, <1>3
  <2> QED BY <1>2, <2>1, <2>2
<1>4. ASSUME NEW added \in BOOLEAN, NEW created \in BOOLEAN,
             argo' = (LET registered == IF added THEN Repo!AddRepository(argo, job[s].key) ELSE argo
                      IN  IF created THEN Repo!CreateApplication(registered, s) ELSE registered),
             Repo!MovesWarned(s, "unlist", IF added /\ created THEN {} ELSE {"argo"})
      PROVE  RepoInv' /\ Repo!RowsGoKnowingly
  <2> DEFINE w == IF added /\ created THEN {} ELSE {"argo"}
             key == IF added THEN job[s].key ELSE argo.key
             app == IF created /\ argo.app = 0 THEN s ELSE argo.app
  <2>1. w \in SUBSET Warnings BY DEF Warnings
  <2>2. PICK j : Becomes(s, j) /\ Moved(j, job[s], "unlist", w)
        BY <1>4, <2>1, MovesOnWarned DEF Steps, Creating
  <2>3. argo' = [app |-> app, key |-> key]
        BY <1>0, <1>1, <1>4 DEF Repo!AddRepository, Repo!CreateApplication
  <2>4. key = job[s].key \/ app = argo.app \/ "argo" \in w OBVIOUS
  <2>5. (key = argo.key \/ key = job[s].key) /\ (app = argo.app \/ (app = s /\ argo.app = 0)) OBVIOUS
  <2> HIDE DEF w, key, app
  <2> QED BY <1>2, <2>2, <2>3, <2>4, <2>5
<1> QED BY <1>3, <1>4 DEF Repo!ProvisionArgo

(* The user's own older row makes way for the new one. *)
LEMMA Lists ==
    ASSUME RepoInv, NEW s \in Repo!Requests, Repo!ProvisionUnlist(s) \/ Repo!ProvisionList(s)
    PROVE  RepoInv' /\ Repo!RowsGoKnowingly
<1>0. job[s] \in Jobs /\ s \in Nat BY DEF RepoInv, RepoTyped, Repo!Requests
<1>1. CASE Repo!ProvisionUnlist(s)
  <2>1. /\ job[s].at = "unlist" /\ UNCHANGED <<scm, argo, gone>> /\ Repo!Moves(s, "list")
        /\ row' = row \/ (row' = <<>> /\ Repo!Of(row, job[s].user))
        BY <1>1 DEF Repo!ProvisionUnlist, Repo!At
  <2>2. /\ job[s].what = "create" /\ job[s].key \in {0, s} /\ (job[s].key = s => Repo!Opens(s))
        BY <2>1 DEF RepoInv, JobTold, Creating
  <2>3. PICK j : Becomes(s, j) /\ Moved(j, job[s], "list", {})
        BY <2>1, MovesOn DEF Steps, Creating
  <2>4. ASSUME Onward, job'[s] = j PROVE JobTold(s)'
    <3>1. job[s].key = s => Repo!Opens(s)'
          BY <2>1, <2>2, <2>3, <2>4 DEF Repo!Opens, Repo!Told, Moved
    <3> QED BY <2>2, <2>3, <2>4, <3>1 DEF JobTold, Removing, Moved
  <2> QED BY <2>1, <2>2, <2>3, <2>4, QuietSteps
          DEF RepoInv, RepoTyped, Landing, Moved, Repo!LosesKnowingly
<1>2. CASE Repo!ProvisionList(s)
  <2>1. job[s].at = "list" /\ UNCHANGED <<scm, argo, gone>> /\ Repo!Ends(s, job[s].warned)
        BY <1>2 DEF Repo!ProvisionList, Repo!At, Repo!Answers
  <2>2. /\ job[s].key \in {0, s} /\ (job[s].key = s => Repo!Opens(s)) /\ job[s].user \in Askers
        BY <1>0, <2>1 DEF RepoInv, JobTold, Jobs
  <2>3. PICK j : Becomes(s, j) /\ Over(j, job[s].warned)
        BY <1>0, <2>1, ComesToAnEnd DEF Jobs, Warnings
  <2>4. CASE row = <<>> /\ row' = Repo!Row(s, job[s].user, "created", job[s].key)
        BY <1>0, <2>1, <2>2, <2>3, <2>4, RowComes DEF Over
  <2>5. CASE row' = row
    <3>1. Onward /\ job'[s] = j => JobTold(s)' BY <2>3 DEF JobTold, Creating, Removing, Over
    <3> QED BY <2>1, <2>3, <2>5, <3>1, QuietSteps DEF RepoInv, RepoTyped, Landing, Over
  <2> QED BY <1>2, <2>4, <2>5 DEF Repo!ProvisionList
<1> QED BY <1>1, <1>2

(* A rejection hits the row that it read, or none. *)
LEMMA Rejects ==
    ASSUME RepoInv, NEW s \in Repo!Requests, Repo!RejectDrop(s)
    PROVE  RepoInv' /\ Repo!RowsGoKnowingly
<1>0. job[s] \in Jobs BY DEF RepoInv, RepoTyped
<1>1. /\ job[s].at = "drop" /\ UNCHANGED <<scm, argo, gone>> /\ Repo!Ends(s, job[s].warned)
      /\ row' = row \/ (row' = <<>> /\ row # <<>> /\ row[1].by = job[s].saw[1].by)
      BY DEF Repo!RejectDrop, Repo!At, Repo!Answers
<1>2. /\ job[s].what = "reject" /\ Repo!Pending(job[s].saw)
      /\ row # <<>> /\ row[1].by = job[s].saw[1].by => row = job[s].saw
      BY <1>1 DEF RepoInv, JobTold
<1>3. PICK j : Becomes(s, j) /\ Over(j, job[s].warned) BY <1>0, <1>1, ComesToAnEnd DEF Jobs, Warnings
<1>4. Onward /\ job'[s] = j => JobTold(s)' BY <1>3 DEF JobTold, Creating, Removing, Over
<1>5. row # <<>> /\ row' # row => Repo!LosesKnowingly(job[s])
      BY <1>1, <1>2 DEF Repo!LosesKnowingly
<1> QED BY <1>1, <1>3, <1>4, <1>5, QuietSteps DEF RepoInv, RepoTyped, Landing, Over

LEMMA Removes ==
    ASSUME RepoInv, NEW s \in Repo!Requests, Repo!Deletes(s)
    PROVE  RepoInv' /\ Repo!RowsGoKnowingly
<1>0. /\ scm \in [there : BOOLEAN, keys : SUBSET Nat] /\ gone \subseteq Nat
      /\ argo \in [app : Nat, key : Nat] /\ row \in RepoRows /\ <<>> \in RepoRows /\ job[s] \in Jobs
      BY DEF RepoInv, RepoTyped, RepoRows
<1>1. /\ job[s].at \in Removing /\ job[s].what = "delete"
      /\ job[s].user \in Admins \/ Repo!Of(job[s].saw, job[s].user)
      BY DEF Repo!Deletes, Repo!DeleteSCM, Repo!DeleteArgo, Repo!DeleteRow, Repo!At, Removing,
             RepoInv, JobTold
<1>2. ASSUME NEW j, Moved(j, job[s], "unargo", {}) \/ Moved(j, job[s], "erase", {})
      PROVE  Onward /\ job'[s] = j => JobTold(s)'
      BY <1>1, <1>2 DEF JobTold, Creating, Removing, Moved, Repo!Of
<1>3. CASE Repo!DeleteSCM(s)
  <2>1. job[s].at = "purge" /\ UNCHANGED <<row, argo>> /\ Repo!Moves(s, "unargo")
        BY <1>3 DEF Repo!DeleteSCM, Repo!At
  <2>2. PICK j : Becomes(s, j) /\ Moved(j, job[s], "unargo", {}) BY <2>1, MovesOn DEF Steps, Removing
  <2>3. /\ scm' \in [there : BOOLEAN, keys : SUBSET Nat] /\ gone' \subseteq Nat
        /\ scm.keys \cup gone \subseteq scm'.keys \cup gone'
    <3>1. CASE scm' = [there |-> FALSE, keys |-> {}] /\ gone' = gone \cup scm.keys
      <4>1. scm.keys \subseteq Nat BY <1>0
      <4>2. scm' \in [there : BOOLEAN, keys : SUBSET Nat] BY <3>1
      <4> QED BY <1>0, <3>1, <4>1, <4>2
    <3> QED BY <1>0, <1>3, <3>1 DEF Repo!DeleteSCM, Repo!DeletesRepository
  <2> QED BY <1>2, <2>1, <2>2, <2>3, QuietSteps DEF Landing, Moved
<1>4. CASE Repo!DeleteArgo(s)
  <2>1. job[s].at = "unargo" /\ UNCHANGED <<row, scm, gone>> /\ Repo!Moves(s, "erase")
        BY <1>4 DEF Repo!DeleteArgo, Repo!At
  <2>2. PICK j : Becomes(s, j) /\ Moved(j, job[s], "erase", {}) BY <2>1, MovesOn DEF Steps, Removing
  <2>3. CASE argo' = argo BY <1>0, <1>2, <2>1, <2>2, <2>3, QuietSteps DEF Landing, Moved
  <2>4. CASE argo' = Repo!DeleteApplication(argo)
    <3>1. argo' = [app |-> 0, key |-> argo.key] BY <1>0, <2>4 DEF Repo!DeleteApplication
    <3>2. argo' \in [app : Nat, key : Nat] /\ argo'.app = 0 /\ argo'.key = argo.key BY <1>0, <3>1
    <3>3. ASSUME Onward, job'[s] = j PROVE KeysLanded' /\ Repo!KeysOpen'
      <4>1. row # <<>> => /\ MadeBefore(row)' /\ (row[1].key = 0 \/ Landed(row[1].key)')
                          /\ Repo!Opens(row[1].key)'
            BY <2>1, <3>3, RowStands
      <4>2. argo.key \in {0, Repo!unregistered} \/ Landed(argo.key)'
        <5>1. PICK c : c = argo.key OBVIOUS
        <5>2. c \in {0, Repo!unregistered} \/ Landed(c)'
              BY <3>3, <5>1, LandedStays DEF RepoInv, KeysLanded
        <5> QED BY <3>2, <5>1, <5>2 DEF Landed
      <4> QED BY <2>1, <3>2, <4>1, <4>2
              DEF KeysLanded, MadeBefore, Landed, Repo!unregistered, Repo!KeysOpen, Repo!Opens, Repo!Told
    <3> QED BY <1>0, <1>2, <2>1, <2>2, <3>2, <3>3, RepoSteps DEF Landing, Moved
  <2> QED BY <1>4, <2>3, <2>4 DEF Repo!DeleteArgo
<1>5. CASE Repo!DeleteRow(s)
  <2>1. /\ job[s].at = "erase" /\ UNCHANGED <<scm, argo, gone>> /\ Repo!Ends(s, job[s].warned)
        /\ row' = row \/ row' = <<>>
        BY <1>5 DEF Repo!DeleteRow, Repo!At, Repo!Answers
  <2>2. PICK j : Becomes(s, j) /\ Over(j, job[s].warned) BY <1>0, <2>1, ComesToAnEnd DEF Jobs, Warnings
  <2>3. Onward /\ job'[s] = j => JobTold(s)' BY <2>2 DEF JobTold, Creating, Removing, Over
  <2>4. Repo!LosesKnowingly(job[s]) BY <1>1 DEF Repo!LosesKnowingly
  <2> QED BY <1>0, <2>1, <2>2, <2>3, <2>4, QuietSteps DEF Landing, Over
<1> QED BY <1>3, <1>4, <1>5 DEF Repo!Deletes

(* Whoever gets no answer knows that much. *)
LEMMA Stops ==
    ASSUME RepoInv, Repo!Crash
    PROVE  RepoInv' /\ Repo!RowsGoKnowingly
<1>1. /\ UNCHANGED <<row, scm, argo, gone>>
      /\ job' = [s \in Repo!Requests |->
                   IF Repo!UnderWay(s) THEN [Repo!Unborn EXCEPT !.at = "done", !.warned = {"lost"}]
                   ELSE job[s]]
      BY DEF Repo!Crash
<1>2. PICK j \in Jobs : /\ j = [Repo!Unborn EXCEPT !.at = "done", !.warned = {"lost"}]
                         /\ j.at = "done" /\ j.warned = {"lost"}
  <2>1. PICK i \in Jobs : i = Repo!Unborn BY UnbornIs
  <2> DEFINE j == [i EXCEPT !.at = "done", !.warned = {"lost"}]
  <2>2. j \in Jobs /\ j.at = "done" /\ j.warned = {"lost"} BY DEF Jobs
  <2> QED BY <2>1, <2>2
<1>3. \A s \in Repo!Requests : job'[s] = j \/ (job'[s] = job[s] /\ job[s].at \in {"unborn", "done"})
      BY <1>1, <1>2 DEF Repo!UnderWay
<1>4. job' \in [Repo!Requests -> Jobs]
  <2>1. \A s \in Repo!Requests : job'[s] \in Jobs BY <1>2, <1>3 DEF RepoInv, RepoTyped
  <2>2. \E f : job' = [s \in Repo!Requests |-> f[s]]
    <3> DEFINE f == [s \in Repo!Requests |->
                   IF Repo!UnderWay(s) THEN [Repo!Unborn EXCEPT !.at = "done", !.warned = {"lost"}]
                   ELSE job[s]]
    <3>1. job' = f BY <1>1
    <3>2. f = [s \in Repo!Requests |-> f[s]] OBVIOUS
    <3> QED BY <3>1, <3>2
  <2> QED BY <2>1, <2>2
<1>5. Onward
  <2> SUFFICES ASSUME NEW k \in Repo!Requests
               PROVE  /\ job[k].at \in Landing => job'[k].at \in Landing
                                 /\ (job[k].warned \subseteq job'[k].warned \/ "lost" \in job'[k].warned)
                      /\ job[k].at = "done" => job'[k].at = "done"
      BY <1>1 DEF Onward
  <2> QED BY <1>2, <1>3 DEF Landing
<1>6. KeysLanded' /\ Repo!KeysOpen' BY <1>1, <1>5, KeysStay
<1>7. \A s \in Repo!Requests : JobTold(s)'
  <2> SUFFICES ASSUME NEW s \in Repo!Requests PROVE JobTold(s)' BY DEF Repo!Requests
  <2>1. job'[s].at \in {"unborn", "done"} BY <1>2, <1>3
  <2> QED BY <2>1 DEF JobTold, Creating, Removing
<1>8. RepoTyped' BY <1>1, <1>4 DEF RepoInv, RepoTyped, Repo!Requests
<1> QED BY <1>1, <1>6, <1>7, <1>8 DEF RepoInv, Repo!Requests, Repo!RowsGoKnowingly

LEMMA RepoStep ==
    Repo!ProvisioningBounds /\ RepoInv /\ [Repo!Next]_(Repo!vars)
        => RepoInv' /\ [Repo!RowsGoKnowingly /\ Repo!KeysOpen']_(Repo!vars)
<1> SUFFICES ASSUME Repo!ProvisioningBounds, RepoInv, [Repo!Next]_(Repo!vars)
             PROVE  RepoInv' /\ (Repo!RowsGoKnowingly \/ UNCHANGED Repo!vars)
    BY DEF RepoInv
<1>1. CASE UNCHANGED Repo!vars
  <2>1. UNCHANGED <<row, scm, argo, job, gone>> BY <1>1 DEF Repo!vars
  <2>2. Onward BY <2>1 DEF Onward
  <2>3. \A s \in Repo!Requests : JobTold(s)'
        BY <2>1 DEF RepoInv, JobTold, MadeBefore, Repo!Opens, Repo!Told
  <2>4. RepoTyped' BY <2>1 DEF RepoInv, RepoTyped, Repo!Requests
  <2> QED BY <1>1, <2>1, <2>2, <2>3, <2>4, KeysStay DEF RepoInv, Repo!Requests
<1>2. CASE Repo!Next
  <2>1. ASSUME NEW s \in Repo!Requests, NEW who \in Requesters, Repo!Request(s, who)
        PROVE  RepoInv' /\ Repo!RowsGoKnowingly
        BY <2>1, Creates, ApprovesOrRejects, AsksToDelete, PendingOrImported DEF Repo!Request
  <2>2. ASSUME NEW s \in Repo!Requests, Repo!Provision(s) PROVE RepoInv' /\ Repo!RowsGoKnowingly
    <3>1. CASE Repo!ProvisionCommit(s)
          BY <3>1, Gives DEF Repo!ProvisionCommit, Repo!At
    <3> QED BY <2>2, <3>1, RepositoryOrKey, Deploys, Lists DEF Repo!Provision
  <2> QED BY <1>2, <2>1, <2>2, PendingOrImported, Rejects, Removes, Stops DEF Repo!Next
<1> QED BY <1>1, <1>2

(* repositories.go and golden_paths.go: a row goes only as somebody meant,  *)
(* and what clones with a key of its own can, unless its user was told or   *)
(* got no answer, for any users, requests and stops.                        *)
THEOREM RepositoriesStand ==
    ASSUME Repo!ProvisioningBounds PROVE Repo!Spec => Repo!RepositoryStands
<1>1. Repo!Init => RepoInv BY RepoStart
<1>2. RepoInv /\ [Repo!Next]_(Repo!vars)
        => RepoInv' /\ [Repo!RowsGoKnowingly /\ Repo!KeysOpen']_(Repo!vars)
      BY RepoStep
<1> QED BY <1>1, <1>2, PTL DEF Repo!Spec, Repo!RepositoryStands

-----------------------------------------------------------------------------
(* The types of Provisioning: deploy keys are of requests, and there are    *)
(* none without a repository.                                               *)
ScmKept ==
    /\ scm \in [there : BOOLEAN, keys : SUBSET Repo!Requests]
    /\ ~scm.there => scm.keys = {}

LEMMA ScmStays == ScmKept /\ [Repo!Next]_(Repo!vars) => ScmKept'
<1> SUFFICES ASSUME ScmKept, [Repo!Next]_(Repo!vars) PROVE ScmKept' OBVIOUS
<1>1. ASSUME UNCHANGED scm PROVE ScmKept' BY <1>1 DEF ScmKept
<1>2. ASSUME NEW s \in Repo!Requests, Repo!ProvisionSCM(s) PROVE ScmKept'
      BY <1>2 DEF Repo!ProvisionSCM, Repo!CreatesRepository, ScmKept
<1>3. ASSUME NEW s \in Repo!Requests, Repo!ProvisionKey(s) PROVE ScmKept'
      BY <1>3 DEF Repo!ProvisionKey, Repo!AddsDeployKey, ScmKept
<1>4. ASSUME NEW s \in Repo!Requests, Repo!DeleteSCM(s) PROVE ScmKept'
  <2>1. scm' = [there |-> FALSE, keys |-> {}] \/ scm' = scm
        BY <1>4 DEF Repo!DeleteSCM, Repo!DeletesRepository
  <2>2. CASE scm' = [there |-> FALSE, keys |-> {}]
    <3>1. {} \in SUBSET Repo!Requests OBVIOUS
    <3>2. scm'.keys = {} BY <2>2
    <3>3. scm' \in [there : BOOLEAN, keys : SUBSET Repo!Requests] BY <2>2, <3>1
    <3> QED BY <3>2, <3>3 DEF ScmKept
  <2> QED BY <1>1, <2>1, <2>2
<1>5. CASE UNCHANGED Repo!vars BY <1>1, <1>5 DEF Repo!vars
<1>6. ASSUME NEW s \in Repo!Requests, NEW who \in Requesters, Repo!Request(s, who)
      PROVE  UNCHANGED scm
      BY <1>6 DEF Repo!Request, Repo!CreateRepository, Repo!ApproveRepository,
                  Repo!RejectRepository, Repo!DeleteRepository, Repo!ImportRepository
<1>7. ASSUME NEW s \in Repo!Requests,
             \/ Repo!ProvisionCommit(s) \/ Repo!ProvisionArgo(s) \/ Repo!ProvisionUnlist(s)
             \/ Repo!ProvisionList(s) \/ Repo!CreatePending(s) \/ Repo!RejectDrop(s)
             \/ Repo!DeleteArgo(s) \/ Repo!DeleteRow(s)
      PROVE  UNCHANGED scm
      BY <1>7, Zenon DEF Repo!ProvisionCommit, Repo!ProvisionArgo, Repo!ProvisionUnlist, Repo!ProvisionList,
                  Repo!CreatePending, Repo!RejectDrop, Repo!DeleteArgo, Repo!DeleteRow
<1>8. CASE Repo!Crash BY <1>1, <1>8 DEF Repo!Crash
<1> QED BY <1>1, <1>2, <1>3, <1>4, <1>5, <1>6, <1>7, <1>8 DEF Repo!Next, Repo!Provision, Repo!Deletes

(* The operators of FiniteSets that the instance brings are these. *)
LEMMA RepoCardinality == \A S : Repo!Cardinality(S) = Cardinality(S)
BY Zenon DEF Repo!Cardinality, Cardinality, Repo!IsFiniteSet, IsFiniteSet

(* repositories.go: the repository and the application keep their types, and *)
(* the keys there are of requests.                                           *)
THEOREM RepositoryTyped == ASSUME Repo!ProvisioningBounds PROVE Repo!Spec => []Repo!TypeOK
<1>1. Repo!Init => RepoInv BY RepoStart
<1>2. RepoInv /\ [Repo!Next]_(Repo!vars) => RepoInv' BY RepoStep
<1>3. Repo!Init => ScmKept BY DEF Repo!Init, ScmKept
<1>4. RepoInv /\ ScmKept => Repo!TypeOK
  <2> SUFFICES ASSUME RepoInv, ScmKept PROVE Repo!TypeOK OBVIOUS
  <2>1. MaxJobs \in Nat BY DEF Repo!ProvisioningBounds
  <2>2. argo \in [app : 0..MaxJobs, key : 0..Repo!unregistered]
    <3>1. argo.app \in 0..MaxJobs /\ argo.key \in 0..Repo!unregistered
          BY <2>1 DEF RepoInv, RepoTyped, KeysLanded, Landed, Repo!Requests, Repo!unregistered
    <3> QED BY <3>1 DEF RepoInv, RepoTyped
  <2> DEFINE unborn == {s \in Repo!Requests : Repo!At(s, "unborn")}
  <2>3. IsFiniteSet(1..MaxJobs) /\ Cardinality(1..MaxJobs) = MaxJobs
    <3>1. /\ IsFiniteSet(1..MaxJobs)
          /\ Cardinality(1..MaxJobs) = IF 1 > MaxJobs THEN 0 ELSE MaxJobs - 1 + 1
          BY <2>1, FS_Interval
    <3> QED BY <2>1, <3>1
  <2>4. unborn \in SUBSET (1..MaxJobs) BY DEF Repo!Requests
  <2> HIDE DEF unborn
  <2>5. Cardinality(unborn) \in 0..MaxJobs
    <3>1. IsFiniteSet(unborn) /\ Cardinality(unborn) <= MaxJobs BY <2>3, <2>4, FS_Subset
    <3>2. Cardinality(unborn) \in Nat BY <3>1, FS_CardinalityType
    <3> QED BY <2>1, <3>1, <3>2
  <2> QED BY <2>2, <2>5, RepoCardinality DEF ScmKept, Repo!TypeOK, unborn
<1> QED BY <1>1, <1>2, <1>3, <1>4, ScmStays, PTL DEF Repo!Spec
=============================================================================
