--------------------------- MODULE DeliveryProofs ---------------------------
(***************************************************************************)
(* Proofs about Delivery, for any images, conditions, sights, tags and     *)
(* bounds, and any window: no deployment is missed or made up, no pass     *)
(* opens a problem of a kind that an earlier pass left open, what was      *)
(* announced is on record, a live pod's problem is closed unseen only in   *)
(* the ways that ClosedAsRead states, and a verdict stands and is what the *)
(* rows of its window say.                                                 *)
(*                                                                         *)
(* The argument: a pass dates its rows later than all that its poller has  *)
(* written (PassesOrdered), so a row is named by what it was opened for    *)
(* and when (ProblemsNamed); and a verdict is given when the clock has     *)
(* left its window (Judged), so that only a pass that had taken the time   *)
(* before can still write into it.  No such pass is under way for a        *)
(* verdict outside late (JudgedApart).                                     *)
(***************************************************************************)
EXTENDS Delivery, TLAPS, SequenceTheorems, WellFoundedInduction

\* What the fields of a deployment say together.
Judged(d) ==
    /\ d.outcome = "pending" => d.failed = 0 /\ d.recovered = 0
    /\ d.outcome # "pending" => d.at + Window < clock
    /\ d.outcome = "failed" => d.at <= d.failed
    /\ d.recovered # 0 => d.outcome = "failed" /\ d.failed <= d.recovered

\* What the poller p writes from now on is dated after t.
DatesAfter(p, t) ==
    /\ p \notin ran \/ (poll[p].busy /\ poll[p].at = 0) => t < clock
    /\ poll[p].busy /\ poll[p].at # 0 => t < poll[p].at

\* The deployments follow each other, one at most in a tick.
Chained ==
    /\ DeploymentsChain
    /\ \A n \in Rows : deployments[n].at <= clock /\ Judged(deployments[n])
    /\ deployments # <<>> =>
         snapshot # NoSnapshot /\ DatesAfter("workloads", Last(deployments).at)

\* The poller that opened a row.
OpenedBy(q) == IF q.kind \in PodKind THEN "pods" ELSE "errors"

\* What a pass opens is newer than what it finds.
PassesOrdered ==
    /\ \A p \in Poller : poll[p].busy /\ p \notin ran => poll[p].at < clock
    /\ \A q \in problems : DatesAfter(OpenedBy(q), q.opened)

\* A row is named by what it was opened for, and when.
Named(p, q) == p.kind = q.kind /\ p.part = q.part /\ p.opened = q.opened

\* Each row has a name of its own, and no third party is blamed for a pod.
ProblemsNamed ==
    /\ \A p \in problems : p.opened <= clock /\ (p.kind \in PodKind => p.cause = "none")
    /\ \A p, q \in problems : Named(p, q) => p = q
    /\ OpensNothingTwice

\* No pass that took the time in the window of a verdict outside late is under way.
JudgedApart ==
    \A n \in Rows \ late : deployments[n].outcome # "pending" => ~UnderWay(deployments[n])

\* The types, with what they leave open about poll.
Typed == TypeOK /\ poll = [p \in Poller |-> poll[p]]

\* The inductive invariant.
DeliveryInv ==
    /\ Typed
    /\ Chained
    /\ PassesOrdered
    /\ ProblemsNamed
    /\ AnnouncedIsRecorded
    /\ WhatTheRowsSay
    /\ JudgedApart

-----------------------------------------------------------------------------
(* Facts about the operators.                                              *)

\* There is an earliest time among some.
LEMMA EarliestIs ==
    ASSUME NEW times, times \subseteq Nat, times # {}
    PROVE  Earliest(times) \in times /\ \A u \in times : Earliest(times) <= u
<1>1. PICK t \in times : \A u \in times : ~(<<u, t>> \in OpToRel(<, Nat))
  <2>1. IsWellFoundedOn(OpToRel(<, Nat), Nat) BY NatLessThanWellFounded
  <2> HIDE DEF OpToRel
  <2> QED BY <2>1, WFMin
<1>2. \A u \in times : t <= u
  <2> SUFFICES ASSUME NEW u \in times PROVE t <= u OBVIOUS
  <2>1. ~(u < t) BY <1>1 DEF OpToRel
  <2> QED BY <2>1
<1> QED BY <1>2 DEF Earliest

\* The row q is what a pass makes of the row p.
Becomes(p, q, kinds, found, keep, cause, now) ==
    \/ q = p
    \/ /\ p.kind \in kinds /\ IsOpen(p) /\ p.kind \in KindsOf(found)
       /\ q = [p EXCEPT !.cause = cause]
    \/ /\ p.kind \in kinds /\ IsOpen(p) /\ p.kind \notin KindsOf(found) \cup keep
       /\ q = [p EXCEPT !.closed = now]

\* No row of the kind k is open.
NoneOpen(k) == \A p \in problems : p.kind = k => ~IsOpen(p)

\* A pass makes one row of each row, and opens what it found of the kinds of
\* which none was open.
LEMMA ReconciledIs ==
    ASSUME NEW kinds, NEW found, KindsOf(found) \subseteq kinds, NEW keep, NEW cause, NEW now,
           Reconciles(kinds, found, keep, cause, now)
    PROVE  \E after \in [problems -> problems'] :
             /\ \A p \in problems : Becomes(p, after[p], kinds, found, keep, cause, now)
             /\ \A q \in problems' : \/ \E p \in problems : q = after[p]
                                     \/ \E f \in found : /\ NoneOpen(f.kind)
                                                         /\ q = Opened(f, cause, now)
             /\ \A f \in found : NoneOpen(f.kind) => Opened(f, cause, now) \in problems'
<1> DEFINE mine == {p \in problems : p.kind \in kinds /\ IsOpen(p)}
           held == KindsOf(mine)
           anew == {g \in found : g.kind \notin held}
<1>1. PICK openByKey \in [held -> mine] :
          /\ \A k \in held : openByKey[k].kind = k
          /\ LET touched == {openByKey[k] : k \in held \cap KindsOf(found)}
                 closing == {openByKey[k] : k \in held \ (KindsOf(found) \cup keep)}
             IN  problems' = (problems \ (touched \cup closing))
                     \cup {[p EXCEPT !.cause = cause] : p \in touched}
                     \cup {[p EXCEPT !.closed = now] : p \in closing}
                     \cup {Opened(f, cause, now) : f \in anew}
      BY Zenon DEF Reconciles
<1> DEFINE touched == {openByKey[k] : k \in held \cap KindsOf(found)}
           closing == {openByKey[k] : k \in held \ (KindsOf(found) \cup keep)}
           after == [p \in problems |-> IF p \in touched THEN [p EXCEPT !.cause = cause]
                                        ELSE IF p \in closing THEN [p EXCEPT !.closed = now]
                                        ELSE p]
<1>2. problems' = (problems \ (touched \cup closing))
                     \cup {[p EXCEPT !.cause = cause] : p \in touched}
                     \cup {[p EXCEPT !.closed = now] : p \in closing}
                     \cup {Opened(f, cause, now) : f \in anew}
      BY Zenon, <1>1
<1>3. \A p \in touched : p \in mine /\ p.kind \in KindsOf(found) BY <1>1
<1>4. \A p \in closing : p \in mine /\ p.kind \notin KindsOf(found) \cup keep BY <1>1
<1>5. \A f \in found : f.kind \notin held <=> NoneOpen(f.kind) BY DEF NoneOpen, KindsOf
<1>6. mine \subseteq problems /\ \A p \in mine : p.kind \in kinds /\ IsOpen(p) OBVIOUS
<1> HIDE DEF touched, closing, held, mine
<1>7. ASSUME NEW p \in problems
      PROVE  /\ after[p] \in problems'
             /\ Becomes(p, after[p], kinds, found, keep, cause, now)
  <2>1. CASE p \in touched BY <1>2, <1>3, <1>6, <2>1 DEF Becomes
  <2>2. CASE p \in closing BY <1>2, <1>3, <1>4, <1>6, <2>2 DEF Becomes
  <2>3. CASE p \notin touched \cup closing BY <1>2, <2>3 DEF Becomes
  <2> QED BY <2>1, <2>2, <2>3
<1>8. ASSUME NEW q \in problems'
      PROVE  \/ \E p \in problems : q = after[p]
             \/ \E f \in found : NoneOpen(f.kind) /\ q = Opened(f, cause, now)
  <2>1. CASE q \in problems \ (touched \cup closing) BY <2>1
  <2>2. CASE \E p \in touched : q = [p EXCEPT !.cause = cause] BY <1>3, <1>6, <2>2
  <2>3. CASE \E p \in closing : q = [p EXCEPT !.closed = now] BY <1>3, <1>4, <1>6, <2>3
  <2>4. CASE \E f \in anew : q = Opened(f, cause, now) BY <1>5, <2>4
  <2> HIDE DEF after
  <2> QED BY <1>2, <1>8, <2>1, <2>2, <2>3, <2>4
<1>9. \A f \in found : NoneOpen(f.kind) => Opened(f, cause, now) \in problems' BY <1>2, <1>5
<1>10. after \in [problems -> problems'] BY <1>7
<1> HIDE DEF after
<1> QED BY <1>7, <1>8, <1>9, <1>10

LEMMA BecomesKeeps ==
    ASSUME NEW p \in Problem, NEW q, NEW kinds, NEW found, NEW keep, NEW cause, NEW now,
           Becomes(p, q, kinds, found, keep, cause, now)
    PROVE  /\ Named(p, q)
           /\ q.cause \in {p.cause, cause} /\ q.closed \in {p.closed, now}
           /\ IsOpen(q) => IsOpen(p) \/ now = 0
           /\ q # p => p.kind \in kinds /\ IsOpen(p)
           /\ cause \in Cause \cup {"none"} /\ now \in 0..MaxTime => q \in Problem
<1>1. CASE q = p BY <1>1 DEF Named
<1>2. CASE q # p BY <1>2 DEF Becomes, Problem, IsOpen, Named
<1> QED BY <1>1, <1>2

\* All rows of these kinds were opened before t.
Older(kinds, t) == \A q \in problems : q.kind \in kinds => q.opened < t

\* What a pass that is newer than the rows of its kinds does to the rows.
PassOf(kinds, found, keep, cause, now) ==
    /\ kinds \subseteq PodKind \cup ServiceKind
    /\ \A f \in found : f.kind \in kinds /\ f.part \in STRING
    /\ cause \in Cause \cup {"none"}
    /\ kinds \cap PodKind # {} => cause = "none"
    /\ now \in 1..clock /\ clock \in 1..MaxTime
    /\ problems \subseteq Problem /\ ProblemsNamed /\ Older(kinds, now)

LEMMA PassKeeps ==
    ASSUME NEW kinds, NEW found, NEW keep, NEW cause, NEW now,
           PassOf(kinds, found, keep, cause, now),
           clock' = clock, Reconciles(kinds, found, keep, cause, now)
    PROVE  /\ problems' \subseteq Problem
           /\ ProblemsNamed'
           /\ \A p \in problems : \E q \in problems' : Named(p, q)
           /\ \A q \in problems' : \/ q.kind \in kinds /\ q.opened = now
                                   \/ \E p \in problems : Named(p, q)
           /\ \A k \in Opening(found) : \E q \in problems' : q.kind = k /\ q.opened = now
<1> DEFINE F(f) == Opened(f, cause, now)
<1>1. KindsOf(found) \subseteq kinds BY DEF PassOf, KindsOf
<1>2. PICK A \in [problems -> problems'] :
         /\ \A p \in problems : Becomes(p, A[p], kinds, found, keep, cause, now)
         /\ \A q \in problems' : \/ \E p \in problems : q = A[p]
                                 \/ \E f \in found : NoneOpen(f.kind) /\ q = F(f)
         /\ \A f \in found : NoneOpen(f.kind) => F(f) \in problems'
      BY <1>1, ReconciledIs
<1>3. /\ cause \in Cause \cup {"none"} /\ now \in 1..MaxTime /\ now <= clock /\ now # 0
      /\ now \in Nat /\ clock \in Nat /\ now \in 0..MaxTime /\ 0 \in 0..MaxTime
      /\ kinds \subseteq PodKind \cup ServiceKind
      BY CollectorsAssumption DEF PassOf
<1>4. \A p \in problems : p \in Problem /\ p.opened \in Nat /\ p.opened <= clock
      BY CollectorsAssumption DEF PassOf, ProblemsNamed, Problem
<1>5. ASSUME NEW p \in problems
      PROVE  /\ A[p] \in Problem
             /\ Named(p, A[p])
             /\ A[p].cause \in {p.cause, cause}
             /\ IsOpen(A[p]) => IsOpen(p)
             /\ A[p] # p => p.kind \in kinds
      <2>1. p \in Problem BY <1>4
      <2>2. Becomes(p, A[p], kinds, found, keep, cause, now) BY <1>2
      <2> QED BY <2>1, <2>2, <1>3, BecomesKeeps
<1>6. ASSUME NEW f \in found
      PROVE  /\ F(f) \in Problem /\ F(f).kind = f.kind /\ F(f).part = f.part
             /\ F(f).opened = now /\ F(f).cause = cause /\ f.kind \in kinds
  <2>1. f.kind \in kinds /\ f.part \in STRING BY DEF PassOf
  <2> QED BY <1>3, <2>1 DEF Opened, Problem
<1>7. ASSUME NEW f \in found, NEW g \in found, f.kind = g.kind, f.part = g.part
       PROVE  F(f) = F(g)
       BY <1>7 DEF Opened
<1> HIDE DEF F
<1>8. \A k \in kinds : \A p \in problems : p.kind = k => p.opened < now
      BY DEF PassOf, Older
<1>9. problems' \subseteq Problem BY <1>2, <1>5, <1>6
<1>10. ASSUME NEW q \in problems'
      PROVE  q.opened <= clock /\ (q.kind \in PodKind => q.cause = "none")
  <2>1. CASE \E p \in problems : q = A[p]
    <3>1. PICK p \in problems : q = A[p] BY <2>1
    <3>2. p.opened <= clock /\ (p.kind \in PodKind => p.cause = "none")
          BY DEF PassOf, ProblemsNamed
    <3>3. p.kind \in kinds /\ p.kind \in PodKind => cause = "none" BY DEF PassOf
    <3> QED BY <3>1, <3>2, <3>3, <1>5 DEF Named
  <2>2. CASE \E f \in found : NoneOpen(f.kind) /\ q = F(f)
        BY <2>2, <1>3, <1>6 DEF PassOf
  <2> QED BY <1>2, <2>1, <2>2
<1>11. ASSUME NEW p \in problems', NEW q \in problems', p.kind = q.kind
      PROVE  /\ Named(p, q) => p = q
             /\ IsOpen(p) => p.opened >= q.opened /\ (IsOpen(q) => p.opened = q.opened)
  <2>1. CASE \E a, b \in problems : p = A[a] /\ q = A[b]
    <3>1. PICK a \in problems, b \in problems : p = A[a] /\ q = A[b] BY <2>1
    <3>2. /\ Named(a, b) => a = b
          /\ a.kind = b.kind /\ IsOpen(a) =>
                a.opened >= b.opened /\ (IsOpen(b) => a.opened = b.opened)
          BY DEF PassOf, ProblemsNamed, OpensNothingTwice
    <3>3. /\ Named(a, p) /\ (IsOpen(p) => IsOpen(a))
          /\ Named(b, q) /\ (IsOpen(q) => IsOpen(b))
          BY <3>1, <1>5
    <3> QED BY <1>11, <3>1, <3>2, <3>3 DEF Named
  <2>2. CASE \E a \in problems, f \in found : p = A[a] /\ NoneOpen(f.kind) /\ q = F(f)
    <3>1. PICK a \in problems, f \in found : p = A[a] /\ NoneOpen(f.kind) /\ q = F(f) BY <2>2
    <3>2. a.kind = f.kind /\ f.kind \in kinds BY <1>11, <3>1, <1>5, <1>6 DEF Named
    <3>3. ~IsOpen(a) /\ a.opened < now BY <3>1, <3>2, <1>8 DEF NoneOpen
    <3>4. p.opened = a.opened /\ ~IsOpen(p) /\ q.opened = now
          BY <3>1, <3>3, <1>5, <1>6 DEF Named
    <3> QED BY <3>3, <3>4, <1>3, <1>4 DEF Named
  <2>3. CASE \E b \in problems, f \in found : q = A[b] /\ NoneOpen(f.kind) /\ p = F(f)
    <3>1. PICK b \in problems, f \in found : q = A[b] /\ NoneOpen(f.kind) /\ p = F(f) BY <2>3
    <3>2. b.kind = f.kind /\ f.kind \in kinds BY <1>11, <3>1, <1>5, <1>6 DEF Named
    <3>3. ~IsOpen(b) /\ b.opened < now BY <3>1, <3>2, <1>8 DEF NoneOpen
    <3>4. q.opened = b.opened /\ ~IsOpen(q) /\ p.opened = now
          BY <3>1, <3>3, <1>5, <1>6 DEF Named
    <3> QED BY <3>3, <3>4, <1>3, <1>4 DEF Named
  <2>4. CASE \E f, g \in found : p = F(f) /\ q = F(g)
    <3>1. PICK f \in found, g \in found : p = F(f) /\ q = F(g) BY <2>4
    <3>2. p.opened = now /\ q.opened = now /\ now \in Nat BY <3>1, <1>3, <1>6
    <3>3. Named(p, q) => p = q BY <3>1, <1>6, <1>7 DEF Named
    <3> QED BY <3>2, <3>3
  <2> QED BY <1>2, <2>1, <2>2, <2>3, <2>4
<1>12. ProblemsNamed' BY <1>10, <1>11 DEF ProblemsNamed, OpensNothingTwice, IsOpen, Named
<1>13. \A p \in problems : \E q \in problems' : Named(p, q) BY <1>2, <1>5
<1>14. \A q \in problems' : \/ q.kind \in kinds /\ q.opened = now
                            \/ \E p \in problems : Named(p, q)
  <2> SUFFICES ASSUME NEW q \in problems'
               PROVE  \/ q.kind \in kinds /\ q.opened = now
                      \/ \E p \in problems : Named(p, q)
      OBVIOUS
  <2>1. CASE \E p \in problems : q = A[p] BY <2>1, <1>5
  <2>2. CASE \E f \in found : NoneOpen(f.kind) /\ q = F(f) BY <2>2, <1>6
  <2> QED BY <1>2, <2>1, <2>2
<1>15. \A k \in Opening(found) : \E q \in problems' : q.kind = k /\ q.opened = now
  <2> SUFFICES ASSUME NEW k \in Opening(found)
               PROVE  \E q \in problems' : q.kind = k /\ q.opened = now
      OBVIOUS
  <2>1. PICK f \in found : f.kind = k /\ NoneOpen(f.kind) BY DEF Opening, NoneOpen, KindsOf
  <2> QED BY <2>1, <1>2, <1>6
<1> QED BY <1>9, <1>12, <1>13, <1>14, <1>15

\* What the rows say of the deployment n.
Says(n) == LET d == deployments[n] IN
    d.outcome # "pending" =>
        /\ d.outcome = "failed" <=>
             PutBack(d) # {} \/ ServiceFaults(d) \cup PodFaults(d) \cup Degraded(d) # {}
        /\ d.dependency <=> DependencySeen(d)

\* The rows on which the verdict about n rests, but for the dependency's.
Evidence(n) == LET d == deployments[n] IN
    <<PutBack(d), ServiceFaults(d), PodFaults(d), Degraded(d)>>
Blamed(n) == DependencySeen(deployments[n])

LEMMA SaysSame ==
    ASSUME NEW n, Says(n),
           deployments'[n].outcome # "pending" =>
               /\ deployments'[n].outcome = deployments[n].outcome
               /\ deployments'[n].dependency = deployments[n].dependency
               /\ Evidence(n)' = Evidence(n)
               /\ Blamed(n)' <=> Blamed(n)
    PROVE  Says(n)'
<1> SUFFICES ASSUME deployments'[n].outcome # "pending" PROVE Says(n)' BY DEF Says
<1>1. /\ PutBack(deployments[n])' = PutBack(deployments[n])
      /\ ServiceFaults(deployments[n])' = ServiceFaults(deployments[n])
      /\ PodFaults(deployments[n])' = PodFaults(deployments[n])
      /\ Degraded(deployments[n])' = Degraded(deployments[n])
      BY DEF Evidence
<1>2. DependencySeen(deployments[n])' <=> DependencySeen(deployments[n]) BY DEF Blamed
<1> QED BY Zenon, <1>1, <1>2 DEF Says

LEMMA RowsSay == WhatTheRowsSay <=> \A n \in Rows \ late : Says(n)
BY Zenon DEF WhatTheRowsSay, Says

LEMMA RowsAre ==
    ASSUME Chained, clock \in 1..MaxTime
    PROVE  /\ Len(deployments) \in Nat /\ Rows = 1..Len(deployments)
           /\ \A n \in Rows : deployments[n] \in Deployment /\ n \in Nat
           /\ \A n \in Rows : /\ deployments[n].at \in Nat /\ deployments[n].failed \in Nat
                              /\ deployments[n].recovered \in Nat
           /\ deployments # <<>> => /\ Len(deployments) \in Rows
                                    /\ Last(deployments) = deployments[Len(deployments)]
<1>1. deployments \in Seq(Deployment) BY DEF Chained, DeploymentsChain
<1>2. Len(deployments) \in Nat /\ Rows = 1..Len(deployments)
      BY <1>1, LenProperties DEF Rows
<1>3. \A n \in Rows : deployments[n] \in Deployment /\ n \in Nat
      BY <1>1, <1>2, ElementOfSeq
<1>4. deployments # <<>> => Len(deployments) # 0 BY <1>1, EmptySeq
<1>5. Last(deployments) = deployments[Len(deployments)] BY DEF Last
<1>6. \A n \in Rows : /\ deployments[n].at \in Nat /\ deployments[n].failed \in Nat
                      /\ deployments[n].recovered \in Nat
      BY <1>3, CollectorsAssumption DEF Deployment
<1> QED BY <1>2, <1>3, <1>4, <1>5, <1>6

\* What a step does to the pass of p: nothing, or the clock goes on; it ends or is
\* given up; it begins or takes the time.
PollStep(p) ==
    \/ clock' > clock /\ poll'[p] = poll[p]
    \/ clock' = clock /\ (p \in ran => p \in ran') /\ (poll'[p] = poll[p] \/ ~poll'[p].busy)
    \/ /\ clock' = clock /\ p \in ran'
       /\ p \notin ran \/ (poll[p].busy /\ poll[p].at = 0)
       /\ poll'[p].at \in {0, clock}

LEMMA StaysAfter ==
    ASSUME NEW p, NEW t \in Nat, t <= clock, clock \in Nat, clock' \in Nat,
           DatesAfter(p, t), PollStep(p)
    PROVE  DatesAfter(p, t)'
<1>1. CASE clock' > clock /\ poll'[p] = poll[p] BY <1>1 DEF DatesAfter
<1>2. CASE clock' = clock /\ (p \in ran => p \in ran') /\ (poll'[p] = poll[p] \/ ~poll'[p].busy)
      BY <1>2 DEF DatesAfter
<1>3. CASE /\ clock' = clock /\ p \in ran'
           /\ p \notin ran \/ (poll[p].busy /\ poll[p].at = 0)
           /\ poll'[p].at \in {0, clock}
      BY <1>3 DEF DatesAfter
<1> QED BY <1>1, <1>2, <1>3 DEF PollStep

\* A step that writes no deployment keeps their order and their fields.
LEMMA UnwrittenChained ==
    ASSUME Chained, clock \in 1..MaxTime, clock' \in Nat, clock' >= clock,
           UNCHANGED <<deployments, snapshot>>, PollStep("workloads")
    PROVE  Chained'
<1>1. DeploymentsChain' BY DEF Chained, DeploymentsChain, Rows
<1>2. ASSUME NEW n \in Rows' PROVE deployments'[n].at <= clock' /\ Judged(deployments[n])'
  <2>1. n \in Rows /\ deployments'[n] = deployments[n] BY DEF Rows
  <2>2. deployments[n].at <= clock /\ Judged(deployments[n]) BY <2>1 DEF Chained
  <2>3. deployments[n].at \in Nat /\ deployments[n].failed \in Nat /\ clock \in Nat
        BY <2>1, RowsAre
  <2>4. Window \in Nat BY DeliveryAssumption
  <2> QED BY <2>1, <2>2, <2>3, <2>4 DEF Judged
<1>3. deployments' # <<>> => snapshot' # NoSnapshot BY DEF Chained
<1>4. ASSUME deployments' # <<>> PROVE DatesAfter("workloads", Last(deployments).at)'
  <2>1. PICK t : t = Last(deployments).at OBVIOUS
  <2>2. t <= clock /\ t \in Nat /\ DatesAfter("workloads", t)
        BY <1>4, <2>1, RowsAre DEF Chained
  <2>3. clock \in Nat /\ Last(deployments').at = t BY <2>1
  <2>4. DatesAfter("workloads", t)' BY <2>2, <2>3, StaysAfter
  <2> QED BY <2>3, <2>4 DEF DatesAfter
<1> QED BY <1>1, <1>2, <1>3, <1>4 DEF Chained

\* A step that writes no rows at all keeps what they say of each other.
LEMMA UnwrittenSays ==
    ASSUME ProblemsNamed, AnnouncedIsRecorded, WhatTheRowsSay,
           clock \in Nat, clock' \in Nat, clock' >= clock, problems \subseteq Problem,
           UNCHANGED <<events, deployments, problems, announced, late>>
    PROVE  ProblemsNamed' /\ AnnouncedIsRecorded' /\ WhatTheRowsSay'
<1>1. \A p \in problems : p.opened \in Nat BY CollectorsAssumption DEF Problem
<1>2. ProblemsNamed' BY <1>1 DEF ProblemsNamed, OpensNothingTwice, IsOpen, Named
<1>3. AnnouncedIsRecorded' BY Zenon DEF AnnouncedIsRecorded
<1>4. ASSUME NEW n \in Rows \ late PROVE Says(n)'
  <2>1. Says(n) BY RowsSay
  <2>2. Evidence(n)' = Evidence(n)
        BY DEF Evidence, PutBack, ServiceFaults, PodFaults, Degraded, Rows
  <2>3. Blamed(n)' <=> Blamed(n) BY DEF Blamed, DependencySeen
  <2> QED BY <2>1, <2>2, <2>3, SaysSame
<1>5. Rows' = Rows /\ late' = late BY DEF Rows
<1>6. WhatTheRowsSay' BY Zenon, <1>4, <1>5 DEF WhatTheRowsSay, Says
<1> QED BY <1>2, <1>3, <1>6

-----------------------------------------------------------------------------
(* The first state, and the steps that write no rows.                      *)

LEMMA RowsSayNext == (\A n \in Rows' \ late' : Says(n)') => WhatTheRowsSay'
BY Zenon DEF WhatTheRowsSay, Says

LEMMA InitDelivery == Init => DeliveryInv
<1> SUFFICES ASSUME Init PROVE DeliveryInv OBVIOUS
<1> USE DEF Init, CInit
<1>1. clock = 1 /\ 1 \in 1..MaxTime /\ 1 \in Nat BY CollectorsAssumption
<1>2. cluster \in Clusters /\ cluster.workloads.image \in Images
      BY ClustersAssumption DEF Clusters, Workload
<1>3. Typed BY <1>1, <1>2, CollectorsAssumption DEF Typed, TypeOK, Status, Poller
<1>4. DOMAIN deployments = {} /\ deployments \in Seq(Deployment) OBVIOUS
<1>5. Chained BY <1>4 DEF Chained, DeploymentsChain, Rows
<1>6. PassesOrdered BY DEF PassesOrdered, Resting, Poller
<1>7. ProblemsNamed BY DEF ProblemsNamed, OpensNothingTwice
<1>8. AnnouncedIsRecorded BY DEF AnnouncedIsRecorded
<1>9. WhatTheRowsSay BY <1>4 DEF WhatTheRowsSay, Rows
<1>10. JudgedApart BY <1>4 DEF JudgedApart, Rows
<1> QED BY <1>3, <1>5, <1>6, <1>7, <1>8, <1>9, <1>10 DEF DeliveryInv

\* What a pass that is under way may have read, and when.
Reading(p) == [busy : {TRUE}, saw : Seen[p], metrics : BOOLEAN, hidden : SUBSET NeedsMetrics,
               at : 0..clock]

\* What the types say, field by field.
LEMMA TypedIs ==
    ASSUME Typed
    PROVE  /\ clock \in 1..MaxTime /\ clock \in Nat /\ MaxTime \in Nat
           /\ changes \in 0..MaxChange /\ changes \in Nat /\ MaxChange \in Nat
           /\ cluster \in Clusters
           /\ problems \subseteq Problem /\ events \subseteq Event
           /\ \A p \in problems : p.opened \in Nat /\ p.closed \in Nat
           /\ \A p \in Poller : poll[p] = Resting \/ poll[p] \in Reading(p)
           /\ "workloads" \in Poller /\ "pods" \in Poller /\ "errors" \in Poller
           /\ poll = [p \in Poller |-> poll[p]] /\ ran \subseteq Poller
<1>1. /\ clock \in 1..MaxTime /\ changes \in 0..MaxChange /\ cluster \in Clusters
      /\ problems \subseteq Problem /\ events \subseteq Event
      /\ poll = [p \in Poller |-> poll[p]] /\ ran \subseteq Poller
      BY DEF Typed, TypeOK
<1>2. MaxTime \in Nat /\ MaxChange \in Nat BY CollectorsAssumption
<1>3. \A p \in problems : p.opened \in Nat /\ p.closed \in Nat BY <1>1, <1>2 DEF Problem
<1>4. \A p \in Poller : poll[p] = Resting \/ poll[p] \in Reading(p) BY DEF Typed, TypeOK, Reading
<1>5. "workloads" \in Poller /\ "pods" \in Poller /\ "errors" \in Poller BY DEF Poller
<1>6. clock \in Nat /\ changes \in Nat BY <1>1, <1>2
<1> QED BY <1>1, <1>2, <1>3, <1>4, <1>5, <1>6

\* What a pass has read when it is under way.
LEMMA BusyRead ==
    ASSUME Typed, NEW p \in Poller, poll[p].busy
    PROVE  /\ poll[p] \in Reading(p) /\ poll[p].saw \in Seen[p]
           /\ poll[p].hidden \subseteq NeedsMetrics /\ poll[p].at \in 0..clock
<1>1. ~Resting.busy BY DEF Resting
<1>2. poll[p] # Resting BY <1>1
<1>3. poll[p] \in Reading(p) BY <1>2, TypedIs
<1> QED BY <1>3 DEF Reading

\* A step in which each poller does as PollStep says keeps their readings typed.
LEMMA PollTyped ==
    ASSUME Typed, DOMAIN poll' = Poller, poll' = [p \in Poller |-> poll'[p]], clock' \in Nat,
           clock' >= clock,
           \A p \in Poller : poll'[p] \in {poll[p], Resting} \/ poll'[p] \in Reading(p)
    PROVE  \A p \in Poller : poll'[p] = Resting \/ poll'[p] \in
              [busy : {TRUE}, saw : Seen[p], metrics : BOOLEAN, hidden : SUBSET NeedsMetrics,
               at : 0..clock']
<1> SUFFICES ASSUME NEW p \in Poller, poll'[p] # Resting
             PROVE  poll'[p] \in [busy : {TRUE}, saw : Seen[p], metrics : BOOLEAN,
                                  hidden : SUBSET NeedsMetrics, at : 0..clock']
    OBVIOUS
<1>1. poll'[p] \in Reading(p) BY TypedIs
<1>2. 0..clock \subseteq 0..clock' BY TypedIs
<1> QED BY <1>1, <1>2 DEF Reading

\* A step that writes no rows keeps the invariant, if it writes only what is typed
\* and does of each pass one thing.
LEMMA UnwrittenKeeps ==
    ASSUME DeliveryInv, UNCHANGED <<snapshot, events, deployments, problems, announced, late>>,
           Typed', clock' >= clock, \A p \in Poller : PollStep(p)
    PROVE  DeliveryInv'
<1>1. /\ Typed /\ Chained /\ PassesOrdered /\ ProblemsNamed /\ AnnouncedIsRecorded
      /\ WhatTheRowsSay /\ JudgedApart
      BY DEF DeliveryInv
<1>2. clock \in 1..MaxTime /\ clock \in Nat BY <1>1, TypedIs
<1>3. clock' \in Nat
  <2>1. clock' \in 1..MaxTime /\ MaxTime \in Nat BY CollectorsAssumption DEF Typed, TypeOK
  <2> QED BY <2>1
<1>4. Chained' BY <1>1, <1>2, <1>3, TypedIs, UnwrittenChained
<1>5. ProblemsNamed' /\ AnnouncedIsRecorded' /\ WhatTheRowsSay'
      BY <1>1, <1>2, <1>3, TypedIs, UnwrittenSays
<1>6. PassesOrdered'
  <2>1. ASSUME NEW p \in Poller, poll'[p].busy, p \notin ran' PROVE poll'[p].at < clock'
    <3>1. CASE clock' > clock /\ poll'[p] = poll[p]
      <4>1. poll[p].at \in 0..clock BY <1>1, <2>1, <3>1, BusyRead
      <4> QED BY <1>2, <1>3, <3>1, <4>1
    <3>2. CASE ~(clock' > clock /\ poll'[p] = poll[p])
          BY <1>1, <2>1, <3>2 DEF PassesOrdered, PollStep
    <3> QED BY <3>1, <3>2
  <2>2. ASSUME NEW q \in problems PROVE DatesAfter(OpenedBy(q), q.opened)'
    <3> DEFINE p == OpenedBy(q)
               t == q.opened
    <3>1. p \in Poller /\ t \in Nat /\ t <= clock /\ DatesAfter(p, t)
          BY <1>1, TypedIs DEF OpenedBy, PassesOrdered, ProblemsNamed
    <3> HIDE DEF p, t
    <3>2. DatesAfter(p, t)' BY <1>2, <1>3, <3>1, StaysAfter
    <3> QED BY <3>2 DEF DatesAfter, p, t
  <2> QED BY <2>1, <2>2 DEF PassesOrdered, DatesAfter, OpenedBy
<1>7. JudgedApart'
  <2> SUFFICES ASSUME NEW n \in Rows \ late, deployments[n].outcome # "pending",
                      NEW p \in Poller, poll'[p].busy, InWindow(deployments[n], poll'[p].at)
               PROVE  FALSE
      BY DEF JudgedApart, UnderWay, InWindow, Rows
  <2> DEFINE d == deployments[n]
  <2>1. /\ d.at + Window < clock /\ d.at \in Nat /\ d.at \in 1..MaxTime /\ Window \in Nat
        /\ ~UnderWay(d)
        BY <1>1, <1>2, RowsAre, DeliveryAssumption DEF Chained, Judged, JudgedApart, Deployment
  <2> HIDE DEF d
  <2>2. poll'[p] # poll[p] BY <2>1 DEF UnderWay, d
  <2>3. poll'[p].at \in {0, clock} BY <2>2 DEF PollStep
  <2>4. d.at <= poll'[p].at /\ poll'[p].at <= d.at + Window BY DEF InWindow, d
  <2> QED BY <1>2, <2>1, <2>3, <2>4
<1> QED BY <1>4, <1>5, <1>6, <1>7 DEF DeliveryInv

LEMMA TickKeeps == ASSUME DeliveryInv, Tick, late' = late PROVE DeliveryInv'
<1> USE DEF Tick, observed
<1>1. Typed BY DEF DeliveryInv
<1>2. clock \in 1..MaxTime /\ MaxTime \in Nat /\ clock' = clock + 1 /\ clock < MaxTime
      BY <1>1, TypedIs
<1>3. clock' \in 1..MaxTime /\ clock' > clock /\ clock' \in Nat BY <1>2
<1>4. Typed'
  <2>1. poll' = [p \in Poller |-> poll'[p]] /\ DOMAIN poll' = Poller /\ clock' >= clock
        BY <1>1, <1>2, TypedIs
  <2>2. \A p \in Poller : poll'[p] = poll[p] OBVIOUS
  <2>3. \A p \in Poller : poll'[p] = Resting \/ poll'[p] \in
              [busy : {TRUE}, saw : Seen[p], metrics : BOOLEAN, hidden : SUBSET NeedsMetrics,
               at : 0..clock']
        BY <1>1, <1>3, <2>1, <2>2, PollTyped
  <2> QED BY <1>1, <1>3, <2>1, <2>3 DEF Typed, TypeOK
<1>5. \A p \in Poller : PollStep(p) BY <1>3 DEF PollStep
<1>6. clock' >= clock BY <1>2
<1> QED BY <1>4, <1>5, <1>6, UnwrittenKeeps

LEMMA ClusterKeeps == ASSUME DeliveryInv, ClusterChanges, late' = late PROVE DeliveryInv'
<1>1. Typed BY DEF DeliveryInv
<1>2. cluster = [workloads |-> cluster.workloads, pods |-> cluster.pods, errors |-> cluster.errors]
      /\ cluster.workloads \in Workload /\ cluster.pods \in Pod /\ cluster.errors \in Sights
      BY <1>1, TypedIs DEF Clusters
<1>3. /\ changes < MaxChange /\ changes' = changes + 1
      /\ UNCHANGED <<clock, observed, problems, poll, ran, announced>>
      BY Zenon DEF ClusterChanges, Changes, Rollout, Scale, ReadyChanges, PodChanges, SightChanges
<1>4. cluster' \in Clusters
  <2>1. /\ \A s \in Workload : Changes("workloads", s) => cluster' \in Clusters
        /\ \A s \in Pod : Changes("pods", s) => cluster' \in Clusters
        /\ \A s \in Sights : Changes("errors", s) => cluster' \in Clusters
        BY <1>2 DEF Changes, Clusters
  <2>2. ASSUME NEW i \in Images, Rollout(i) PROVE cluster' \in Clusters
    <3>1. [cluster.workloads EXCEPT !.image = i] \in Workload BY <1>2 DEF Workload
    <3> QED BY <2>1, <2>2, <3>1 DEF Rollout
  <2>3. ASSUME NEW n \in Replicas, Scale(n) PROVE cluster' \in Clusters
    <3> DEFINE r == IF n < cluster.workloads.ready THEN n ELSE cluster.workloads.ready
    <3>1. r \in Nat BY <1>2, CollectorsAssumption DEF Workload
    <3> HIDE DEF r
    <3>2. [cluster.workloads EXCEPT !.desired = n, !.ready = r] \in Workload
          BY <1>2, <3>1 DEF Workload
    <3>3. Changes("workloads", [cluster.workloads EXCEPT !.desired = n, !.ready = r])
          BY Zenon, <2>3 DEF Scale, r
    <3> QED BY <2>1, <3>2, <3>3
  <2>4. ASSUME NEW n \in Nat, ReadyChanges(n) PROVE cluster' \in Clusters
    <3>1. [cluster.workloads EXCEPT !.ready = n] \in Workload BY <1>2, <2>4 DEF Workload
    <3> QED BY <2>1, <2>4, <3>1 DEF ReadyChanges
  <2>5. ASSUME NEW alive \in BOOLEAN, NEW bad \in SUBSET Conditions, PodChanges(alive, bad)
        PROVE  cluster' \in Clusters
    <3>1. [alive |-> alive, bad |-> bad] \in Pod BY DEF Pod
    <3> QED BY <2>1, <2>5, <3>1 DEF PodChanges
  <2>6. ASSUME NEW s \in Sights, SightChanges(s) PROVE cluster' \in Clusters
        BY <2>1, <2>6 DEF SightChanges
  <2>7. cluster.pods.bad \in SUBSET Conditions BY <1>2 DEF Pod
  <2>8. \A c \in Conditions : /\ cluster.pods.bad \cup {c} \in SUBSET Conditions
                              /\ cluster.pods.bad \ {c} \in SUBSET Conditions
        BY <2>7
  <2>9. {} \in SUBSET Conditions /\ 0 \in Nat /\ Replicas \subseteq Nat BY CollectorsAssumption
  <2> QED BY <2>2, <2>3, <2>4, <2>5, <2>6, <2>8, <2>9 DEF ClusterChanges
<1>5. changes' \in 0..MaxChange BY <1>1, <1>3, TypedIs
<1>6. Typed' BY <1>1, <1>3, <1>4, <1>5 DEF Typed, TypeOK, observed
<1>7. (\A p \in Poller : PollStep(p)) /\ clock' >= clock
      BY <1>1, <1>3, TypedIs DEF PollStep
<1> QED BY <1>3, <1>6, <1>7, UnwrittenKeeps DEF observed

\* A step that sets the pass of p alone.
LEMMA PollSet ==
    ASSUME Typed, NEW p \in Poller, NEW o, poll' = [poll EXCEPT ![p] = o],
           o = Resting \/ o \in Reading(p), clock' = clock
    PROVE  /\ poll' = [q \in Poller |-> poll'[q]] /\ DOMAIN poll' = Poller
           /\ poll'[p] = o /\ \A q \in Poller \ {p} : poll'[q] = poll[q]
           /\ \A q \in Poller : poll'[q] = Resting \/ poll'[q] \in
              [busy : {TRUE}, saw : Seen[q], metrics : BOOLEAN, hidden : SUBSET NeedsMetrics,
               at : 0..clock']
<1>1. poll' = [q \in Poller |-> IF q = p THEN o ELSE poll[q]] BY TypedIs
<1>2. \A q \in Poller : poll'[q] = IF q = p THEN o ELSE poll[q] BY <1>1
<1>3. poll' = [q \in Poller |-> poll'[q]] /\ DOMAIN poll' = Poller BY <1>1
<1>4. \A q \in Poller : poll'[q] \in {poll[q], Resting} \/ poll'[q] \in Reading(q) BY <1>2
<1>5. clock' \in Nat /\ clock' >= clock BY TypedIs
<1>6. \A q \in Poller : poll'[q] = Resting \/ poll'[q] \in
         [busy : {TRUE}, saw : Seen[q], metrics : BOOLEAN, hidden : SUBSET NeedsMetrics,
          at : 0..clock']
      BY <1>3, <1>4, <1>5, PollTyped
<1> QED BY <1>2, <1>3, <1>6

LEMMA CollectKeeps ==
    ASSUME DeliveryInv, NEW p \in Poller, NEW metrics \in BOOLEAN,
           NEW hidden \in SUBSET NeedsMetrics, Collect(p, metrics, hidden), late' = late
    PROVE  DeliveryInv'
<1> DEFINE read == [busy |-> TRUE, saw |-> cluster[p], metrics |-> metrics,
                    hidden |-> hidden, at |-> IF p = "errors" THEN clock ELSE 0]
<1>1. Typed BY DEF DeliveryInv
<1>2. /\ ~poll[p].busy /\ p \notin ran /\ ran' = ran \cup {p}
      /\ poll' = [poll EXCEPT ![p] = read]
      /\ UNCHANGED <<clock, cluster, observed, problems, announced, changes>>
      BY DEF Collect
<1>3. read \in Reading(p) /\ read.at \in {0, clock}
  <2>1. cluster[p] \in Seen[p] BY <1>1, TypedIs DEF Clusters, Poller, Seen
  <2>2. (IF p = "errors" THEN clock ELSE 0) \in 0..clock BY <1>1, TypedIs
  <2> QED BY <2>1, <2>2 DEF Reading
<1> HIDE DEF read
<1>4. /\ poll' = [q \in Poller |-> poll'[q]] /\ DOMAIN poll' = Poller
      /\ poll'[p] = read /\ \A q \in Poller \ {p} : poll'[q] = poll[q]
      /\ \A q \in Poller : poll'[q] = Resting \/ poll'[q] \in
            [busy : {TRUE}, saw : Seen[q], metrics : BOOLEAN, hidden : SUBSET NeedsMetrics,
             at : 0..clock']
      BY <1>1, <1>2, <1>3, PollSet
<1>5. Typed' BY <1>1, <1>2, <1>4 DEF Typed, TypeOK, observed
<1>6. \A q \in Poller : PollStep(q) BY <1>2, <1>3, <1>4 DEF PollStep
<1>7. clock' >= clock BY <1>1, <1>2, TypedIs
<1> QED BY <1>2, <1>5, <1>6, <1>7, UnwrittenKeeps DEF observed

LEMMA TakeTimeKeeps ==
    ASSUME DeliveryInv, NEW p \in Poller, TakeTime(p), late' = late PROVE DeliveryInv'
<1> DEFINE o == [poll[p] EXCEPT !.at = clock]
<1>1. Typed BY DEF DeliveryInv
<1>2. /\ poll[p].busy /\ poll[p].at = 0 /\ ran' = ran \cup {p}
      /\ poll' = [poll EXCEPT ![p] = o]
      /\ UNCHANGED <<clock, cluster, observed, problems, announced, changes>>
      BY DEF TakeTime
<1>3. o \in Reading(p) /\ o.at = clock
  <2>1. poll[p] \in Reading(p) /\ clock \in 0..clock BY <1>1, <1>2, TypedIs, BusyRead
  <2> QED BY <2>1 DEF Reading
<1> HIDE DEF o
<1>4. /\ poll' = [q \in Poller |-> poll'[q]] /\ DOMAIN poll' = Poller
      /\ poll'[p] = o /\ \A q \in Poller \ {p} : poll'[q] = poll[q]
      /\ \A q \in Poller : poll'[q] = Resting \/ poll'[q] \in
            [busy : {TRUE}, saw : Seen[q], metrics : BOOLEAN, hidden : SUBSET NeedsMetrics,
             at : 0..clock']
      BY <1>1, <1>2, <1>3, PollSet
<1>5. Typed' BY <1>1, <1>2, <1>4 DEF Typed, TypeOK, observed
<1>6. \A q \in Poller : PollStep(q) BY <1>2, <1>3, <1>4 DEF PollStep
<1>7. clock' >= clock BY <1>1, <1>2, TypedIs
<1> QED BY <1>2, <1>5, <1>6, <1>7, UnwrittenKeeps DEF observed

\* A pass that is over leaves its poller at rest.
LEMMA RestingKeeps ==
    ASSUME Typed, NEW p \in Poller, poll' = [poll EXCEPT ![p] = Resting], clock' = clock,
           ran' = ran
    PROVE  /\ poll' = [q \in Poller |-> poll'[q]] /\ DOMAIN poll' = Poller
           /\ \A q \in Poller : PollStep(q) /\ (poll'[q] = poll[q] \/ ~poll'[q].busy)
           /\ \A q \in Poller : poll'[q] = Resting \/ poll'[q] \in
                 [busy : {TRUE}, saw : Seen[q], metrics : BOOLEAN, hidden : SUBSET NeedsMetrics,
                  at : 0..clock']
           /\ ~poll'[p].busy
<1>1. ~Resting.busy BY DEF Resting
<1>2. /\ poll' = [q \in Poller |-> poll'[q]] /\ DOMAIN poll' = Poller
      /\ poll'[p] = Resting /\ \A q \in Poller \ {p} : poll'[q] = poll[q]
      /\ \A q \in Poller : poll'[q] = Resting \/ poll'[q] \in
            [busy : {TRUE}, saw : Seen[q], metrics : BOOLEAN, hidden : SUBSET NeedsMetrics,
             at : 0..clock']
      BY PollSet
<1>3. \A q \in Poller : poll'[q] = poll[q] \/ ~poll'[q].busy BY <1>1, <1>2
<1> QED BY <1>1, <1>2, <1>3 DEF PollStep

LEMMA AbandonKeeps ==
    ASSUME DeliveryInv, NEW p \in Poller, Abandon(p), late' = late PROVE DeliveryInv'
<1>1. Typed BY DEF DeliveryInv
<1>2. /\ changes < MaxChange /\ changes' = changes + 1 /\ poll' = [poll EXCEPT ![p] = Resting]
      /\ UNCHANGED <<clock, cluster, observed, problems, ran, announced>>
      BY DEF Abandon
<1>3. changes' \in 0..MaxChange BY <1>1, <1>2, TypedIs
<1>4. /\ poll' = [q \in Poller |-> poll'[q]] /\ DOMAIN poll' = Poller
      /\ \A q \in Poller : PollStep(q)
      /\ \A q \in Poller : poll'[q] = Resting \/ poll'[q] \in
            [busy : {TRUE}, saw : Seen[q], metrics : BOOLEAN, hidden : SUBSET NeedsMetrics,
             at : 0..clock']
      BY <1>1, <1>2, RestingKeeps
<1>5. Typed' BY <1>1, <1>2, <1>3, <1>4 DEF Typed, TypeOK, observed
<1>6. clock' >= clock BY <1>1, <1>2, TypedIs
<1> QED BY <1>2, <1>4, <1>5, <1>6, UnwrittenKeeps DEF observed

-----------------------------------------------------------------------------
(* The passes of the pollers.                                              *)

\* A pass that is over, and wrote no verdict, is under way no more.
LEMMA OverApart ==
    ASSUME JudgedApart, \A p \in Poller : poll'[p] = poll[p] \/ ~poll'[p].busy,
           late \subseteq late',
           \A n \in Rows' : \/ n \in Rows /\ deployments'[n] = deployments[n]
                            \/ deployments'[n].outcome = "pending"
    PROVE  JudgedApart'
<1> SUFFICES ASSUME NEW n \in Rows' \ late', deployments'[n].outcome # "pending",
                    NEW p \in Poller, poll'[p].busy, InWindow(deployments'[n], poll'[p].at)
             PROVE  FALSE
    BY DEF JudgedApart, UnderWay, InWindow
<1>1. n \in Rows \ late /\ deployments'[n] = deployments[n] OBVIOUS
<1>2. poll'[p] = poll[p] OBVIOUS
<1> QED BY <1>1, <1>2 DEF JudgedApart, UnderWay, InWindow

LEMMA WorkloadsKeep ==
    ASSUME DeliveryInv, CommitWorkloads, late \subseteq late' PROVE DeliveryInv'
<1> DEFINE o == poll["workloads"]
           new == [image |-> o.saw.image, status |-> deriveStatus(o.saw.desired, o.saw.ready)]
           turned == snapshot # NoSnapshot /\ snapshot.status # new.status
           d == Deployed(o.at, new.image, snapshot.image)
           same == snapshot = NoSnapshot \/ snapshot.image = new.image
<1>1. /\ Typed /\ Chained /\ PassesOrdered /\ ProblemsNamed /\ AnnouncedIsRecorded
      /\ WhatTheRowsSay /\ JudgedApart
      BY DEF DeliveryInv
<1>2. /\ o.busy /\ o.at # 0 /\ poll' = [poll EXCEPT !["workloads"] = Resting]
      /\ snapshot' = new
      /\ events' = events \cup (IF turned THEN {[status |-> new.status, at |-> o.at]} ELSE {})
      /\ deployments' = IF same THEN deployments ELSE Append(deployments, d)
      /\ announced' = announced \cup
            (IF turned /\ new.status = "degraded" THEN {<<"degraded", o.at>>} ELSE {})
      /\ UNCHANGED <<clock, cluster, problems, ran, changes>>
      BY DEF CommitWorkloads, Writes
<1>3. /\ new.image \in Images /\ new.status \in Status /\ new # NoSnapshot
      /\ new \in [image : Images, status : Status]
  <2>1. o.saw.image \in Images BY <1>1, <1>2, TypedIs, BusyRead DEF Seen, Workload
  <2>2. deriveStatus(o.saw.desired, o.saw.ready) \in Status
        BY DEF deriveStatus, Status
  <2> QED BY <2>1, <2>2 DEF Status, NoSnapshot
<1> HIDE DEF new, turned
<1>4. /\ clock \in 1..MaxTime /\ clock \in Nat /\ MaxTime \in Nat /\ 0 \in 0..MaxTime
      /\ Window \in Nat
      BY <1>1, TypedIs, DeliveryAssumption
<1>5. o.at \in 1..MaxTime /\ o.at \in Nat /\ o.at <= clock
       /\ ("workloads" \notin ran => o.at < clock)
  <2>1. o.at \in 0..clock BY <1>1, <1>2, TypedIs, BusyRead
  <2>2. "workloads" \notin ran => o.at < clock BY <1>1, <1>2, TypedIs DEF PassesOrdered
  <2> QED BY <1>2, <1>4, <2>1, <2>2
<1>6. o.busy /\ o.at # 0 BY <1>2
<1>7. /\ poll' = [q \in Poller |-> poll'[q]] /\ DOMAIN poll' = Poller
      /\ \A q \in Poller : PollStep(q) /\ (poll'[q] = poll[q] \/ ~poll'[q].busy)
      /\ \A q \in Poller : poll'[q] = Resting \/ poll'[q] \in
            [busy : {TRUE}, saw : Seen[q], metrics : BOOLEAN, hidden : SUBSET NeedsMetrics,
             at : 0..clock']
      /\ ~poll'["workloads"].busy
      BY <1>1, <1>2, TypedIs, RestingKeeps
<1>8. [status |-> new.status, at |-> o.at] \in Event BY <1>3, <1>5 DEF Event
<1>9. snapshot # NoSnapshot => snapshot.image \in Images BY <1>1 DEF Typed, TypeOK
<1>10. ~same => /\ d \in Deployment /\ d.at = o.at /\ d.image = snapshot'.image
                /\ d.prev = snapshot.image /\ d.image # d.prev
                /\ d.outcome = "pending" /\ d.failed = 0 /\ d.recovered = 0
      BY <1>2, <1>3, <1>4, <1>5, <1>9 DEF Deployment, Deployed
<1> HIDE DEF d
<1>11. /\ deployments \in Seq(Deployment) /\ Rows = 1..Len(deployments) /\ Len(deployments) \in Nat
      BY <1>1, RowsAre, <1>4 DEF Chained, DeploymentsChain
<1>12. ~same => /\ deployments' \in Seq(Deployment)
                /\ deployments' # <<>> /\ Last(deployments') = d
                /\ Rows' = 1..(Len(deployments) + 1)
                /\ Len(deployments) + 1 \in Rows'
                /\ deployments'[Len(deployments) + 1] = d
                /\ \A n \in Rows : deployments'[n] = deployments[n]
  <2> SUFFICES ASSUME ~same
               PROVE /\ deployments' \in Seq(Deployment)
                     /\ deployments' # <<>> /\ Last(deployments') = d
                     /\ Rows' = 1..(Len(deployments) + 1)
                     /\ Len(deployments) + 1 \in Rows'
                     /\ deployments'[Len(deployments) + 1] = d
                     /\ \A n \in Rows : deployments'[n] = deployments[n]
      OBVIOUS
  <2>1. deployments' = Append(deployments, d) BY <1>2
  <2>2. /\ deployments' \in Seq(Deployment) /\ Len(deployments') = Len(deployments) + 1
        /\ \A n \in 1..Len(deployments) : deployments'[n] = deployments[n]
        /\ deployments'[Len(deployments) + 1] = d
        BY <1>10, <1>11, <2>1, AppendProperties
  <2>3. Rows' = 1..(Len(deployments) + 1) BY <2>2, LenProperties DEF Rows
  <2>4. Last(deployments') = d BY <2>2 DEF Last
  <2>5. deployments' # <<>> BY <1>11, <2>2, EmptySeq
  <2> QED BY <1>11, <2>2, <2>3, <2>4, <2>5
<1>13. Typed'
  <2>1. announced' \subseteq ((PodKind \cup ServiceKind \cup {"degraded"}) \X (1..MaxTime))
        BY <1>1, <1>2, <1>5 DEF Typed, TypeOK
  <2>2. events' \subseteq Event BY <1>2, <1>8, <1>1, TypedIs
  <2> QED BY <1>1, <1>2, <1>3, <1>7, <2>1, <2>2 DEF Typed, TypeOK
<1>14. \A n \in Rows : deployments[n].at \in Nat /\ deployments[n].at <= clock
       BY <1>1, <1>4, RowsAre DEF Chained
<1>15. deployments # <<>> =>
          /\ Len(deployments) \in Rows /\ deployments[Len(deployments)].image = snapshot.image
          /\ deployments[Len(deployments)].at < o.at /\ snapshot # NoSnapshot
       BY <1>1, <1>4, <1>6, <1>14, RowsAre DEF Chained, DeploymentsChain, DatesAfter
<1>16. Chained'
  <2>1. CASE same
    <3>1. deployments' = deployments /\ clock' = clock BY <1>2, <2>1
    <3>2. deployments # <<>> => snapshot'.image = snapshot.image /\ snapshot' # NoSnapshot
          BY <1>2, <1>3, <1>15, <2>1
    <3>3. DeploymentsChain' BY <1>1, <3>1, <3>2 DEF Chained, DeploymentsChain, Rows
    <3>4. \A n \in Rows' : deployments'[n].at <= clock' /\ Judged(deployments[n])'
          BY <1>1, <3>1 DEF Chained, Rows, Judged
    <3>5. deployments # <<>> => DatesAfter("workloads", Last(deployments).at)'
          BY <1>1, <1>2, <1>7, <3>1 DEF Chained, DatesAfter
    <3> QED BY <3>1, <3>2, <3>3, <3>4, <3>5 DEF Chained
  <2>2. CASE ~same
    <3>1. ASSUME NEW n \in Rows'
          PROVE  \/ n \in Rows /\ deployments'[n] = deployments[n]
                 \/ n = Len(deployments) + 1 /\ deployments'[n] = d
          BY <1>11, <1>12, <2>2
    <3>2. ASSUME NEW n \in Rows'
          PROVE  /\ deployments'[n].image # deployments'[n].prev
                 /\ n > 1 => /\ deployments'[n].prev = deployments'[n - 1].image
                             /\ deployments'[n].at > deployments'[n - 1].at
                 /\ deployments'[n].at <= clock' /\ Judged(deployments[n])'
      <4>1. CASE n \in Rows /\ deployments'[n] = deployments[n]
        <5>1. n > 1 => n - 1 \in Rows /\ deployments'[n - 1] = deployments[n - 1]
              BY <1>11, <1>12, <2>2, <4>1
        <5> QED BY <1>1, <1>2, <4>1, <5>1 DEF Chained, DeploymentsChain, Judged
      <4>2. CASE n = Len(deployments) + 1 /\ deployments'[n] = d
        <5>1. /\ d.image # d.prev /\ d.at = o.at /\ d.prev = snapshot.image
              /\ d.outcome = "pending" /\ d.failed = 0 /\ d.recovered = 0
              BY <1>10, <2>2
        <5>2. n > 1 => /\ deployments # <<>> /\ n - 1 = Len(deployments)
                       /\ deployments'[n - 1] = deployments[n - 1]
              BY <1>11, <1>12, <2>2, <4>2, EmptySeq
        <5>3. o.at <= clock' BY <1>2, <1>5
        <5> HIDE DEF o
        <5> QED BY <1>4, <1>15, <4>2, <5>1, <5>2, <5>3 DEF Judged
      <4> QED BY <3>1, <4>1, <4>2
    <3>3. Last(deployments').image = snapshot'.image BY <1>10, <1>12, <2>2
    <3>4. DeploymentsChain' BY <1>12, <2>2, <3>2, <3>3 DEF DeploymentsChain
    <3>5. DatesAfter("workloads", Last(deployments).at)'
      <4>1. Last(deployments').at = o.at BY <1>10, <1>12, <2>2
      <4> HIDE DEF o
      <4> QED BY <1>2, <1>5, <1>7, <4>1 DEF DatesAfter
    <3> QED BY <1>2, <1>3, <3>2, <3>4, <3>5 DEF Chained
  <2> QED BY <2>1, <2>2
<1>17. PassesOrdered' BY <1>1, <1>2, <1>7 DEF PassesOrdered, DatesAfter, OpenedBy
<1>18. ProblemsNamed' BY <1>1, <1>2 DEF ProblemsNamed, OpensNothingTwice
<1>19. AnnouncedIsRecorded'
  <2> SUFFICES ASSUME NEW a \in announced'
               PROVE \/ \E p \in problems' : a = <<p.kind, p.opened>>
                     \/ a[1] = "degraded" /\ [status |-> "degraded", at |-> a[2]] \in events'
      BY Zenon DEF AnnouncedIsRecorded
  <2>1. CASE a \in announced
    <3>1. \/ \E p \in problems : a = <<p.kind, p.opened>>
          \/ a[1] = "degraded" /\ [status |-> "degraded", at |-> a[2]] \in events
          BY Zenon, <1>1, <2>1 DEF AnnouncedIsRecorded
    <3>2. problems' = problems /\ events \subseteq events' BY <1>2
    <3> QED BY <3>1, <3>2
  <2>2. CASE turned /\ new.status = "degraded" /\ a = <<"degraded", o.at>>
    <3>1. [status |-> new.status, at |-> o.at] \in events' BY <1>2, <2>2
    <3> QED BY <2>2, <3>1
  <2> QED BY <1>2, <2>1, <2>2
<1>20. \A n \in Rows' : \/ n \in Rows /\ deployments'[n] = deployments[n]
                        \/ deployments'[n].outcome = "pending"
  <2>1. CASE same BY <1>2, <2>1 DEF Rows
  <2>2. CASE ~same BY <1>10, <1>11, <1>12, <2>2
  <2> QED BY <2>1, <2>2
<1>21. JudgedApart' BY <1>1, <1>7, <1>20, OverApart
<1>22. WhatTheRowsSay'
  <2> SUFFICES ASSUME NEW n \in Rows' \ late' PROVE Says(n)' BY Zenon, RowsSayNext
  <2>1. CASE deployments'[n].outcome = "pending" BY <2>1 DEF Says
  <2>2. CASE n \in Rows /\ deployments'[n] = deployments[n] /\ deployments'[n].outcome # "pending"
    <3>1. n \notin late /\ Says(n) BY <1>1, <2>2, RowsSay
    <3>2. deployments'[n] = deployments[n] BY <2>2
    <3>3. ~InWindow(deployments[n], o.at)
          BY <1>1, <1>6, <2>2, <3>1, TypedIs DEF JudgedApart, UnderWay
    <3>4. ~AfterIn(deployments[n], o.at)
          BY <1>5, <1>14, <2>2, <3>3 DEF InWindow, AfterIn
    <3>5. PutBack(deployments[n])' = PutBack(deployments[n])
      <4>1. CASE same BY <1>2, <4>1 DEF PutBack, Rows
      <4>2. CASE ~same
        <5>1. \A m \in Rows : deployments'[m] = deployments[m] /\ m \in Rows'
              BY <1>11, <1>12, <4>2
        <5>2. \A m \in Rows' : m \in Rows \/ m = Len(deployments) + 1
              BY <1>11, <1>12, <4>2
        <5>3. \A m \in Rows' : m \in Rows \/ deployments'[m].at = o.at
              BY <1>10, <1>12, <4>2, <5>2
        <5> HIDE DEF o
        <5> QED BY <3>2, <3>4, <5>1, <5>3 DEF PutBack, AfterIn
      <4> QED BY <4>1, <4>2
    <3>6. Degraded(deployments[n])' = Degraded(deployments[n])
      <4> DEFINE e0 == [status |-> new.status, at |-> o.at]
      <4>1. e0.at = o.at OBVIOUS
      <4>2. events' = events \cup (IF turned THEN {e0} ELSE {}) BY <1>2
      <4> HIDE DEF e0, o
      <4>3. \A e \in events' : e \in events \/ e.at = o.at BY <4>1, <4>2
      <4>4. events \subseteq events' BY <4>2
      <4>5. {f \in events' : f.status = "degraded" /\ AfterIn(deployments[n], f.at)}
            = {f \in events : f.status = "degraded" /\ AfterIn(deployments[n], f.at)}
            BY <3>4, <4>3, <4>4
      <4> QED BY <3>2, <4>5 DEF Degraded, AfterIn
    <3>7. /\ ServiceFaults(deployments[n])' = ServiceFaults(deployments[n])
          /\ PodFaults(deployments[n])' = PodFaults(deployments[n])
          BY <1>2, <3>2 DEF ServiceFaults, PodFaults
    <3>8. Blamed(n)' <=> Blamed(n) BY <1>2, <3>2 DEF Blamed, DependencySeen
    <3>9. Evidence(n)' = Evidence(n) BY <3>5, <3>6, <3>7 DEF Evidence
    <3> QED BY <3>1, <3>2, <3>8, <3>9, SaysSame
  <2> QED BY <1>20, <2>1, <2>2
<1> QED BY <1>13, <1>16, <1>17, <1>18, <1>19, <1>21, <1>22 DEF DeliveryInv

\* The rows that a pass leaves say of a verdict what they said, if the pass dated its
\* rows outside the window, and blamed none in it anew.
LEMMA PassSays ==
    ASSUME NEW n \in Rows, NEW now, deployments' = deployments, events' = events,
           \A p \in problems : \E q \in problems' : Named(p, q),
           \A q \in problems' : q.opened = now \/ \E p \in problems : Named(p, q),
           \A p \in problems, q \in problems' :
               Named(p, q) /\ InWindow(deployments[n], p.opened) => p.cause = q.cause,
           ~InWindow(deployments[n], now), Says(n)
    PROVE  Says(n)'
<1> DEFINE d == deployments[n]
           S(R) == {p.opened : p \in {q \in R : /\ q.kind \in ServiceKind
                                                /\ q.cause # "dependency"
                                                /\ InWindow(d, q.opened)}}
           P(R) == {p.opened : p \in {q \in R : q.kind \in PodKind /\ InWindow(d, q.opened)}}
<1>1. ASSUME NEW p \in problems, InWindow(d, p.opened)
      PROVE  \E q \in problems' : q.kind = p.kind /\ q.opened = p.opened /\ q.cause = p.cause
  <2>1. PICK q \in problems' : Named(p, q) OBVIOUS
  <2> QED BY <1>1, <2>1 DEF Named
<1>2. ASSUME NEW q \in problems', InWindow(d, q.opened)
      PROVE  \E p \in problems : q.kind = p.kind /\ q.opened = p.opened /\ q.cause = p.cause
  <2>1. PICK p \in problems : Named(p, q) BY <1>2
  <2> QED BY <1>2, <2>1 DEF Named
<1>3. ServiceFaults(d)' = ServiceFaults(d)
  <2>1. ServiceFaults(d) = S(problems) /\ ServiceFaults(d)' = S(problems')
        BY DEF ServiceFaults, InWindow
  <2> HIDE DEF d
  <2>2. S(problems') = S(problems) BY <1>1, <1>2
  <2> QED BY <2>1, <2>2
<1>4. PodFaults(d)' = PodFaults(d)
  <2>1. PodFaults(d) = P(problems) /\ PodFaults(d)' = P(problems')
        BY DEF PodFaults, InWindow
  <2> HIDE DEF d
  <2>2. P(problems') = P(problems) BY <1>1, <1>2
  <2> QED BY <2>1, <2>2
<1>5. Blamed(n)' <=> Blamed(n)
  <2>1. /\ Blamed(n)' <=> \E p \in problems' : p.cause = "dependency" /\ InWindow(d, p.opened)
        /\ Blamed(n) <=> \E p \in problems : p.cause = "dependency" /\ InWindow(d, p.opened)
        BY DEF Blamed, DependencySeen, InWindow
  <2> HIDE DEF d
  <2> QED BY <1>1, <1>2, <2>1
<1>6. PutBack(d)' = PutBack(d) BY DEF PutBack, Rows
<1>7. Degraded(d)' = Degraded(d) BY DEF Degraded
<1>8. Evidence(n)' = Evidence(n) BY <1>3, <1>4, <1>6, <1>7 DEF Evidence
<1> QED BY <1>5, <1>8, SaysSame

\* The kinds of the rows that a poller opens.
KindsBy(p) == IF p = "pods" THEN PodKind ELSE ServiceKind

\* What the passes that write problems have in common.
LEMMA ProblemPass ==
    ASSUME DeliveryInv, NEW p \in {"pods", "errors"}, NEW found, NEW keep, NEW cause,
           NEW told \in SUBSET Opening(found),
           \A f \in found : f.kind \in KindsBy(p) /\ f.part \in STRING,
           cause \in Cause \cup {"none"}, p = "pods" => cause = "none",
           Writes(p), Reconciles(KindsBy(p), found, keep, cause, poll[p].at),
           announced' = announced \cup {<<k, poll[p].at>> : k \in told},
           UNCHANGED observed, late' = late \cup BlamedAnew
    PROVE  DeliveryInv'
<1> DEFINE kinds == KindsBy(p)
<1>1. /\ Typed /\ Chained /\ PassesOrdered /\ ProblemsNamed /\ AnnouncedIsRecorded
      /\ WhatTheRowsSay /\ JudgedApart
      BY DEF DeliveryInv
<1>2. /\ poll[p].busy /\ poll[p].at # 0 /\ poll' = [poll EXCEPT ![p] = Resting]
      /\ UNCHANGED <<clock, cluster, ran, changes>> /\ p \in Poller
      BY DEF Writes, Poller
<1>3. PICK now : now = poll[p].at OBVIOUS
<1>4. /\ now \in 1..clock /\ now \in 1..MaxTime /\ clock \in 1..MaxTime /\ clock \in Nat
      /\ now \in Nat /\ (p \notin ran => now < clock)
  <2>1. poll[p].at \in 0..clock BY <1>1, <1>2, BusyRead
  <2>2. p \notin ran => poll[p].at < clock BY <1>1, <1>2 DEF PassesOrdered
  <2> QED BY <1>1, <1>2, <1>3, <2>1, <2>2, TypedIs
<1>5. PodKind \cap ServiceKind = {} BY CollectorsAssumption
<1>6. \A q \in problems : q.kind \in kinds <=> OpenedBy(q) = p
  <2>1. \A q \in problems : q.kind \in PodKind \cup ServiceKind BY <1>1, TypedIs DEF Problem
  <2> QED BY <1>5, <2>1 DEF KindsBy, OpenedBy
<1>7. Older(kinds, now)
      BY <1>1, <1>2, <1>3, <1>6 DEF Older, PassesOrdered, DatesAfter
<1>8. PassOf(kinds, found, keep, cause, now)
  <2>1. kinds \subseteq PodKind \cup ServiceKind /\ (kinds \cap PodKind # {} => cause = "none")
        BY <1>5 DEF KindsBy
  <2> QED BY <1>1, <1>4, <1>7, <2>1, TypedIs DEF PassOf
<1>9. Reconciles(kinds, found, keep, cause, now) BY <1>3
<1> HIDE DEF kinds
<1>10. /\ problems' \subseteq Problem /\ ProblemsNamed'
       /\ \A r \in problems : \E q \in problems' : Named(r, q)
       /\ \A q \in problems' : \/ q.kind \in kinds /\ q.opened = now
                               \/ \E r \in problems : Named(r, q)
       /\ \A k \in Opening(found) : \E q \in problems' : q.kind = k /\ q.opened = now
       BY <1>2, <1>8, <1>9, PassKeeps
<1>11. /\ poll' = [q \in Poller |-> poll'[q]] /\ DOMAIN poll' = Poller
       /\ \A q \in Poller : PollStep(q) /\ (poll'[q] = poll[q] \/ ~poll'[q].busy)
       /\ \A q \in Poller : poll'[q] = Resting \/ poll'[q] \in
             [busy : {TRUE}, saw : Seen[q], metrics : BOOLEAN, hidden : SUBSET NeedsMetrics,
              at : 0..clock']
       /\ ~poll'[p].busy
       BY <1>1, <1>2, RestingKeeps
<1>12. told \subseteq PodKind \cup ServiceKind
       BY <1>5 DEF KindsBy, Opening, KindsOf
<1>13. announced' = announced \cup {<<k, now>> : k \in told} BY <1>3
<1>14. Typed'
  <2>1. announced' \subseteq ((PodKind \cup ServiceKind \cup {"degraded"}) \X (1..MaxTime))
        BY <1>1, <1>4, <1>12, <1>13 DEF Typed, TypeOK
  <2> QED BY <1>1, <1>2, <1>10, <1>11, <2>1 DEF Typed, TypeOK, observed
<1>15. Chained'
  <2>1. clock' \in Nat /\ clock' >= clock /\ UNCHANGED <<deployments, snapshot>>
        BY <1>2, <1>4 DEF observed
  <2> QED BY <1>1, <1>4, <1>11, <2>1, TypedIs, UnwrittenChained
<1>16. AnnouncedIsRecorded'
  <2> SUFFICES ASSUME NEW a \in announced'
               PROVE \/ \E q \in problems' : a = <<q.kind, q.opened>>
                     \/ a[1] = "degraded" /\ [status |-> "degraded", at |-> a[2]] \in events'
      BY Zenon DEF AnnouncedIsRecorded
  <2>1. CASE a \in announced
    <3>1. \/ \E q \in problems : a = <<q.kind, q.opened>>
          \/ a[1] = "degraded" /\ [status |-> "degraded", at |-> a[2]] \in events
          BY Zenon, <1>1, <2>1 DEF AnnouncedIsRecorded
    <3> QED BY <1>10, <3>1 DEF Named, observed
  <2>2. CASE \E k \in told : a = <<k, now>> BY <1>10, <2>2
  <2> QED BY <1>13, <2>1, <2>2
<1>17. PassesOrdered'
  <2>1. \A q \in Poller : poll'[q].busy /\ q \notin ran' => poll'[q].at < clock'
        BY <1>1, <1>2, <1>11 DEF PassesOrdered
  <2>2. ASSUME NEW q \in problems' PROVE DatesAfter(OpenedBy(q), q.opened)'
    <3>1. CASE \E r \in problems : Named(r, q)
      <4>1. PICK r \in problems : Named(r, q) BY <3>1
      <4>2. OpenedBy(q) = OpenedBy(r) /\ q.opened = r.opened BY <4>1 DEF OpenedBy, Named
      <4>3. PICK a \in Poller : a = OpenedBy(r) BY TypedIs, <1>1 DEF OpenedBy
      <4>4. DatesAfter(a, r.opened) BY <1>1, <4>3 DEF PassesOrdered
      <4>5. DatesAfter(a, r.opened)' BY <1>2, <1>11, <4>4 DEF DatesAfter
      <4> QED BY <4>2, <4>3, <4>5 DEF DatesAfter, OpenedBy
    <3>2. CASE q.kind \in kinds /\ q.opened = now
      <4>1. OpenedBy(q) = p BY <1>5, <3>2 DEF OpenedBy, KindsBy, kinds
      <4>2. DatesAfter(p, now)' BY <1>2, <1>4, <1>11 DEF DatesAfter
      <4> QED BY <3>2, <4>1, <4>2 DEF DatesAfter, OpenedBy
    <3> QED BY <1>10, <3>1, <3>2
  <2> QED BY <2>1, <2>2 DEF PassesOrdered, DatesAfter, OpenedBy
<1>18. deployments' = deployments /\ events' = events /\ Rows' = Rows /\ late \subseteq late'
       BY DEF observed, Rows
<1>19. JudgedApart' BY <1>1, <1>11, <1>18, OverApart
<1>20. ASSUME NEW n \in Rows \ late' PROVE Says(n)'
  <2>1. CASE deployments[n].outcome = "pending" BY <1>18, <2>1 DEF Says
  <2>2. CASE deployments[n].outcome # "pending"
    <3>1. n \in Rows \ late /\ n \notin BlamedAnew /\ Says(n) BY <1>1, <1>18, RowsSay
    <3>2. ~InWindow(deployments[n], now)
          BY <1>1, <1>2, <1>3, <2>2, <3>1 DEF JudgedApart, UnderWay
    <3>3. deployments[n].at + Window < clock BY <1>1, <2>2 DEF Chained, Judged
    <3>4. \A r \in problems, q \in problems' :
             Named(r, q) /\ InWindow(deployments[n], r.opened) => r.cause = q.cause
          BY <3>1, <3>3 DEF BlamedAnew, Named
    <3>5. \A q \in problems' : q.opened = now \/ \E r \in problems : Named(r, q) BY <1>10
    <3> QED BY <1>10, <1>18, <3>1, <3>2, <3>4, <3>5, PassSays
  <2> QED BY <2>1, <2>2
<1>21. WhatTheRowsSay' BY <1>18, <1>20, RowsSayNext
<1> QED BY <1>10, <1>14, <1>15, <1>16, <1>17, <1>19, <1>21 DEF DeliveryInv

\* What the pods poller finds.
LEMMA PodsFound ==
    ASSUME Typed, poll["pods"].busy,
           NEW f \in detectPodProblems(poll["pods"].saw, poll["pods"].hidden)
    PROVE  f.kind \in PodKind /\ f.part \in STRING /\ f \in Conditions
<1>1. poll["pods"].saw \in Pod BY TypedIs, BusyRead DEF Seen
<1>2. f \in Conditions BY <1>1 DEF detectPodProblems, Pod
<1> QED BY <1>2, CollectorsAssumption DEF PodKind, KindsOf

LEMMA PodsKeep ==
    ASSUME DeliveryInv, CommitPods, late' = late \cup BlamedAnew PROVE DeliveryInv'
<1> DEFINE o == poll["pods"]
           found == detectPodProblems(o.saw, o.hidden)
           keep == CannotTell(o.saw, o.metrics)
<1>1. /\ Writes("pods") /\ Reconciles(PodKind, found, keep, "none", o.at)
      /\ announced' = announced \cup {<<k, o.at>> : k \in Opening(found) \ Info}
      /\ UNCHANGED observed
      BY DEF CommitPods
<1>2. \A f \in found : f.kind \in PodKind /\ f.part \in STRING
      BY <1>1, PodsFound DEF DeliveryInv, Writes
<1>3. KindsBy("pods") = PodKind BY DEF KindsBy
<1> HIDE DEF found, keep
<1>4. Opening(found) \ Info \in SUBSET Opening(found) OBVIOUS
<1>5. "pods" \in {"pods", "errors"} /\ "none" \in Cause \cup {"none"} OBVIOUS
<1> QED BY <1>1, <1>2, <1>3, <1>4, <1>5, ProblemPass

LEMMA ErrorsKeep ==
    ASSUME DeliveryInv, CommitErrors, late' = late \cup BlamedAnew PROVE DeliveryInv'
<1> DEFINE o == poll["errors"]
           found == evaluateWindows(o.saw)
           cause == attributeCause(o.saw)
<1>1. /\ Writes("errors") /\ Reconciles(ServiceKind, found, {}, cause, o.at)
      /\ announced' = announced \cup {<<k, o.at>> : k \in Opening(found)}
      /\ UNCHANGED observed
      BY DEF CommitErrors
<1>2. \A f \in found : f.kind \in ServiceKind /\ f.part \in STRING
  <2>1. o.saw \in Sight
        BY <1>1, TypedIs, BusyRead, CollectorsAssumption DEF DeliveryInv, Writes, Seen
  <2>2. /\ o.saw.http \subseteq STRING /\ o.saw.noisy \subseteq STRING
        /\ o.saw.callers \subseteq STRING
        BY <2>1, CollectorsAssumption DEF Sight
  <2> HIDE DEF o
  <2> QED BY <2>2 DEF evaluateWindows, ServiceKind
<1>3. KindsBy("errors") = ServiceKind BY DEF KindsBy
<1>4. cause \in Cause \cup {"none"} BY DEF attributeCause, Cause
<1> HIDE DEF found, cause
<1>5. Opening(found) \in SUBSET Opening(found) OBVIOUS
<1>6. "errors" \in {"pods", "errors"} /\ "errors" # "pods" OBVIOUS
<1> QED BY <1>1, <1>2, <1>3, <1>4, <1>5, <1>6, ProblemPass

-----------------------------------------------------------------------------
(* The statements about a deployment.                                      *)

\* The marks of a deployment are set: what it is stays.
Marks(e, d) == e.at = d.at /\ e.image = d.image /\ e.prev = d.prev

\* A step that marks deployments keeps their order, and what a window shows.
LEMMA MarksKeep ==
    ASSUME DeliveryInv, deployments' = [n \in Rows |-> deployments'[n]],
           \A n \in Rows : /\ deployments'[n] \in Deployment
                           /\ Marks(deployments'[n], deployments[n])
                           /\ Judged(deployments'[n]),
           UNCHANGED <<clock, cluster, snapshot, events, problems, poll, ran, announced,
                       changes>>
    PROVE  /\ Typed' /\ Chained' /\ PassesOrdered' /\ ProblemsNamed' /\ AnnouncedIsRecorded'
           /\ Rows' = Rows
           /\ \A n \in Rows : Evidence(n)' = Evidence(n) /\ (Blamed(n)' <=> Blamed(n))
<1>1. /\ Typed /\ Chained /\ PassesOrdered /\ ProblemsNamed /\ AnnouncedIsRecorded
      BY DEF DeliveryInv
<1>2. clock \in 1..MaxTime BY <1>1, TypedIs
<1>3. /\ Rows = 1..Len(deployments) /\ Len(deployments) \in Nat
      /\ \A n \in Rows : deployments[n] \in Deployment /\ n \in Nat
      /\ deployments \in Seq(Deployment)
      BY <1>1, <1>2, RowsAre DEF Chained, DeploymentsChain
<1>4. Rows' = Rows BY DEF Rows
<1>5. /\ deployments' \in Seq(Deployment) /\ Len(deployments') = Len(deployments)
  <2> DEFINE k == Len(deployments)
  <2>1. deployments' \in [1..k -> Deployment] BY <1>3
  <2>2. k \in Nat BY <1>3
  <2> HIDE DEF k
  <2>3. deployments' \in Seq(Deployment) BY <2>1, <2>2, SeqDef
  <2>4. Len(deployments') = k BY <2>1, <2>2, <2>3, LenProperties
  <2> QED BY <2>3, <2>4 DEF k
<1>6. Typed' BY <1>1 DEF Typed, TypeOK
<1>7. Chained'
  <2>1. deployments' # <<>> => deployments # <<>> BY <1>3, <1>5, EmptySeq
  <2>2. ASSUME deployments' # <<>>
        PROVE  Marks(Last(deployments'), Last(deployments))
    <3>1. Len(deployments) \in Rows BY <1>1, <1>2, <2>1, <2>2, RowsAre
    <3> QED BY <1>5, <3>1 DEF Last
  <2>3. ASSUME NEW n \in Rows
        PROVE  /\ deployments'[n].image # deployments'[n].prev
               /\ n > 1 => /\ deployments'[n].prev = deployments'[n - 1].image
                           /\ deployments'[n].at > deployments'[n - 1].at
               /\ deployments'[n].at <= clock' /\ Judged(deployments[n])'
    <3>1. n > 1 => n - 1 \in Rows BY <1>3
    <3>2. Marks(deployments'[n], deployments[n]) /\ Judged(deployments'[n]) OBVIOUS
    <3>3. n > 1 => Marks(deployments'[n - 1], deployments[n - 1]) BY <3>1
    <3>4. Judged(deployments[n])' BY <3>2 DEF Judged
    <3> QED BY <1>1, <3>2, <3>3, <3>4 DEF Chained, DeploymentsChain, Marks
  <2>4. DeploymentsChain'
        BY <1>1, <1>4, <1>5, <2>1, <2>2, <2>3 DEF DeploymentsChain, Chained, Marks
  <2>5. deployments' # <<>> => DatesAfter("workloads", Last(deployments).at)'
        BY <1>1, <2>1, <2>2 DEF Chained, DatesAfter, Marks
  <2> QED BY <1>1, <1>4, <2>1, <2>3, <2>4, <2>5 DEF Chained
<1>8. PassesOrdered' BY <1>1 DEF PassesOrdered, DatesAfter, OpenedBy
<1>9. ProblemsNamed' BY <1>1 DEF ProblemsNamed, OpensNothingTwice, Named, IsOpen
<1>10. AnnouncedIsRecorded' BY Zenon, <1>1 DEF AnnouncedIsRecorded
<1>11. ASSUME NEW n \in Rows PROVE Evidence(n)' = Evidence(n) /\ (Blamed(n)' <=> Blamed(n))
  <2>1. \A m \in Rows : Marks(deployments'[m], deployments[m]) OBVIOUS
  <2>2. PutBack(deployments[n])' = PutBack(deployments[n])
        BY <1>4, <2>1 DEF PutBack, AfterIn, Marks
  <2>3. ServiceFaults(deployments[n])' = ServiceFaults(deployments[n])
        BY <2>1 DEF ServiceFaults, InWindow, Marks
  <2>4. PodFaults(deployments[n])' = PodFaults(deployments[n])
        BY <2>1 DEF PodFaults, InWindow, Marks
  <2>5. Degraded(deployments[n])' = Degraded(deployments[n])
        BY <2>1 DEF Degraded, AfterIn, Marks
  <2>6. Blamed(n)' <=> Blamed(n) BY <2>1 DEF Blamed, DependencySeen, InWindow, Marks
  <2> QED BY <2>2, <2>3, <2>4, <2>5, <2>6 DEF Evidence
<1> QED BY <1>4, <1>6, <1>7, <1>8, <1>9, <1>10, <1>11

\* Nor does it put a verdict into the window of which a pass is under way, unless the
\* verdict is in late.
LEMMA MarksApart ==
    ASSUME JudgedApart, Rows' = Rows, poll' = poll, late \subseteq late',
           \A n \in Rows \ late' : /\ Marks(deployments'[n], deployments[n])
                                   /\ \/ deployments'[n].outcome = deployments[n].outcome
                                      \/ ~UnderWay(deployments[n])
    PROVE  JudgedApart'
<1> SUFFICES ASSUME NEW n \in Rows \ late', deployments'[n].outcome # "pending",
                    NEW p \in Poller, poll'[p].busy, InWindow(deployments'[n], poll'[p].at)
             PROVE  FALSE
    BY DEF JudgedApart, UnderWay, InWindow
<1>1. UnderWay(deployments[n]) BY DEF UnderWay, InWindow, Marks
<1> QED BY <1>1 DEF JudgedApart

LEMMA LinksKeep ==
    ASSUME DeliveryInv, NEW answers \in BOOLEAN, resolveDeploymentLinks(answers)
    PROVE  DeliveryInv' /\ Final
<1>1. Typed /\ Chained /\ WhatTheRowsSay /\ JudgedApart BY DEF DeliveryInv
<1>2. /\ deployments' = [n \in Rows |->
            IF n \in LinkQueue
            THEN [deployments[n] EXCEPT !.link = LinkOf(deployments[n], answers)]
            ELSE deployments[n]]
      /\ UNCHANGED <<clock, cluster, snapshot, events, problems, poll, ran, announced,
                     changes, late>>
      BY DEF resolveDeploymentLinks
<1>3. \A n \in Rows : /\ deployments[n] \in Deployment /\ Judged(deployments[n])
                      /\ deployments[n].at \in Nat /\ deployments[n].failed \in Nat
      BY <1>1, TypedIs, RowsAre DEF Chained
<1>4. \A n \in Rows : LinkOf(deployments[n], answers) \in {"pending", "linked", "unlinked"}
      BY DEF LinkOf
<1>5. ASSUME NEW n \in Rows
      PROVE  LET d == deployments[n]  e == deployments'[n] IN
             /\ e \in Deployment /\ Marks(e, d)
             /\ e.outcome = d.outcome /\ e.failed = d.failed
             /\ e.recovered = d.recovered /\ e.dependency = d.dependency
             /\ d.link # "pending" => e.link = d.link
  <2>1. CASE n \in LinkQueue
    <3>1. deployments'[n] = [deployments[n] EXCEPT !.link = LinkOf(deployments[n], answers)]
          BY <1>2, <2>1
    <3>2. deployments[n].link = "pending" BY <2>1 DEF LinkQueue, PendingLinks
    <3> QED BY <1>3, <1>4, <3>1, <3>2 DEF Deployment, Marks
  <2>2. CASE n \notin LinkQueue
    <3>1. deployments'[n] = deployments[n] BY <1>2, <2>2
    <3> QED BY <1>3, <3>1 DEF Marks
  <2> QED BY <2>1, <2>2
<1>6. \A n \in Rows : Judged(deployments'[n]) BY <1>3, <1>5 DEF Judged, Marks
<1>7. deployments' = [n \in Rows |-> deployments'[n]] BY <1>2
<1>8. /\ Typed' /\ Chained' /\ PassesOrdered' /\ ProblemsNamed' /\ AnnouncedIsRecorded'
      /\ Rows' = Rows
      /\ \A n \in Rows : Evidence(n)' = Evidence(n) /\ (Blamed(n)' <=> Blamed(n))
      BY <1>2, <1>5, <1>6, <1>7, MarksKeep
<1>9. \A n \in Rows \ late : Says(n)' BY <1>1, <1>5, <1>8, RowsSay, SaysSame
<1>10. WhatTheRowsSay' BY <1>2, <1>8, <1>9, RowsSayNext
<1>11. JudgedApart' BY <1>1, <1>2, <1>5, <1>8, MarksApart
<1>12. Final BY <1>3, <1>5, <1>6 DEF Final, Judged, Marks
<1> QED BY <1>8, <1>10, <1>11, <1>12 DEF DeliveryInv

\* A verdict is typed, in order, and what the rows of the window say.
LEMMA VerdictIs ==
    ASSUME Typed, Chained, NEW n \in Rows, Due(deployments[n])
    PROVE  LET d == deployments[n]  v == Verdict(d) IN
           /\ v \in Deployment /\ Marks(v, d) /\ v.link = d.link
           /\ v.outcome \in {"ok", "failed"}
           /\ v.outcome = "failed" => d.at <= v.failed
           /\ v.recovered # 0 => v.outcome = "failed" /\ v.failed <= v.recovered
           /\ v.outcome = "failed" <=>
                 PutBack(d) # {} \/ ServiceFaults(d) \cup PodFaults(d) \cup Degraded(d) # {}
<1> DEFINE d == deployments[n]
           v == Verdict(d)
<1>1. /\ d \in Deployment /\ d.at \in Nat /\ d.at \in 1..MaxTime /\ MaxTime \in Nat
      /\ d.recovered = 0 /\ d.failed = 0
      BY TypedIs, RowsAre DEF Chained, Judged, Due, Deployment
<1>2. ASSUME NEW t \in 0..MaxTime, d.at <= t
      PROVE  /\ Failed(d, t) \in Deployment /\ Marks(Failed(d, t), d)
             /\ Failed(d, t).link = d.link /\ Failed(d, t).outcome = "failed"
             /\ Failed(d, t).failed = t /\ Failed(d, t).recovered = 0
      BY <1>1 DEF Failed, Deployment, Marks
<1>3. CASE PutBack(d) # {}
  <2> DEFINE m == Earliest(PutBack(d))
  <2>1. PutBack(d) \subseteq Rows /\ Rows \subseteq Nat BY TypedIs, RowsAre DEF PutBack
  <2>2. m \in PutBack(d) BY <1>3, <2>1, EarliestIs
  <2> HIDE DEF m
  <2>3. m \in Rows /\ d.at < deployments[m].at BY <2>2 DEF PutBack, AfterIn
  <2>4. deployments[m].at \in 0..MaxTime /\ deployments[m].at \in Nat
        BY <2>3, TypedIs, RowsAre DEF Deployment
  <2> DEFINE f == Failed(d, d.at)
  <2>5. /\ f \in Deployment /\ Marks(f, d) /\ f.link = d.link /\ f.outcome = "failed"
        /\ f.failed = d.at
        BY <1>1, <1>2
  <2>6. v = [f EXCEPT !.recovered = deployments[m].at] BY <1>3 DEF Verdict, m
  <2> HIDE DEF f, v
  <2>7. /\ v \in Deployment /\ Marks(v, d) /\ v.link = d.link /\ v.outcome = "failed"
        /\ v.failed = d.at /\ v.recovered = deployments[m].at
        BY <2>4, <2>5, <2>6 DEF Deployment, Marks
  <2> QED BY <1>1, <1>3, <2>3, <2>4, <2>7 DEF v
<1>4. CASE PutBack(d) = {} /\ ServiceFaults(d) # {}
  <2> DEFINE t == Earliest(ServiceFaults(d))
  <2>1. ServiceFaults(d) \subseteq {u \in 0..MaxTime : d.at <= u}
        BY TypedIs DEF ServiceFaults, InWindow, Problem
  <2>2. t \in ServiceFaults(d) BY <1>4, <2>1, EarliestIs
  <2>3. v = Failed(d, t) BY <1>4 DEF Verdict
  <2> HIDE DEF t, v
  <2> QED BY <1>2, <1>4, <2>1, <2>2, <2>3 DEF v
<1>5. CASE PutBack(d) = {} /\ ServiceFaults(d) = {} /\ PodFaults(d) # {}
  <2> DEFINE t == Earliest(PodFaults(d))
  <2>1. PodFaults(d) \subseteq {u \in 0..MaxTime : d.at <= u}
        BY TypedIs DEF PodFaults, InWindow, Problem
  <2>2. t \in PodFaults(d) BY <1>5, <2>1, EarliestIs
  <2>3. v = Failed(d, t) BY <1>5 DEF Verdict
  <2> HIDE DEF t, v
  <2> QED BY <1>2, <1>5, <2>1, <2>2, <2>3 DEF v
<1>6. CASE PutBack(d) = {} /\ ServiceFaults(d) \cup PodFaults(d) = {} /\ Degraded(d) # {}
  <2> DEFINE t == Earliest(Degraded(d))
  <2>1. Degraded(d) \subseteq {u \in 0..MaxTime : d.at <= u}
        BY <1>1, TypedIs DEF Degraded, AfterIn, Event
  <2>2. t \in Degraded(d) BY <1>6, <2>1, EarliestIs
  <2>3. v = Failed(d, t) BY <1>6 DEF Verdict
  <2> HIDE DEF t, v
  <2> QED BY <1>2, <1>6, <2>1, <2>2, <2>3 DEF v
<1>7. CASE PutBack(d) = {} /\ ServiceFaults(d) \cup PodFaults(d) \cup Degraded(d) = {}
  <2>1. v = [d EXCEPT !.outcome = "ok"] BY <1>7 DEF Verdict
  <2> HIDE DEF v
  <2>2. /\ v \in Deployment /\ Marks(v, d) /\ v.link = d.link /\ v.outcome = "ok"
        /\ v.recovered = 0
        BY <1>1, <2>1 DEF Deployment, Marks
  <2> QED BY <1>7, <2>2 DEF v
<1> QED BY <1>3, <1>4, <1>5, <1>6, <1>7

LEMMA JudgeKeeps ==
    ASSUME DeliveryInv, NEW n \in Rows, evaluateDeployment(n)
    PROVE  DeliveryInv' /\ Final
<1> DEFINE d == deployments[n]
           w == Verdict(d)
           v == [w EXCEPT !.dependency = DependencySeen(d)]
           first(m) == PutBack(d) # {} /\ m = Earliest(PutBack(d))
<1>1. Typed /\ Chained /\ WhatTheRowsSay /\ JudgedApart BY DEF DeliveryInv
<1>2. /\ Due(d)
      /\ deployments' = [m \in Rows |->
            IF m = n THEN v
            ELSE IF first(m) THEN [deployments[m] EXCEPT !.rollback = TRUE]
                 ELSE deployments[m]]
      /\ late' = IF UnderWay(d) THEN late \cup {n} ELSE late
      /\ UNCHANGED <<clock, cluster, snapshot, events, problems, poll, ran, announced,
                     changes>>
      BY Zenon DEF evaluateDeployment
<1>3. \A m \in Rows : /\ deployments[m] \in Deployment /\ Judged(deployments[m])
                      /\ deployments[m].at \in Nat /\ deployments[m].failed \in Nat
      BY <1>1, TypedIs, RowsAre DEF Chained
<1>4. /\ w \in Deployment /\ Marks(w, d) /\ w.link = d.link
      /\ w.outcome \in {"ok", "failed"}
      /\ w.outcome = "failed" => d.at <= w.failed
      /\ w.recovered # 0 => w.outcome = "failed" /\ w.failed <= w.recovered
      /\ w.outcome = "failed" <=>
            PutBack(d) # {} \/ ServiceFaults(d) \cup PodFaults(d) \cup Degraded(d) # {}
      BY <1>1, <1>2, VerdictIs
<1>5. DependencySeen(d) \in BOOLEAN BY DEF DependencySeen
<1>6. d.outcome = "pending" /\ d.at + Window < clock /\ d.recovered = 0
      BY <1>2, <1>3 DEF Due, Judged
<1> DEFINE seen == DependencySeen(d)
<1> HIDE DEF w, first, seen
<1>7. [w EXCEPT !.dependency = seen] \in Deployment
      /\ Marks([w EXCEPT !.dependency = seen], d)
      /\ [w EXCEPT !.dependency = seen].dependency = seen
      /\ [w EXCEPT !.dependency = seen].outcome = w.outcome
      /\ [w EXCEPT !.dependency = seen].failed = w.failed
      /\ [w EXCEPT !.dependency = seen].recovered = w.recovered
      /\ [w EXCEPT !.dependency = seen].link = w.link
  <2>1. seen \in BOOLEAN BY <1>5 DEF seen
  <2> QED BY <2>1, <1>4 DEF Deployment, Marks
<1>8. /\ v \in Deployment /\ Marks(v, d) /\ v.dependency = DependencySeen(d)
      /\ v.outcome = w.outcome /\ v.failed = w.failed
      /\ v.recovered = w.recovered /\ v.link = d.link
      BY Zenon, <1>4, <1>7 DEF seen
<1> HIDE DEF v
<1>9. deployments'[n] = v BY <1>2
<1>10. ASSUME NEW m \in Rows, m # n
       PROVE  LET p == deployments[m]  e == deployments'[m] IN
              /\ e \in Deployment /\ Marks(e, p)
              /\ e.outcome = p.outcome /\ e.failed = p.failed
              /\ e.recovered = p.recovered /\ e.dependency = p.dependency
              /\ e.link = p.link
  <2>1. CASE first(m)
    <3>1. deployments'[m] = [deployments[m] EXCEPT !.rollback = TRUE] BY <1>2, <1>10, <2>1
    <3> QED BY <1>3, <3>1 DEF Deployment, Marks
  <2>2. CASE ~first(m)
    <3>1. deployments'[m] = deployments[m] BY <1>2, <1>10, <2>2
    <3> QED BY <1>3, <3>1 DEF Marks
  <2> QED BY <2>1, <2>2
<1>11. ASSUME NEW m \in Rows
       PROVE  /\ deployments'[m] \in Deployment
              /\ Marks(deployments'[m], deployments[m])
              /\ Judged(deployments'[m])
  <2>1. CASE m = n
    <3>1. Judged(v) BY <1>4, <1>6, <1>8 DEF Judged, Marks
    <3> QED BY <1>8, <1>9, <2>1, <3>1
  <2>2. CASE m # n BY <1>3, <1>10, <2>2 DEF Judged, Marks
  <2> QED BY <2>1, <2>2
<1>12. deployments' = [m \in Rows |-> deployments'[m]] BY <1>2
<1>13. /\ Typed' /\ Chained' /\ PassesOrdered' /\ ProblemsNamed' /\ AnnouncedIsRecorded'
       /\ Rows' = Rows
       /\ \A m \in Rows : Evidence(m)' = Evidence(m) /\ (Blamed(m)' <=> Blamed(m))
       BY <1>2, <1>11, <1>12, MarksKeep
<1>14. Says(n)'
  <2>1. /\ PutBack(d)' = PutBack(d) /\ ServiceFaults(d)' = ServiceFaults(d)
        /\ PodFaults(d)' = PodFaults(d) /\ Degraded(d)' = Degraded(d)
        BY <1>13 DEF Evidence
  <2>2. DependencySeen(d)' <=> DependencySeen(d) BY <1>13 DEF Blamed
  <2>3. deployments'[n].outcome = "failed" <=>
           PutBack(d)' # {} \/ ServiceFaults(d)' \cup PodFaults(d)' \cup Degraded(d)' # {}
        BY <1>4, <1>8, <1>9, <2>1
  <2>4. deployments'[n].dependency <=> DependencySeen(d)' BY Zenon, <1>8, <1>9, <2>2
  <2> QED BY Zenon, <2>3, <2>4 DEF Says
<1>15. \A m \in Rows \ late : Says(m)' BY <1>1, <1>10, <1>13, <1>14, RowsSay, SaysSame
<1>16. WhatTheRowsSay' BY <1>2, <1>13, <1>15, RowsSayNext
<1>17. JudgedApart'
  <2>1. \A m \in Rows \ late' : \/ deployments'[m].outcome = deployments[m].outcome
                                \/ ~UnderWay(deployments[m])
        BY <1>2, <1>10
  <2> QED BY <1>1, <1>2, <1>11, <1>13, <2>1, MarksApart
<1>18. ASSUME NEW m \in Rows
       PROVE  LET p == deployments[m]  e == deployments'[m] IN
              /\ p.outcome # "pending" => e.outcome = p.outcome /\ e.failed = p.failed
              /\ p.recovered # 0 => e.recovered = p.recovered
              /\ p.link # "pending" => e.link = p.link
  <2>1. CASE m = n BY <1>6, <1>8, <1>9, <2>1
  <2>2. CASE m # n BY <1>10, <2>2
  <2> QED BY <2>1, <2>2
<1>19. Final BY <1>11, <1>18 DEF Final, Judged, Marks
<1> QED BY <1>13, <1>16, <1>17, <1>19 DEF DeliveryInv

LEMMA RecoverKeeps ==
    ASSUME DeliveryInv, NEW n \in Rows, Recover(n)
    PROVE  DeliveryInv' /\ Final
<1> DEFINE d == deployments[n]
           t == Earliest(Recoveries(d))
<1>1. Typed /\ Chained /\ WhatTheRowsSay /\ JudgedApart BY DEF DeliveryInv
<1>2. /\ d.outcome = "failed" /\ d.recovered = 0 /\ Recoveries(d) # {}
      /\ deployments' = [deployments EXCEPT ![n].recovered = t]
      /\ UNCHANGED <<clock, cluster, snapshot, events, problems, poll, ran, announced,
                     changes, late>>
      BY DEF Recover
<1>3. \A m \in Rows : /\ deployments[m] \in Deployment /\ Judged(deployments[m])
                      /\ deployments[m].at \in Nat /\ deployments[m].failed \in Nat
      BY <1>1, TypedIs, RowsAre DEF Chained
<1>4. t \in 0..MaxTime /\ d.failed <= t
  <2>1. Recoveries(d) \subseteq {u \in 0..MaxTime : d.failed <= u}
        BY <1>1, <1>3, TypedIs DEF Recoveries, Problem, Event
  <2>2. t \in Recoveries(d) BY <1>2, <2>1, TypedIs, EarliestIs
  <2> QED BY <2>1, <2>2
<1> HIDE DEF t
<1>5. deployments' = [m \in Rows |-> IF m = n THEN [d EXCEPT !.recovered = t]
                                     ELSE deployments[m]]
  <2>1. deployments = [m \in Rows |-> deployments[m]]
        BY <1>1, TypedIs, RowsAre DEF Chained, DeploymentsChain
  <2> QED BY <1>2, <2>1
<1>6. ASSUME NEW m \in Rows
      PROVE  LET p == deployments[m]  e == deployments'[m] IN
             /\ e \in Deployment /\ Marks(e, p)
             /\ e.outcome = p.outcome /\ e.failed = p.failed
             /\ e.dependency = p.dependency /\ e.link = p.link
             /\ IF m = n THEN e.recovered = t ELSE e.recovered = p.recovered
  <2>1. CASE m = n
    <3>1. deployments'[m] = [d EXCEPT !.recovered = t] BY <1>5, <2>1
    <3> QED BY <1>3, <1>4, <2>1, <3>1 DEF Deployment, Marks
  <2>2. CASE m # n
    <3>1. deployments'[m] = deployments[m] BY <1>5, <2>2
    <3> QED BY <1>3, <2>2, <3>1 DEF Marks
  <2> QED BY <2>1, <2>2
<1>7. \A m \in Rows : Judged(deployments'[m])
      BY <1>2, <1>3, <1>4, <1>6 DEF Judged, Marks
<1>8. deployments' = [m \in Rows |-> deployments'[m]] BY <1>5
<1>9. /\ Typed' /\ Chained' /\ PassesOrdered' /\ ProblemsNamed' /\ AnnouncedIsRecorded'
      /\ Rows' = Rows
      /\ \A m \in Rows : Evidence(m)' = Evidence(m) /\ (Blamed(m)' <=> Blamed(m))
      BY <1>2, <1>6, <1>7, <1>8, MarksKeep
<1>10. \A m \in Rows \ late : Says(m)' BY <1>1, <1>6, <1>9, RowsSay, SaysSame
<1>11. WhatTheRowsSay' BY <1>2, <1>9, <1>10, RowsSayNext
<1>12. Final BY <1>2, <1>3, <1>6, <1>7 DEF Final, Judged, Marks
<1>13. JudgedApart' BY <1>1, <1>2, <1>6, <1>9, MarksApart
<1> QED BY <1>9, <1>11, <1>12, <1>13 DEF DeliveryInv

-----------------------------------------------------------------------------
(* The theorems.                                                           *)

\* A collector writes deployments only at the end.
LEMMA CollectedFinal ==
    ASSUME DeliveryInv, \A n \in Rows : deployments'[n] = deployments[n] PROVE Final
<1>1. \A n \in Rows : Judged(deployments[n]) BY DEF DeliveryInv, Chained
<1>2. clock \in 1..MaxTime /\ Chained BY TypedIs DEF DeliveryInv
<1>3. \A n \in Rows : /\ deployments[n].at \in Nat /\ deployments[n].failed \in Nat
                      /\ deployments[n].recovered \in Nat
      BY <1>2, RowsAre
<1> QED BY <1>1, <1>3 DEF Final, Judged

LEMMA CollectorsKeep == ASSUME DeliveryInv, Collectors PROVE DeliveryInv' /\ Final
<1>1. late' = late BY DEF Collectors
<1>2. CASE Tick
  <2>1. deployments' = deployments BY <1>2 DEF Tick, observed
  <2> QED BY <1>1, <1>2, <2>1, TickKeeps, CollectedFinal
<1>3. CASE ClusterChanges
  <2>1. deployments' = deployments
        BY Zenon, <1>3 DEF ClusterChanges, Changes, Rollout, Scale, ReadyChanges, PodChanges,
                           SightChanges, observed
  <2> QED BY <1>1, <1>3, <2>1, ClusterKeeps, CollectedFinal
<1>4. ASSUME NEW p \in Poller, Abandon(p) PROVE DeliveryInv' /\ Final
  <2>1. deployments' = deployments BY <1>4 DEF Abandon, observed
  <2> QED BY <1>1, <1>4, <2>1, AbandonKeeps, CollectedFinal
<1>5. ASSUME NEW p \in Poller, TakeTime(p) PROVE DeliveryInv' /\ Final
  <2>1. deployments' = deployments BY <1>5 DEF TakeTime, observed
  <2> QED BY <1>1, <1>5, <2>1, TakeTimeKeeps, CollectedFinal
<1>6. ASSUME NEW p \in Poller, NEW metrics \in BOOLEAN, NEW hidden \in SUBSET NeedsMetrics,
             Collect(p, metrics, hidden)
      PROVE  DeliveryInv' /\ Final
  <2>1. deployments' = deployments BY <1>6 DEF Collect, observed
  <2> QED BY <1>1, <1>6, <2>1, CollectKeeps, CollectedFinal
<1> QED BY Zenon, <1>2, <1>3, <1>4, <1>5, <1>6 DEF Collectors

LEMMA CommitsKeep == ASSUME DeliveryInv, Commit PROVE DeliveryInv' /\ Final
<1>1. late' = late \cup BlamedAnew /\ late \subseteq late' BY DEF Commit
<1>2. CASE CommitWorkloads
  <2>1. PICK d : deployments' = deployments \/ deployments' = Append(deployments, d)
        BY Zenon, <1>2 DEF CommitWorkloads
  <2>2. deployments \in Seq(Deployment) BY DEF DeliveryInv, Chained, DeploymentsChain
  <2>3. \A n \in Rows : deployments'[n] = deployments[n] BY <2>1, <2>2 DEF Rows
  <2> QED BY <1>1, <1>2, <2>3, WorkloadsKeep, CollectedFinal
<1>3. CASE CommitPods
  <2>1. deployments' = deployments BY <1>3 DEF CommitPods, observed
  <2> QED BY <1>1, <1>3, <2>1, PodsKeep, CollectedFinal
<1>4. CASE CommitErrors
  <2>1. deployments' = deployments BY <1>4 DEF CommitErrors, observed
  <2> QED BY <1>1, <1>4, <2>1, ErrorsKeep, CollectedFinal
<1> QED BY <1>2, <1>3, <1>4 DEF Commit

\* Every step keeps the invariant, and leaves what was decided.
LEMMA NextKeeps == ASSUME DeliveryInv, [Next]_vars PROVE DeliveryInv' /\ Final
<1>1. CASE UNCHANGED vars
  <2>1. UNCHANGED <<clock, cluster, snapshot, events, deployments, problems, poll, ran,
                    announced, changes, late>>
        BY <1>1 DEF vars, cvars, observed
  <2>2. Typed' BY <2>1 DEF DeliveryInv, Typed, TypeOK
  <2>3. clock' >= clock BY <2>1, TypedIs DEF DeliveryInv
  <2>4. \A p \in Poller : PollStep(p) BY <2>1 DEF PollStep
  <2> QED BY <2>1, <2>2, <2>3, <2>4, UnwrittenKeeps, CollectedFinal
<1>2. CASE Collectors BY <1>2, CollectorsKeep
<1>3. CASE Commit BY <1>3, CommitsKeep
<1>4. CASE PollDelivery BY <1>4, LinksKeep, JudgeKeeps, RecoverKeeps DEF PollDelivery
<1> QED BY <1>1, <1>2, <1>3, <1>4 DEF Next, Wait

\* The invariant holds in every state.
THEOREM DeliveryInvariant == Spec => []DeliveryInv
<1>1. DeliveryInv /\ [Next]_vars => DeliveryInv' BY NextKeeps
<1> QED BY <1>1, InitDelivery, PTL DEF Spec

\* Types are kept.
THEOREM DeliveryTypes == Spec => []TypeOK
<1>1. DeliveryInv => TypeOK BY DEF DeliveryInv, Typed
<1> QED BY <1>1, DeliveryInvariant, PTL

\* No deployment is missed and none is made up (pollWorkloadsFor), whatever
\* passes fail in between.
THEOREM NoDeploymentIsMissed == Spec => []DeploymentsChain
<1>1. DeliveryInv => DeploymentsChain BY DEF DeliveryInv, Chained
<1> QED BY <1>1, DeliveryInvariant, PTL

\* No pass opens a problem of a kind that an earlier pass left open
\* (pollPodMetricsFor and reconcileServiceProblems).
THEOREM NoPassOpensTwice == Spec => []OpensNothingTwice
<1>1. DeliveryInv => OpensNothingTwice BY DEF DeliveryInv, ProblemsNamed
<1> QED BY <1>1, DeliveryInvariant, PTL

\* What people were notified of is on record.
THEOREM NotificationsAreRecorded == Spec => []AnnouncedIsRecorded
<1>1. DeliveryInv => AnnouncedIsRecorded BY DEF DeliveryInv
<1> QED BY <1>1, DeliveryInvariant, PTL

\* A deployment is judged once, the verdict and its times stay, and it is what
\* the rows of the window say (evaluateDeployment), whichever pass is under way when
\* others write: a pass that had taken the time in the window before the verdict, and
\* blame that a problem gets later, are all that can part the two.
THEOREM VerdictsStand == Spec => VerdictStands
<1>1. DeliveryInv /\ [Next]_vars => WhatTheRowsSay' /\ Final
      BY NextKeeps DEF DeliveryInv
<1> QED BY <1>1, DeliveryInvariant, PTL DEF Spec, VerdictStands

\* How a row of a pod's problem goes.
ReadAsGone(p) ==
    \/ ~StillThere(p)
    \/ p.kind \in poll["pods"].hidden /\ (poll["pods"].metrics \/ p.kind \notin MetricsDerived)

LEMMA GoneIsRead ==
    ASSUME DeliveryInv, [Next]_vars,
           NEW p \in problems, p.kind \in PodKind, IsOpen(p), p \notin problems'
    PROVE  ReadAsGone(p)
<1>1. Typed /\ ProblemsNamed BY DEF DeliveryInv
<1>2. problems' # problems OBVIOUS
<1>3. CASE CommitPods
  <2> DEFINE o == poll["pods"]
             found == detectPodProblems(o.saw, o.hidden)
             keep == CannotTell(o.saw, o.metrics)
  <2>1. o.busy /\ Reconciles(PodKind, found, keep, "none", o.at)
        BY <1>3 DEF CommitPods, Writes
  <2>2. KindsOf(found) \subseteq PodKind BY <1>1, <2>1, PodsFound DEF KindsOf
  <2> HIDE DEF o, found, keep
  <2>3. PICK q \in problems' : Becomes(p, q, PodKind, found, keep, "none", o.at)
        BY <2>1, <2>2, ReconciledIs
  <2>4. [p EXCEPT !.cause = "none"] = p
    <3>1. p.cause = "none" /\ p \in Problem BY <1>1, TypedIs DEF ProblemsNamed
    <3> QED BY <3>1 DEF Problem
  <2>5. p.kind \notin KindsOf(found) \cup keep BY <2>3, <2>4 DEF Becomes
  <2>6. StillThere(p) => p.kind \in o.hidden
        BY <2>5 DEF StillThere, KindsOf, detectPodProblems, found, o
  <2>7. StillThere(p) /\ ~o.metrics => p.kind \notin MetricsDerived
        BY <2>5 DEF StillThere, CannotTell, keep, o
  <2> QED BY <2>6, <2>7 DEF ReadAsGone, o
<1>4. CASE CommitErrors
  <2> DEFINE o == poll["errors"]
             found == evaluateWindows(o.saw)
             cause == attributeCause(o.saw)
  <2>1. Reconciles(ServiceKind, found, {}, cause, o.at) BY <1>4 DEF CommitErrors
  <2>2. KindsOf(found) \subseteq ServiceKind BY DEF KindsOf, evaluateWindows, ServiceKind
  <2> HIDE DEF o, found, cause
  <2>3. PICK q \in problems' : Becomes(p, q, ServiceKind, found, {}, cause, o.at)
        BY <2>1, <2>2, ReconciledIs
  <2>4. p.kind \notin ServiceKind BY CollectorsAssumption
  <2> QED BY <2>3, <2>4 DEF Becomes
<1>5. ~CommitPods /\ ~CommitErrors => problems' = problems
  <2>1. CASE UNCHANGED vars BY <2>1 DEF vars, cvars
  <2>2. CASE Collectors
        BY Zenon, <2>2 DEF Collectors, Tick, ClusterChanges, Changes, Rollout, Scale, ReadyChanges,
              PodChanges, SightChanges, Abandon, Collect, TakeTime
  <2>3. CASE CommitWorkloads BY <2>3 DEF CommitWorkloads
  <2>4. CASE PollDelivery
        BY Zenon, <2>4 DEF PollDelivery, resolveDeploymentLinks, evaluateDeployment, Recover
  <2> QED BY <2>1, <2>2, <2>3, <2>4 DEF Next, Wait, Commit
<1> QED BY <1>2, <1>3, <1>4, <1>5

\* A problem of a live pod that a pass did not see gone is closed only if its kind is one
\* that metricsDerived leaves out, or some of the metrics were there (pollPodMetricsFor).
THEOREM ClosesAsRead == Spec => ClosedAsRead
<1>1. DeliveryInv /\ [Next]_vars =>
         \A p \in problems : p.kind \in PodKind /\ IsOpen(p) /\ p \notin problems' =>
            \/ ~StillThere(p)
            \/ /\ p.kind \in poll["pods"].hidden
               /\ poll["pods"].metrics \/ p.kind \notin MetricsDerived
      BY GoneIsRead DEF ReadAsGone
<1> QED BY <1>1, DeliveryInvariant, PTL DEF Spec, ClosedAsRead
=============================================================================
