------------------------------ MODULE Delivery ------------------------------
(***************************************************************************)
(* How a deployment is judged: backend/handlers/delivery.go.  PollDelivery *)
(* looks for the commit behind each image, settles the deployments whose   *)
(* failure window is over, and waits for the failed ones to recover.  All  *)
(* it knows is what the collectors recorded, which go on recording.        *)
(*                                                                         *)
(* Each statement about a deployment is a step; the queries that lead to   *)
(* it are part of the step.  The rows they read are those of pollers that  *)
(* know nothing of each other, so that any order of their transactions and *)
(* of the queries gives what some order of whole steps gives.  Rows are    *)
(* not removed by age here.                                                *)
(***************************************************************************)
EXTENDS Collectors

CONSTANTS
    Parts,        \* Parts[i]: the parts of the tag of image i, in order
    Connected,    \* the images whose name is that of a connected repository
    Commits,      \* the hashes in the recent history of the repository
    Window,       \* DORA_FAILURE_WINDOW
    GiveUp,       \* linkGiveUpAfter
    LinkBatch     \* deploymentLinkBatch

\* A part of a tag, after a leading "sha" is cut off.
Part == [text : STRING, len : Nat, hex : BOOLEAN, letter : BOOLEAN]

ASSUME DeliveryAssumption ==
    /\ DOMAIN Parts = Images /\ \A i \in Images : Parts[i] \in Seq(Part)
    /\ Connected \subseteq Images
    /\ Window \in Nat /\ GiveUp \in Nat /\ LinkBatch \in Nat \ {0}

VARIABLES
    late   \* history: deployments whose verdict may be without a row of their
           \* window, or from before one of it was blamed anew

vars == <<cvars, late>>

Deployment == [at : 1..MaxTime, image : Images, prev : Images,
               link : {"pending", "linked", "unlinked"},
               outcome : {"pending", "ok", "failed"}, failed : 0..MaxTime,
               recovered : 0..MaxTime, rollback : BOOLEAN, dependency : BOOLEAN]

Rows == DOMAIN deployments

-----------------------------------------------------------------------------
(* The commit behind an image.                                             *)

\* commitSHAFromImage: the longest part of the tag that looks like a hash,
\* the first of them; digits alone are a build number.  "" if there is none.
LooksLikeHash(part) == part.len \in 7..40 /\ part.hex /\ part.letter

commitSHAFromImage(image) ==
    LET hashes == SelectSeq(Parts[image], LooksLikeHash)
        best == {n \in DOMAIN hashes : \A m \in DOMAIN hashes :
                    \/ hashes[m].len < hashes[n].len
                    \/ hashes[m].len = hashes[n].len /\ n <= m}
    IN  IF best = {} THEN "" ELSE hashes[CHOOSE n \in best : TRUE].text

\* A lookup that needs no call to the hosting service.
HasNoCommit(d) == commitSHAFromImage(d.image) = "" \/ d.image \notin Connected

\* Keeps asking for ever: a mutation of LinkOf.
LinkOfEver(d, answers) ==
    CASE HasNoCommit(d) -> "unlinked"
      [] ~HasNoCommit(d) /\ answers ->
            IF commitSHAFromImage(d.image) \in Commits THEN "linked" ELSE "unlinked"
      [] OTHER -> "pending"

\* What one lookup makes of the link.  An answer is final.  If the service
\* does not answer the row stays pending, until it is too old to be retried.
LinkOf(d, answers) ==
    CASE HasNoCommit(d) -> "unlinked"
      [] ~HasNoCommit(d) /\ answers ->
            IF commitSHAFromImage(d.image) \in Commits THEN "linked" ELSE "unlinked"
      [] ~HasNoCommit(d) /\ ~answers /\ clock - d.at > GiveUp -> "unlinked"
      [] OTHER -> "pending"

PendingLinks == {n \in Rows : deployments[n].link = "pending"}

\* The oldest of the pending ones, as many as one pass takes.
LinkQueue == {n \in PendingLinks : Cardinality({m \in PendingLinks : m < n}) < LinkBatch}

\* resolveDeploymentLinks: one call answers for the whole repository.
resolveDeploymentLinks(answers) ==
    /\ LinkQueue # {}
    /\ deployments' = [n \in Rows |->
          IF n \in LinkQueue
          THEN [deployments[n] EXCEPT !.link = LinkOf(deployments[n], answers)]
          ELSE deployments[n]]
    /\ UNCHANGED <<clock, cluster, snapshot, events, problems, poll, ran, announced,
                   changes, late>>

-----------------------------------------------------------------------------
(* The verdict.                                                            *)

Earliest(times) == CHOOSE t \in times : \A u \in times : t <= u

InWindow(d, t) == d.at <= t /\ t <= d.at + Window
AfterIn(d, t) == d.at < t /\ t <= d.at + Window

\* The deployments that put the previous image back within the window.
PutBack(d) == {n \in Rows : AfterIn(d, deployments[n].at) /\ deployments[n].image = d.prev}

ServiceFaults(d) == {p.opened : p \in {q \in problems : /\ q.kind \in ServiceKind
                                                        /\ q.cause # "dependency"
                                                        /\ InWindow(d, q.opened)}}
PodFaults(d) == {p.opened : p \in {q \in problems : q.kind \in PodKind /\ InWindow(d, q.opened)}}
Degraded(d) == {e.at : e \in {f \in events : f.status = "degraded" /\ AfterIn(d, f.at)}}
DependencySeen(d) == \E p \in problems : p.cause = "dependency" /\ InWindow(d, p.opened)

Failed(d, at) == [d EXCEPT !.outcome = "failed", !.failed = at]

\* Leaves open what a third party may have caused: a mutation of Verdict.
VerdictUndecided(d) ==
    CASE PutBack(d) # {} ->
            [Failed(d, d.at) EXCEPT !.recovered = deployments[Earliest(PutBack(d))].at]
      [] PutBack(d) = {} /\ DependencySeen(d) -> d
      [] PutBack(d) = {} /\ ~DependencySeen(d) /\ PodFaults(d) # {} ->
            Failed(d, Earliest(PodFaults(d)))
      [] OTHER -> [d EXCEPT !.outcome = "ok"]

\* evaluateDeployment: a rollback is the strongest evidence, then a problem of
\* the service that is not a dependency's, then a problem of the pod, then a
\* workload without ready replicas.
Verdict(d) ==
    CASE PutBack(d) # {} ->
            [Failed(d, d.at) EXCEPT !.recovered = deployments[Earliest(PutBack(d))].at]
      [] PutBack(d) = {} /\ ServiceFaults(d) # {} -> Failed(d, Earliest(ServiceFaults(d)))
      [] PutBack(d) = {} /\ ServiceFaults(d) = {} /\ PodFaults(d) # {} ->
            Failed(d, Earliest(PodFaults(d)))
      [] PutBack(d) = {} /\ ServiceFaults(d) \cup PodFaults(d) = {} /\ Degraded(d) # {} ->
            Failed(d, Earliest(Degraded(d)))
      [] OTHER -> [d EXCEPT !.outcome = "ok"]

\* Judges as soon as it can: a mutation of Due.
DueAtOnce(d) == d.outcome = "pending"

\* The window is over.  Two steps of one tick have different times, so it is
\* over when the tick of its end is.
Due(d) == d.outcome = "pending" /\ d.at + Window < clock

\* A pass took the time in the window, and has not written its rows.
UnderWay(d) == \E p \in Poller : poll[p].busy /\ InWindow(d, poll[p].at)

\* evaluateDeployment stores the verdict and marks the deployment that put the
\* previous image back.
evaluateDeployment(n) ==
    LET d == deployments[n]
        v == [Verdict(d) EXCEPT !.dependency = DependencySeen(d)]
    IN  /\ Due(d)
        /\ deployments' = [m \in Rows |->
              IF m = n THEN v
              ELSE IF PutBack(d) # {} /\ m = Earliest(PutBack(d))
                   THEN [deployments[m] EXCEPT !.rollback = TRUE]
                   ELSE deployments[m]]
        /\ late' = IF UnderWay(d) THEN late \cup {n} ELSE late
        /\ UNCHANGED <<clock, cluster, snapshot, events, problems, poll, ran, announced,
                       changes>>

\* findRecovery: a problem of the workload closed, whichever it was, or the
\* workload became healthy again.
Recoveries(d) ==
    {p.closed : p \in {q \in problems : ~IsOpen(q) /\ q.closed >= d.failed}}
    \cup {e.at : e \in {f \in events : f.status = "healthy" /\ f.at >= d.failed}}

\* A failed deployment recovers, at once or in a later pass.
Recover(n) ==
    LET d == deployments[n]
    IN  /\ d.outcome = "failed" /\ d.recovered = 0 /\ Recoveries(d) # {}
        /\ deployments' = [deployments EXCEPT ![n].recovered = Earliest(Recoveries(d))]
        /\ UNCHANGED <<clock, cluster, snapshot, events, problems, poll, ran, announced,
                       changes, late>>

-----------------------------------------------------------------------------
(* The errors poller gives an open problem the cause of its latest pass.  A *)
(* verdict that was due when this happened may have been given before, or   *)
(* between two of its queries.                                              *)

BlamedAnew ==
    {n \in Rows : /\ deployments[n].at + Window < clock
                  /\ \E p \in problems, q \in problems' :
                        /\ <<p.kind, p.part, p.opened>> = <<q.kind, q.part, q.opened>>
                        /\ p.cause # q.cause /\ InWindow(deployments[n], p.opened)}

Commit ==
    /\ CommitWorkloads \/ CommitPods \/ CommitErrors
    /\ late' = late \cup BlamedAnew

Init == CInit /\ late = {}

\* The process waits for its tickers.
Wait == clock = MaxTime /\ UNCHANGED vars

Collectors ==
    /\ \/ Tick \/ ClusterChanges
       \/ \E p \in Poller :
            \/ Abandon(p) \/ TakeTime(p)
            \/ \E metrics \in BOOLEAN, hidden \in SUBSET NeedsMetrics : Collect(p, metrics, hidden)
    /\ late' = late

PollDelivery ==
    \/ \E answers \in BOOLEAN : resolveDeploymentLinks(answers)
    \/ \E n \in Rows : evaluateDeployment(n) \/ Recover(n)

Next == Wait \/ Collectors \/ Commit \/ PollDelivery

Spec == Init /\ [][Next]_vars

\* PollDelivery runs again and again; that the hosting service ever answers is
\* not assumed.
Fairness ==
    /\ WF_vars(resolveDeploymentLinks(FALSE))
    /\ WF_vars(\E n \in Rows : evaluateDeployment(n))

-----------------------------------------------------------------------------
(* Properties.                                                             *)

\* No deployment is missed and none is made up: each row starts from the image
\* that the one before it left, whatever passes failed in between.
DeploymentsChain ==
    /\ deployments \in Seq(Deployment)
    /\ \A n \in Rows : /\ deployments[n].image # deployments[n].prev
                       /\ n > 1 => /\ deployments[n].prev = deployments[n - 1].image
                                   /\ deployments[n].at > deployments[n - 1].at
    /\ deployments # <<>> => Last(deployments).image = snapshot.image

\* pods.go:841, of the detected problems: "a problem opens once, accumulates while it
\* persists and closes when it clears"; and the same of those of a service
\* (apperrors.go:1100).  The code does not keep this: two containers that fail in one way,
\* or two workloads of one name, open two rows of one kind.  What it does keep: no pass
\* opens a problem of a kind that an earlier pass opened and none has closed, however
\* passes fail and whatever they miss.
OpensNothingTwice ==
    \A p, q \in problems : p.kind = q.kind /\ IsOpen(p) =>
        p.opened >= q.opened /\ (IsOpen(q) => p.opened = q.opened)

\* "A notification never describes a transition the database does not record"
\* (workloads.go), and "announcing it would page someone about a row nobody can
\* look up" (pods.go).
AnnouncedIsRecorded ==
    \A a \in announced :
        \/ \E p \in problems : a = <<p.kind, p.opened>>
        \/ a[1] = "degraded" /\ [status |-> "degraded", at |-> a[2]] \in events

\* A problem of a live pod whose kind the pass did not see gone.
StillThere(p) == LET saw == poll["pods"].saw IN saw.alive /\ p.kind \in KindsOf(saw.bad)

\* pods.go:107, metricsDerived "marks the problem kinds that can only be observed while
\* metrics-server is answering, so they are not closed on a failed scrape".  The code does
\* not keep this: no_limits is such a kind and is not listed, and if only some metrics are
\* missing the listed kinds are closed too.  What it does keep: a problem that the reading
\* hid is closed unseen only if there were metrics, of which some were missing, or if its
\* kind is not listed; and no other is.
ClosedAsRead ==
    [][\A p \in problems : p.kind \in PodKind /\ IsOpen(p) /\ p \notin problems' =>
          \/ ~StillThere(p)
          \/ /\ p.kind \in poll["pods"].hidden
             /\ poll["pods"].metrics \/ p.kind \notin MetricsDerived]_vars

\* A verdict, once given, is what the rows of the window say: "ok" if nothing in it was
\* the workload's own, "failed" on an own fault, and the problems of others are
\* on record.  Nothing that is written later belongs into a window that was
\* judged, but for the rows of a pass that had taken the time in the window and was still
\* under way when it was judged, and for a problem that the errors poller blames on
\* another when the window is over.
WhatTheRowsSay ==
    \A n \in Rows \ late : LET d == deployments[n] IN
        d.outcome # "pending" =>
            /\ d.outcome = "failed" <=>
                 PutBack(d) # {} \/ ServiceFaults(d) \cup PodFaults(d) \cup Degraded(d) # {}
            /\ d.dependency <=> DependencySeen(d)

\* A verdict stays, and so do the times of the failure and of the recovery,
\* which are in order.
Final ==
    \A n \in Rows : LET d == deployments[n]  e == deployments'[n] IN
        /\ d.outcome # "pending" => e.outcome = d.outcome /\ e.failed = d.failed
        /\ d.recovered # 0 => e.recovered = d.recovered
        /\ e.recovered # 0 => /\ e.outcome = "failed" /\ e.at <= e.failed
                              /\ e.failed <= e.recovered
        /\ d.link # "pending" => e.link = d.link

\* A deployment is judged once, by what is on record, and nothing recorded
\* later contradicts the verdict: both of the above.
VerdictStands == [][WhatTheRowsSay' /\ Final]_vars

\* Every deployment whose window ends is judged: again and again none is due.
EveryDeploymentIsJudged == []<>(\A n \in Rows : ~Due(deployments[n]))

\* No link stays pending once it is too old to be retried, though the lookups
\* of a pass are capped, the older rows come first, and the hosting service
\* may never answer.
EveryLinkIsDecided == []<>(\A n \in PendingLinks : clock - deployments[n].at <= GiveUp)
=============================================================================
