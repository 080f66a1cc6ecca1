----------------------------- MODULE Collectors -----------------------------
(***************************************************************************)
(* What the background collectors record of one workload of one cluster:   *)
(* pollWorkloadsFor (backend/handlers/workloads.go), pollPodMetricsFor     *)
(* (pods.go) and pollAppErrorsFor (apperrors.go).  Each runs in a          *)
(* goroutine of its own.  A pass reads the cluster, takes the time, with   *)
(* which it dates all its rows, and then writes them in one transaction;   *)
(* the errors poller takes the time first.  The clock and the other        *)
(* pollers go on between any two of these steps.                           *)
(*                                                                         *)
(* The workload has one pod, whose name outlives a restart, and namesakes  *)
(* of another kind in its namespace, whose problems share a key with its   *)
(* own.  Time is in ticks; a tick is shorter than the interval of a poller,*)
(* so a poller takes the time for one pass only in it, and a row is named  *)
(* by its kind, what it was opened for, and when.                          *)
(***************************************************************************)
EXTENDS Integers, Sequences, FiniteSets, SequencesExt

CONSTANTS
    Images,          \* images the workload may run
    Replicas,        \* numbers of replicas it may be scaled to
    Conditions,      \* what may be wrong with the pod: of which kind, and of which part
                     \* of it, a container or all of it
    NeedsMetrics,    \* the kinds that show only if there are metrics
    MetricsDerived,  \* of these, the ones listed in metricsDerived
    Info,            \* the kinds of severity info
    Namesakes,       \* the kinds of the workloads that have the name
    Sights,          \* what logs and traffic may show of the workload
    FirstClusters,   \* what the pollers may find at the start
    MaxTime,         \* bound: the clock
    MaxChange        \* bound: changes of the cluster, and passes that fail

Poller == {"workloads", "pods", "errors"}
KindsOf(found) == {f.kind : f \in found}
PodKind == KindsOf(Conditions)
ServiceKind == {"http_5xx", "error_logs", "dependency_failure"}
Cause == {"dependency", "self", "unknown"}
Status == {"scaled_zero", "healthy", "degraded", "progressing"}

\* What evaluateWindows and attributeCause can tell apart.  Of each workload that has
\* the name, http: enough requests and enough of them failed; noisy: enough error lines in
\* the logs; callers: its calls were seen by the traffic layer.  Of all that have it, as
\* these queries go by the name, calls: how the calls went; blamed: the logs name a host
\* that could not be reached.
Sight == [http : SUBSET Namesakes, noisy : SUBSET Namesakes, callers : SUBSET Namesakes,
          calls : {"unseen", "fine", "few", "many"}, blamed : BOOLEAN]

ASSUME CollectorsAssumption ==
    /\ Images # {} /\ Replicas \subseteq Nat /\ 1 \in Replicas
    /\ Conditions \subseteq [kind : STRING, part : STRING] /\ Namesakes \subseteq STRING
    /\ MetricsDerived \subseteq NeedsMetrics /\ Info \subseteq NeedsMetrics
    /\ NeedsMetrics \subseteq PodKind /\ PodKind \cap ServiceKind = {}
    /\ Sights \subseteq Sight
    /\ MaxTime \in Nat \ {0} /\ MaxChange \in Nat

VARIABLES
    clock,        \* the time
    cluster,      \* cluster[p]: what the poller p would see
    snapshot,     \* the newest WorkloadSnapshot
    events,       \* the status_change rows of WorkloadEvent
    deployments,  \* the Deployment rows, in the order of deployed_at
    problems,     \* the rows of PodProblem and of ServiceProblem
    poll,         \* poll[p]: what the pass of p has read, and when
    ran,          \* the pollers that began a pass or took the time in this tick
    announced,    \* what people were notified of
    changes       \* how much of MaxChange has been used

observed == <<snapshot, events, deployments>>
cvars == <<clock, cluster, observed, problems, poll, ran, announced, changes>>

Workload == [image : Images, desired : Replicas, ready : Nat]
Pod == [alive : BOOLEAN, bad : SUBSET Conditions]
Event == [status : Status, at : 1..MaxTime]
\* A row keeps what it was opened for: its detail, or the kind of the workload.
Problem == [kind : PodKind \cup ServiceKind, part : STRING, opened : 1..MaxTime,
            closed : 0..MaxTime, cause : Cause \cup {"none"}]
NoSnapshot == [image |-> "none", status |-> "none"]
Resting == [busy |-> FALSE]

\* What there is to see.
Seen == [workloads |-> Workload, pods |-> Pod, errors |-> Sights]
Clusters == [workloads : Workload, pods : Pod, errors : Sights]
ASSUME ClustersAssumption == FirstClusters \subseteq Clusters

-----------------------------------------------------------------------------
\* deriveStatus.  A workload that is scaled to zero is off, not down.
deriveStatus(desired, ready) ==
    CASE desired = 0 -> "scaled_zero"
      [] desired # 0 /\ ready = desired -> "healthy"
      [] desired # 0 /\ ready = 0 -> "degraded"
      [] OTHER -> "progressing"

\* detectPodProblems: one for each container that is in trouble, and with metrics what
\* the pod makes of its resources.  Metrics may be there and not those of this pod, or
\* not the throttling of its node: that hides some of the kinds.
detectPodProblems(s, hidden) ==
    IF s.alive THEN {c \in s.bad : c.kind \notin hidden} ELSE {}

\* attributeCause: what the traffic layer saw fail comes first, what the logs
\* name second (causeFromLogs), and "self" needs traffic that was seen and fine.
attributeCause(sight) ==
    CASE sight.calls \in {"few", "many"} -> "dependency"
      [] sight.calls \notin {"few", "many"} /\ sight.blamed -> "dependency"
      [] sight.calls = "fine" /\ ~sight.blamed -> "self"
      [] OTHER -> "unknown"

\* evaluateWindows: the problems reported, each of a workload that has the name.
evaluateWindows(sight) ==
    [kind : {"http_5xx"}, part : sight.http] \cup [kind : {"error_logs"}, part : sight.noisy]
    \cup [kind : {"dependency_failure"}, part : IF sight.calls = "many" THEN sight.callers ELSE {}]

IsOpen(p) == p.closed = 0
Opened(f, cause, now) ==
    [kind |-> f.kind, part |-> f.part, opened |-> now, closed |-> 0, cause |-> cause]

\* Opens what is open already: a mutation of Reconciles.
ReconcilesBlind(kinds, found, keep, cause, now) ==
    LET closing == {p \in problems : /\ p.kind \in kinds /\ IsOpen(p)
                                     /\ p.kind \notin KindsOf(found) \cup keep}
    IN  problems' = (problems \ closing)
            \cup {[p EXCEPT !.closed = now] : p \in closing}
            \cup {Opened(f, cause, now) : f \in found}

\* What a pass makes of the problems of some kinds, in one transaction.  It knows one open
\* row of each kind, whichever the query gave last.  If the kind is found again that row
\* takes the cause of this pass, and if not it is closed, but for the kinds in keep, of
\* which the pass could not tell.  All that is found of a kind of which no row was open
\* when the pass looked is opened.
Reconciles(kinds, found, keep, cause, now) ==
    LET mine == {p \in problems : p.kind \in kinds /\ IsOpen(p)}
        held == KindsOf(mine)
    IN  \E openByKey \in [held -> mine] :
            /\ \A k \in held : openByKey[k].kind = k
            /\ LET touched == {openByKey[k] : k \in held \cap KindsOf(found)}
                   closing == {openByKey[k] : k \in held \ (KindsOf(found) \cup keep)}
               IN  problems' = (problems \ (touched \cup closing))
                       \cup {[p EXCEPT !.cause = cause] : p \in touched}
                       \cup {[p EXCEPT !.closed = now] : p \in closing}
                       \cup {Opened(f, cause, now) : f \in {g \in found : g.kind \notin held}}

\* The kinds of the problems that a pass opens.
Opening(found) == KindsOf(found) \ KindsOf({p \in problems : IsOpen(p)})

-----------------------------------------------------------------------------
TypeOK ==
    /\ clock \in 1..MaxTime /\ changes \in 0..MaxChange
    /\ cluster \in Clusters
    /\ snapshot \in [image : Images, status : Status] \cup {NoSnapshot}
    /\ events \subseteq Event /\ problems \subseteq Problem
    /\ \A p \in Poller : poll[p] = Resting \/ poll[p] \in
          [busy : {TRUE}, saw : Seen[p], metrics : BOOLEAN, hidden : SUBSET NeedsMetrics,
           at : 0..clock]
    /\ DOMAIN poll = Poller /\ ran \subseteq Poller
    /\ announced \subseteq ((PodKind \cup ServiceKind \cup {"degraded"}) \X (1..MaxTime))

\* A new database, or one in which the workload was well when last seen.
CInit ==
    /\ clock = 1 /\ changes = 0
    /\ cluster \in FirstClusters
    /\ snapshot \in {NoSnapshot, [image |-> cluster.workloads.image, status |-> "healthy"]}
    /\ events = {} /\ deployments = <<>> /\ problems = {}
    /\ poll = [p \in Poller |-> Resting] /\ ran = {}
    /\ announced = {}

-----------------------------------------------------------------------------
(* The cluster changes, one thing at a time.                               *)

Tick ==
    /\ clock < MaxTime /\ clock' = clock + 1 /\ ran' = {}
    /\ UNCHANGED <<cluster, observed, problems, poll, announced, changes>>

Changes(p, state) ==
    /\ changes < MaxChange /\ changes' = changes + 1
    /\ cluster' = [cluster EXCEPT ![p] = state] /\ cluster' # cluster
    /\ UNCHANGED <<clock, observed, problems, poll, ran, announced>>

Rollout(i) == Changes("workloads", [cluster.workloads EXCEPT !.image = i])

Scale(n) == Changes("workloads", [cluster.workloads EXCEPT !.desired = n,
                                                           !.ready = IF n < @ THEN n ELSE @])

ReadyChanges(n) ==
    n <= cluster.workloads.desired /\ Changes("workloads", [cluster.workloads EXCEPT !.ready = n])

PodChanges(alive, bad) == Changes("pods", [alive |-> alive, bad |-> bad])

SightChanges(s) == Changes("errors", s)

ClusterChanges ==
    \/ \E i \in Images : Rollout(i)
    \/ \E n \in Replicas : Scale(n) \/ ReadyChanges(n) \/ ReadyChanges(0)
    \/ \E c \in Conditions : \/ PodChanges(TRUE, cluster.pods.bad \cup {c})
                            \/ PodChanges(TRUE, cluster.pods.bad \ {c})
    \/ PodChanges(FALSE, {})
    \/ \E s \in Sights : SightChanges(s)

-----------------------------------------------------------------------------
(* The pollers.                                                            *)

\* A pass reads the cluster.  There may be no metrics at all, or some missing.  The errors
\* poller takes the time here, before it reads the logs.
Collect(p, metrics, hidden) ==
    /\ ~poll[p].busy /\ p \notin ran
    /\ IF p = "pods" /\ metrics THEN hidden \subseteq MetricsDerived
       ELSE IF p = "pods" THEN hidden = NeedsMetrics
       ELSE metrics /\ hidden = {}
    /\ poll' = [poll EXCEPT ![p] = [busy |-> TRUE, saw |-> cluster[p], metrics |-> metrics,
                                    hidden |-> hidden, at |-> IF p = "errors" THEN clock ELSE 0]]
    /\ ran' = ran \cup {p}
    /\ UNCHANGED <<clock, cluster, observed, problems, announced, changes>>

\* The time with which it dates its rows, taken when it has read the cluster.
TakeTime(p) ==
    /\ poll[p].busy /\ poll[p].at = 0
    /\ poll' = [poll EXCEPT ![p].at = clock]
    /\ ran' = ran \cup {p}
    /\ UNCHANGED <<clock, cluster, observed, problems, announced, changes>>

\* Announces what it is about to write: a mutation of Abandon.
AbandonAnnounced(p) ==
    /\ poll[p].busy /\ changes < MaxChange /\ changes' = changes + 1
    /\ poll' = [poll EXCEPT ![p] = Resting]
    /\ announced' = announced \cup
          {<<k, poll[p].at>> : k \in IF p = "pods" /\ poll[p].at # 0
                                THEN Opening(detectPodProblems(poll[p].saw, poll[p].hidden))
                                ELSE {}}
    /\ UNCHANGED <<clock, cluster, observed, problems, ran>>

\* The cluster does not answer, the transaction fails or the process ends:
\* nothing is written and nothing announced.
Abandon(p) ==
    /\ poll[p].busy /\ changes < MaxChange /\ changes' = changes + 1
    /\ poll' = [poll EXCEPT ![p] = Resting]
    /\ UNCHANGED <<clock, cluster, observed, problems, ran, announced>>

\* The pass has read and taken the time, and writes.
Writes(p) ==
    /\ poll[p].busy /\ poll[p].at # 0
    /\ poll' = [poll EXCEPT ![p] = Resting]
    /\ UNCHANGED <<clock, cluster, ran, changes>>

\* A deployment as it is first written.
Deployed(now, image, prev) ==
    [at |-> now, image |-> image, prev |-> prev, link |-> "pending", outcome |-> "pending",
     failed |-> 0, recovered |-> 0, rollback |-> FALSE, dependency |-> FALSE]

\* Compares with the sample of the last change of status: a mutation of
\* CommitWorkloads.
CommitWorkloadsTurned ==
    LET o == poll["workloads"]
        new == [image |-> o.saw.image, status |-> deriveStatus(o.saw.desired, o.saw.ready)]
    IN  /\ Writes("workloads")
        /\ snapshot' = IF snapshot = NoSnapshot \/ snapshot.status # new.status THEN new
                       ELSE snapshot
        /\ deployments' =
              IF snapshot = NoSnapshot \/ snapshot.image = new.image THEN deployments
              ELSE Append(deployments, Deployed(o.at, new.image, snapshot.image))
        /\ UNCHANGED <<events, problems, announced>>

\* pollWorkloadsFor.  The difference to the newest sample makes the events and
\* the deployment.  The first sample of a workload makes neither.
CommitWorkloads ==
    LET o == poll["workloads"]
        new == [image |-> o.saw.image, status |-> deriveStatus(o.saw.desired, o.saw.ready)]
        turned == snapshot # NoSnapshot /\ snapshot.status # new.status
    IN  /\ Writes("workloads")
        /\ snapshot' = new
        /\ events' = events \cup (IF turned THEN {[status |-> new.status, at |-> o.at]}
                                  ELSE {})
        /\ deployments' =
              IF snapshot = NoSnapshot \/ snapshot.image = new.image THEN deployments
              ELSE Append(deployments, Deployed(o.at, new.image, snapshot.image))
        /\ announced' = announced \cup
              (IF turned /\ new.status = "degraded" THEN {<<"degraded", o.at>>} ELSE {})
        /\ UNCHANGED problems

\* Closes what the missing metrics hid: a mutation of CannotTell.
CanAlwaysTell(saw, metrics) == {}

\* A problem of a pod that is gone always closes.  Of a live one those kinds stay
\* open that are listed, if there were no metrics at all.
CannotTell(saw, metrics) == IF saw.alive /\ ~metrics THEN MetricsDerived ELSE {}

\* pollPodMetricsFor.
CommitPods ==
    LET o == poll["pods"]
        found == detectPodProblems(o.saw, o.hidden)
    IN  /\ Writes("pods")
        /\ Reconciles(PodKind, found, CannotTell(o.saw, o.metrics), "none", o.at)
        /\ announced' = announced \cup {<<k, o.at>> : k \in Opening(found) \ Info}
        /\ UNCHANGED observed

\* reconcileServiceProblems, with the time at which the pass began.
CommitErrors ==
    LET o == poll["errors"]
        found == evaluateWindows(o.saw)
    IN  /\ Writes("errors")
        /\ Reconciles(ServiceKind, found, {}, attributeCause(o.saw), o.at)
        /\ announced' = announced \cup {<<k, o.at>> : k \in Opening(found)}
        /\ UNCHANGED observed
=============================================================================
