------------------------------ MODULE Posture ------------------------------
(***************************************************************************)
(* Security posture (posture.go): an assessment lists the cluster, runs a  *)
(* catalog of rules over what it listed and stores, per rule and per       *)
(* namespace, how many resources failed and passed.  The poller, a button  *)
(* and the first load of the page run one, behind a lock per cluster; a    *)
(* reader with a namespace scope gets the stored counts of its namespaces. *)
(*                                                                         *)
(* One cluster.  A rule is known by the kinds it assesses and a resource   *)
(* by the rules it fails; severities only split a count, and the capped    *)
(* lists of failing resources are left out.                                *)
(***************************************************************************)
EXTENDS Naturals, Sequences, FiniteSets, FiniteSetsExt, SequencesExt
CONSTANTS
    Resources,   \* what the cluster may hold
    NsOf,        \* each one's namespace, "" for a cluster-scoped one
    KindOf,      \* each one's kind: a kind is listed in one call
    Catalog,     \* postureCatalog: the rules in order
    Applies,     \* the kinds each rule assesses
    Essential,   \* the rules of the headline standard
    Callers,     \* who runs assessments; "poller" and "page" are two of them
    MaxRuns,     \* bound: assessments stored at once
    MaxChanges   \* bound: changes of the cluster

VARIABLES
    cluster,   \* each resource: the rules it fails, or that it is absent
    changes,
    postureLock,
    caller,    \* each caller: away, waiting for the lock or assessing
    src,       \* what the assessment under way has listed, by kind
    stored     \* the assessments, each with the inventory it was made of
vars == <<cluster, changes, postureLock, caller, src, stored>>

Rules == ToSet(Catalog)
Kinds == {KindOf[r] : r \in Resources}
Namespaces == {NsOf[r] : r \in Resources}
Absent == {"absent"}
Free == "free"
Inventories == [Resources -> (SUBSET Rules) \cup {Absent}]

(* What the constants may be. *)
PostureBounds == Free \notin Callers /\ MaxRuns \in Nat /\ MaxChanges \in Nat

Init ==
    /\ cluster = [r \in Resources |-> Absent]
    /\ changes = 0
    /\ postureLock = Free
    /\ caller = [c \in Callers |-> "away"]
    /\ src = <<>>
    /\ stored = <<>>

-----------------------------------------------------------------------------
(* The assessment: a pure function of an inventory. *)

\* The resources of a namespace a rule assesses, and those of them that fail it.
Assessed(inv, rule, ns) ==
    {r \in Resources : inv[r] # Absent /\ KindOf[r] \in Applies[rule] /\ NsOf[r] = ns}
FailedBy(inv, rule, ns) == {r \in Assessed(inv, rule, ns) : rule \in inv[r]}

postureResultOf(failed, passed) ==
    IF failed > 0 THEN "failed" ELSE IF passed > 0 THEN "passed" ELSE "not_relevant"

Total(counts, i) == MapThenSumSet(LAMBDA ns : counts[ns][i], DOMAIN counts)
ResultOf(counts) ==
    [counts |-> counts, result |-> postureResultOf(Total(counts, 1), Total(counts, 2))]

NamespaceCounts(inv, rule) ==
    [ns \in Namespaces |->
        LET failed == FailedBy(inv, rule, ns) IN
        <<Cardinality(failed), Cardinality(Assessed(inv, rule, ns) \ failed)>>]

\* The resources the essential rules assess, and the failing among them.  Any
\* later rule that fails one of them marks it, an essential one or not.
SeenBy(inv, i) == {r \in Resources : \E j \in 1..i :
                     Catalog[j] \in Essential /\ r \in Assessed(inv, Catalog[j], NsOf[r])}
ResourcesSeen(inv) ==
    [seen |-> SeenBy(inv, Len(Catalog)),
     failed |-> {r \in Resources : \E i \in 1..Len(Catalog) :
                   r \in SeenBy(inv, i) /\ r \in FailedBy(inv, Catalog[i], NsOf[r])}]

evaluatePosture(inv) ==
    LET st == ResourcesSeen(inv)
        InNs(rs, ns) == Cardinality({r \in rs : NsOf[r] = ns})
    IN  [rules |-> [rule \in Rules |-> ResultOf(NamespaceCounts(inv, rule))],
         resources |-> [ns \in Namespaces |-> <<InNs(st.failed, ns), InNs(st.seen, ns)>>]]

\* The headline and the other standard's score, as the page shows them.
summarizePosture(a) ==
    LET Of(rules, result) == Cardinality({r \in rules : a.rules[r].result = result}) IN
    [headline |-> [res \in {"passed", "failed", "not_relevant"} |-> Of(Essential, res)],
     practices |-> [res \in {"passed", "failed", "not_relevant"} |-> Of(Rules \ Essential, res)],
     failed |-> Total(a.resources, 1), assessed |-> Total(a.resources, 2)]

InScope(counts, allowed) == [ns \in Namespaces |-> IF ns \in allowed \ {""} THEN counts[ns] ELSE <<0, 0>>]

\* Leaves each rule the result it had for the whole cluster.
scopePostureKeepingResults(a, allowed) ==
    [rules |-> [rule \in Rules |-> [a.rules[rule] EXCEPT !.counts = InScope(@, allowed)]],
     resources |-> InScope(a.resources, allowed)]
scopePosture(a, allowed) ==
    [rules |-> [rule \in Rules |-> ResultOf(InScope(a.rules[rule].counts, allowed))],
     resources |-> InScope(a.resources, allowed)]

-----------------------------------------------------------------------------
ClusterChanges(r, fails) ==
    /\ changes < MaxChanges /\ fails # cluster[r]
    /\ cluster' = [cluster EXCEPT ![r] = fails]
    /\ changes' = changes + 1
    /\ UNCHANGED <<postureLock, caller, src, stored>>

\* PollPosture: what is older than the retention goes first.
PollPosture ==
    /\ caller["poller"] = "away"
    /\ \E n \in 0..Len(stored) : stored' = SubSeq(stored, n + 1, Len(stored))
    /\ caller' = [caller EXCEPT !["poller"] = "waiting"]
    /\ UNCHANGED <<cluster, changes, postureLock, src>>

\* RunPostureAssessment, and GetPosture when there is nothing to show.
Asks(c) ==
    /\ c # "poller" /\ caller[c] = "away"
    /\ c = "page" => stored = <<>>
    /\ caller' = [caller EXCEPT ![c] = "waiting"]
    /\ UNCHANGED <<cluster, changes, postureLock, src, stored>>

TakesLock(c) ==
    /\ caller[c] = "waiting" /\ postureLock = Free
    /\ c = "page" => stored = <<>>
    /\ postureLock' = c
    /\ caller' = [caller EXCEPT ![c] = "assessing"]
    /\ UNCHANGED <<cluster, changes, src, stored>>

(* GetPosture looks again under the lock. *)
FindsOneStored ==
    /\ caller["page"] = "waiting" /\ postureLock = Free /\ stored # <<>>
    /\ caller' = [caller EXCEPT !["page"] = "away"]
    /\ UNCHANGED <<cluster, changes, postureLock, src, stored>>

\* collectPostureSources: one kind at a time, and the cluster goes on changing.
ListKind(k) ==
    /\ postureLock # Free /\ k \notin DOMAIN src
    /\ src' = [l \in DOMAIN src \cup {k} |->
                 IF l = k THEN [r \in {q \in Resources : KindOf[q] = k} |-> cluster[r]] ELSE src[l]]
    /\ UNCHANGED <<cluster, changes, postureLock, caller, stored>>

Releases ==
    /\ postureLock' = Free
    /\ caller' = [caller EXCEPT ![postureLock] = "away"]
    /\ src' = <<>>

\* A listing that fails, or the transaction, fails the assessment.
AssessmentFails == postureLock # Free /\ Releases /\ UNCHANGED <<cluster, changes, stored>>

buildPostureInventory == [r \in Resources |-> src[KindOf[r]][r]]

persistPosture ==
    /\ postureLock # Free /\ DOMAIN src = Kinds
    /\ Len(stored) < MaxRuns
    /\ LET inv == buildPostureInventory IN
       stored' = Append(stored, [of |-> inv, made |-> evaluatePosture(inv)])
    /\ Releases
    /\ UNCHANGED <<cluster, changes>>

Next ==
    \/ \E r \in Resources, fails \in (SUBSET Rules) \cup {Absent} :
          fails \subseteq {rule \in Rules : KindOf[r] \in Applies[rule]} \cup Absent
             /\ ClusterChanges(r, fails)
    \/ PollPosture
    \/ \E c \in Callers : Asks(c)
    \/ \E c \in Callers : TakesLock(c)
    \/ FindsOneStored
    \/ \E k \in Kinds : ListKind(k)
    \/ AssessmentFails
    \/ persistPosture

Spec == Init /\ [][Next]_vars

-----------------------------------------------------------------------------
(* The cluster, the lock and the assessments are well formed, and only the *)
(* holder of the lock assesses.                                            *)
TypeOK ==
    /\ cluster \in Inventories /\ changes \in 0..MaxChanges
    /\ caller \in [Callers -> {"away", "waiting", "assessing"}]
    /\ {c \in Callers : caller[c] = "assessing"} = {postureLock} \ {Free}
    /\ Len(stored) <= MaxRuns
    /\ \A i \in DOMAIN stored : stored[i].of \in Inventories

(* scopePosture: what a scoped caller gets is "exactly what an assessment  *)
(* of their namespaces alone would give", whatever the cluster held and    *)
(* however the assessment was torn by changes between its listings.        *)
Alone(inv, allowed) == [r \in Resources |-> IF NsOf[r] \in allowed THEN inv[r] ELSE Absent]
ScopedIsExact ==
    \A i \in DOMAIN stored, allowed \in SUBSET (Namespaces \ {""}) :
        summarizePosture(scopePosture(stored[i].made, allowed))
            = summarizePosture(evaluatePosture(Alone(stored[i].of, allowed)))
=============================================================================
