------------------------------ MODULE Topology ------------------------------
(***************************************************************************)
(* The service map of one cluster as it is stored and shown (topology.go): *)
(* a pass discovers (ServiceMap), upserts the nodes, upserts the edges and *)
(* lets go of what was not seen for long.  There is no transaction around  *)
(* its statements, and the poller's passes and those a Refresh asks for    *)
(* may overlap: PollTopology takes no lock.  Clusters are stored apart.    *)
(* A page only reads; what it makes of the rows it read is Answer.         *)
(*                                                                         *)
(* The table of nodes maps a node, and that of edges the key of an edge,   *)
(* to its row.                                                             *)
(***************************************************************************)
EXTENDS ServiceMap, Functions, TLC

CONSTANTS
    Clusters,    \* what the cluster looks like at a stage of its life
    FirstCluster,
    Listings,    \* which listings may succeed in a pass
    Passes,      \* the poller and the requests for a refresh
    Retention,   \* TOPOLOGY_RETENTION_DAYS
    MaxRounds,   \* the cap on the relaxation of the depths
    MaxTime,     \* bound on the clock
    MaxChanges   \* bound on changes of the cluster

TopologyBounds == FirstCluster \in DOMAIN Clusters /\ Retention \in Nat /\ MaxTime \in Nat

VARIABLES
    k,        \* the stage the cluster is at
    changes,
    clock,
    nodes,    \* service_nodes
    edges,    \* service_edges
    pass,     \* the passes under way
    lastError, \* topologyState: whether the last pass to end failed
    lapped    \* history: whether a pass overtook another
vars == <<k, changes, clock, nodes, edges, pass, lastError, lapped>>

Empty == [x \in {} |-> x]
IdlePass == [step |-> "idle", found |-> [nodes |-> {}, edges |-> {}], at |-> 0]

Init ==
    /\ k = FirstCluster /\ changes = 0 /\ clock = 0
    /\ nodes = Empty /\ edges = Empty
    /\ pass = [p \in Passes |-> IdlePass]
    /\ lastError = FALSE /\ lapped = FALSE

ClusterChanges ==
    /\ changes < MaxChanges /\ changes' = changes + 1
    /\ k' \in DOMAIN Clusters \ {k}
    /\ UNCHANGED <<clock, nodes, edges, pass, lastError, lapped>>

Tick ==
    /\ clock < MaxTime /\ clock' = clock + 1
    /\ UNCHANGED <<k, changes, nodes, edges, pass, lastError, lapped>>

-----------------------------------------------------------------------------
Step(p, step) == [pass EXCEPT ![p].step = step]
(* A pass that ends leaves word of how it went.                             *)
Ends(p, failed) == pass' = [pass EXCEPT ![p] = IdlePass] /\ lastError' = failed

(* PollTopology: what is found is stamped with the time it is stored at.    *)
Discover(p) ==
    /\ pass[p].step = "idle"
    /\ \E listed \in Listings :
         LET seen == [Clusters[k] EXCEPT !.listed = listed]
         IN  IF Discoverable(seen)
             THEN /\ pass' = [pass EXCEPT ![p] = [step |-> "discovered", at |-> clock,
                                                  found |-> discoverTopology(seen)]]
                  /\ UNCHANGED lastError
             ELSE Ends(p, TRUE)
    /\ UNCHANGED <<k, changes, clock, nodes, edges, lapped>>

(* An upsert: a row that exists keeps when it was first seen.  (Nor does it *)
(* touch observed, which nothing sets yet.)                                 *)
Row(at) == [first |-> at, last |-> at]
SeenAgain(row, at) == [row EXCEPT !.last = at]
NodeInsert(rows, N, at) == rows @@ [n \in N |-> Row(at)]  \* as ON CONFLICT DO NOTHING
NodeUpsert(rows, N, at) ==
    [n \in DOMAIN rows \cup N |->
        IF n \notin N THEN rows[n]
        ELSE IF n \in DOMAIN rows THEN SeenAgain(rows[n], at) ELSE Row(at)]
EdgeUpsert(rows, E, at) ==
    LET found == {EdgeKey(e) : e \in E}
        confidence(x) == (CHOOSE e \in E : EdgeKey(e) = x).confidence
    IN  [x \in DOMAIN rows \cup found |->
           IF x \notin found THEN rows[x]
           ELSE IF x \in DOMAIN rows
           THEN [SeenAgain(rows[x], at) EXCEPT !.confidence = confidence(x)]
           ELSE [confidence |-> confidence(x), first |-> at, last |-> at]]

(* persistTopology, a statement at a time; the first two go in batches and  *)
(* may fail after any of them, with what went before stored.  A pass that   *)
(* writes while one that began earlier is still under way overtakes it.     *)
Overtakes(p) ==
    lapped' = (lapped \/ \E q \in Passes : pass[q].step # "idle" /\ pass[q].at < pass[p].at)
StoreNodes(p) ==
    /\ pass[p].step = "discovered"
    /\ nodes' = NodeUpsert(nodes, pass[p].found.nodes, pass[p].at)
    /\ pass' = Step(p, "nodes") /\ Overtakes(p)
    /\ UNCHANGED <<k, changes, clock, edges, lastError>>
StoreEdges(p) ==
    /\ pass[p].step = "nodes"
    /\ edges' = EdgeUpsert(edges, pass[p].found.edges, pass[p].at)
    /\ pass' = Step(p, "edges") /\ Overtakes(p)
    /\ UNCHANGED <<k, changes, clock, nodes, lastError>>
StoreFails(p) ==
    /\ \/ /\ pass[p].step = "discovered"
          /\ \E N \in SUBSET pass[p].found.nodes : nodes' = NodeUpsert(nodes, N, pass[p].at)
          /\ UNCHANGED edges
       \/ /\ pass[p].step = "nodes"
          /\ \E E \in SUBSET pass[p].found.edges : edges' = EdgeUpsert(edges, E, pass[p].at)
          /\ UNCHANGED nodes
    /\ Ends(p, TRUE) /\ Overtakes(p)
    /\ UNCHANGED <<k, changes, clock>>

(* The two DELETEs.  Their errors are discarded: a pass of which either or  *)
(* both failed goes on, and ends as one that went well.                     *)
SeenSince(rows, time) == {x \in DOMAIN rows : rows[x].last >= time}
Cutoff(p) == pass[p].at - Retention
Deletes(rows, next, p) == next = rows \/ next = Restrict(rows, SeenSince(rows, Cutoff(p)))
PruneEdges(p) ==
    /\ pass[p].step = "edges"
    /\ Deletes(edges, edges', p)
    /\ pass' = Step(p, "pruned") /\ Overtakes(p)
    /\ UNCHANGED <<k, changes, clock, nodes, lastError>>
PruneNodes(p) ==
    /\ pass[p].step = "pruned"
    /\ Deletes(nodes, nodes', p)
    /\ Ends(p, FALSE) /\ Overtakes(p)
    /\ UNCHANGED <<k, changes, clock, edges>>

(* The process stops: the passes and topologyState are gone.      *)
Crash ==
    /\ \E p \in Passes : pass[p].step # "idle"
    /\ pass' = [p \in Passes |-> IdlePass] /\ lastError' = FALSE
    /\ UNCHANGED <<k, changes, clock, nodes, edges, lapped>>

-----------------------------------------------------------------------------
(* The depths of a page: every edge in turn pushes its end one below its    *)
(* beginning, again and again until nothing moves, MaxRounds times at most. *)
Push(e, d) == [d EXCEPT ![e[2]] = Max({@, d[e[1]] + 1})]
RelaxedBy(E, d) == FoldSet(Push, d, E)
DepthsOf(E, N) ==
    LET f[i \in 0..MaxRounds] ==
          IF i = 0 THEN [n \in N |-> 0] ELSE RelaxedBy(E, f[i - 1])
    IN  f[MaxRounds]

(* GetTopology: what is shown of the edges and nodes it read; a node that an*)
(* edge names is shown though its row was not read.  Isolated nodes are left*)
(* out, and external ones with their edges when they are not asked for.     *)
EndsOf(x) == {x[1], x[2]}
Asked(E, external) == {x \in E : external \/ \A n \in EndsOf(x) : n.kind # "External"}
Answer(E, N, external) ==
    LET shown == Asked(E, external)
        ends == UNION {EndsOf(x) : x \in shown}
    IN  [nodes |-> {n \in N \cup ends : n \in ends}, edges |-> shown,
         depth |-> DepthsOf({<<x[1], x[2]>> : x \in shown}, ends)]

Next ==
    \/ ClusterChanges \/ Tick \/ Crash
    \/ \E p \in Passes :
         \/ Discover(p) \/ StoreNodes(p) \/ StoreEdges(p) \/ StoreFails(p)
         \/ PruneEdges(p) \/ PruneNodes(p)

Spec == Init /\ [][Next]_vars

-----------------------------------------------------------------------------
(* Rows, passes and pages are well formed.                                  *)
TypeOK ==
    /\ k \in DOMAIN Clusters /\ clock \in 0..MaxTime
    /\ \A n \in DOMAIN nodes : nodes[n].first \in 0..clock /\ nodes[n].last \in 0..clock
    /\ \A x \in DOMAIN edges : edges[x].first \in 0..clock /\ edges[x].last \in 0..clock
    /\ \A p \in Passes :
          /\ pass[p].step \in {"idle", "discovered", "nodes", "edges", "pruned"}
          /\ pass[p].at \in 0..clock

(* topology.go:1078, "the map has a memory": while a row stays, it keeps    *)
(* when it was first seen, and is not seen less lately than before but by a *)
(* pass that another overtook; it leaves only when it was not seen for the  *)
(* days that rows are kept.                                                 *)
Overdue(row) == row.last < clock - Retention
Remembers(rows, next) ==
    \A x \in DOMAIN rows :
        IF x \in DOMAIN next
        THEN /\ next[x].first = rows[x].first
             /\ next[x].last >= rows[x].last \/ lapped'
        ELSE Overdue(rows[x])

(* An edge is stored with the nodes at both its ends, whatever batch fails  *)
(* and wherever a pass stops.  Two may be without: one that a pass another  *)
(* overtook left behind, and one that was not seen for the days that rows   *)
(* are kept and is there only because its DELETE failed, when that of the   *)
(* nodes did not.                                                           *)
StoredMapIsClosed ==
    lapped \/ \A x \in DOMAIN edges : Overdue(edges[x]) \/ EndsOf(x) \subseteq DOMAIN nodes

(* The stored map is one of what was there, lately enough: both of the above.*)
MapHolds ==
    Remembers(nodes, nodes') /\ Remembers(edges, edges') /\ StoredMapIsClosed'
MapRemembers == [][MapHolds]_vars

(* The depth of a node is the length of the longest way to it, as far as no *)
(* cycle leads there: EndOfPath(E, N)[m] are the nodes that m edges in a row*)
(* lead to, and those of as many edges as there are nodes are behind a      *)
(* cycle.                                                                   *)
EndOfPath(E, N) ==
    LET f[m \in 0..Cardinality(N) + 1] ==
          IF m = 0 THEN N ELSE {e[2] : e \in {e \in E : e[1] \in f[m - 1]}}
    IN  f
DepthIsLongestPath(E, N) ==
    LET d == DepthsOf(E, N)
        end == EndOfPath(E, N)
    IN  \A n \in N \ end[Cardinality(N)] : n \in end[d[n]] /\ n \notin end[d[n] + 1]
=============================================================================
