------------------------------- MODULE GitOps -------------------------------
(***************************************************************************)
(* The GitOps engine for one application: backend/handlers/gitops_engine.go*)
(* and gitops_api.go.                                                      *)
(*                                                                         *)
(* Operations (the poll, a queued refresh, the refresh, sync, edit and     *)
(* delete handlers) run at the same time.  Each loads the application's    *)
(* row first and works on that copy; a refresh, a sync and a delete wait   *)
(* for the application's lock.  Meanwhile people push, and edit, delete or *)
(* take over objects in the cluster.                                       *)
(*                                                                         *)
(* An object is a group, kind, namespace and name; what a revision declares*)
(* for it is one content value.  Health, diffs, messages, rendering and the*)
(* audit log are left out.  One comparison reads the cluster in one step.  *)
(***************************************************************************)
EXTENDS Integers, FiniteSets

CONSTANTS
    Object,       \* object keys, in the cluster or declared
    Crd,          \* the objects among them that define the kind of Custom ones
    Custom,       \* objects whose kind exists only while every Crd one does
    KindOrder,    \* the rank of an object's kind: Object -> Nat
    Ns,           \* where an object lives: Object -> namespace
    Home,         \* the application's namespace
    Content,      \* what a manifest can say
    Unserved,     \* a manifest in an API version the cluster does not serve
    Undeclared,   \* no manifest
    Revision,     \* commits of the branch
    Tree,         \* Tree[r][o]: what commit r says of object o
    Edited,       \* what a hand-edited object says
    Stranger,     \* a tracking id, or none, that is not this application's
    None,         \* no object, no revision, nothing there
    Settings,     \* the settings the application may be given
    Worker,       \* operations that can be under way at once
    Poller,       \* the one among them that PollGitOps runs in
    Events,       \* what may happen to the engine: see Happens
    MaxDisturb    \* bound: pushes, hand edits, settings changes and faults

\* The rule among validateGitopsApp's that the engine's decisions rest on.
validateGitopsApp(s) == s.heal => s.auto

ASSUME GitOpsAssumption ==
    /\ Crd \subseteq Object /\ Custom \subseteq Object
    /\ KindOrder \in [Object -> Nat]
    /\ Tree \in [Revision -> [Object -> Content \cup {Unserved, Undeclared}]]
    /\ Unserved \notin Content /\ Undeclared \notin Content /\ Unserved # Undeclared
    /\ Settings \subseteq [prune : BOOLEAN, auto : BOOLEAN, heal : BOOLEAN, scope : BOOLEAN]
    /\ \A s \in Settings : validateGitopsApp(s)
    /\ Poller \in Worker
    /\ Events \subseteq {"refresh", "sync", "webhook", "edit", "delete", "cascade",
                          "push", "hand", "open", "get", "apply", "prune", "crash"}
    /\ \A o \in Object : Stranger # <<o, Home>>
    /\ None \notin Revision /\ None \notin Object /\ None \notin Worker
    /\ MaxDisturb \in Nat

VARIABLES
    head,         \* the commit the branch points at
    live,         \* live[o]: the object in the cluster, or None
    app,          \* the application's row, or None once deleted
    inventory,    \* the git_ops_resources rows of the application
    last,         \* the application's latest run in git_ops_syncs
    mapper,       \* mapperCache: the objects whose kind it resolves
    lock,         \* gitopsLock: who holds it
    queued,       \* gitopsQueued: a queued refresh waits for the lock
    op,           \* op[w]: what worker w is doing
    everApplied,  \* history: objects the engine has ever applied
    disturbances  \* how much of MaxDisturb has been used

vars == <<head, live, app, inventory, last, mapper, lock, queued, op, everApplied,
          disturbances>>
dbVars == <<app, inventory, last>>
world == <<head, live, everApplied>>

Statuses == {"Synced", "OutOfSync", "Missing", "Extraneous", "Invalid"}

App == [set : Settings, revision : Revision \cup {None}, synced : Revision \cup {None},
        status : {"Synced", "OutOfSync", "Unknown"}]

Result == [obj : Object, status : Statuses, applied : BOOLEAN]

Idle == [pc |-> "idle", job |-> "none", kind |-> "none", copy |-> None, rev |-> None,
         known |-> {}, inv |-> {}, todo |-> {}, cut |-> None, applied |-> {},
         pruned |-> {}, failed |-> FALSE, again |-> FALSE, results |-> {}]

\* Someone else acts, or something fails, once more.
Happens(e) ==
    /\ e \in Events
    /\ disturbances < MaxDisturb
    /\ disturbances' = disturbances + 1

Fine == UNCHANGED disturbances

-----------------------------------------------------------------------------
(* gitops_engine.go: what is declared, and what the cluster holds.         *)

\* trackingID: the application's name and kind are implied by the object.
trackingID(o, ns) == <<o, ns>>

\* prepareTargets stamps objects with the application's namespace,
Stamped(o) == trackingID(o, Home)

\* and what it wants the cluster to hold.
Desired(r, o) == [content |-> Tree[r][o], id |-> Stamped(o)]

\* While compareApp and syncApp look for the namespace the object is in.
CarriesID(o) == live[o] # None /\ live[o].id = trackingID(o, Ns[o])

\* The kinds the cluster serves now.
Served == {o \in Object : o \in Custom => \A d \in Crd : live[d] # None}

\* The cluster without o; a kind's objects go with its definition.
Without(o) == [p \in Object |-> IF p = o \/ (o \in Crd /\ p \in Custom) THEN None ELSE live[p]]

Declared(r) == {o \in Object : Tree[r][o] # Undeclared}

\* prepareTargets: the declared objects that follow the engine's rules.
Targets(x) ==
    IF x.rev = None THEN {}
    ELSE {o \in Declared(x.rev) \cap x.known :
             Tree[x.rev][o] # Unserved /\ (Ns[o] = Home \/ x.copy.set.scope)}

\* The rest comes back as Invalid,
Refused(x) == IF x.rev = None THEN {} ELSE Declared(x.rev) \ Targets(x)

\* some of it because its kind is unknown.
UnknownKinds(x) == {o \in Refused(x) : o \notin x.known \/ Tree[x.rev][o] = Unserved}

AppliedIn(inv) == {o \in Object : \E r \in inv : r.obj = o /\ r.applied}

TargetStatus(r, o, broken) ==
    IF o \in broken \/ o \notin Served THEN "Invalid"
    ELSE IF live[o] = None THEN "Missing"
    ELSE IF live[o] = Desired(r, o) THEN "Synced"
    ELSE "OutOfSync"

\* The objects the engine applied, that Git no longer declares and that still
\* carry the tracking id; `unread` are those whose Get fails.
Extraneous(x, inv, unread) ==
    {o \in (AppliedIn(inv) \cap x.known) \ (Targets(x) \cup unread) : CarriesID(o)}

\* compareApp that forgets what was applied: a mutation of it.
compareAppForgetting(x, inv, unread, refused) ==
    {[obj |-> o, status |-> "Invalid", applied |-> FALSE] : o \in Refused(x)}
    \cup {[obj |-> o, status |-> TargetStatus(x.rev, o, unread \cup refused),
           applied |-> o \in AppliedIn(inv)] : o \in Targets(x)}

\* compareApp: one result per declared object and per extraneous one.
compareApp(x, inv, unread, refused) ==
    {[obj |-> o, status |-> "Invalid", applied |-> FALSE] : o \in Refused(x)}
    \cup {[obj |-> o, status |-> TargetStatus(x.rev, o, unread \cup refused),
           applied |-> o \in AppliedIn(inv)] : o \in Targets(x)}
    \cup {[obj |-> o, status |-> "Extraneous", applied |-> TRUE] :
              o \in Extraneous(x, inv, unread)}

\* Anything invalid, or nothing at all, leaves the status unknown.
summarize(results) ==
    IF results = {} \/ \E r \in results : r.status = "Invalid" THEN "Unknown"
    ELSE IF \E r \in results : r.status # "Synced" THEN "OutOfSync"
    ELSE "Synced"

-----------------------------------------------------------------------------
(* Starting an operation: the row is loaded, the lock is waited for.       *)

Becomes(w, x) == op' = [op EXCEPT ![w] = x]

Free(w) == op[w] = Idle
Called(w) == w # Poller /\ Free(w) /\ app # None
Begin(w, pc, kind, job) ==
    Becomes(w, [Idle EXCEPT !.pc = pc, !.kind = kind, !.job = job, !.copy = app])

\* PollGitOps, on its interval.
Poll(w) ==
    /\ w = Poller /\ Free(w) /\ app # None
    /\ Begin(w, "waiting", "poll", "refresh")
    /\ UNCHANGED <<world, mapper, dbVars, lock, queued>> /\ Fine

\* RefreshGitopsApp and SyncGitopsApp.
Request(w) ==
    /\ Called(w)
    /\ \E job \in {"refresh", "sync"} \cap Events : Begin(w, "waiting", job, job)
    /\ UNCHANGED <<world, mapper, dbVars, lock, queued>> /\ Fine

\* DeleteGitopsApp, with and without cascade.
RequestDelete(w) ==
    /\ Called(w)
    /\ \E kind \in {"delete", "cascade"} : Begin(w, "waiting", kind, "delete") /\ Happens(kind)
    /\ UNCHANGED <<world, mapper, dbVars, lock, queued>>

\* queueGitopsRefresh, from a push webhook or a commit CommitKube makes; a
\* refresh that is already waiting is enough.
Queue(w) ==
    /\ "webhook" \in Events
    /\ Called(w) /\ ~queued
    /\ Begin(w, "waiting", "queue", "refresh")
    /\ queued' = TRUE
    /\ UNCHANGED <<world, mapper, dbVars, lock>> /\ Fine

\* UpdateGitopsApp up to its Save.
Edit(w) ==
    /\ Called(w)
    /\ Begin(w, "saving", "update", "none")
    /\ Happens("edit")
    /\ UNCHANGED <<world, mapper, dbVars, lock, queued>>

\* Save writes the whole row, and inserts it when there is none to update;
\* then a refresh is queued with it.
Save(w) ==
    /\ op[w].pc = "saving"
    /\ \E s \in Settings :
          LET row == [op[w].copy EXCEPT !.set = s] IN
          /\ app' = row
          /\ Becomes(w, IF queued THEN Idle
                        ELSE [Idle EXCEPT !.pc = "waiting", !.kind = "queue",
                                          !.job = "refresh", !.copy = row])
    /\ queued' = TRUE
    /\ UNCHANGED <<world, mapper, inventory, last, lock>> /\ Fine

\* A lock that is not waited for: the mutation of Lock.
LockAnyway(w) ==
    /\ op[w].pc = "waiting"
    /\ lock' = w
    /\ queued' = (queued /\ ~(op[w].kind = "queue" /\ op[w].job = "refresh"))
    /\ last' = IF op[w].job = "sync" THEN [phase |-> "Running", rev |-> None, recent |-> TRUE]
               ELSE last
    /\ Becomes(w, [op[w] EXCEPT !.pc = IF op[w].kind = "cascade" THEN "uncascaded"
                                       ELSE IF op[w].kind = "delete" THEN "erase"
                                       ELSE "open"])
    /\ UNCHANGED <<world, mapper, app, inventory>> /\ Fine

\* The lock is taken; a queued refresh stops counting as queued, a sync opens
\* its run.
Lock(w) ==
    /\ op[w].pc = "waiting" /\ lock = None
    /\ lock' = w
    /\ queued' = (queued /\ ~(op[w].kind = "queue" /\ op[w].job = "refresh"))
    /\ last' = IF op[w].job = "sync" THEN [phase |-> "Running", rev |-> None, recent |-> TRUE]
               ELSE last
    /\ Becomes(w, [op[w] EXCEPT !.pc = IF op[w].kind = "cascade" THEN "uncascaded"
                                       ELSE IF op[w].kind = "delete" THEN "erase"
                                       ELSE "open"])
    /\ UNCHANGED <<world, mapper, app, inventory>> /\ Fine

-----------------------------------------------------------------------------
(* Refreshing.                                                             *)

\* db.DB.Model(app).Updates: nothing when the row is gone.
Updated(changes) == IF app = None THEN None ELSE changes

\* openGitopsWorkspace fails: before the commit is read, or after it.
OpenFails(w) ==
    /\ op[w].pc = "open"
    /\ Happens("open")
    /\ \/ app' = Updated([app EXCEPT !.status = "Unknown"])
       \/ app' = Updated([app EXCEPT !.status = "Unknown", !.revision = head])
    /\ last' = IF op[w].job = "sync" THEN [last EXCEPT !.phase = "Failed"] ELSE last
    /\ lock' = None
    /\ Becomes(w, Idle)
    /\ UNCHANGED <<world, mapper, inventory, queued>>

\* newDynamicKube: the mapper that is cached, or a fresh one.
CachedOrFresh == mapper' \in {mapper, Served}

\* A declared kind the mapper does not resolve makes it be fetched again.
AsksAgain ==
    \E o \in Declared(head) : o \notin mapper \/ Tree[head][o] = Unserved

\* openGitopsWorkspace: the head is checked out and the cluster's kinds are
\* known.  For a sync the inventory is loaded and the applying begins.
Open(w) ==
    /\ op[w].pc = "open"
    /\ \/ Fine /\ CachedOrFresh /\ (AsksAgain => mapper' = Served)
       \/ Happens("open") /\ AsksAgain /\ mapper' = mapper
    /\ LET x == [op[w] EXCEPT !.rev = head, !.known = mapper'] IN
       Becomes(w, IF x.job = "refresh" THEN [x EXCEPT !.pc = "compare"]
                  ELSE [x EXCEPT !.pc = "apply", !.inv = inventory, !.todo = Targets(x),
                                 !.failed = Refused(x) # {}])
    /\ UNCHANGED <<world, dbVars, lock, queued>>

\* compareApp and the DELETE of storeResults.  What could not be read, or was
\* refused in the dry run, comes back Invalid, or is dropped if undeclared.
Compare(w) ==
    /\ op[w].pc = "compare"
    /\ \E unread, refused \in SUBSET Object :
          /\ \/ unread = {} /\ refused = {} /\ Fine
             \/ Cardinality(unread) = 1 /\ refused = {} /\ Happens("get")
             \/ Cardinality(refused) = 1 /\ unread = {} /\ Happens("apply")
          /\ Becomes(w, [op[w] EXCEPT !.pc = "store",
                               !.results = compareApp(op[w], inventory, unread, refused)])
    /\ inventory' = {}
    /\ UNCHANGED <<world, mapper, app, last, lock, queued>>

\* The INSERT of storeResults, the application's new status, and the end of
\* what the lock protects.
Store(w) ==
    /\ op[w].pc = "store"
    /\ inventory' = op[w].results
    /\ LET status == summarize(op[w].results) IN
       /\ app' = Updated([app EXCEPT !.revision = op[w].rev, !.status = status])
       /\ Becomes(w, IF op[w].job = "refresh" /\ op[w].kind \in {"poll", "queue"}
                     THEN [Idle EXCEPT !.pc = "decide", !.kind = op[w].kind, !.copy =
                              [op[w].copy EXCEPT !.revision = op[w].rev, !.status = status]]
                     ELSE Idle)
    /\ lock' = None
    /\ UNCHANGED <<world, mapper, last, queued>> /\ Fine

\* A poll without self-heal: the mutation of SyncDue.
SyncDueForCommits(x) ==
    /\ x.copy.set.auto /\ x.copy.status = "OutOfSync"
    /\ x.copy.revision # x.copy.synced
    /\ x.kind = "poll" =>
          ~(last.phase = "Failed" /\ last.rev = x.copy.revision /\ last.recent)

\* Whether the refresh calls for a sync: out of sync, and a new commit or, in
\* the poll, self-heal, unless the last sync of the commit just failed.
SyncDue(x) ==
    /\ x.copy.set.auto /\ x.copy.status = "OutOfSync"
    /\ \/ x.copy.revision # x.copy.synced
       \/ x.kind = "poll" /\ x.copy.set.heal
    /\ x.kind = "poll" =>
          ~(last.phase = "Failed" /\ last.rev = x.copy.revision /\ last.recent)

\* PollGitOps and queueGitopsRefresh after their refresh.
Decide(w) ==
    /\ op[w].pc = "decide"
    /\ Becomes(w, IF SyncDue(op[w]) THEN [op[w] EXCEPT !.pc = "waiting", !.job = "sync"]
                  ELSE Idle)
    /\ UNCHANGED <<world, mapper, dbVars, lock, queued>> /\ Fine

-----------------------------------------------------------------------------
(* Syncing.                                                                *)

First(T) == {o \in T : \A p \in T : KindOrder[o] <= KindOrder[p]}

\* syncApp, first loop: the objects in kind order; one that fails does not stop
\* the others.
Apply(w) ==
    /\ op[w].pc = "apply"
    /\ \E o \in First(op[w].todo) :
          \/ /\ o \in Served
             /\ live' = [live EXCEPT ![o] = Desired(op[w].rev, o)]
             /\ everApplied' = everApplied \cup {o}
             /\ Becomes(w, [op[w] EXCEPT !.todo = @ \ {o}, !.applied = @ \cup {o}])
             /\ Fine
          \/ /\ IF o \in Served THEN Happens("apply") ELSE Fine
             /\ Becomes(w, [op[w] EXCEPT !.todo = @ \ {o}, !.failed = TRUE])
             /\ UNCHANGED <<live, everApplied>>
    /\ UNCHANGED <<head, mapper, dbVars, lock, queued>>

\* What was applied before, declared or not: the mutation of PruneCandidates.
PruneCandidatesAll(x) == AppliedIn(x.inv) \cap x.known

\* Applied before, not declared now, and of a kind the mapper knows.
PruneCandidates(x) == (AppliedIn(x.inv) \cap x.known) \ Targets(x)

\* The first loop is over and the second begins.
Applied(w) ==
    /\ op[w].pc = "apply" /\ op[w].todo = {}
    /\ Becomes(w, [op[w] EXCEPT !.pc = "prune", !.todo = PruneCandidates(op[w])])
    /\ UNCHANGED <<world, mapper, dbVars, lock, queued>> /\ Fine

Prunes(x) == x.copy.set.prune \/ x.kind = "cascade"

\* syncApp, second loop, up to the Delete: gone or unreadable objects and those
\* of someone else are forgotten, and nothing is deleted without prune.
PruneLook(w) ==
    /\ op[w].pc = "prune" /\ op[w].cut = None
    /\ \E o \in op[w].todo :
          \/ /\ ~CarriesID(o) /\ Fine
             /\ Becomes(w, [op[w] EXCEPT !.todo = @ \ {o}, !.pruned = @ \cup {o}])
          \/ /\ Happens("get")
             /\ Becomes(w, [op[w] EXCEPT !.todo = @ \ {o}, !.pruned = @ \cup {o}])
          \/ /\ CarriesID(o) /\ ~Prunes(op[w]) /\ Fine
             /\ Becomes(w, [op[w] EXCEPT !.todo = @ \ {o}])
          \/ /\ CarriesID(o) /\ Prunes(op[w]) /\ Fine
             /\ Becomes(w, [op[w] EXCEPT !.todo = @ \ {o}, !.cut = o])
    /\ UNCHANGED <<world, mapper, dbVars, lock, queued>>

\* The Delete, by kind and name; an object already gone counts as pruned.
PruneDelete(w) ==
    /\ op[w].cut # None
    /\ \/ /\ live' = Without(op[w].cut)
          /\ Becomes(w, [op[w] EXCEPT !.cut = None, !.pruned = @ \cup {op[w].cut}])
          /\ Fine
       \/ /\ Happens("prune") /\ live[op[w].cut] # None
          /\ Becomes(w, [op[w] EXCEPT !.cut = None, !.failed = TRUE])
          /\ UNCHANGED live
    /\ UNCHANGED <<head, mapper, everApplied, dbVars, lock, queued>>

PruneOver(x) == x.pc = "prune" /\ x.todo = {} /\ x.cut = None

\* The sync installed definitions and skipped unknown kinds: with a fresh
\* mapper, everything once more.  Discovery may fail, and then it is not.
Retries(x) == x.applied \cap Crd # {} /\ UnknownKinds(x) # {} /\ ~x.again

ApplyAgain(w) ==
    /\ PruneOver(op[w]) /\ op[w].job = "sync"
    /\ Retries(op[w])
    /\ mapper' = Served
    /\ LET x == [op[w] EXCEPT !.known = Served] IN
       Becomes(w, [x EXCEPT !.pc = "apply", !.again = TRUE, !.todo = Targets(x),
                            !.applied = {}, !.pruned = {}, !.failed = Refused(x) # {}])
    /\ UNCHANGED <<world, dbVars, lock, queued>> /\ Fine

\* The inventory learns what was applied and forgets what was pruned.
Learned(inv, x) ==
    {r \in {[y EXCEPT !.applied = @ \/ y.obj \in x.applied] : y \in inv}
           \cup {[obj |-> o, status |-> "Synced", applied |-> TRUE] :
                    o \in {p \in x.applied : \A y \in inv : y.obj # p}} :
        r.obj \notin x.pruned}

RecordInventory(w) ==
    /\ PruneOver(op[w]) /\ op[w].job = "sync"
    /\ \/ ~Retries(op[w]) /\ Fine
       \/ Retries(op[w]) /\ Happens("open")
    /\ inventory' = Learned(inventory, op[w])
    /\ Becomes(w, [op[w] EXCEPT !.pc = "finish"])
    /\ UNCHANGED <<world, mapper, app, last, lock, queued>>

\* finish, and the revision that was synced; then the cluster is read back.
Finish(w) ==
    /\ op[w].pc = "finish"
    /\ last' = [last EXCEPT !.phase = IF op[w].failed THEN "Failed" ELSE "Succeeded",
                            !.rev = op[w].rev]
    /\ app' = Updated([app EXCEPT !.synced = op[w].rev])
    /\ Becomes(w, [op[w] EXCEPT !.pc = "compare", !.inv = {}, !.applied = {},
                                !.pruned = {}, !.failed = FALSE, !.again = FALSE])
    /\ UNCHANGED <<world, mapper, inventory, lock, queued>> /\ Fine

-----------------------------------------------------------------------------
(* Deleting the application.                                               *)

\* With cascade, what the engine applied is pruned first, if the cluster can
\* be reached.
Cascade(w) ==
    /\ op[w].pc = "uncascaded"
    /\ \/ /\ Fine
          /\ CachedOrFresh
          /\ LET x == [op[w] EXCEPT !.known = mapper', !.inv = inventory] IN
             Becomes(w, [x EXCEPT !.pc = "prune", !.todo = PruneCandidates(x)])
       \/ /\ Happens("open")
          /\ Becomes(w, [op[w] EXCEPT !.pc = "erase"])
          /\ mapper' = mapper
    /\ UNCHANGED <<world, dbVars, lock, queued>>

\* The rows of its objects go, whatever came of the cascade,
Erase(w) ==
    /\ op[w].pc = "erase" \/ (PruneOver(op[w]) /\ op[w].kind = "cascade")
    /\ inventory' = {}
    /\ Becomes(w, [Idle EXCEPT !.pc = "remove", !.kind = "delete"])
    /\ UNCHANGED <<world, mapper, app, last, lock, queued>> /\ Fine

\* and then the application's own.
Remove(w) ==
    /\ op[w].pc = "remove"
    /\ app' = None
    /\ lock' = None
    /\ Becomes(w, Idle)
    /\ UNCHANGED <<world, mapper, inventory, last, queued>> /\ Fine

-----------------------------------------------------------------------------
(* The rest of the world.                                                  *)

Push ==
    /\ Happens("push")
    /\ \E r \in Revision \ {head} : head' = r
    /\ UNCHANGED <<live, mapper, everApplied, dbVars, lock, queued, op>>

\* Someone creates, edits, takes over or deletes an object by hand.
ByHand(o) ==
    /\ Happens("hand")
    /\ \/ live[o] = None /\ o \in Served /\ live' = [live EXCEPT ![o] = [content |-> Edited, id |-> Stranger]]
       \/ live[o] # None /\ live' = [live EXCEPT ![o].content = Edited]
       \/ live[o] # None /\ live' = [live EXCEPT ![o].id = Stranger]
       \/ live' = Without(o)
    /\ live' # live
    /\ UNCHANGED <<head, mapper, everApplied, dbVars, lock, queued, op>>

\* The ten minutes in which a failed sync is not repeated pass.
TenMinutes ==
    /\ last.recent
    /\ last' = [last EXCEPT !.recent = FALSE]
    /\ UNCHANGED <<world, mapper, app, inventory, lock, queued, op>> /\ Fine

\* The process stops and starts again.
Crash ==
    /\ Happens("crash")
    /\ lock' = None /\ queued' = FALSE
    /\ op' = [w \in Worker |-> Idle]
    /\ mapper' = Served
    /\ UNCHANGED <<world, dbVars>>

-----------------------------------------------------------------------------
Init ==
    /\ head \in Revision
    /\ live = [o \in Object |-> None]
    /\ app \in {[set |-> s, revision |-> None, synced |-> None, status |-> "Unknown"] : s \in Settings}
    /\ inventory = {}
    /\ last = [phase |-> "None", rev |-> None, recent |-> FALSE]
    /\ mapper = Served
    /\ lock = None
    /\ queued = FALSE
    /\ op = [w \in Worker |-> Idle]
    /\ everApplied = {}
    /\ disturbances = 0

\* What an operation does once it holds a copy of the row.
Step(w) ==
    \/ Save(w) \/ Lock(w)
    \/ Open(w) \/ OpenFails(w) \/ Compare(w) \/ Store(w) \/ Decide(w)
    \/ Apply(w) \/ Applied(w) \/ PruneLook(w) \/ PruneDelete(w) \/ ApplyAgain(w)
    \/ RecordInventory(w) \/ Finish(w)
    \/ Cascade(w) \/ Erase(w) \/ Remove(w)

Start(w) == Poll(w) \/ Request(w) \/ RequestDelete(w) \/ Queue(w) \/ Edit(w)

Next ==
    \/ \E w \in Worker : Start(w) \/ Step(w)
    \/ \E o \in Object : ByHand(o)
    \/ Push \/ TenMinutes \/ Crash

Spec == Init /\ [][Next]_vars

\* Operations run to their end; the poll comes round again; a sync.Mutex keeps
\* nobody waiting for ever; time passes.
Fairness ==
    /\ \A w \in Worker : WF_vars(Step(w) /\ ~Lock(w)) /\ SF_vars(Lock(w))
    /\ WF_vars(Poll(Poller))
    /\ WF_vars(TenMinutes)

FairSpec == Spec /\ Fairness

-----------------------------------------------------------------------------
(* What the engine promises.                                               *)

Op == [pc : {"idle", "waiting", "saving", "open", "compare", "store", "decide", "apply",
             "prune", "finish", "uncascaded", "erase", "remove"},
       job : {"none", "refresh", "sync", "delete"},
       kind : {"none", "poll", "queue", "refresh", "sync", "update", "delete", "cascade"},
       copy : App \cup {None}, rev : Revision \cup {None}, known : SUBSET Object,
       inv : SUBSET Result, todo : SUBSET Object, cut : Object \cup {None},
       applied : SUBSET Object, pruned : SUBSET Object, failed : BOOLEAN,
       again : BOOLEAN, results : SUBSET Result]

Live == [content : Content \cup {Edited},
         id : {Stamped(o) : o \in Object} \cup {Stranger}]

Run == [phase : {"None", "Running", "Succeeded", "Failed"},
        rev : Revision \cup {None}, recent : BOOLEAN]

\* Nothing there is neither an object nor a row.
ASSUME NoneAssumption == None \notin Live /\ None \notin App

TypeOK ==
    /\ head \in Revision
    /\ live \in [Object -> Live \cup {None}]
    /\ app \in App \cup {None}
    /\ inventory \subseteq Result
    /\ last \in Run
    /\ mapper \subseteq Object
    /\ lock \in Worker \cup {None}
    /\ queued \in BOOLEAN
    /\ op \in [Worker -> Op]
    /\ everApplied \subseteq Object
    /\ disturbances \in 0..MaxDisturb

\* Only what the engine has applied is ever its own to prune
\* (models.GitOpsResource.Applied), in the table and in what operations hold.
OwnsOnlyWhatItApplied ==
    /\ AppliedIn(inventory) \subseteq everApplied
    /\ \A w \in Worker : AppliedIn(op[w].results) \cup AppliedIn(op[w].inv) \subseteq everApplied

\* A sync deletes an object only if the engine applied it and the commit being
\* synced has no manifest for it that the engine would apply.
PrunesOnlyItsOwn ==
    [][\A w \in Worker : PruneDelete(w) =>
          op[w].cut \in everApplied \ Targets(op[w])]_vars

\* An object the engine applied, that lives in the application's namespace and
\* still carries the tracking id, stays in the inventory, where prune finds it,
\* whenever no operation is under way (RecordInventory, compareApp).
Resting == lock = None
NothingOrphaned ==
    Resting /\ app # None =>
        \A o \in everApplied : Ns[o] = Home /\ CarriesID(o) => o \in AppliedIn(inventory)

\* When a sync with prune ends without a failure, nothing the application ever
\* put in the cluster is left there that the synced commit does not declare.
PruneLeavesNothing ==
    [][\A w \in Worker : Finish(w) /\ Prunes(op[w]) /\ ~op[w].failed =>
          \A o \in everApplied \ Declared(op[w].rev) :
              live[o] # None => live[o].id # Stamped(o)]_vars

\* A sync deletes only what the commit being synced does not declare at all.
PrunesOnlyUndeclared ==
    [][\A w \in Worker : PruneDelete(w) /\ op[w].kind # "cascade" =>
          op[w].cut \notin Declared(op[w].rev)]_vars

\* The cluster holds what the head of the branch declares.
Converged ==
    \A o \in Object : Tree[head][o] \in Content => live[o] = Desired(head, o)

\* With auto-sync, once pushes, hand edits and failures stop, the cluster comes
\* to hold what the branch declares and keeps it, as long as the application is
\* not deleted (PollGitOps).
AutoSyncConverges == <>[](app = None \/ Converged)
=============================================================================
