---------------------------- MODULE GitOpsProofs ----------------------------
(***************************************************************************)
(* Proofs about GitOps, for every set of objects, commits and settings,    *)
(* any number of operations at once and anything that may happen to them.  *)
(* GitOpsInv joins the typing with what an operation may hold at each of   *)
(* its steps (OpSafe): a step of one operation changes only its own entry  *)
(* of op, so it is enough to show that entry safe (OpsStaySafe).           *)
(*                                                                         *)
(* OrphanInv adds the accounts of what the engine owns: with the lock free *)
(* the inventory holds all of it, and the operation that has the lock      *)
(* carries what it is about to record (Accounted).  From it follow         *)
(* NothingOrphaned and PruneLeavesNothing, where reads do not fail and     *)
(* nobody forgets (Sheltered).                                             *)
(***************************************************************************)
EXTENDS GitOps, TLAPS

\* What an operation holds: a copy of the row while it needs one, results and
\* an inventory of objects the engine applied, targets still to apply, and
\* objects to prune that the engine applied and the commit does not declare.
OpSafe(x, ever) ==
    /\ x.pc \notin {"idle", "erase", "remove"} => x.copy \in App
    /\ AppliedIn(x.results) \subseteq ever
    /\ AppliedIn(x.inv) \subseteq ever
    /\ x.applied \subseteq ever
    /\ x.pc = "apply" => x.todo \subseteq Targets(x)
    /\ x.pc = "prune" => x.todo \subseteq ever \ Targets(x)
    /\ x.cut # None => x.pc = "prune" /\ x.cut \in ever \ Targets(x)

\* The inductive invariant.
GitOpsInv ==
    /\ TypeOK
    /\ AppliedIn(inventory) \subseteq everApplied
    /\ \A w \in Worker : OpSafe(op[w], everApplied)

-----------------------------------------------------------------------------
(* Facts about the operators of the engine.                                *)

\* An operation that is doing nothing is typed and safe.
LEMMA IdleSafe ==
    ASSUME NEW ever
    PROVE  Idle \in Op /\ OpSafe(Idle, ever)
<1>1. Idle \in Op
  BY DEF Idle, Op
<1>2. AppliedIn(Idle.results) = {} /\ AppliedIn(Idle.inv) = {}
  BY DEF Idle, AppliedIn
<1>3. QED
  BY <1>1, <1>2 DEF Idle, OpSafe

\* prepareTargets and what it refuses are objects.
LEMMA TargetsAreObjects ==
    ASSUME NEW x
    PROVE  Targets(x) \subseteq Object /\ Refused(x) \subseteq Object
BY DEF Targets, Refused, Declared

\* A target has a manifest the cluster can be given.
LEMMA TargetsAreDesirable ==
    ASSUME NEW x \in Op, NEW o \in Targets(x)
    PROVE  Desired(x.rev, o) \in Live
<1>1. x.rev \in Revision /\ o \in Object /\ Tree[x.rev][o] # Undeclared
        /\ Tree[x.rev][o] # Unserved
  BY DEF Targets, Declared, Op
<1>2. Tree[x.rev][o] \in Content
  BY <1>1, GitOpsAssumption
<1>3. QED
  BY <1>1, <1>2 DEF Desired, Live

\* compareApp returns typed results, and marks as applied only what the
\* inventory it was given marks.
LEMMA CompareKeepsOwnership ==
    ASSUME NEW x \in Op, NEW inv \in SUBSET Result, NEW unread, NEW refused
    PROVE  /\ compareApp(x, inv, unread, refused) \subseteq Result
           /\ AppliedIn(compareApp(x, inv, unread, refused)) \subseteq AppliedIn(inv)
<1>1. \A r, o, broken : TargetStatus(r, o, broken) \in Statuses
  BY DEF TargetStatus, Statuses
<1>2. Extraneous(x, inv, unread) \subseteq AppliedIn(inv)
  BY DEF Extraneous
<1>3. AppliedIn(inv) \subseteq Object
  BY DEF AppliedIn
<1>4. ASSUME NEW r \in compareApp(x, inv, unread, refused)
      PROVE  r \in Result /\ (r.applied => r.obj \in AppliedIn(inv))
  <2>1. CASE \E o \in Refused(x) : r = [obj |-> o, status |-> "Invalid", applied |-> FALSE]
    BY <2>1, TargetsAreObjects DEF Result, Statuses
  <2>2. CASE \E o \in Targets(x) :
               r = [obj |-> o, status |-> TargetStatus(x.rev, o, unread \cup refused),
                    applied |-> o \in AppliedIn(inv)]
    <3>1. PICK o \in Targets(x) :
               r = [obj |-> o, status |-> TargetStatus(x.rev, o, unread \cup refused),
                    applied |-> o \in AppliedIn(inv)]
      BY <2>2
    <3>2. TargetStatus(x.rev, o, unread \cup refused) \in Statuses
      BY <1>1
    <3>3. CASE o \in AppliedIn(inv)
      <4>1. r = [obj |-> o, status |-> TargetStatus(x.rev, o, unread \cup refused),
                 applied |-> TRUE]
        BY <3>1, <3>3
      <4>2. QED
        BY <3>2, <3>3, <4>1, TargetsAreObjects DEF Result
    <3>4. CASE o \notin AppliedIn(inv)
      <4>1. r = [obj |-> o, status |-> TargetStatus(x.rev, o, unread \cup refused),
                 applied |-> FALSE]
        <5>1. (o \in AppliedIn(inv)) = FALSE
          BY <3>4
        <5>2. QED
          BY <3>1, <5>1, Zenon
      <4>2. QED
        BY <3>2, <3>4, <4>1, TargetsAreObjects DEF Result
    <3>5. QED
      BY <3>3, <3>4
  <2>3. CASE \E o \in Extraneous(x, inv, unread) :
               r = [obj |-> o, status |-> "Extraneous", applied |-> TRUE]
    BY <2>3, <1>2, <1>3 DEF Result, Statuses
  <2>4. QED
    BY <1>4, <2>1, <2>2, <2>3 DEF compareApp
<1>5. QED
  BY <1>4 DEF AppliedIn

\* summarize returns a status an application can have.
LEMMA SummaryIsStatus ==
    ASSUME NEW results
    PROVE  summarize(results) \in {"Synced", "OutOfSync", "Unknown"}
BY DEF summarize

\* Recording a sync marks as applied what was, and what the sync applied.
LEMMA LearnedKeepsOwnership ==
    ASSUME NEW x \in Op, NEW inv \in SUBSET Result
    PROVE  /\ Learned(inv, x) \subseteq Result
           /\ AppliedIn(Learned(inv, x)) \subseteq AppliedIn(inv) \cup x.applied
<1>1. ASSUME NEW r \in Learned(inv, x)
      PROVE  r \in Result /\ (r.applied => r.obj \in AppliedIn(inv) \cup x.applied)
  <2>1. CASE \E y \in inv : r = [y EXCEPT !.applied = @ \/ y.obj \in x.applied]
    <3>1. PICK y \in inv : r = [y EXCEPT !.applied = @ \/ y.obj \in x.applied]
      BY <2>1
    <3>2. y \in Result
      BY <3>1
    <3>3. r.obj = y.obj /\ r.status = y.status /\ r.applied = (y.applied \/ y.obj \in x.applied)
      BY <3>1, <3>2 DEF Result
    <3>4. r \in Result
      BY <3>1, <3>2 DEF Result
    <3>5. QED
      BY <3>2, <3>3, <3>4 DEF AppliedIn, Result
  <2>2. CASE \E o \in x.applied : r = [obj |-> o, status |-> "Synced", applied |-> TRUE]
    BY <2>2 DEF Result, Statuses, Op
  <2>3. QED
    BY <1>1, <2>1, <2>2 DEF Learned
<1>2. QED
  BY <1>1 DEF AppliedIn

\* Removing an object, and what goes with it, leaves the cluster typed.
LEMMA WithoutTyped ==
    ASSUME live \in [Object -> Live \cup {None}], NEW o
    PROVE  Without(o) \in [Object -> Live \cup {None}]
BY DEF Without

\* A step that changes one operation keeps all of them safe if the new entry is.
LEMMA OpsStaySafe ==
    ASSUME GitOpsInv, NEW w \in Worker, NEW x, Becomes(w, x),
           everApplied \subseteq everApplied', x \in Op, OpSafe(x, everApplied')
    PROVE  op' \in [Worker -> Op] /\ \A v \in Worker : OpSafe(op'[v], everApplied')
<1>1. op \in [Worker -> Op]
  BY DEF GitOpsInv, TypeOK
<1>2. op' \in [Worker -> Op] /\ op'[w] = x /\ \A v \in Worker \ {w} : op'[v] = op[v]
  BY <1>1 DEF Becomes
<1>3. ASSUME NEW v \in Worker, v # w
      PROVE  OpSafe(op[v], everApplied')
  <2>1. OpSafe(op[v], everApplied)
    BY DEF GitOpsInv
  <2>2. QED
    BY <2>1 DEF OpSafe
<1>4. QED
  BY <1>2, <1>3

\* The bound on what happens is respected.
LEMMA DisturbancesBounded ==
    ASSUME TypeOK, Fine \/ \E e \in Events : Happens(e)
    PROVE  disturbances' \in 0..MaxDisturb
BY GitOpsAssumption DEF TypeOK, Fine, Happens

\* What a step of an operation has to keep.
LEMMA StepKeeps ==
    ASSUME GitOpsInv, NEW w \in Worker, NEW x, Becomes(w, x),
           x \in Op, OpSafe(x, everApplied'),
           head' = head, live' \in [Object -> Live \cup {None}],
           app' \in App \cup {None},
           inventory' \subseteq Result, AppliedIn(inventory') \subseteq everApplied',
           last' \in Run, mapper' \subseteq Object, lock' \in Worker \cup {None},
           queued' \in BOOLEAN,
           everApplied \subseteq everApplied', everApplied' \subseteq Object,
           Fine \/ \E e \in Events : Happens(e)
    PROVE  GitOpsInv'
<1>1. op' \in [Worker -> Op] /\ \A v \in Worker : OpSafe(op'[v], everApplied')
  BY OpsStaySafe
<1>2. disturbances' \in 0..MaxDisturb
  BY DisturbancesBounded DEF GitOpsInv
<1>3. TypeOK'
  BY <1>1, <1>2 DEF GitOpsInv, TypeOK
<1>4. QED
  BY <1>1, <1>3 DEF GitOpsInv

\* Loading the row: Poll, Request, RequestDelete, Queue and Edit.
LEMMA StartKeeps ==
    ASSUME GitOpsInv, NEW w \in Worker, Start(w)
    PROVE  GitOpsInv'
<1>1. ASSUME NEW pc \in {"waiting", "saving"}, NEW job \in {"none", "refresh", "sync", "delete"},
             NEW kind \in {"poll", "queue", "refresh", "sync", "update", "delete", "cascade"},
             app # None
      PROVE  /\ [Idle EXCEPT !.pc = pc, !.kind = kind, !.job = job, !.copy = app] \in Op
             /\ OpSafe([Idle EXCEPT !.pc = pc, !.kind = kind, !.job = job, !.copy = app],
                       everApplied)
  <2>1. app \in App
    BY <1>1 DEF GitOpsInv, TypeOK
  <2>2. Idle \in Op /\ OpSafe(Idle, everApplied)
    BY IdleSafe
  <2> DEFINE y == [Idle EXCEPT !.pc = pc, !.kind = kind, !.job = job, !.copy = app]
  <2>3. y \in Op
    BY <2>1, <2>2 DEF Op
  <2>4. y.pc = pc /\ y.copy = app /\ y.results = {} /\ y.inv = {} /\ y.applied = {} /\ y.cut = None
    BY DEF Idle
  <2>5. AppliedIn({}) = {}
    BY DEF AppliedIn
  <2>6. OpSafe(y, everApplied)
    <3> HIDE DEF y
    <3> QED
      BY <2>1, <2>4, <2>5 DEF OpSafe
  <2>7. QED
    BY <2>3, <2>6
<1> DEFINE Entry(pc, kind, job) ==
              [Idle EXCEPT !.pc = pc, !.kind = kind, !.job = job, !.copy = app]
<1>2. /\ UNCHANGED <<world, mapper, dbVars, lock>> /\ queued' \in BOOLEAN
      /\ Fine \/ \E e \in Events : Happens(e)
      /\ app # None
      /\ \E pc \in {"waiting", "saving"}, job \in {"none", "refresh", "sync", "delete"},
            kind \in {"poll", "queue", "refresh", "sync", "update", "delete", "cascade"} :
              Becomes(w, Entry(pc, kind, job))
  <2>1. CASE Poll(w)
    BY <2>1 DEF Poll, Begin, GitOpsInv, TypeOK
  <2>2. CASE Request(w)
    BY <2>2 DEF Request, Called, Begin, GitOpsInv, TypeOK
  <2>3. CASE RequestDelete(w)
    BY <2>3 DEF RequestDelete, Called, Begin, Happens, GitOpsInv, TypeOK
  <2>4. CASE Queue(w)
    BY <2>4 DEF Queue, Called, Begin
  <2>5. CASE Edit(w)
    BY <2>5 DEF Edit, Called, Begin, Happens, GitOpsInv, TypeOK
  <2>6. QED
    BY <2>1, <2>2, <2>3, <2>4, <2>5 DEF Start
<1>3. PICK pc \in {"waiting", "saving"}, job \in {"none", "refresh", "sync", "delete"},
           kind \in {"poll", "queue", "refresh", "sync", "update", "delete", "cascade"} :
              Becomes(w, Entry(pc, kind, job))
  BY <1>2
<1>4. Entry(pc, kind, job) \in Op /\ OpSafe(Entry(pc, kind, job), everApplied)
  <2>1. app # None
    BY <1>2
  <2>2. QED
    BY <2>1, <1>1, Zenon
<1>5. QED
  <2> HIDE DEF Entry
  <2> QED
    BY <1>2, <1>3, <1>4, StepKeeps DEF world, dbVars, GitOpsInv, TypeOK

-----------------------------------------------------------------------------
(* One lemma per step of an operation.                                     *)

\* What is declared, and can be applied, depends on the commit, the copy of the
\* row and the kinds that are known.
LEMMA SameTargets ==
    ASSUME NEW x, NEW y, x.rev = y.rev, x.copy = y.copy, x.known = y.known
    PROVE  Targets(x) = Targets(y)
BY DEF Targets

\* What an operation holds is typed and safe.
LEMMA EntrySafe ==
    ASSUME GitOpsInv, NEW w \in Worker
    PROVE  op[w] \in Op /\ OpSafe(op[w], everApplied)
BY DEF GitOpsInv, TypeOK

\* Save writes a typed row, and queues a refresh with it.
LEMMA SaveKeeps ==
    ASSUME GitOpsInv, NEW w \in Worker, Save(w)
    PROVE  GitOpsInv'
<1>1. PICK s \in Settings :
          /\ app' = [op[w].copy EXCEPT !.set = s]
          /\ Becomes(w, IF queued THEN Idle
                        ELSE [Idle EXCEPT !.pc = "waiting", !.kind = "queue",
                                          !.job = "refresh", !.copy = app'])
  BY DEF Save
<1>2. op[w].copy \in App
  BY EntrySafe DEF Save, OpSafe
<1>3. app' \in App
  BY <1>1, <1>2 DEF App
<1> DEFINE y == [Idle EXCEPT !.pc = "waiting", !.kind = "queue", !.job = "refresh", !.copy = app']
<1>4. Idle \in Op /\ OpSafe(Idle, everApplied)
  BY IdleSafe
<1>5. y \in Op
  BY <1>3, <1>4 DEF Op
<1>6. y.pc = "waiting" /\ y.copy = app' /\ y.results = {} /\ y.inv = {} /\ y.applied = {}
        /\ y.cut = None
  BY DEF Idle
<1>7. AppliedIn({}) = {}
  BY DEF AppliedIn
<1>8. Becomes(w, IF queued THEN Idle ELSE y)
  BY <1>1
<1> HIDE DEF y
<1>9. OpSafe(y, everApplied)
  BY <1>3, <1>6, <1>7 DEF OpSafe
<1>10. QED
  BY <1>3, <1>4, <1>5, <1>8, <1>9, StepKeeps DEF Save, world, GitOpsInv, TypeOK

\* Taking the lock.
LEMMA LockKeeps ==
    ASSUME GitOpsInv, NEW w \in Worker, Lock(w)
    PROVE  GitOpsInv'
<1> DEFINE x == [op[w] EXCEPT !.pc = IF op[w].kind = "cascade" THEN "uncascaded"
                                     ELSE IF op[w].kind = "delete" THEN "erase"
                                     ELSE "open"]
<1>1. op[w] \in Op /\ OpSafe(op[w], everApplied) /\ op[w].pc = "waiting"
  BY EntrySafe DEF Lock
<1>2. x \in Op
  BY <1>1 DEF Op
<1>3. OpSafe(x, everApplied)
  BY <1>1 DEF OpSafe, Op
<1>4. last' \in Run /\ lock' = w /\ queued' \in BOOLEAN
  BY DEF Lock, GitOpsInv, TypeOK, Run
<1>5. Becomes(w, x) /\ UNCHANGED <<world, mapper, app, inventory>> /\ Fine
  BY DEF Lock
<1> HIDE DEF x
<1>6. QED
  BY <1>2, <1>3, <1>4, <1>5, StepKeeps DEF world, GitOpsInv, TypeOK

\* A workspace that cannot be opened ends the operation.
LEMMA OpenFailsKeeps ==
    ASSUME GitOpsInv, NEW w \in Worker, OpenFails(w)
    PROVE  GitOpsInv'
<1>1. app' \in App \cup {None}
  BY DEF OpenFails, Updated, GitOpsInv, TypeOK, App
<1>2. last' \in Run
  BY DEF OpenFails, GitOpsInv, TypeOK, Run
<1>3. QED
  BY <1>1, <1>2, IdleSafe, StepKeeps DEF OpenFails, Happens, world, GitOpsInv, TypeOK

\* Opening a workspace: the targets of the head are what is left to apply.
LEMMA OpenKeeps ==
    ASSUME GitOpsInv, NEW w \in Worker, Open(w)
    PROVE  GitOpsInv'
<1> DEFINE x == [op[w] EXCEPT !.rev = head, !.known = mapper']
           y == [x EXCEPT !.pc = "compare"]
           z == [x EXCEPT !.pc = "apply", !.inv = inventory, !.todo = Targets(x),
                          !.failed = Refused(x) # {}]
<1>1. op[w] \in Op /\ OpSafe(op[w], everApplied) /\ op[w].pc = "open"
  BY EntrySafe DEF Open
<1>2. mapper' \subseteq Object
  BY DEF Open, CachedOrFresh, Served, GitOpsInv, TypeOK
<1>3. x \in Op
  BY <1>1, <1>2 DEF Op, GitOpsInv, TypeOK
<1>4. y \in Op /\ OpSafe(y, everApplied)
  <2>1. y \in Op
    BY <1>3 DEF Op
  <2>2. y.pc = "compare" /\ y.copy = op[w].copy /\ y.results = op[w].results
          /\ y.inv = op[w].inv /\ y.applied = op[w].applied /\ y.cut = op[w].cut
    BY <1>1 DEF Op
  <2>3. QED
    <3> HIDE DEF y
    <3> QED
      BY <1>1, <2>1, <2>2 DEF OpSafe
<1>5. z \in Op /\ OpSafe(z, everApplied)
  <2>1. (Refused(x) # {}) \in BOOLEAN /\ Targets(x) \subseteq Object
    BY TargetsAreObjects
  <2>2. z \in Op
    BY <1>3, <2>1 DEF Op, GitOpsInv, TypeOK
  <2>3. z.pc = "apply" /\ z.copy = op[w].copy /\ z.results = op[w].results
          /\ z.inv = inventory /\ z.applied = op[w].applied /\ z.cut = op[w].cut
          /\ z.todo = Targets(x) /\ z.rev = x.rev /\ z.copy = x.copy /\ z.known = x.known
    BY <1>1 DEF Op
  <2>4. Targets(z) = Targets(x)
    BY <2>3, SameTargets
  <2>5. QED
    <3> HIDE DEF z, x
    <3> QED
      BY <1>1, <2>2, <2>3, <2>4 DEF OpSafe, GitOpsInv
<1>6. Becomes(w, IF x.job = "refresh" THEN y ELSE z) /\ UNCHANGED <<world, dbVars, lock, queued>>
        /\ (Fine \/ \E e \in Events : Happens(e))
  BY DEF Open, Happens
<1> HIDE DEF x, y, z
<1>7. QED
  BY <1>2, <1>4, <1>5, <1>6, StepKeeps DEF world, dbVars, GitOpsInv, TypeOK

\* A comparison: its results claim nothing that was not applied.
LEMMA CompareKeeps ==
    ASSUME GitOpsInv, NEW w \in Worker, Compare(w)
    PROVE  GitOpsInv'
<1>1. PICK unread \in SUBSET Object, refused \in SUBSET Object :
          Becomes(w, [op[w] EXCEPT !.pc = "store",
                          !.results = compareApp(op[w], inventory, unread, refused)])
  BY DEF Compare
<1> DEFINE res == compareApp(op[w], inventory, unread, refused)
           x == [op[w] EXCEPT !.pc = "store", !.results = res]
<1>2. op[w] \in Op /\ OpSafe(op[w], everApplied) /\ op[w].pc = "compare"
  BY EntrySafe DEF Compare
<1>3. inventory \subseteq Result /\ AppliedIn(inventory) \subseteq everApplied
  BY DEF GitOpsInv, TypeOK
<1>4. res \subseteq Result /\ AppliedIn(res) \subseteq everApplied
  BY <1>2, <1>3, CompareKeepsOwnership
<1>5. Becomes(w, x)
  BY <1>1
<1> HIDE DEF res
<1>6. x \in Op
  BY <1>2, <1>4 DEF Op
<1>7. x.pc = "store" /\ x.copy = op[w].copy /\ x.results = res /\ x.inv = op[w].inv
        /\ x.applied = op[w].applied /\ x.cut = op[w].cut
  BY <1>2 DEF Op
<1> HIDE DEF x
<1>8. OpSafe(x, everApplied)
  BY <1>2, <1>4, <1>7 DEF OpSafe
<1>9. inventory' \subseteq Result /\ AppliedIn(inventory') \subseteq everApplied
  BY DEF Compare, AppliedIn
<1>10. UNCHANGED <<world, mapper, app, last, lock, queued>>
         /\ (Fine \/ \E e \in Events : Happens(e))
  BY DEF Compare, Happens
<1>11. QED
  BY <1>5, <1>6, <1>8, <1>9, <1>10, StepKeeps DEF world, GitOpsInv, TypeOK

\* Storing the results of a comparison.
LEMMA StoreKeeps ==
    ASSUME GitOpsInv, NEW w \in Worker, Store(w)
    PROVE  GitOpsInv'
<1> DEFINE status == summarize(op[w].results)
           y == [Idle EXCEPT !.pc = "decide", !.kind = op[w].kind, !.copy =
                    [op[w].copy EXCEPT !.revision = op[w].rev, !.status = status]]
<1>1. op[w] \in Op /\ OpSafe(op[w], everApplied) /\ op[w].pc = "store"
  BY EntrySafe DEF Store
<1>2. status \in {"Synced", "OutOfSync", "Unknown"} /\ op[w].rev \in Revision \cup {None}
        /\ op[w].copy \in App
  BY <1>1, SummaryIsStatus DEF OpSafe, Op
<1>3. app' = Updated([app EXCEPT !.revision = op[w].rev, !.status = status])
        /\ inventory' = op[w].results /\ lock' = None
        /\ (Becomes(w, y) \/ Becomes(w, Idle))
        /\ UNCHANGED <<world, mapper, last, queued>> /\ Fine
  BY DEF Store
<1> HIDE DEF status
<1>4. app' \in App \cup {None}
  BY <1>2, <1>3 DEF Updated, GitOpsInv, TypeOK, App
<1>5. [op[w].copy EXCEPT !.revision = op[w].rev, !.status = status] \in App
  BY <1>2 DEF App
<1>6. Idle \in Op /\ OpSafe(Idle, everApplied)
  BY IdleSafe
<1>7. y \in Op
  BY <1>1, <1>5, <1>6 DEF Op
<1>8. y.pc = "decide" /\ y.copy \in App /\ y.results = {} /\ y.inv = {} /\ y.applied = {}
        /\ y.cut = None
  BY <1>5 DEF Idle
<1> HIDE DEF y
<1>9. OpSafe(y, everApplied)
  BY <1>8 DEF OpSafe, AppliedIn
<1>10. inventory' \subseteq Result /\ AppliedIn(inventory') \subseteq everApplied
  BY <1>1, <1>3 DEF OpSafe, Op
<1>11. QED
  BY <1>3, <1>4, <1>6, <1>7, <1>9, <1>10, StepKeeps DEF world, GitOpsInv, TypeOK

\* Deciding whether to sync.
LEMMA DecideKeeps ==
    ASSUME GitOpsInv, NEW w \in Worker, Decide(w)
    PROVE  GitOpsInv'
<1> DEFINE x == [op[w] EXCEPT !.pc = "waiting", !.job = "sync"]
<1>1. op[w] \in Op /\ OpSafe(op[w], everApplied) /\ op[w].pc = "decide"
  BY EntrySafe DEF Decide
<1>2. x \in Op /\ OpSafe(x, everApplied)
  BY <1>1 DEF Op, OpSafe
<1>3. (Becomes(w, x) \/ Becomes(w, Idle)) /\ UNCHANGED <<world, mapper, dbVars, lock, queued>>
        /\ Fine
  BY DEF Decide
<1> HIDE DEF x
<1>4. QED
  BY <1>2, <1>3, IdleSafe, StepKeeps DEF world, dbVars, GitOpsInv, TypeOK

\* Applying an object, or failing to.
LEMMA ApplyKeeps ==
    ASSUME GitOpsInv, NEW w \in Worker, Apply(w)
    PROVE  GitOpsInv'
<1>1. op[w] \in Op /\ OpSafe(op[w], everApplied) /\ op[w].pc = "apply"
  BY EntrySafe DEF Apply
<1>2. PICK o \in First(op[w].todo) :
          \/ /\ live' = [live EXCEPT ![o] = Desired(op[w].rev, o)]
             /\ everApplied' = everApplied \cup {o}
             /\ Becomes(w, [op[w] EXCEPT !.todo = @ \ {o}, !.applied = @ \cup {o}])
             /\ Fine
          \/ /\ Fine \/ Happens("apply")
             /\ Becomes(w, [op[w] EXCEPT !.todo = @ \ {o}, !.failed = TRUE])
             /\ UNCHANGED <<live, everApplied>>
  BY DEF Apply
<1>3. o \in Targets(op[w]) /\ o \in Object
  BY <1>1, <1>2, TargetsAreObjects DEF First, OpSafe
<1>4. UNCHANGED <<head, mapper, dbVars, lock, queued>>
  BY DEF Apply
<1>5. CASE /\ live' = [live EXCEPT ![o] = Desired(op[w].rev, o)]
           /\ everApplied' = everApplied \cup {o}
           /\ Becomes(w, [op[w] EXCEPT !.todo = @ \ {o}, !.applied = @ \cup {o}])
           /\ Fine
  <2> DEFINE x == [op[w] EXCEPT !.todo = @ \ {o}, !.applied = @ \cup {o}]
  <2>1. x \in Op
    BY <1>1, <1>3 DEF Op
  <2>2. x.pc = "apply" /\ x.copy = op[w].copy /\ x.results = op[w].results /\ x.inv = op[w].inv
          /\ x.applied = op[w].applied \cup {o} /\ x.cut = op[w].cut
          /\ x.todo \subseteq op[w].todo /\ x.rev = op[w].rev /\ x.known = op[w].known
    BY <1>1 DEF Op
  <2>3. Becomes(w, x)
    BY <1>5
  <2> HIDE DEF x
  <2>4. Targets(x) = Targets(op[w])
    BY <2>2, SameTargets
  <2>5. OpSafe(x, everApplied')
    BY <1>1, <1>5, <2>2, <2>4 DEF OpSafe
  <2>6. live' \in [Object -> Live \cup {None}]
    BY <1>1, <1>3, <1>5, TargetsAreDesirable DEF GitOpsInv, TypeOK
  <2>7. QED
    BY <1>3, <1>4, <1>5, <2>1, <2>3, <2>5, <2>6, StepKeeps DEF dbVars, GitOpsInv, TypeOK
<1>6. CASE /\ Fine \/ Happens("apply")
           /\ Becomes(w, [op[w] EXCEPT !.todo = @ \ {o}, !.failed = TRUE])
           /\ UNCHANGED <<live, everApplied>>
  <2> DEFINE x == [op[w] EXCEPT !.todo = @ \ {o}, !.failed = TRUE]
  <2>1. x \in Op
    BY <1>1 DEF Op
  <2>2. x.pc = "apply" /\ x.copy = op[w].copy /\ x.results = op[w].results /\ x.inv = op[w].inv
          /\ x.applied = op[w].applied /\ x.cut = op[w].cut
          /\ x.todo \subseteq op[w].todo /\ x.rev = op[w].rev /\ x.known = op[w].known
    BY <1>1 DEF Op
  <2>3. Becomes(w, x)
    BY <1>6
  <2> HIDE DEF x
  <2>4. Targets(x) = Targets(op[w])
    BY <2>2, SameTargets
  <2>5. OpSafe(x, everApplied')
    BY <1>1, <1>6, <2>2, <2>4 DEF OpSafe
  <2>6. Fine \/ \E e \in Events : Happens(e)
    BY <1>6 DEF Happens
  <2>7. QED
    BY <1>4, <1>6, <2>1, <2>3, <2>5, <2>6, StepKeeps DEF dbVars, GitOpsInv, TypeOK
<1>7. QED
  BY <1>2, <1>5, <1>6

\* The objects to prune were applied, and the commit does not declare them.
LEMMA CandidatesSafe ==
    ASSUME NEW x, NEW ever, AppliedIn(x.inv) \subseteq ever
    PROVE  PruneCandidates(x) \subseteq ever \ Targets(x) /\ PruneCandidates(x) \subseteq Object
BY DEF PruneCandidates, AppliedIn

\* From applying to pruning.
LEMMA AppliedKeeps ==
    ASSUME GitOpsInv, NEW w \in Worker, Applied(w)
    PROVE  GitOpsInv'
<1> DEFINE x == [op[w] EXCEPT !.pc = "prune", !.todo = PruneCandidates(op[w])]
<1>1. op[w] \in Op /\ OpSafe(op[w], everApplied) /\ op[w].pc = "apply"
  BY EntrySafe DEF Applied
<1>2. PruneCandidates(op[w]) \subseteq everApplied \ Targets(op[w])
        /\ PruneCandidates(op[w]) \subseteq Object
  BY <1>1, CandidatesSafe DEF OpSafe
<1>3. x \in Op
  BY <1>1, <1>2 DEF Op
<1>4. x.pc = "prune" /\ x.copy = op[w].copy /\ x.results = op[w].results /\ x.inv = op[w].inv
        /\ x.applied = op[w].applied /\ x.cut = op[w].cut /\ x.rev = op[w].rev
        /\ x.known = op[w].known /\ x.todo = PruneCandidates(op[w])
  BY <1>1 DEF Op
<1>5. Becomes(w, x) /\ UNCHANGED <<world, mapper, dbVars, lock, queued>> /\ Fine
  BY DEF Applied
<1> HIDE DEF x
<1>6. Targets(x) = Targets(op[w])
  BY <1>4, SameTargets
<1>7. OpSafe(x, everApplied)
  BY <1>1, <1>2, <1>4, <1>6 DEF OpSafe
<1>8. QED
  BY <1>3, <1>5, <1>7, StepKeeps DEF world, dbVars, GitOpsInv, TypeOK

\* What pruning does to an operation: it takes an object off the list, and may
\* hold it for the Delete.
LEMMA PruningSafe ==
    ASSUME NEW x \in Op, NEW y \in Op, NEW ever, OpSafe(x, ever), x.pc = "prune",
           y.pc = "prune", y.copy = x.copy, y.results = x.results, y.inv = x.inv,
           y.applied = x.applied, y.rev = x.rev, y.known = x.known,
           y.todo \subseteq x.todo, y.cut \in {None, x.cut} \cup x.todo
    PROVE  OpSafe(y, ever)
<1>1. Targets(y) = Targets(x)
  BY SameTargets
<1>2. QED
  BY <1>1 DEF OpSafe

\* Updates of an operation that keep its type.
LEMMA PruningTyped ==
    ASSUME NEW x \in Op, NEW T \in SUBSET Object, NEW P \in SUBSET Object,
           NEW c \in Object \cup {None}
    PROVE  /\ [x EXCEPT !.todo = T, !.pruned = P] \in Op
           /\ [x EXCEPT !.todo = T, !.cut = c] \in Op
<1>1. [x EXCEPT !.todo = T, !.pruned = P] \in Op
  BY DEF Op
<1>2. [x EXCEPT !.todo = T, !.cut = c] \in Op
  BY DEF Op
<1>3. QED
  BY <1>1, <1>2

\* Looking at an object to prune.
LEMMA PruneLookKeeps ==
    ASSUME GitOpsInv, NEW w \in Worker, PruneLook(w)
    PROVE  GitOpsInv'
<1>1. op[w] \in Op /\ OpSafe(op[w], everApplied) /\ op[w].pc = "prune" /\ op[w].cut = None
  BY EntrySafe DEF PruneLook
<1>2. PICK o \in op[w].todo :
          \/ Becomes(w, [op[w] EXCEPT !.todo = @ \ {o}, !.pruned = @ \cup {o}])
          \/ Becomes(w, [op[w] EXCEPT !.todo = @ \ {o}])
          \/ Becomes(w, [op[w] EXCEPT !.todo = @ \ {o}, !.cut = o])
  BY DEF PruneLook
<1> DEFINE forget == [op[w] EXCEPT !.todo = @ \ {o}, !.pruned = @ \cup {o}]
           keep == [op[w] EXCEPT !.todo = @ \ {o}]
           mark == [op[w] EXCEPT !.todo = @ \ {o}, !.cut = o]
<1>3. UNCHANGED <<world, mapper, dbVars, lock, queued>>
        /\ (Fine \/ \E e \in Events : Happens(e))
  BY DEF PruneLook, Happens
<1>4. op[w].todo \ {o} \in SUBSET Object /\ op[w].pruned \cup {o} \in SUBSET Object
        /\ o \in Object \cup {None}
  BY <1>1, <1>2 DEF Op
<1>5. forget \in Op /\ OpSafe(forget, everApplied)
  <2>1. forget \in Op
    BY <1>1, <1>4, PruningTyped
  <2>2. forget.pc = "prune" /\ forget.copy = op[w].copy /\ forget.results = op[w].results
          /\ forget.inv = op[w].inv /\ forget.applied = op[w].applied
          /\ forget.rev = op[w].rev /\ forget.known = op[w].known
          /\ forget.todo \subseteq op[w].todo /\ forget.cut = None
    BY <1>1 DEF Op
  <2> HIDE DEF forget
  <2>3. QED
    BY <1>1, <2>1, <2>2, PruningSafe
<1>6. keep \in Op /\ OpSafe(keep, everApplied)
  <2>1. keep \in Op
    BY <1>1, <1>4 DEF Op
  <2>2. keep.pc = "prune" /\ keep.copy = op[w].copy /\ keep.results = op[w].results
          /\ keep.inv = op[w].inv /\ keep.applied = op[w].applied
          /\ keep.rev = op[w].rev /\ keep.known = op[w].known
          /\ keep.todo \subseteq op[w].todo /\ keep.cut = None
    BY <1>1 DEF Op
  <2> HIDE DEF keep
  <2>3. QED
    BY <1>1, <2>1, <2>2, PruningSafe
<1>7. mark \in Op /\ OpSafe(mark, everApplied)
  <2>1. mark \in Op
    BY <1>1, <1>4, PruningTyped
  <2>2. mark.pc = "prune" /\ mark.copy = op[w].copy /\ mark.results = op[w].results
          /\ mark.inv = op[w].inv /\ mark.applied = op[w].applied
          /\ mark.rev = op[w].rev /\ mark.known = op[w].known
          /\ mark.todo \subseteq op[w].todo /\ mark.cut = o
    BY <1>1 DEF Op
  <2> HIDE DEF mark
  <2>3. QED
    BY <1>1, <1>2, <2>1, <2>2, PruningSafe
<1>8. \E x \in Op : OpSafe(x, everApplied) /\ Becomes(w, x)
  <2>1. Becomes(w, forget) \/ Becomes(w, keep) \/ Becomes(w, mark)
    BY <1>2
  <2> HIDE DEF forget, keep, mark
  <2>2. QED
    BY <2>1, <1>5, <1>6, <1>7
<1>9. QED
  BY <1>3, <1>8, StepKeeps DEF world, dbVars, GitOpsInv, TypeOK

\* Deleting it, or failing to.
LEMMA PruneDeleteKeeps ==
    ASSUME GitOpsInv, NEW w \in Worker, PruneDelete(w)
    PROVE  GitOpsInv'
<1> DEFINE done == [op[w] EXCEPT !.cut = None, !.pruned = @ \cup {op[w].cut}]
           lost == [op[w] EXCEPT !.cut = None, !.failed = TRUE]
<1>1. op[w] \in Op /\ OpSafe(op[w], everApplied) /\ op[w].cut # None
  BY EntrySafe DEF PruneDelete
<1>2. op[w].pc = "prune" /\ op[w].cut \in Object
  BY <1>1 DEF OpSafe, Op
<1>3. done \in Op /\ OpSafe(done, everApplied)
  <2>1. done \in Op
    BY <1>1, <1>2 DEF Op
  <2>2. done.pc = "prune" /\ done.copy = op[w].copy /\ done.results = op[w].results
          /\ done.inv = op[w].inv /\ done.applied = op[w].applied /\ done.rev = op[w].rev
          /\ done.known = op[w].known /\ done.todo = op[w].todo /\ done.cut = None
    BY <1>1, <1>2 DEF Op
  <2> HIDE DEF done
  <2>3. QED
    BY <1>1, <1>2, <2>1, <2>2, PruningSafe
<1>4. lost \in Op /\ OpSafe(lost, everApplied)
  <2>1. lost \in Op
    BY <1>1, <1>2 DEF Op
  <2>2. lost.pc = "prune" /\ lost.copy = op[w].copy /\ lost.results = op[w].results
          /\ lost.inv = op[w].inv /\ lost.applied = op[w].applied /\ lost.rev = op[w].rev
          /\ lost.known = op[w].known /\ lost.todo = op[w].todo /\ lost.cut = None
    BY <1>1, <1>2 DEF Op
  <2> HIDE DEF lost
  <2>3. QED
    BY <1>1, <1>2, <2>1, <2>2, PruningSafe
<1>5. /\ Becomes(w, done) \/ Becomes(w, lost)
      /\ live' = Without(op[w].cut) \/ live' = live
      /\ UNCHANGED <<head, mapper, everApplied, dbVars, lock, queued>>
      /\ Fine \/ \E e \in Events : Happens(e)
  BY DEF PruneDelete, Happens
<1>6. live' \in [Object -> Live \cup {None}]
  BY <1>5, WithoutTyped DEF GitOpsInv, TypeOK
<1> HIDE DEF done, lost
<1>7. QED
  BY <1>3, <1>4, <1>5, <1>6, StepKeeps DEF dbVars, GitOpsInv, TypeOK

\* Applying everything again with a fresh mapper.
LEMMA ApplyAgainKeeps ==
    ASSUME GitOpsInv, NEW w \in Worker, ApplyAgain(w)
    PROVE  GitOpsInv'
<1> DEFINE x == [op[w] EXCEPT !.known = Served]
           y == [x EXCEPT !.pc = "apply", !.again = TRUE, !.todo = Targets(x),
                          !.applied = {}, !.pruned = {}, !.failed = Refused(x) # {}]
<1>1. op[w] \in Op /\ OpSafe(op[w], everApplied) /\ op[w].pc = "prune" /\ op[w].cut = None
  BY EntrySafe DEF ApplyAgain, PruneOver
<1>2. Served \subseteq Object
  BY DEF Served
<1>3. x \in Op
  BY <1>1, <1>2 DEF Op
<1>4. (Refused(x) # {}) \in BOOLEAN /\ Targets(x) \subseteq Object
  BY TargetsAreObjects
<1>5. y \in Op
  BY <1>3, <1>4 DEF Op
<1>6. y.pc = "apply" /\ y.copy = op[w].copy /\ y.results = op[w].results /\ y.inv = op[w].inv
        /\ y.applied = {} /\ y.cut = None /\ y.todo = Targets(x)
        /\ y.rev = x.rev /\ y.copy = x.copy /\ y.known = x.known
  BY <1>1 DEF Op
<1>7. Becomes(w, y) /\ mapper' = Served /\ UNCHANGED <<world, dbVars, lock, queued>> /\ Fine
  BY DEF ApplyAgain
<1> HIDE DEF x, y
<1>8. Targets(y) = Targets(x)
  BY <1>6, SameTargets
<1>9. OpSafe(y, everApplied)
  BY <1>1, <1>6, <1>8 DEF OpSafe
<1>10. QED
  BY <1>2, <1>5, <1>7, <1>9, StepKeeps DEF world, dbVars, GitOpsInv, TypeOK

\* Recording what was applied and pruned.
LEMMA RecordInventoryKeeps ==
    ASSUME GitOpsInv, NEW w \in Worker, RecordInventory(w)
    PROVE  GitOpsInv'
<1> DEFINE x == [op[w] EXCEPT !.pc = "finish"]
<1>1. op[w] \in Op /\ OpSafe(op[w], everApplied) /\ op[w].pc = "prune" /\ op[w].cut = None
  BY EntrySafe DEF RecordInventory, PruneOver
<1>2. x \in Op /\ OpSafe(x, everApplied)
  BY <1>1 DEF Op, OpSafe
<1>3. /\ Becomes(w, x) /\ inventory' = Learned(inventory, op[w])
      /\ UNCHANGED <<world, mapper, app, last, lock, queued>>
      /\ Fine \/ \E e \in Events : Happens(e)
  BY DEF RecordInventory, Happens
<1>4. inventory' \subseteq Result
        /\ AppliedIn(inventory') \subseteq AppliedIn(inventory) \cup op[w].applied
  BY <1>1, <1>3, LearnedKeepsOwnership DEF GitOpsInv, TypeOK
<1>5. AppliedIn(inventory') \subseteq everApplied
  BY <1>1, <1>4 DEF GitOpsInv, OpSafe
<1> HIDE DEF x
<1>6. QED
  BY <1>2, <1>3, <1>4, <1>5, StepKeeps DEF world, GitOpsInv, TypeOK

\* Closing the run of a sync.
LEMMA FinishKeeps ==
    ASSUME GitOpsInv, NEW w \in Worker, Finish(w)
    PROVE  GitOpsInv'
<1> DEFINE x == [op[w] EXCEPT !.pc = "compare", !.inv = {}, !.applied = {},
                              !.pruned = {}, !.failed = FALSE, !.again = FALSE]
<1>1. op[w] \in Op /\ OpSafe(op[w], everApplied) /\ op[w].pc = "finish"
  BY EntrySafe DEF Finish
<1>2. x \in Op
  BY <1>1 DEF Op
<1>3. x.pc = "compare" /\ x.copy = op[w].copy /\ x.results = op[w].results /\ x.inv = {}
        /\ x.applied = {} /\ x.cut = op[w].cut
  BY <1>1 DEF Op
<1>4. Becomes(w, x)
  BY DEF Finish
<1> HIDE DEF x
<1>5. OpSafe(x, everApplied)
  BY <1>1, <1>3 DEF OpSafe, AppliedIn
<1>6. op[w].rev \in Revision \cup {None}
  BY <1>1 DEF Op
<1>7. last' \in Run
  BY <1>6 DEF Finish, GitOpsInv, TypeOK, Run
<1>8. app' \in App \cup {None}
  BY <1>6 DEF Finish, Updated, GitOpsInv, TypeOK, App
<1>9. QED
  BY <1>2, <1>4, <1>5, <1>7, <1>8, StepKeeps DEF Finish, world, GitOpsInv, TypeOK

\* Starting a cascade, or going on without one.
LEMMA CascadeKeeps ==
    ASSUME GitOpsInv, NEW w \in Worker, Cascade(w)
    PROVE  GitOpsInv'
<1> DEFINE x == [op[w] EXCEPT !.known = mapper', !.inv = inventory]
           y == [x EXCEPT !.pc = "prune", !.todo = PruneCandidates(x)]
           z == [op[w] EXCEPT !.pc = "erase"]
<1>1. op[w] \in Op /\ OpSafe(op[w], everApplied) /\ op[w].pc = "uncascaded"
  BY EntrySafe DEF Cascade
<1>2. mapper' \subseteq Object
  BY DEF Cascade, CachedOrFresh, Served, GitOpsInv, TypeOK
<1>3. x \in Op /\ x.inv = inventory /\ x.cut = None
  BY <1>1, <1>2 DEF Op, GitOpsInv, TypeOK, OpSafe
<1>4. PruneCandidates(x) \subseteq everApplied \ Targets(x) /\ PruneCandidates(x) \subseteq Object
  BY <1>3, CandidatesSafe DEF GitOpsInv
<1>5. y \in Op
  BY <1>3, <1>4 DEF Op
<1>6. y.pc = "prune" /\ y.copy = op[w].copy /\ y.results = op[w].results /\ y.inv = inventory
        /\ y.applied = op[w].applied /\ y.cut = None /\ y.todo = PruneCandidates(x)
        /\ y.rev = x.rev /\ y.copy = x.copy /\ y.known = x.known
  BY <1>1, <1>3 DEF Op
<1>7. z \in Op /\ OpSafe(z, everApplied)
  BY <1>1 DEF Op, OpSafe
<1>8. (Becomes(w, y) \/ Becomes(w, z)) /\ UNCHANGED <<world, dbVars, lock, queued>>
        /\ (Fine \/ \E e \in Events : Happens(e))
  BY DEF Cascade, Happens
<1> HIDE DEF x, y, z
<1>9. Targets(y) = Targets(x)
  BY <1>6, SameTargets
<1>10. OpSafe(y, everApplied)
  BY <1>1, <1>4, <1>6, <1>9 DEF OpSafe, GitOpsInv
<1>11. QED
  BY <1>2, <1>5, <1>7, <1>8, <1>10, StepKeeps DEF world, dbVars, GitOpsInv, TypeOK

\* Deleting the rows of the application's objects, then its own.
LEMMA EraseKeeps ==
    ASSUME GitOpsInv, NEW w \in Worker, Erase(w)
    PROVE  GitOpsInv'
<1> DEFINE x == [Idle EXCEPT !.pc = "remove", !.kind = "delete"]
<1>1. Idle \in Op /\ OpSafe(Idle, everApplied)
  BY IdleSafe
<1>2. x \in Op
  BY <1>1 DEF Op
<1>3. x.pc = "remove" /\ x.results = {} /\ x.inv = {} /\ x.applied = {} /\ x.cut = None
  BY DEF Idle
<1>4. Becomes(w, x) /\ inventory' = {} /\ UNCHANGED <<world, mapper, app, last, lock, queued>>
        /\ Fine
  BY DEF Erase
<1> HIDE DEF x
<1>5. OpSafe(x, everApplied) /\ AppliedIn(inventory') = {}
  BY <1>3, <1>4 DEF OpSafe, AppliedIn
<1>6. QED
  BY <1>2, <1>4, <1>5, StepKeeps DEF world, GitOpsInv, TypeOK

\* Deleting the application's row.
LEMMA RemoveKeeps ==
    ASSUME GitOpsInv, NEW w \in Worker, Remove(w)
    PROVE  GitOpsInv'
BY IdleSafe, StepKeeps DEF Remove, world, GitOpsInv, TypeOK

-----------------------------------------------------------------------------
(* The rest of the world, and the theorems.                                *)

\* Pushes, people at the cluster, time and crashes.
LEMMA WorldKeeps ==
    ASSUME GitOpsInv, (\E o \in Object : ByHand(o)) \/ Push \/ TenMinutes \/ Crash
    PROVE  GitOpsInv'
<1>1. CASE \E o \in Object : ByHand(o)
  <2>1. PICK o \in Object : ByHand(o)
    BY <1>1
  <2>2. live' \in [Object -> Live \cup {None}]
    BY <2>1, WithoutTyped DEF ByHand, GitOpsInv, TypeOK, Live
  <2>3. disturbances' \in 0..MaxDisturb
    BY <2>1, DisturbancesBounded DEF ByHand, Happens, GitOpsInv
  <2>4. QED
    BY <2>1, <2>2, <2>3 DEF ByHand, dbVars, GitOpsInv, TypeOK
<1>2. CASE Push
  <2>1. disturbances' \in 0..MaxDisturb
    BY <1>2, DisturbancesBounded DEF Push, Happens, GitOpsInv
  <2>2. QED
    BY <1>2, <2>1 DEF Push, dbVars, GitOpsInv, TypeOK
<1>3. CASE TenMinutes
  <2>1. last' \in Run
    BY <1>3 DEF TenMinutes, GitOpsInv, TypeOK, Run
  <2>2. QED
    BY <1>3, <2>1 DEF TenMinutes, Fine, world, GitOpsInv, TypeOK
<1>4. CASE Crash
  <2>1. disturbances' \in 0..MaxDisturb
    BY <1>4, DisturbancesBounded DEF Crash, Happens, GitOpsInv
  <2>2. op' \in [Worker -> Op] /\ \A w \in Worker : OpSafe(op'[w], everApplied')
    BY <1>4, IdleSafe DEF Crash
  <2>3. mapper' \subseteq Object
    BY <1>4 DEF Crash, Served
  <2>4. QED
    BY <1>4, <2>1, <2>2, <2>3 DEF Crash, world, dbVars, GitOpsInv, TypeOK
<1>5. QED
  BY <1>1, <1>2, <1>3, <1>4

\* The invariant holds at first.
LEMMA InitGitOpsInv == Init => GitOpsInv
<1> SUFFICES ASSUME Init PROVE GitOpsInv
  OBVIOUS
<1>1. op \in [Worker -> Op] /\ \A w \in Worker : OpSafe(op[w], everApplied)
  BY IdleSafe DEF Init
<1>2. app \in App
  BY DEF Init, App
<1>3. AppliedIn(inventory) = {}
  BY DEF Init, AppliedIn
<1>4. live \in [Object -> Live \cup {None}]
  BY DEF Init
<1>5. last \in Run
  BY DEF Init, Run
<1>6. disturbances \in 0..MaxDisturb
  BY GitOpsAssumption DEF Init
<1>7. mapper \subseteq Object
  BY DEF Init, Served
<1>8. head \in Revision /\ inventory = {} /\ lock = None /\ queued = FALSE /\ everApplied = {}
  BY DEF Init
<1>9. TypeOK
  BY <1>1, <1>2, <1>4, <1>5, <1>6, <1>7, <1>8 DEF TypeOK
<1>10. QED
  BY <1>1, <1>3, <1>8, <1>9 DEF GitOpsInv

\* And every step keeps it.
LEMMA NextGitOpsInv == GitOpsInv /\ [Next]_vars => GitOpsInv'
<1> SUFFICES ASSUME GitOpsInv, [Next]_vars PROVE GitOpsInv'
  OBVIOUS
<1>1. ASSUME NEW w \in Worker, Step(w)
      PROVE  GitOpsInv'
  BY <1>1, SaveKeeps, LockKeeps, OpenKeeps, OpenFailsKeeps, CompareKeeps, StoreKeeps,
     DecideKeeps, ApplyKeeps, AppliedKeeps, PruneLookKeeps, PruneDeleteKeeps,
     ApplyAgainKeeps, RecordInventoryKeeps, FinishKeeps, CascadeKeeps, EraseKeeps,
     RemoveKeeps, Zenon DEF Step
<1>2. CASE UNCHANGED vars
  BY <1>2 DEF vars, GitOpsInv, TypeOK
<1>3. QED
  BY <1>1, <1>2, StartKeeps, WorldKeeps, Zenon DEF Next

\* So it always holds.
LEMMA GitOpsInvAlways == Spec => []GitOpsInv
BY InitGitOpsInv, NextGitOpsInv, PTL DEF Spec

\* The variables of the engine keep their types.
THEOREM GitOpsTypeCorrect == Spec => []TypeOK
<1>1. GitOpsInv => TypeOK
  BY DEF GitOpsInv
<1>2. QED
  BY <1>1, GitOpsInvAlways, PTL

\* The inventory, and every operation under way, claims only objects the engine
\* has applied, whatever fails, races or crashes.
THEOREM OwnershipIsEarned == Spec => []OwnsOnlyWhatItApplied
<1>1. GitOpsInv => OwnsOnlyWhatItApplied
  BY DEF GitOpsInv, OwnsOnlyWhatItApplied, OpSafe
<1>2. QED
  BY <1>1, GitOpsInvAlways, PTL

\* A sync deletes only what the engine applied and the synced commit does not
\* declare (as far as the engine can tell).
THEOREM PruningIsJustified == Spec => PrunesOnlyItsOwn
<1>1. GitOpsInv => \A w \in Worker : PruneDelete(w) =>
                      op[w].cut \in everApplied \ Targets(op[w])
  BY DEF GitOpsInv, OpSafe, PruneDelete
<1>2. QED
  BY <1>1, GitOpsInvAlways, PTL DEF PrunesOnlyItsOwn

-----------------------------------------------------------------------------
(* Nothing is orphaned.  The engine's own objects are those it has applied, *)
(* that live in the application's namespace and still carry its tracking   *)
(* id.  Each of them is accounted for: in the inventory, or in what the    *)
(* one operation that holds the lock has yet to write there.               *)

\* An operation at one of these steps holds the application's lock.
Critical == {"open", "compare", "store", "apply", "prune", "finish", "uncascaded", "erase",
             "remove"}

\* The steps of a sync between its first apply and its last record.
Syncing == {"apply", "prune", "finish"}

Ours == {o \in everApplied : Ns[o] = Home /\ CarriesID(o)}

Deletions == {"delete", "cascade"}

\* What the claim needs: reads succeed and the process lives, an application is
\* not saved back after its deletion, and either no apply fails or no sync
\* installs a definition, whose second round forgets the first.
Sheltered ==
    /\ Events \cap {"get", "crash"} = {}
    /\ "edit" \notin Events \/ Events \cap Deletions = {}
    /\ "apply" \notin Events \/ Crd = {}

\* The lock is held by the one operation at a critical step.
OneAtATime == \A w \in Worker : op[w].pc \in Critical <=> lock = w

\* What is in the cluster is of a kind the cluster serves.
ServedLives == \A o \in Object : live[o] # None => o \in Served

\* What an operation remembers fits its step; m is the mapper.
OpTidy(x, m) ==
    /\ x.pc \notin Syncing => x.applied = {} /\ ~x.again
    /\ x.pc \notin {"prune", "finish"} => x.pruned = {}
    /\ x.pc \in Syncing => x.applied \subseteq Targets(x)
    /\ x.pc \in Syncing /\ x.job = "sync" => x.rev # None
    /\ x.again => "apply" \notin Events
    /\ x.pc = "waiting" =>
          x.job \in IF x.kind \in Deletions THEN {"delete"} ELSE {"refresh", "sync"}
    /\ x.pc = "decide" => x.kind \notin Deletions
    /\ x.pc = "uncascaded" => x.kind = "cascade" /\ x.job = "delete"
    /\ x.pc = "open" => x.job \in {"refresh", "sync"}
    /\ x.pc \in {"apply", "finish"} => x.job = "sync"
    /\ x.pc = "prune" => x.kind = "cascade" \/ x.job = "sync"
    /\ x.pc \in {"compare", "store"} \cup Syncing => x.known = m
    /\ x.pc = "saving" => "edit" \in Events
    /\ Events \cap Deletions = {} =>
          x.kind \notin Deletions /\ x.job # "delete"
            /\ x.pc \notin {"uncascaded", "erase", "remove"}

\* The holder x of the lock and the inventory inv account for `mine`: at each
\* step x knows what inv lacks of it, x never gives up one of them, and with
\* prune it has left none of them that the commit does not declare.
Accounted(x, mine, inv) ==
    /\ x.pc \in {"open", "compare", "finish"} => mine \subseteq AppliedIn(inv)
    /\ x.pc = "store" => mine \subseteq AppliedIn(x.results)
    /\ x.pc = "apply" =>
          mine \subseteq AppliedIn(inv) \cup x.applied \cup (IF x.again THEN x.todo ELSE {})
    /\ x.pc = "prune" /\ x.job = "sync" => mine \subseteq AppliedIn(inv) \cup x.applied
    /\ x.pruned \cap mine = {}
    /\ x.pc \in {"apply", "prune"} /\ x.job = "sync" => x.inv = inv
    /\ x.pc = "prune" /\ x.job = "sync" /\ Prunes(x) /\ ~x.failed =>
          mine \ Declared(x.rev) \subseteq x.todo \cup {x.cut}
    /\ x.pc = "finish" /\ Prunes(x) /\ ~x.failed => mine \subseteq Declared(x.rev)

Orphan ==
    /\ OneAtATime
    /\ ServedLives
    /\ Ours \subseteq mapper
    /\ \A w \in Worker : OpTidy(op[w], mapper)
    /\ Events \cap Deletions = {} => app # None
    /\ app # None => IF lock = None THEN Ours \subseteq AppliedIn(inventory)
                     ELSE Accounted(op[lock], Ours, inventory)

\* The inductive invariant of this part.
OrphanInv == GitOpsInv /\ Orphan

\* The same objects are the engine's own after a step that leaves the cluster.
LEMMA SameOurs ==
    ASSUME UNCHANGED <<live, everApplied>>
    PROVE  Ours' = Ours /\ Served' = Served /\ (ServedLives => ServedLives')
BY DEF Ours, CarriesID, Served, ServedLives

\* A step that changes one operation keeps what the others remember.
LEMMA OthersStayTidy ==
    ASSUME GitOpsInv, Orphan, NEW w \in Worker, NEW x, Becomes(w, x), OpTidy(x, mapper'),
           mapper' = mapper \/ lock = w
    PROVE  \A v \in Worker : OpTidy(op'[v], mapper')
<1>1. op \in [Worker -> Op] /\ \A v \in Worker : OpTidy(op[v], mapper)
  BY DEF GitOpsInv, TypeOK, Orphan
<1>2. op'[w] = x /\ \A v \in Worker \ {w} : op'[v] = op[v]
  BY <1>1 DEF Becomes
<1>3. ASSUME NEW v \in Worker, v # w
      PROVE  OpTidy(op[v], mapper')
  <2>1. CASE mapper' = mapper
    BY <1>1, <2>1
  <2>2. CASE lock = w
    <3>1. op[v].pc \notin Critical
      BY <1>3, <2>2 DEF Orphan, OneAtATime
    <3>2. OpTidy(op[v], mapper)
      BY <1>1
    <3>3. QED
      BY <3>1, <3>2 DEF OpTidy, Critical, Syncing
  <2>3. QED
    BY <2>1, <2>2
<1>4. QED
  BY <1>2, <1>3

\* And who is at a critical step.
LEMMA OneStaysAlone ==
    ASSUME GitOpsInv, Orphan, NEW w \in Worker, NEW x, Becomes(w, x),
           x.pc \in Critical <=> lock' = w,
           \A v \in Worker \ {w} : lock' = v <=> lock = v
    PROVE  OneAtATime'
<1>1. op \in [Worker -> Op] /\ OneAtATime
  BY DEF GitOpsInv, TypeOK, Orphan
<1>2. op'[w] = x /\ \A v \in Worker \ {w} : op'[v] = op[v]
  BY <1>1 DEF Becomes
<1>3. QED
  BY <1>1, <1>2 DEF OneAtATime

\* A step of an operation that does not hold the lock.
LEMMA OutsideKeeps ==
    ASSUME OrphanInv, NEW w \in Worker, NEW x, Becomes(w, x), OpTidy(x, mapper),
           op[w].pc \notin Critical, x.pc \notin Critical,
           UNCHANGED <<live, everApplied, mapper, inventory, lock>>, app' = None <=> app = None
    PROVE  Orphan'
<1>1. lock # w /\ op \in [Worker -> Op]
  BY DEF OrphanInv, GitOpsInv, TypeOK, Orphan, OneAtATime
<1>2. OneAtATime'
  BY <1>1, OneStaysAlone DEF OrphanInv
<1>3. \A v \in Worker : OpTidy(op'[v], mapper')
  BY OthersStayTidy DEF OrphanInv
<1>4. Ours' = Ours /\ ServedLives'
  BY SameOurs DEF OrphanInv, Orphan
<1>5. lock # None => op'[lock] = op[lock]
  BY <1>1 DEF Becomes, OrphanInv, GitOpsInv, TypeOK
<1>6. QED
  BY <1>2, <1>3, <1>4, <1>5 DEF OrphanInv, Orphan

\* A step of the operation that holds the lock, and goes on holding it.
LEMMA HolderKeeps ==
    ASSUME OrphanInv, NEW w \in Worker, lock = w, NEW x, Becomes(w, x), x.pc \in Critical,
           lock' = lock, OpTidy(x, mapper'), ServedLives', Ours' \subseteq mapper',
           app' = None <=> app = None,
           app # None => Accounted(x, Ours', inventory')
    PROVE  Orphan'
<1>1. op \in [Worker -> Op] /\ lock # None
  BY GitOpsAssumption DEF OrphanInv, GitOpsInv, TypeOK
<1>2. OneAtATime'
  BY OneStaysAlone DEF OrphanInv
<1>3. \A v \in Worker : OpTidy(op'[v], mapper')
  BY OthersStayTidy DEF OrphanInv
<1>4. op'[lock'] = x
  BY <1>1 DEF Becomes
<1>5. QED
  BY <1>1, <1>2, <1>3, <1>4 DEF OrphanInv, Orphan

\* And one with which it gives the lock back.
LEMMA ReleaseKeeps ==
    ASSUME OrphanInv, NEW w \in Worker, lock = w, NEW x, Becomes(w, x), x.pc \notin Critical,
           lock' = None, OpTidy(x, mapper), UNCHANGED <<live, everApplied, mapper>>,
           Events \cap Deletions = {} => app' # None,
           app' # None => Ours \subseteq AppliedIn(inventory')
    PROVE  Orphan'
<1>1. None \notin Worker
  BY GitOpsAssumption
<1>2. OneAtATime'
  BY <1>1, OneStaysAlone DEF OrphanInv
<1>3. \A v \in Worker : OpTidy(op'[v], mapper')
  BY OthersStayTidy DEF OrphanInv
<1>4. Ours' = Ours /\ ServedLives'
  BY SameOurs DEF OrphanInv, Orphan
<1>5. QED
  BY <1>2, <1>3, <1>4 DEF OrphanInv, Orphan

\* What the holder of the lock may rely on.
LEMMA HolderHas ==
    ASSUME OrphanInv, NEW w \in Worker, op[w].pc \in Critical
    PROVE  /\ op[w] \in Op /\ OpSafe(op[w], everApplied) /\ OpTidy(op[w], mapper)
           /\ lock = w /\ lock # None
           /\ app # None => Accounted(op[w], Ours, inventory)
           /\ ServedLives /\ Ours \subseteq mapper
BY EntrySafe, GitOpsAssumption DEF OrphanInv, Orphan, OneAtATime

-----------------------------------------------------------------------------
(* One lemma per step again.                                               *)

\* An operation that has just loaded the row, or a copy of it.
Entry(pc, kind, job, c) == [Idle EXCEPT !.pc = pc, !.kind = kind, !.job = job, !.copy = c]

\* It remembers nothing yet.
LEMMA EntryTidy ==
    ASSUME NEW pc \in {"waiting", "saving"}, NEW job, NEW kind, NEW c, NEW m,
           pc = "waiting" =>
              job \in IF kind \in Deletions THEN {"delete"} ELSE {"refresh", "sync"},
           pc = "saving" => "edit" \in Events,
           Events \cap Deletions = {} => kind \notin Deletions /\ job # "delete"
    PROVE  OpTidy(Entry(pc, kind, job, c), m) /\ Entry(pc, kind, job, c).pc \notin Critical
<1> DEFINE y == Entry(pc, kind, job, c)
<1>1. y.pc = pc /\ y.kind = kind /\ y.job = job /\ y.applied = {} /\ y.pruned = {}
        /\ y.again = FALSE
  BY DEF Idle, Entry
<1> HIDE DEF y
<1>2. OpTidy(y, m) /\ y.pc \notin Critical
  BY <1>1 DEF OpTidy, Syncing, Critical
<1>3. QED
  BY <1>2 DEF y

\* Nor does one that is doing nothing.
LEMMA IdleTidy ==
    ASSUME NEW m
    PROVE  OpTidy(Idle, m) /\ Idle.pc \notin Critical
BY DEF OpTidy, Idle, Syncing, Critical, Deletions

\* Loading the row.
LEMMA StartOrphan ==
    ASSUME OrphanInv, NEW w \in Worker, Start(w)
    PROVE  Orphan'
<1>1. /\ UNCHANGED <<live, everApplied, mapper, inventory, lock, app>>
      /\ op[w] = Idle
  BY DEF Start, Poll, Request, RequestDelete, Queue, Edit, Called, Free, world, dbVars
<1>2. \E y : Becomes(w, y) /\ OpTidy(y, mapper) /\ y.pc \notin Critical
  <2>1. CASE Poll(w)
    <3>1. Becomes(w, Entry("waiting", "poll", "refresh", app))
      BY <2>1 DEF Poll, Begin, Entry
    <3>2. QED
      BY <3>1, EntryTidy DEF Deletions
  <2>2. CASE Request(w)
    <3>1. PICK job \in {"refresh", "sync"} : Becomes(w, Entry("waiting", job, job, app))
      BY <2>2 DEF Request, Begin, Entry
    <3>2. job \notin Deletions /\ job # "delete"
      BY DEF Deletions
    <3>3. QED
      BY <3>1, <3>2, EntryTidy
  <2>3. CASE RequestDelete(w)
    <3>1. PICK kind \in Deletions :
             Becomes(w, Entry("waiting", kind, "delete", app)) /\ kind \in Events
      BY <2>3 DEF RequestDelete, Begin, Happens, Deletions, Entry
    <3>2. Events \cap Deletions # {}
      BY <3>1
    <3>3. QED
      BY <3>1, <3>2, EntryTidy
  <2>4. CASE Queue(w)
    <3>1. Becomes(w, Entry("waiting", "queue", "refresh", app))
      BY <2>4 DEF Queue, Begin, Entry
    <3>2. QED
      BY <3>1, EntryTidy DEF Deletions
  <2>5. CASE Edit(w)
    <3>1. Becomes(w, Entry("saving", "update", "none", app)) /\ "edit" \in Events
      BY <2>5 DEF Edit, Begin, Happens, Entry
    <3>2. /\ OpTidy(Entry("saving", "update", "none", app), mapper)
          /\ Entry("saving", "update", "none", app).pc \notin Critical
      BY <3>1, EntryTidy DEF Deletions
    <3>3. QED
      BY <3>1, <3>2
  <2>6. QED
    BY <2>1, <2>2, <2>3, <2>4, <2>5 DEF Start
<1>3. op[w].pc \notin Critical
  BY <1>1, IdleTidy
<1>4. QED
  BY <1>1, <1>2, <1>3, OutsideKeeps

\* Save: it needs an edit, so the row has not been deleted before it.
LEMMA SaveOrphan ==
    ASSUME OrphanInv, Sheltered, NEW w \in Worker, Save(w)
    PROVE  Orphan'
<1>1. PICK s \in Settings :
          /\ app' = [op[w].copy EXCEPT !.set = s]
          /\ Becomes(w, IF queued THEN Idle
                        ELSE Entry("waiting", "queue", "refresh", app'))
  BY DEF Save, Entry
<1>2. op[w].copy \in App /\ op[w].pc = "saving" /\ OpTidy(op[w], mapper)
  BY EntrySafe DEF Save, OpSafe, OrphanInv, Orphan
<1>3. app' \in App
  BY <1>1, <1>2 DEF App
<1>4. app # None /\ app' # None
  BY <1>2, <1>3, NoneAssumption DEF OpTidy, Sheltered, OrphanInv, Orphan
<1>5. /\ OpTidy(Entry("waiting", "queue", "refresh", app'), mapper)
      /\ Entry("waiting", "queue", "refresh", app').pc \notin Critical
  BY EntryTidy DEF Deletions
<1>6. PICK x : Becomes(w, x) /\ OpTidy(x, mapper) /\ x.pc \notin Critical
  BY <1>1, <1>5, IdleTidy
<1>7. op[w].pc \notin Critical /\ UNCHANGED <<live, everApplied, mapper, inventory, lock>>
  BY <1>2 DEF Critical, Save, world
<1>8. QED
  BY <1>4, <1>6, <1>7, OutsideKeeps

\* Deciding whether to sync.
LEMMA DecideOrphan ==
    ASSUME OrphanInv, NEW w \in Worker, Decide(w)
    PROVE  Orphan'
<1> DEFINE x == [op[w] EXCEPT !.pc = "waiting", !.job = "sync"]
<1>1. op[w] \in Op /\ OpTidy(op[w], mapper) /\ op[w].pc = "decide"
  BY EntrySafe DEF Decide, OrphanInv, Orphan
<1>2. x.pc = "waiting" /\ x.job = "sync" /\ x.kind = op[w].kind /\ x.applied = op[w].applied
        /\ x.pruned = op[w].pruned /\ x.again = op[w].again
  BY <1>1 DEF Op
<1>3. Becomes(w, x) \/ Becomes(w, Idle)
  BY DEF Decide
<1>4. UNCHANGED <<live, everApplied, mapper, inventory, lock, app>>
  BY DEF Decide, world, dbVars
<1> HIDE DEF x
<1>5. OpTidy(x, mapper) /\ x.pc \notin Critical /\ op[w].pc \notin Critical
  BY <1>1, <1>2 DEF OpTidy, Syncing, Critical
<1>6. PICK y : Becomes(w, y) /\ OpTidy(y, mapper) /\ y.pc \notin Critical
  BY <1>3, <1>5, IdleTidy
<1>7. QED
  BY <1>4, <1>5, <1>6, OutsideKeeps

\* The row is there after an update of it if it was before.
LEMMA UpdatedStays ==
    ASSUME NEW row \in App
    PROVE  Updated(row) = None <=> app = None
BY NoneAssumption DEF Updated

\* The engine's own objects are objects, and of kinds that are served.
LEMMA OursServed ==
    ASSUME OrphanInv
    PROVE  Ours \subseteq Served /\ Ours \subseteq Object /\ None \notin Ours
BY GitOpsAssumption DEF OrphanInv, GitOpsInv, TypeOK, Orphan, Ours, ServedLives, CarriesID

\* Taking the lock.
LEMMA LockOrphan ==
    ASSUME OrphanInv, NEW w \in Worker, Lock(w)
    PROVE  Orphan'
<1> DEFINE x == [op[w] EXCEPT !.pc = IF op[w].kind = "cascade" THEN "uncascaded"
                                     ELSE IF op[w].kind = "delete" THEN "erase"
                                     ELSE "open"]
<1>1. op[w] \in Op /\ OpTidy(op[w], mapper) /\ op[w].pc = "waiting" /\ lock = None /\ lock' = w
  BY EntrySafe DEF Lock, OrphanInv, Orphan
<1>2. /\ x.pc = IF op[w].kind = "cascade" THEN "uncascaded"
                ELSE IF op[w].kind = "delete" THEN "erase" ELSE "open"
      /\ x.kind = op[w].kind /\ x.job = op[w].job /\ x.applied = op[w].applied
      /\ x.pruned = op[w].pruned /\ x.again = op[w].again
  BY <1>1 DEF Op
<1>3. Becomes(w, x) /\ UNCHANGED <<live, everApplied, mapper, app, inventory>>
  BY DEF Lock, world
<1> HIDE DEF x
<1>4. OpTidy(x, mapper) /\ x.pc \in Critical
  BY <1>1, <1>2 DEF OpTidy, Syncing, Critical, Deletions
<1>5. Ours' = Ours /\ ServedLives'
  BY <1>3, SameOurs DEF OrphanInv, Orphan
<1>6. app # None => Accounted(x, Ours, inventory)
  BY <1>1, <1>2 DEF OrphanInv, Orphan, Accounted, OpTidy
<1>7. None \notin Worker /\ op \in [Worker -> Op]
  BY GitOpsAssumption DEF OrphanInv, GitOpsInv, TypeOK
<1>8. OneAtATime'
  BY <1>1, <1>3, <1>4, <1>7, OneStaysAlone DEF OrphanInv
<1>9. \A v \in Worker : OpTidy(op'[v], mapper')
  BY <1>3, <1>4, OthersStayTidy DEF OrphanInv
<1>10. op'[w] = x
  BY <1>3, <1>7 DEF Becomes
<1>11. QED
  BY <1>1, <1>3, <1>5, <1>6, <1>7, <1>8, <1>9, <1>10 DEF OrphanInv, Orphan

\* A workspace that cannot be opened.
LEMMA OpenFailsOrphan ==
    ASSUME OrphanInv, NEW w \in Worker, OpenFails(w)
    PROVE  Orphan'
<1>1. op[w].pc = "open" /\ op[w].pc \in Critical
  BY DEF OpenFails, Critical
<1>2. app # None => Ours \subseteq AppliedIn(inventory)
  BY <1>1, HolderHas DEF Accounted
<1>3. app' = None <=> app = None
  <2>1. CASE app = None
    BY <2>1 DEF OpenFails, Updated
  <2>2. CASE app # None
    <3>1. app \in App /\ head \in Revision
      BY <2>2 DEF OrphanInv, GitOpsInv, TypeOK
    <3>2. [app EXCEPT !.status = "Unknown"] \in App
            /\ [app EXCEPT !.status = "Unknown", !.revision = head] \in App
      BY <3>1 DEF App
    <3>3. QED
      BY <3>2, UpdatedStays DEF OpenFails
  <2>3. QED
    BY <2>1, <2>2
<1>4. /\ Becomes(w, Idle) /\ lock' = None
      /\ UNCHANGED <<live, everApplied, mapper, inventory>>
  BY DEF OpenFails, world
<1>5. lock = w
  BY <1>1, HolderHas
<1>6. QED
  BY <1>2, <1>3, <1>4, <1>5, IdleTidy, ReleaseKeeps DEF OrphanInv, Orphan

\* Opening one: the kinds that are known then include those of the engine's own
\* objects.
LEMMA OpenOrphan ==
    ASSUME OrphanInv, NEW w \in Worker, Open(w)
    PROVE  Orphan'
<1> DEFINE x == [op[w] EXCEPT !.rev = head, !.known = mapper']
           y == [x EXCEPT !.pc = "compare"]
           z == [x EXCEPT !.pc = "apply", !.inv = inventory, !.todo = Targets(x),
                          !.failed = Refused(x) # {}]
<1>1. op[w].pc = "open" /\ op[w].pc \in Critical
  BY DEF Open, Critical
<1>2. /\ op[w] \in Op /\ OpTidy(op[w], mapper) /\ lock = w /\ ServedLives
      /\ Ours \subseteq mapper
      /\ app # None => Ours \subseteq AppliedIn(inventory)
  BY <1>1, HolderHas DEF Accounted
<1>3. op[w].applied = {} /\ op[w].pruned = {} /\ op[w].again = FALSE
  BY <1>1, <1>2 DEF OpTidy, Syncing, Op
<1>4. /\ y.pc = "compare" /\ y.kind = op[w].kind /\ y.job = op[w].job /\ y.applied = {}
      /\ y.pruned = {} /\ y.again = FALSE /\ y.known = mapper'
  BY <1>2, <1>3 DEF Op
<1>5. /\ z.pc = "apply" /\ z.kind = op[w].kind /\ z.job = op[w].job /\ z.applied = {}
      /\ z.pruned = {} /\ z.again = FALSE /\ z.known = mapper' /\ z.inv = inventory
      /\ z.rev # None
  BY <1>2, <1>3, GitOpsAssumption DEF Op, OrphanInv, GitOpsInv, TypeOK
<1>6. /\ Becomes(w, IF op[w].job = "refresh" THEN y ELSE z)
      /\ UNCHANGED <<live, everApplied, app, inventory, lock>>
      /\ mapper' \in {mapper, Served}
  <2>1. x.job = op[w].job
    BY <1>2 DEF Op
  <2>2. QED
    BY <2>1 DEF Open, world, dbVars, CachedOrFresh
<1> HIDE DEF x, y, z
<1>7. OpTidy(y, mapper') /\ y.pc \in Critical
  BY <1>1, <1>2, <1>4 DEF OpTidy, Syncing, Critical
<1>8. op[w].job # "refresh" => OpTidy(z, mapper') /\ z.pc \in Critical
  BY <1>1, <1>2, <1>5 DEF OpTidy, Syncing, Critical
<1>9. app # None => Accounted(y, Ours, inventory) /\ Accounted(z, Ours, inventory)
  BY <1>2, <1>4, <1>5 DEF Accounted
<1>10. Ours' = Ours /\ ServedLives' /\ Ours \subseteq mapper'
  BY <1>2, <1>6, SameOurs, OursServed
<1>11. PICK v : Becomes(w, v) /\ v.pc \in Critical /\ OpTidy(v, mapper')
                  /\ (app # None => Accounted(v, Ours, inventory))
  BY <1>6, <1>7, <1>8, <1>9
<1>12. QED
  BY <1>2, <1>6, <1>10, <1>11, HolderKeeps

\* What compareApp was given as applied, of a known kind and still marked, it
\* returns as applied.
LEMMA CompareRemembers ==
    ASSUME NEW x, NEW inv, NEW refused, NEW o \in AppliedIn(inv), o \in x.known, CarriesID(o)
    PROVE  o \in AppliedIn(compareApp(x, inv, {}, refused))
<1>1. o \in Object
  BY DEF AppliedIn
<1>2. CASE o \in Targets(x)
  <2> DEFINE r == [obj |-> o, status |-> TargetStatus(x.rev, o, {} \cup refused),
                   applied |-> o \in AppliedIn(inv)]
  <2>1. r \in compareApp(x, inv, {}, refused)
    BY <1>2 DEF compareApp
  <2>2. r.obj = o /\ r.applied
    OBVIOUS
  <2>3. QED
    BY <1>1, <2>1, <2>2 DEF AppliedIn
<1>3. CASE o \notin Targets(x)
  <2> DEFINE r == [obj |-> o, status |-> "Extraneous", applied |-> TRUE]
  <2>1. o \in Extraneous(x, inv, {})
    BY <1>3 DEF Extraneous
  <2>2. r \in compareApp(x, inv, {}, refused)
    BY <2>1 DEF compareApp
  <2>3. r.obj = o /\ r.applied
    OBVIOUS
  <2>4. QED
    BY <1>1, <2>2, <2>3 DEF AppliedIn
<1>4. QED
  BY <1>2, <1>3

\* A comparison takes the engine's own objects out of the inventory and into
\* its results.
LEMMA CompareOrphan ==
    ASSUME OrphanInv, Sheltered, NEW w \in Worker, Compare(w)
    PROVE  Orphan'
<1>1. PICK unread, refused \in SUBSET Object :
          /\ \/ unread = {} /\ refused = {} /\ Fine
             \/ Cardinality(unread) = 1 /\ refused = {} /\ Happens("get")
             \/ Cardinality(refused) = 1 /\ unread = {} /\ Happens("apply")
          /\ Becomes(w, [op[w] EXCEPT !.pc = "store",
                             !.results = compareApp(op[w], inventory, unread, refused)])
  BY Zenon DEF Compare
<1> DEFINE res == compareApp(op[w], inventory, unread, refused)
           x == [op[w] EXCEPT !.pc = "store", !.results = res]
<1>2. op[w].pc = "compare" /\ op[w].pc \in Critical
  BY DEF Compare, Critical
<1>3. /\ op[w] \in Op /\ OpTidy(op[w], mapper) /\ lock = w /\ ServedLives
      /\ Ours \subseteq mapper /\ op[w].known = mapper
      /\ app # None => Ours \subseteq AppliedIn(inventory)
  BY <1>2, HolderHas DEF Accounted, OpTidy
<1>4. app # None => Ours \subseteq AppliedIn(res)
  <2>1. unread = {}
    BY <1>1 DEF Happens, Sheltered
  <2>2. QED
    BY <1>3, <2>1, CompareRemembers DEF Ours
<1>5. Becomes(w, x)
  BY <1>1
<1> HIDE DEF res
<1>6. /\ x.pc = "store" /\ x.kind = op[w].kind /\ x.job = op[w].job
      /\ x.applied = op[w].applied /\ x.pruned = op[w].pruned /\ x.again = op[w].again
      /\ x.known = op[w].known /\ x.results = res
  BY <1>3 DEF Op
<1> HIDE DEF x
<1>7. OpTidy(x, mapper) /\ x.pc \in Critical
  BY <1>2, <1>3, <1>6 DEF OpTidy, Syncing, Critical
<1>8. /\ UNCHANGED <<live, everApplied, mapper, app, lock>>
      /\ Ours' = Ours /\ ServedLives'
  BY <1>3, SameOurs DEF Compare, world
<1>9. app # None => Accounted(x, Ours, inventory')
  BY <1>2, <1>3, <1>4, <1>6 DEF Accounted, OpTidy
<1>10. QED
  BY <1>3, <1>5, <1>7, <1>8, <1>9, HolderKeeps

\* Storing puts them back.
LEMMA StoreOrphan ==
    ASSUME OrphanInv, NEW w \in Worker, Store(w)
    PROVE  Orphan'
<1> DEFINE status == summarize(op[w].results)
           y == [Idle EXCEPT !.pc = "decide", !.kind = op[w].kind, !.copy =
                    [op[w].copy EXCEPT !.revision = op[w].rev, !.status = status]]
<1>1. op[w].pc = "store" /\ op[w].pc \in Critical
  BY DEF Store, Critical
<1>2. /\ op[w] \in Op /\ lock = w
      /\ app # None => Ours \subseteq AppliedIn(op[w].results)
  BY <1>1, HolderHas DEF Accounted
<1>3. /\ app' = Updated([app EXCEPT !.revision = op[w].rev, !.status = status])
      /\ inventory' = op[w].results /\ lock' = None
      /\ (Becomes(w, y) /\ op[w].kind \in {"poll", "queue"}) \/ Becomes(w, Idle)
      /\ UNCHANGED <<live, everApplied, mapper>>
  BY DEF Store, world
<1>4. app' = None <=> app = None
  <2>1. CASE app = None
    BY <1>3, <2>1 DEF Updated
  <2>2. CASE app # None
    <3>1. app \in App /\ op[w].rev \in Revision \cup {None}
            /\ status \in {"Synced", "OutOfSync", "Unknown"}
      BY <1>2, <2>2, SummaryIsStatus DEF OrphanInv, GitOpsInv, TypeOK, Op
    <3> HIDE DEF status
    <3>2. [app EXCEPT !.revision = op[w].rev, !.status = status] \in App
      BY <3>1 DEF App
    <3>3. QED
      BY <1>3, <3>2, UpdatedStays
  <2>3. QED
    BY <2>1, <2>2
<1>5. /\ y.pc = "decide" /\ y.kind = op[w].kind /\ y.job = "none" /\ y.applied = {}
      /\ y.pruned = {} /\ y.again = FALSE
  BY DEF Idle
<1> HIDE DEF y
<1>6. op[w].kind \in {"poll", "queue"} => OpTidy(y, mapper) /\ y.pc \notin Critical
  BY <1>5 DEF OpTidy, Syncing, Critical, Deletions
<1>7. PICK x : Becomes(w, x) /\ OpTidy(x, mapper) /\ x.pc \notin Critical
  BY <1>3, <1>6, IdleTidy
<1>8. QED
  BY <1>2, <1>3, <1>4, <1>7, ReleaseKeeps DEF OrphanInv, Orphan

\* A target that is applied becomes one of the engine's own, and of a kind that
\* is known and served.
LEMMA ApplyingAdds ==
    ASSUME OrphanInv, NEW o \in Object, o \in Served, NEW d \in Live,
           live' = [live EXCEPT ![o] = d], everApplied' = everApplied \cup {o}
    PROVE  Ours' \subseteq Ours \cup {o} /\ ServedLives'
<1>1. live \in [Object -> Live \cup {None}] /\ everApplied \subseteq Object /\ ServedLives
        /\ d # None
  BY NoneAssumption DEF OrphanInv, GitOpsInv, TypeOK, Orphan
<1>2. \A p \in Object : p # o => live'[p] = live[p]
  BY <1>1
<1>3. Ours' \subseteq Ours \cup {o}
  BY <1>1, <1>2 DEF Ours, CarriesID
<1>4. \A p \in Object : live[p] # None => live'[p] # None
  BY <1>1
<1>5. \A p \in Served : p \in Served'
  BY <1>4, GitOpsAssumption DEF Served
<1>6. ServedLives'
  BY <1>1, <1>2, <1>5 DEF ServedLives
<1>7. QED
  BY <1>3, <1>6

\* Applying an object: the operation remembers it, and one that is refused was
\* already accounted for.
LEMMA ApplyOrphan ==
    ASSUME OrphanInv, Sheltered, NEW w \in Worker, Apply(w)
    PROVE  Orphan'
<1>1. op[w].pc = "apply" /\ op[w].pc \in Critical
  BY DEF Apply, Critical
<1>2. /\ op[w] \in Op /\ OpSafe(op[w], everApplied) /\ OpTidy(op[w], mapper) /\ lock = w
      /\ app # None => Accounted(op[w], Ours, inventory)
      /\ ServedLives /\ Ours \subseteq mapper
  BY <1>1, HolderHas
<1>3. PICK o \in First(op[w].todo) :
          \/ /\ o \in Served
             /\ live' = [live EXCEPT ![o] = Desired(op[w].rev, o)]
             /\ everApplied' = everApplied \cup {o}
             /\ Becomes(w, [op[w] EXCEPT !.todo = @ \ {o}, !.applied = @ \cup {o}])
             /\ Fine
          \/ /\ IF o \in Served THEN Happens("apply") ELSE Fine
             /\ Becomes(w, [op[w] EXCEPT !.todo = @ \ {o}, !.failed = TRUE])
             /\ UNCHANGED <<live, everApplied>>
  BY Zenon DEF Apply
<1>4. o \in Targets(op[w]) /\ o \in Object /\ o \in mapper
  <2>1. o \in Targets(op[w])
    BY <1>1, <1>2, <1>3 DEF First, OpSafe
  <2>2. op[w].known = mapper
    BY <1>1, <1>2 DEF OpTidy, Syncing
  <2>3. QED
    BY <2>1, <2>2 DEF Targets, Declared
<1>5. UNCHANGED <<mapper, app, inventory, lock>>
  BY DEF Apply, dbVars
<1>6. CASE /\ o \in Served
           /\ live' = [live EXCEPT ![o] = Desired(op[w].rev, o)]
           /\ everApplied' = everApplied \cup {o}
           /\ Becomes(w, [op[w] EXCEPT !.todo = @ \ {o}, !.applied = @ \cup {o}])
  <2> DEFINE x == [op[w] EXCEPT !.todo = @ \ {o}, !.applied = @ \cup {o}]
  <2>1. /\ x.pc = "apply" /\ x.kind = op[w].kind /\ x.job = op[w].job
        /\ x.applied = op[w].applied \cup {o} /\ x.todo = op[w].todo \ {o}
        /\ x.pruned = op[w].pruned /\ x.again = op[w].again /\ x.known = op[w].known
        /\ x.inv = op[w].inv /\ x.rev = op[w].rev /\ x.copy = op[w].copy
    BY <1>1, <1>2 DEF Op
  <2>2. Becomes(w, x)
    BY <1>6
  <2> HIDE DEF x
  <2>3. Targets(x) = Targets(op[w])
    BY <2>1, SameTargets
  <2>4. OpTidy(x, mapper) /\ x.pc \in Critical
    BY <1>1, <1>2, <1>4, <2>1, <2>3 DEF OpTidy, Syncing, Critical
  <2>5. Desired(op[w].rev, o) \in Live
    BY <1>2, <1>4, TargetsAreDesirable
  <2>6. Ours' \subseteq Ours \cup {o} /\ ServedLives'
    BY <1>4, <1>6, <2>5, ApplyingAdds
  <2>7. app # None => Accounted(x, Ours', inventory)
    BY <1>1, <1>2, <2>1, <2>6 DEF Accounted, OpTidy
  <2>8. QED
    BY <1>2, <1>4, <1>5, <2>2, <2>4, <2>6, <2>7, HolderKeeps
<1>7. CASE /\ IF o \in Served THEN Happens("apply") ELSE Fine
           /\ Becomes(w, [op[w] EXCEPT !.todo = @ \ {o}, !.failed = TRUE])
           /\ UNCHANGED <<live, everApplied>>
  <2> DEFINE x == [op[w] EXCEPT !.todo = @ \ {o}, !.failed = TRUE]
  <2>1. /\ x.pc = "apply" /\ x.kind = op[w].kind /\ x.job = op[w].job
        /\ x.applied = op[w].applied /\ x.todo = op[w].todo \ {o}
        /\ x.pruned = op[w].pruned /\ x.again = op[w].again /\ x.known = op[w].known
        /\ x.inv = op[w].inv /\ x.rev = op[w].rev /\ x.copy = op[w].copy
    BY <1>1, <1>2 DEF Op
  <2>2. Becomes(w, x)
    BY <1>7
  <2> HIDE DEF x
  <2>3. Targets(x) = Targets(op[w])
    BY <2>1, SameTargets
  <2>4. OpTidy(x, mapper) /\ x.pc \in Critical
    BY <1>1, <1>2, <2>1, <2>3 DEF OpTidy, Syncing, Critical
  <2>5. Ours' = Ours /\ ServedLives'
    BY <1>2, <1>7, SameOurs
  <2>6. op[w].again => o \notin Ours
    BY <1>2, <1>7, OursServed DEF OpTidy, Happens
  <2>7. app # None => Accounted(x, Ours, inventory)
    BY <1>1, <1>2, <2>1, <2>6 DEF Accounted
  <2>8. QED
    BY <1>2, <1>5, <2>2, <2>4, <2>5, <2>7, HolderKeeps
<1>8. QED
  BY <1>3, <1>6, <1>7

\* From applying to pruning: with prune on, what the commit does not declare is
\* on the list.
LEMMA AppliedOrphan ==
    ASSUME OrphanInv, NEW w \in Worker, Applied(w)
    PROVE  Orphan'
<1> DEFINE x == [op[w] EXCEPT !.pc = "prune", !.todo = PruneCandidates(op[w])]
<1>1. op[w].pc = "apply" /\ op[w].pc \in Critical /\ op[w].todo = {}
  BY DEF Applied, Critical
<1>2. /\ op[w] \in Op /\ OpTidy(op[w], mapper) /\ lock = w
      /\ app # None => Accounted(op[w], Ours, inventory)
      /\ ServedLives /\ Ours \subseteq mapper
  BY <1>1, HolderHas
<1>3. /\ x.pc = "prune" /\ x.kind = op[w].kind /\ x.job = op[w].job
      /\ x.applied = op[w].applied /\ x.todo = PruneCandidates(op[w])
      /\ x.pruned = op[w].pruned /\ x.again = op[w].again /\ x.known = op[w].known
      /\ x.inv = op[w].inv /\ x.rev = op[w].rev /\ x.copy = op[w].copy
      /\ x.failed = op[w].failed /\ x.cut = op[w].cut
  BY <1>1, <1>2 DEF Op
<1>4. Becomes(w, x) /\ UNCHANGED <<live, everApplied, mapper, app, inventory, lock>>
  BY DEF Applied, world, dbVars
<1> HIDE DEF x
<1>5. Targets(x) = Targets(op[w])
  BY <1>3, SameTargets
<1>6. OpTidy(x, mapper) /\ x.pc \in Critical
  BY <1>1, <1>2, <1>3, <1>5 DEF OpTidy, Syncing, Critical
<1>7. Ours' = Ours /\ ServedLives'
  BY <1>2, <1>4, SameOurs
<1>8. ASSUME app # None
      PROVE  /\ Ours \subseteq AppliedIn(inventory) \cup op[w].applied
             /\ op[w].inv = inventory /\ op[w].pruned \cap Ours = {}
             /\ Ours \ Declared(op[w].rev) \subseteq PruneCandidates(op[w])
  <2>1. /\ Ours \subseteq AppliedIn(inventory) \cup op[w].applied
        /\ op[w].inv = inventory /\ op[w].pruned \cap Ours = {}
    BY <1>1, <1>2, <1>8 DEF Accounted, OpTidy
  <2>2. op[w].applied \subseteq Declared(op[w].rev) /\ Targets(op[w]) \subseteq Declared(op[w].rev)
          /\ op[w].known = mapper
    BY <1>1, <1>2 DEF OpTidy, Syncing, Targets
  <2>3. QED
    BY <1>2, <2>1, <2>2 DEF PruneCandidates
<1>9. app # None => Accounted(x, Ours, inventory)
  BY <1>3, <1>8 DEF Accounted
<1>10. QED
  BY <1>2, <1>4, <1>6, <1>7, <1>9, HolderKeeps

\* What the prune loop forgets is not, or no longer, the engine's own.
LEMMA PruningAccounted ==
    ASSUME NEW x, NEW y, NEW mine, NEW mine2, NEW inv, x.pc = "prune", y.pc = "prune",
           y.kind = x.kind, y.job = x.job, y.copy = x.copy, y.inv = x.inv, y.rev = x.rev,
           y.applied = x.applied, Accounted(x, mine, inv), mine2 \subseteq mine,
           y.pruned \cap mine2 = {},
           ~y.failed => ~x.failed,
           Prunes(y) /\ ~y.failed =>
              (mine2 \cap (x.todo \cup {x.cut})) \subseteq y.todo \cup {y.cut}
    PROVE  Accounted(y, mine2, inv)
BY DEF Accounted, Prunes

\* And it keeps what the operation remembers.
LEMMA PruningTidy ==
    ASSUME NEW x, NEW y, NEW m, x.pc = "prune", y.pc = "prune",
           y.kind = x.kind, y.job = x.job, y.copy = x.copy, y.rev = x.rev, y.known = x.known,
           y.applied = x.applied, y.again = x.again, OpTidy(x, m)
    PROVE  OpTidy(y, m) /\ y.pc \in Critical
<1>1. Targets(y) = Targets(x)
  BY SameTargets
<1>2. QED
  BY <1>1 DEF OpTidy, Syncing, Critical

\* Looking at an object to prune.
LEMMA PruneLookOrphan ==
    ASSUME OrphanInv, Sheltered, NEW w \in Worker, PruneLook(w)
    PROVE  Orphan'
<1>1. op[w].pc = "prune" /\ op[w].pc \in Critical /\ op[w].cut = None
  BY DEF PruneLook, Critical
<1>2. /\ op[w] \in Op /\ OpTidy(op[w], mapper) /\ lock = w
      /\ app # None => Accounted(op[w], Ours, inventory)
      /\ ServedLives /\ Ours \subseteq mapper
  BY <1>1, HolderHas
<1>3. PICK o \in op[w].todo :
          \/ /\ ~CarriesID(o) \/ Happens("get")
             /\ Becomes(w, [op[w] EXCEPT !.todo = @ \ {o}, !.pruned = @ \cup {o}])
          \/ ~Prunes(op[w]) /\ Becomes(w, [op[w] EXCEPT !.todo = @ \ {o}])
          \/ Becomes(w, [op[w] EXCEPT !.todo = @ \ {o}, !.cut = o])
  BY Zenon DEF PruneLook
<1> DEFINE forget == [op[w] EXCEPT !.todo = @ \ {o}, !.pruned = @ \cup {o}]
           keep == [op[w] EXCEPT !.todo = @ \ {o}]
           mark == [op[w] EXCEPT !.todo = @ \ {o}, !.cut = o]
           Same(y) == /\ y.pc = "prune" /\ y.kind = op[w].kind /\ y.job = op[w].job
                      /\ y.copy = op[w].copy /\ y.rev = op[w].rev /\ y.known = op[w].known
                      /\ y.applied = op[w].applied /\ y.again = op[w].again
                      /\ y.inv = op[w].inv /\ y.failed = op[w].failed
                      /\ y.todo = op[w].todo \ {o}
<1>4. Same(forget) /\ forget.pruned = op[w].pruned \cup {o} /\ forget.cut = None
  BY <1>1, <1>2 DEF Op
<1>5. Same(keep) /\ keep.pruned = op[w].pruned /\ keep.cut = None
  BY <1>1, <1>2 DEF Op
<1>6. Same(mark) /\ mark.pruned = op[w].pruned /\ mark.cut = o
  BY <1>1, <1>2 DEF Op
<1>7. \/ ~CarriesID(o) /\ Becomes(w, forget)
      \/ ~Prunes(op[w]) /\ Becomes(w, keep)
      \/ Becomes(w, mark)
  <2>1. ~Happens("get")
    BY DEF Happens, Sheltered
  <2>2. QED
    BY <1>3, <2>1
<1> HIDE DEF forget, keep, mark
<1>8. None \notin Ours
  BY OursServed
<1>9. app # None => op[w].pruned \cap Ours = {}
  BY <1>2 DEF Accounted
<1>10. ~CarriesID(o) /\ app # None => Accounted(forget, Ours, inventory)
  <2>1. ~CarriesID(o) => o \notin Ours
    BY DEF Ours
  <2>2. QED
    BY <1>1, <1>2, <1>4, <1>8, <1>9, <2>1, PruningAccounted
<1>11. ~Prunes(op[w]) /\ app # None => Accounted(keep, Ours, inventory)
  <2>1. Prunes(keep) <=> Prunes(op[w])
    BY <1>5 DEF Prunes
  <2>2. QED
    BY <1>1, <1>2, <1>5, <1>8, <1>9, <2>1, PruningAccounted
<1>12. app # None => Accounted(mark, Ours, inventory)
  BY <1>1, <1>2, <1>6, <1>8, <1>9, PruningAccounted
<1>13. OpTidy(forget, mapper) /\ OpTidy(keep, mapper) /\ OpTidy(mark, mapper)
         /\ forget.pc \in Critical /\ keep.pc \in Critical /\ mark.pc \in Critical
  BY <1>1, <1>2, <1>4, <1>5, <1>6, PruningTidy
<1>14. PICK y : Becomes(w, y) /\ y.pc \in Critical /\ OpTidy(y, mapper)
                  /\ (app # None => Accounted(y, Ours, inventory))
  BY <1>7, <1>10, <1>11, <1>12, <1>13
<1>15. UNCHANGED <<live, everApplied, mapper, app, inventory, lock>>
         /\ Ours' = Ours /\ ServedLives'
  BY <1>2, SameOurs DEF PruneLook, world, dbVars
<1>16. QED
  BY <1>2, <1>14, <1>15, HolderKeeps

\* Without an object, and what goes with it, the rest is still served, and
\* nothing becomes the engine's own.
LEMMA WithoutKeeps ==
    ASSUME OrphanInv, NEW o, live' = Without(o), UNCHANGED everApplied
    PROVE  Ours' \subseteq Ours \ {o} /\ ServedLives'
<1>1. live \in [Object -> Live \cup {None}] /\ everApplied \subseteq Object /\ ServedLives
  BY DEF OrphanInv, GitOpsInv, TypeOK, Orphan
<1>2. \A p \in Object : live'[p] # None =>
          live'[p] = live[p] /\ p # o /\ ~(o \in Crd /\ p \in Custom)
  BY DEF Without
<1>3. \A p \in Object : p # o /\ ~(o \in Crd /\ p \in Custom) => live'[p] = live[p]
  BY DEF Without
<1>4. Ours' \subseteq Ours \ {o}
  BY <1>1, <1>2 DEF Ours, CarriesID
<1>5. ASSUME NEW p \in Object, live'[p] # None
      PROVE  p \in Served'
  <2>1. live[p] # None /\ p # o /\ ~(o \in Crd /\ p \in Custom) /\ p \in Served
    BY <1>1, <1>2, <1>5 DEF ServedLives
  <2>2. CASE p \in Custom
    <3>1. o \notin Crd
      BY <2>1, <2>2
    <3>2. \A d \in Crd : d \in Object /\ d # o /\ live[d] # None
      BY <2>1, <2>2, <3>1, GitOpsAssumption DEF Served
    <3>3. \A d \in Crd : live'[d] = live[d]
      BY <1>3, <3>1, <3>2
    <3>4. QED
      BY <3>2, <3>3 DEF Served
  <2>3. CASE p \notin Custom
    BY <2>3 DEF Served
  <2>4. QED
    BY <2>2, <2>3
<1>6. QED
  BY <1>4, <1>5 DEF ServedLives

\* Deleting it.
LEMMA PruneDeleteOrphan ==
    ASSUME OrphanInv, NEW w \in Worker, PruneDelete(w)
    PROVE  Orphan'
<1> DEFINE done == [op[w] EXCEPT !.cut = None, !.pruned = @ \cup {op[w].cut}]
           lost == [op[w] EXCEPT !.cut = None, !.failed = TRUE]
           Same(y) == /\ y.pc = "prune" /\ y.kind = op[w].kind /\ y.job = op[w].job
                      /\ y.copy = op[w].copy /\ y.rev = op[w].rev /\ y.known = op[w].known
                      /\ y.applied = op[w].applied /\ y.again = op[w].again
                      /\ y.inv = op[w].inv /\ y.todo = op[w].todo /\ y.cut = None
<1>1. op[w] \in Op /\ OpSafe(op[w], everApplied) /\ op[w].cut # None
  BY EntrySafe DEF PruneDelete, OrphanInv
<1>2. op[w].pc = "prune" /\ op[w].pc \in Critical
  BY <1>1 DEF OpSafe, Critical
<1>3. /\ OpTidy(op[w], mapper) /\ lock = w
      /\ app # None => Accounted(op[w], Ours, inventory)
      /\ ServedLives /\ Ours \subseteq mapper
  BY <1>2, HolderHas
<1>4. Same(done) /\ done.pruned = op[w].pruned \cup {op[w].cut} /\ done.failed = op[w].failed
  BY <1>1, <1>2 DEF Op
<1>5. Same(lost) /\ lost.pruned = op[w].pruned /\ lost.failed = TRUE
  BY <1>1, <1>2 DEF Op
<1>6. /\ \/ live' = Without(op[w].cut) /\ Becomes(w, done)
         \/ UNCHANGED live /\ Becomes(w, lost)
      /\ UNCHANGED <<everApplied, mapper, app, inventory, lock>>
  BY DEF PruneDelete, dbVars
<1> HIDE DEF done, lost
<1>7. app # None => op[w].pruned \cap Ours = {}
  BY <1>3 DEF Accounted
<1>8. CASE live' = Without(op[w].cut) /\ Becomes(w, done)
  <2>1. Ours' \subseteq Ours \ {op[w].cut} /\ ServedLives'
    BY <1>6, <1>8, WithoutKeeps
  <2>2. OpTidy(done, mapper) /\ done.pc \in Critical
    BY <1>2, <1>3, <1>4, PruningTidy
  <2>3. app # None => Accounted(done, Ours', inventory)
    BY <1>2, <1>3, <1>4, <1>7, <2>1, PruningAccounted
  <2>4. QED
    BY <1>3, <1>6, <1>8, <2>1, <2>2, <2>3, HolderKeeps
<1>9. CASE UNCHANGED live /\ Becomes(w, lost)
  <2>1. Ours' = Ours /\ ServedLives'
    BY <1>3, <1>6, <1>9, SameOurs
  <2>2. OpTidy(lost, mapper) /\ lost.pc \in Critical
    BY <1>2, <1>3, <1>5, PruningTidy
  <2>3. app # None => Accounted(lost, Ours, inventory)
    BY <1>2, <1>3, <1>5, <1>7, PruningAccounted
  <2>4. QED
    BY <1>3, <1>6, <1>9, <2>1, <2>2, <2>3, HolderKeeps
<1>10. QED
  BY <1>6, <1>8, <1>9

\* Applying everything again: the first round's objects are targets once more.
LEMMA ApplyAgainOrphan ==
    ASSUME OrphanInv, Sheltered, NEW w \in Worker, ApplyAgain(w)
    PROVE  Orphan'
<1> DEFINE x == [op[w] EXCEPT !.known = Served]
           y == [x EXCEPT !.pc = "apply", !.again = TRUE, !.todo = Targets(x),
                          !.applied = {}, !.pruned = {}, !.failed = Refused(x) # {}]
<1>1. op[w].pc = "prune" /\ op[w].pc \in Critical /\ op[w].job = "sync" /\ Retries(op[w])
  BY DEF ApplyAgain, PruneOver, Critical
<1>2. /\ op[w] \in Op /\ OpTidy(op[w], mapper) /\ lock = w
      /\ app # None => Accounted(op[w], Ours, inventory)
      /\ ServedLives /\ Ours \subseteq Served
  BY <1>1, HolderHas, OursServed
<1>3. x.known = Served /\ x.rev = op[w].rev /\ x.copy = op[w].copy
  BY <1>2 DEF Op
<1>4. /\ y.pc = "apply" /\ y.kind = op[w].kind /\ y.job = op[w].job
      /\ y.applied = {} /\ y.todo = Targets(x) /\ y.pruned = {} /\ y.again = TRUE
      /\ y.known = Served /\ y.inv = op[w].inv /\ y.rev = op[w].rev
  BY <1>2 DEF Op
<1>5. Becomes(w, y) /\ mapper' = Served /\ UNCHANGED <<live, everApplied, app, inventory, lock>>
  BY DEF ApplyAgain, world, dbVars
<1> HIDE DEF x, y
<1>6. "apply" \notin Events
  BY <1>1 DEF Retries, Sheltered
<1>7. OpTidy(y, mapper') /\ y.pc \in Critical
  BY <1>1, <1>2, <1>4, <1>5, <1>6 DEF OpTidy, Syncing, Critical
<1>8. Ours \cap op[w].applied \subseteq Targets(x)
  <2>1. op[w].applied \subseteq Targets(op[w])
    BY <1>1, <1>2 DEF OpTidy, Syncing
  <2>2. QED
    BY <1>2, <1>3, <2>1 DEF Targets
<1>9. app # None => Accounted(y, Ours, inventory)
  BY <1>1, <1>2, <1>4, <1>8 DEF Accounted
<1>10. Ours' = Ours /\ ServedLives'
  BY <1>2, <1>5, SameOurs
<1>11. QED
  BY <1>2, <1>5, <1>7, <1>9, <1>10, HolderKeeps

\* What was applied before or by this sync, and not forgotten, is recorded as
\* applied.
LEMMA LearnedRemembers ==
    ASSUME NEW x \in Op, NEW inv \in SUBSET Result,
           NEW o \in (AppliedIn(inv) \cup x.applied) \ x.pruned
    PROVE  o \in AppliedIn(Learned(inv, x))
<1>1. o \in Object
  BY DEF AppliedIn, Op
<1>2. SUFFICES \E r \in Learned(inv, x) : r.obj = o /\ r.applied
  BY <1>1 DEF AppliedIn
<1>3. CASE \E y \in inv : y.obj = o /\ (y.applied \/ o \in x.applied)
  <2>1. PICK y \in inv : y.obj = o /\ (y.applied \/ o \in x.applied)
    BY <1>3
  <2> DEFINE r == [y EXCEPT !.applied = @ \/ y.obj \in x.applied]
  <2>2. y \in Result
    BY <2>1
  <2>3. r.obj = o /\ r.applied
    BY <2>1, <2>2 DEF Result
  <2>4. r \in Learned(inv, x)
    BY <2>1, <2>3 DEF Learned
  <2>5. QED
    BY <2>3, <2>4
<1>4. CASE o \in x.applied /\ \A y \in inv : y.obj # o
  <2> DEFINE r == [obj |-> o, status |-> "Synced", applied |-> TRUE]
  <2>1. r \in Learned(inv, x)
    BY <1>4 DEF Learned
  <2>2. QED
    BY <2>1
<1>5. QED
  BY <1>3, <1>4 DEF AppliedIn

\* Recording a sync.
LEMMA RecordInventoryOrphan ==
    ASSUME OrphanInv, NEW w \in Worker, RecordInventory(w)
    PROVE  Orphan'
<1> DEFINE x == [op[w] EXCEPT !.pc = "finish"]
<1>1. /\ op[w].pc = "prune" /\ op[w].pc \in Critical /\ op[w].job = "sync"
      /\ op[w].todo = {} /\ op[w].cut = None
  BY DEF RecordInventory, PruneOver, Critical
<1>2. /\ op[w] \in Op /\ OpTidy(op[w], mapper) /\ lock = w
      /\ app # None => Accounted(op[w], Ours, inventory)
      /\ ServedLives /\ Ours \subseteq mapper
  BY <1>1, HolderHas
<1>3. /\ x.pc = "finish" /\ x.kind = op[w].kind /\ x.job = op[w].job
      /\ x.applied = op[w].applied /\ x.pruned = op[w].pruned /\ x.again = op[w].again
      /\ x.known = op[w].known /\ x.rev = op[w].rev /\ x.copy = op[w].copy
      /\ x.failed = op[w].failed
  BY <1>2 DEF Op
<1>4. /\ Becomes(w, x) /\ inventory' = Learned(inventory, op[w])
      /\ UNCHANGED <<live, everApplied, mapper, app, lock>>
  BY DEF RecordInventory, world
<1> HIDE DEF x
<1>5. Targets(x) = Targets(op[w])
  BY <1>3, SameTargets
<1>6. OpTidy(x, mapper) /\ x.pc \in Critical
  BY <1>1, <1>2, <1>3, <1>5 DEF OpTidy, Syncing, Critical
<1>7. Ours' = Ours /\ ServedLives'
  BY <1>2, <1>4, SameOurs
<1>8. inventory \in SUBSET Result
  BY DEF OrphanInv, GitOpsInv, TypeOK
<1>9. ASSUME app # None
      PROVE  Accounted(x, Ours, inventory')
  <2>1. /\ Ours \subseteq AppliedIn(inventory) \cup op[w].applied
        /\ op[w].pruned \cap Ours = {}
        /\ Prunes(op[w]) /\ ~op[w].failed => Ours \ Declared(op[w].rev) \subseteq {None}
    BY <1>1, <1>2, <1>9 DEF Accounted
  <2>2. Ours \subseteq AppliedIn(inventory')
    BY <1>2, <1>4, <1>8, <2>1, LearnedRemembers
  <2>3. Prunes(op[w]) /\ ~op[w].failed => Ours \subseteq Declared(op[w].rev)
    BY <2>1, OursServed
  <2>4. Prunes(x) <=> Prunes(op[w])
    BY <1>3 DEF Prunes
  <2>5. QED
    BY <1>3, <2>1, <2>2, <2>3, <2>4 DEF Accounted
<1>10. QED
  BY <1>2, <1>4, <1>6, <1>7, <1>9, HolderKeeps

\* Closing the run.
LEMMA FinishOrphan ==
    ASSUME OrphanInv, NEW w \in Worker, Finish(w)
    PROVE  Orphan'
<1> DEFINE x == [op[w] EXCEPT !.pc = "compare", !.inv = {}, !.applied = {},
                              !.pruned = {}, !.failed = FALSE, !.again = FALSE]
<1>1. op[w].pc = "finish" /\ op[w].pc \in Critical
  BY DEF Finish, Critical
<1>2. /\ op[w] \in Op /\ OpTidy(op[w], mapper) /\ lock = w
      /\ app # None => Accounted(op[w], Ours, inventory)
      /\ ServedLives /\ Ours \subseteq mapper
  BY <1>1, HolderHas
<1>3. /\ x.pc = "compare" /\ x.kind = op[w].kind /\ x.job = op[w].job
      /\ x.applied = {} /\ x.pruned = {} /\ x.again = FALSE /\ x.known = op[w].known
  BY <1>2 DEF Op
<1>4. /\ Becomes(w, x) /\ app' = Updated([app EXCEPT !.synced = op[w].rev])
      /\ UNCHANGED <<live, everApplied, mapper, inventory, lock>>
  BY DEF Finish, world
<1> HIDE DEF x
<1>5. OpTidy(x, mapper) /\ x.pc \in Critical
  BY <1>1, <1>2, <1>3 DEF OpTidy, Syncing, Critical
<1>6. Ours' = Ours /\ ServedLives'
  BY <1>2, <1>4, SameOurs
<1>7. app # None => Accounted(x, Ours, inventory)
  BY <1>1, <1>2, <1>3 DEF Accounted
<1>8. app' = None <=> app = None
  <2>1. CASE app = None
    BY <1>4, <2>1 DEF Updated
  <2>2. CASE app # None
    <3>1. app \in App /\ op[w].rev \in Revision \cup {None}
      BY <1>2, <2>2 DEF OrphanInv, GitOpsInv, TypeOK, Op
    <3>2. [app EXCEPT !.synced = op[w].rev] \in App
      BY <3>1 DEF App
    <3>3. QED
      BY <1>4, <3>2, UpdatedStays
  <2>3. QED
    BY <2>1, <2>2
<1>9. QED
  BY <1>2, <1>4, <1>5, <1>6, <1>7, <1>8, HolderKeeps

\* A cascade makes no claim but that what it prunes is not the engine's own.
LEMMA CascadeOrphan ==
    ASSUME OrphanInv, NEW w \in Worker, Cascade(w)
    PROVE  Orphan'
<1> DEFINE x == [op[w] EXCEPT !.known = mapper', !.inv = inventory]
           y == [x EXCEPT !.pc = "prune", !.todo = PruneCandidates(x)]
           z == [op[w] EXCEPT !.pc = "erase"]
<1>1. op[w].pc = "uncascaded" /\ op[w].pc \in Critical
  BY DEF Cascade, Critical
<1>2. /\ op[w] \in Op /\ OpTidy(op[w], mapper) /\ lock = w
      /\ ServedLives /\ Ours \subseteq mapper
  BY <1>1, HolderHas
<1>3. /\ y.pc = "prune" /\ y.kind = op[w].kind /\ y.job = op[w].job
      /\ y.applied = op[w].applied /\ y.pruned = op[w].pruned /\ y.again = op[w].again
      /\ y.known = mapper'
  BY <1>2 DEF Op
<1>4. /\ z.pc = "erase" /\ z.kind = op[w].kind /\ z.job = op[w].job
      /\ z.applied = op[w].applied /\ z.pruned = op[w].pruned /\ z.again = op[w].again
  BY <1>2 DEF Op
<1>5. /\ Becomes(w, y) \/ Becomes(w, z)
      /\ mapper' \in {mapper, Served}
      /\ UNCHANGED <<live, everApplied, app, inventory, lock>>
  BY DEF Cascade, CachedOrFresh, world, dbVars
<1> HIDE DEF x, y, z
<1>6. OpTidy(y, mapper') /\ y.pc \in Critical /\ Accounted(y, Ours, inventory)
  BY <1>1, <1>2, <1>3 DEF OpTidy, Syncing, Critical, Accounted
<1>7. OpTidy(z, mapper') /\ z.pc \in Critical /\ Accounted(z, Ours, inventory)
  BY <1>1, <1>2, <1>4 DEF OpTidy, Syncing, Critical, Accounted
<1>8. Ours' = Ours /\ ServedLives' /\ Ours \subseteq mapper'
  BY <1>2, <1>5, SameOurs, OursServed
<1>9. QED
  BY <1>2, <1>5, <1>6, <1>7, <1>8, HolderKeeps

\* The rows of a deleted application's objects go,
LEMMA EraseOrphan ==
    ASSUME OrphanInv, NEW w \in Worker, Erase(w)
    PROVE  Orphan'
<1> DEFINE x == [Idle EXCEPT !.pc = "remove", !.kind = "delete"]
<1>1. op[w].pc = "erase" \/ (op[w].pc = "prune" /\ op[w].kind = "cascade")
  BY DEF Erase, PruneOver
<1>2. OpTidy(op[w], mapper) /\ lock = w /\ ServedLives /\ Ours \subseteq mapper
  BY <1>1, HolderHas DEF Critical
<1>3. Events \cap Deletions # {}
  BY <1>1, <1>2 DEF OpTidy, Deletions
<1>4. /\ x.pc = "remove" /\ x.kind = "delete" /\ x.job = "none" /\ x.applied = {}
      /\ x.pruned = {} /\ x.again = FALSE
  BY DEF Idle
<1>5. Becomes(w, x) /\ UNCHANGED <<live, everApplied, mapper, app, lock>>
  BY DEF Erase, world
<1> HIDE DEF x
<1>6. OpTidy(x, mapper) /\ x.pc \in Critical /\ Accounted(x, Ours, inventory')
  BY <1>3, <1>4 DEF OpTidy, Syncing, Critical, Accounted
<1>7. Ours' = Ours /\ ServedLives'
  BY <1>2, <1>5, SameOurs
<1>8. QED
  BY <1>2, <1>5, <1>6, <1>7, HolderKeeps

\* and then its own.
LEMMA RemoveOrphan ==
    ASSUME OrphanInv, NEW w \in Worker, Remove(w)
    PROVE  Orphan'
<1>1. op[w].pc = "remove" /\ op[w].pc \in Critical
  BY DEF Remove, Critical
<1>2. OpTidy(op[w], mapper) /\ lock = w
  BY <1>1, HolderHas
<1>3. Events \cap Deletions # {}
  BY <1>1, <1>2 DEF OpTidy
<1>4. /\ Becomes(w, Idle) /\ lock' = None /\ app' = None
      /\ UNCHANGED <<live, everApplied, mapper>>
  BY DEF Remove, world
<1>5. QED
  BY <1>2, <1>3, <1>4, IdleTidy, ReleaseKeeps

\* A claim about more objects is one about fewer.
LEMMA AccountedLess ==
    ASSUME NEW x, NEW mine, NEW less, NEW inv, Accounted(x, mine, inv), less \subseteq mine
    PROVE  Accounted(x, less, inv)
BY DEF Accounted

\* Nothing people do in the cluster makes an object the engine's own.
LEMMA ByHandOrphan ==
    ASSUME OrphanInv, NEW o \in Object, ByHand(o)
    PROVE  Orphan'
<1>1. /\ live \in [Object -> Live \cup {None}] /\ everApplied \subseteq Object
      /\ ServedLives /\ Ours \subseteq mapper
  BY DEF OrphanInv, GitOpsInv, TypeOK, Orphan
<1>2. UNCHANGED <<everApplied, mapper, app, inventory, lock, op>>
  BY DEF ByHand, dbVars
<1>3. Ours' \subseteq Ours /\ ServedLives'
  <2>1. CASE live' = Without(o)
    BY <1>2, <2>1, WithoutKeeps
  <2>2. CASE live' # Without(o)
    <3>1. PICK v \in Live : /\ live' = [live EXCEPT ![o] = v]
                            /\ o \in Served
                            /\ v.id = Stranger \/ (live[o] # None /\ v.id = live[o].id)
      <4>1. CASE live[o] = None /\ o \in Served
                   /\ live' = [live EXCEPT ![o] = [content |-> Edited, id |-> Stranger]]
        <5>1. [content |-> Edited, id |-> Stranger] \in Live
          BY DEF Live
        <5>2. QED
          BY <4>1, <5>1
      <4>2. CASE live[o] # None /\ live' = [live EXCEPT ![o].content = Edited]
        <5>1. live[o] \in Live /\ o \in Served
          BY <1>1, <4>2 DEF ServedLives
        <5>2. [live[o] EXCEPT !.content = Edited] \in Live
                /\ [live[o] EXCEPT !.content = Edited].id = live[o].id
          BY <5>1 DEF Live
        <5>3. QED
          BY <4>2, <5>1, <5>2
      <4>3. CASE live[o] # None /\ live' = [live EXCEPT ![o].id = Stranger]
        <5>1. live[o] \in Live /\ o \in Served
          BY <1>1, <4>3 DEF ServedLives
        <5>2. [live[o] EXCEPT !.id = Stranger] \in Live
                /\ [live[o] EXCEPT !.id = Stranger].id = Stranger
          BY <5>1 DEF Live
        <5>3. QED
          BY <4>3, <5>1, <5>2
      <4>4. QED
        BY <2>2, <4>1, <4>2, <4>3 DEF ByHand
    <3>2. \A p \in Object : live'[p] = IF p = o THEN v ELSE live[p]
      BY <1>1, <3>1
    <3>3. v # None
      BY NoneAssumption
    <3>4. \A p \in Served : p \in Served'
      BY <3>2, <3>3, GitOpsAssumption DEF Served
    <3>5. ServedLives'
      BY <1>1, <3>1, <3>2, <3>4 DEF ServedLives
    <3>6. Ours' \subseteq Ours
      <4>1. ASSUME NEW p \in Ours'
            PROVE  p \in Ours
        <5>1. p \in everApplied /\ p \in Object /\ Ns[p] = Home /\ live'[p] # None
                /\ live'[p].id = <<p, Home>>
          BY <1>1, <1>2, <4>1 DEF Ours, CarriesID, trackingID
        <5>2. CASE p # o
          BY <3>2, <5>1, <5>2 DEF Ours, CarriesID, trackingID
        <5>3. CASE p = o
          <6>1. v.id # Stranger
            BY <3>2, <5>1, <5>3, GitOpsAssumption
          <6>2. live[p] # None /\ live[p].id = <<p, Home>>
            BY <3>1, <3>2, <5>1, <5>3, <6>1
          <6>3. QED
            BY <5>1, <6>2 DEF Ours, CarriesID, trackingID
        <5>4. QED
          BY <5>2, <5>3
      <4>2. QED
        BY <4>1
    <3>7. QED
      BY <3>5, <3>6
  <2>3. QED
    BY <2>1, <2>2
<1>4. app # None /\ lock # None => Accounted(op[lock], Ours', inventory)
  BY <1>3, AccountedLess DEF OrphanInv, Orphan
<1>5. OneAtATime'
  BY <1>2 DEF OrphanInv, Orphan, OneAtATime
<1>6. \A w \in Worker : OpTidy(op'[w], mapper')
  BY <1>2 DEF OrphanInv, Orphan
<1>7. QED
  BY <1>1, <1>2, <1>3, <1>4, <1>5, <1>6 DEF OrphanInv, Orphan

-----------------------------------------------------------------------------
(* What follows: an object the engine applied is never lost from the        *)
(* inventory, and a sync that prunes leaves nothing behind.                 *)

\* The rest of the world.
LEMMA WorldOrphan ==
    ASSUME OrphanInv, Sheltered, (\E o \in Object : ByHand(o)) \/ Push \/ TenMinutes \/ Crash
    PROVE  Orphan'
<1>1. CASE Push \/ TenMinutes
  <2>1. UNCHANGED <<live, everApplied, mapper, app, inventory, lock, op>>
    BY <1>1 DEF Push, TenMinutes, dbVars, world
  <2>2. Ours' = Ours /\ ServedLives'
    BY <2>1, SameOurs DEF OrphanInv, Orphan
  <2>3. QED
    BY <2>1, <2>2 DEF OrphanInv, Orphan, OneAtATime
<1>2. ~Crash
  BY DEF Crash, Happens, Sheltered
<1>3. QED
  BY <1>1, <1>2, ByHandOrphan

\* The invariant holds at first.
LEMMA InitOrphan == Init => OrphanInv
<1> SUFFICES ASSUME Init PROVE OrphanInv
  OBVIOUS
<1>1. app \in App /\ app # None
  BY NoneAssumption DEF Init, App
<1>2. \A w \in Worker : op[w] = Idle
  BY DEF Init
<1>3. OneAtATime
  BY <1>2, IdleTidy, GitOpsAssumption DEF OneAtATime, Init
<1>4. ServedLives /\ Ours = {}
  BY DEF ServedLives, Ours, Init
<1>5. \A w \in Worker : OpTidy(op[w], mapper)
  BY <1>2, IdleTidy
<1>6. lock = None
  BY DEF Init
<1>7. QED
  BY <1>1, <1>3, <1>4, <1>5, <1>6, InitGitOpsInv DEF OrphanInv, Orphan

\* And every step keeps it, as long as the engine is sheltered.
LEMMA NextOrphan == Sheltered /\ OrphanInv /\ [Next]_vars => OrphanInv'
<1> SUFFICES ASSUME Sheltered, OrphanInv, [Next]_vars PROVE OrphanInv'
  OBVIOUS
<1>1. ASSUME NEW w \in Worker, Step(w)
      PROVE  Orphan'
  BY <1>1, SaveOrphan, LockOrphan, OpenOrphan, OpenFailsOrphan, CompareOrphan, StoreOrphan,
     DecideOrphan, ApplyOrphan, AppliedOrphan, PruneLookOrphan, PruneDeleteOrphan,
     ApplyAgainOrphan, RecordInventoryOrphan, FinishOrphan, CascadeOrphan, EraseOrphan,
     RemoveOrphan, Zenon DEF Step
<1>2. CASE UNCHANGED vars
  <2>1. UNCHANGED <<live, everApplied, mapper, app, inventory, lock, op>>
    BY <1>2 DEF vars
  <2>2. Ours' = Ours /\ ServedLives'
    BY <2>1, SameOurs DEF OrphanInv, Orphan
  <2>3. Orphan'
    BY <2>1, <2>2 DEF OrphanInv, Orphan, OneAtATime
  <2>4. QED
    BY <2>3, NextGitOpsInv DEF OrphanInv
<1>3. CASE Next
  <2>1. Orphan'
    BY <1>1, <1>3, StartOrphan, WorldOrphan, Zenon DEF Next
  <2>2. QED
    BY <1>3, <2>1, NextGitOpsInv DEF OrphanInv
<1>4. QED
  BY <1>2, <1>3

\* So it always holds.
LEMMA OrphanInvAlways ==
    ASSUME Sheltered
    PROVE  Spec => []OrphanInv
<1>1. OrphanInv /\ [Next]_vars => OrphanInv'
  BY NextOrphan
<1>2. QED
  BY <1>1, InitOrphan, PTL DEF Spec

\* An object the engine applied, that lives in the application's namespace and
\* still carries the tracking id, is in the inventory whenever no operation is
\* under way: whatever is pushed, edited by hand, refused, restarted or saved.
THEOREM NothingIsOrphaned ==
    ASSUME Sheltered
    PROVE  Spec => []NothingOrphaned
<1>1. OrphanInv => NothingOrphaned
  BY DEF OrphanInv, Orphan, NothingOrphaned, Resting, Ours
<1>2. QED
  BY <1>1, OrphanInvAlways, PTL

\* A sync with prune that ends without a failure leaves nothing the application
\* ever put in the cluster that its commit does not declare, where every object
\* outside the application's namespace is declared by every commit and the
\* application is not deleted.
THEOREM PruneIsComplete ==
    ASSUME Sheltered, Events \cap Deletions = {},
           \A o \in Object, r \in Revision : Ns[o] = Home \/ o \in Declared(r)
    PROVE  Spec => PruneLeavesNothing
<1>1. ASSUME OrphanInv, NEW w \in Worker, Finish(w), Prunes(op[w]), ~op[w].failed,
             NEW o \in everApplied \ Declared(op[w].rev), live[o] # None
      PROVE  live[o].id # Stamped(o)
  <2>1. op[w].pc = "finish" /\ op[w].pc \in Critical
    BY <1>1 DEF Finish, Critical
  <2>2. op[w] \in Op /\ OpTidy(op[w], mapper) /\ Accounted(op[w], Ours, inventory)
    BY <1>1, <2>1, HolderHas DEF OrphanInv, Orphan
  <2>3. op[w].rev \in Revision /\ o \in Object
    BY <1>1, <2>1, <2>2 DEF OpTidy, Syncing, Op, OrphanInv, GitOpsInv, TypeOK
  <2>4. Ns[o] = Home /\ o \notin Ours
    BY <1>1, <2>1, <2>2, <2>3 DEF Accounted
  <2>5. QED
    BY <1>1, <2>4 DEF Ours, CarriesID, Stamped
<1>2. OrphanInv => \A w \in Worker : Finish(w) /\ Prunes(op[w]) /\ ~op[w].failed =>
          \A o \in everApplied \ Declared(op[w].rev) :
              live[o] # None => live[o].id # Stamped(o)
  BY <1>1
<1>3. QED
  BY <1>2, OrphanInvAlways, PTL DEF PruneLeavesNothing
=============================================================================
