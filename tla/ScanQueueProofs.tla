--------------------------- MODULE ScanQueueProofs ---------------------------
(***************************************************************************)
(* Proofs about ScanQueue: its type, that a key is flagged exactly while   *)
(* one job of it is on its way, and that no commit is forgotten.           *)
(***************************************************************************)
EXTENDS ScanQueue, TLAPS

USE ScanQueueAssumption

\* The three places a job on its way can be in.
Asking(c, j) == call[c].pc # "idle" /\ call[c].job = j
At(i, j) == i \in 1..Len(scanQueue) /\ scanQueue[i] = j
Took(w, j) == worker[w].pc = "received" /\ worker[w].job = j

\* A flagged key is somewhere,
FlagHeld ==
    \A j \in queued :
        \/ \E c \in Caller : Asking(c, j)
        \/ \E i \in 1..Len(scanQueue) : At(i, j)
        \/ \E w \in Worker : Took(w, j)

\* what is anywhere is flagged,
HeldFlag ==
    /\ \A c \in Caller, j \in Job : Asking(c, j) => j \in queued
    /\ \A i \in 1..Len(scanQueue), j \in Job : At(i, j) => j \in queued
    /\ \A w \in Worker, j \in Job : Took(w, j) => j \in queued

\* and it is in one place.
HeldOnce ==
    /\ \A c, d \in Caller, j \in Job : Asking(c, j) /\ Asking(d, j) => c = d
    /\ \A i, k \in 1..Len(scanQueue), j \in Job : At(i, j) /\ At(k, j) => i = k
    /\ \A w, v \in Worker, j \in Job : Took(w, j) /\ Took(v, j) => w = v
    /\ \A c \in Caller, i \in 1..Len(scanQueue), j \in Job : ~(Asking(c, j) /\ At(i, j))
    /\ \A c \in Caller, w \in Worker, j \in Job : ~(Asking(c, j) /\ Took(w, j))
    /\ \A i \in 1..Len(scanQueue), w \in Worker, j \in Job : ~(At(i, j) /\ Took(w, j))

\* A commit no scan has looked at: its key is flagged, or a worker has cleared
\* the flag and is about to begin.
CommitsCovered ==
    \A r \in unseen :
        \/ Full(r) \in queued
        \/ \E w \in Worker : worker[w].pc = "unqueued" /\ worker[w].job = Full(r)

\* A pass that has picked something still has room in its batch.
RoomInBatch == poll.pick # {} => poll.count < Batch

QueueInv == TypeOK /\ RoomInBatch /\ FlagHeld /\ HeldFlag /\ HeldOnce /\ CommitsCovered

CallType == {Resting} \cup [pc : {"sending", "dropping"}, job : Job]
WorkerType == {Resting} \cup [pc : {"received", "unqueued"}, job : Job]
              \cup [pc : {"scanning"}, job : Job, code : 0..FullAge]

-----------------------------------------------------------------------------
(* Typing.                                                                 *)

\* The jobs of a repository are jobs.
LEMMA JobsAreJobs ==
    ASSUME NEW r \in Repo
    PROVE  Full(r) \in Job /\ Image(r) \in Job
BY DEF Full, Image, Job

\* A caller that is in EnqueueScan has a job, and so has a worker at work.
LEMMA BusyHaveJobs ==
    ASSUME TypeOK
    PROVE  /\ \A c \in Caller : call[c].pc # "idle" => call[c].job \in Job
           /\ \A w \in Worker : worker[w].pc # "idle" => worker[w].job \in Job
BY DEF TypeOK, Resting

\* What a repository is due for is a job of it.
LEMMA DueAreJobs ==
    ASSUME NEW r \in Repo
    PROVE  Due(r) \subseteq Job
BY JobsAreJobs DEF Due

\* EnqueueScan keeps the types of what it touches.
LEMMA EnqueueTyped ==
    ASSUME TypeOK, NEW c \in Caller, NEW j \in Job, EnqueueScan(c, j)
    PROVE  queued' \subseteq Job /\ call' \in [Caller -> CallType]
<1>1. queued \subseteq Job /\ call \in [Caller -> CallType]
  BY DEF TypeOK, CallType
<1>2. [pc |-> "sending", job |-> j] \in CallType
  BY DEF CallType
<1> QED BY <1>1, <1>2 DEF EnqueueScan

\* An age that grows stays within its limit.
LEMMA OlderBounded ==
    ASSUME NEW limit \in Nat, NEW age \in 0..limit
    PROVE  Older(age, limit) \in 0..limit
BY DEF Older

\* The first job of a channel that holds one, and the channel without it.
LEMMA TakeFirst ==
    ASSUME NEW q \in Seq(Job), q # <<>>
    PROVE  /\ Len(q) \in Nat /\ Len(q) > 0
           /\ Head(q) = q[1] /\ Head(q) \in Job
           /\ Tail(q) \in Seq(Job) /\ Len(Tail(q)) = Len(q) - 1
           /\ \A i \in 1..(Len(q) - 1) : Tail(q)[i] = q[i + 1]
OBVIOUS

\* A channel with one more job.
LEMMA AddLast ==
    ASSUME NEW q \in Seq(Job), NEW j \in Job
    PROVE  /\ Append(q, j) \in Seq(Job) /\ Len(Append(q, j)) = Len(q) + 1
           /\ \A i \in 1..Len(q) : Append(q, j)[i] = q[i]
           /\ Append(q, j)[Len(q) + 1] = j
OBVIOUS

\* Every step keeps the types, and keeps room in a batch for what is picked.
LEMMA TypeKeeps ==
    ASSUME TypeOK, RoomInBatch, [Next]_vars
    PROVE  TypeOK' /\ RoomInBatch'
<1> USE DEF Fine, Happens, rowVars, pollVars
<1>t. /\ scanQueue \in Seq(Job) /\ queued \subseteq Job
      /\ call \in [Caller -> CallType] /\ worker \in [Worker -> WorkerType]
      /\ Repos \in Nat /\ Batch \in Nat \ {0} /\ ImageAge \in Nat /\ FullAge \in Nat
      /\ Depth \in Nat /\ MaxDisturb \in Nat
  BY DEF TypeOK, CallType, WorkerType
<1>1. ASSUME NEW c \in Caller, NEW r \in Repo, Commit(c, r) PROVE TypeOK' /\ RoomInBatch'
  <2>1. Full(r) \in Job
    BY JobsAreJobs
  <2>2. queued' \subseteq Job /\ call' \in [Caller -> CallType]
    BY <1>1, <2>1, EnqueueTyped DEF Commit
  <2>3. unseen' \subseteq Repo /\ disturbances' \in 0..MaxDisturb
    BY <1>1, <1>t DEF Commit, TypeOK
  <2> QED BY <1>1, <2>2, <2>3 DEF Commit, TypeOK, RoomInBatch, CallType
<1>2. ASSUME NEW c \in Caller, Send(c) PROVE TypeOK' /\ RoomInBatch'
  <2>1. call[c] \in CallType /\ call[c].pc = "sending" /\ call[c].job \in Job
    BY <1>2, <1>t, BusyHaveJobs DEF Send
  <2>2. scanQueue' \in Seq(Job) /\ Len(scanQueue') <= Depth
    <3>1. Len(scanQueue) \in Nat /\ Len(scanQueue) <= Depth
      BY DEF TypeOK
    <3>2. CASE Len(scanQueue) < Depth /\ scanQueue' = Append(scanQueue, call[c].job)
      BY <1>t, <2>1, <3>1, <3>2, AddLast
    <3>3. CASE scanQueue' = scanQueue
      BY <1>t, <3>1, <3>3
    <3> QED BY <1>2, <3>2, <3>3 DEF Send
  <2>3. [call[c] EXCEPT !.pc = "dropping"] \in CallType /\ Resting \in CallType
    BY <2>1 DEF CallType, Resting
  <2>4. call' \in [Caller -> CallType]
    BY <1>2, <1>t, <2>3 DEF Send
  <2> QED BY <1>2, <2>2, <2>4 DEF Send, TypeOK, RoomInBatch, CallType
<1>3. ASSUME NEW c \in Caller, Drop(c) PROVE TypeOK' /\ RoomInBatch'
  <2>1. call' \in [Caller -> CallType]
    BY <1>3, <1>t DEF Drop, CallType
  <2> QED BY <1>3, <2>1 DEF Drop, TypeOK, RoomInBatch, CallType
<1>4. ASSUME NEW w \in Worker, Receive(w) PROVE TypeOK' /\ RoomInBatch'
  <2>1. Tail(scanQueue) \in Seq(Job) /\ Len(Tail(scanQueue)) <= Depth /\ Head(scanQueue) \in Job
    BY <1>4, <1>t, TakeFirst DEF Receive, TypeOK
  <2>2. [pc |-> "received", job |-> Head(scanQueue)] \in WorkerType
    BY <2>1 DEF WorkerType
  <2>3. worker' \in [Worker -> WorkerType]
    BY <1>4, <1>t, <2>2 DEF Receive
  <2> QED BY <1>4, <2>1, <2>3 DEF Receive, TypeOK, RoomInBatch, WorkerType
<1>5. ASSUME NEW w \in Worker, Unqueue(w) PROVE TypeOK' /\ RoomInBatch'
  <2>1. [worker[w] EXCEPT !.pc = "unqueued"] \in WorkerType
    BY <1>5, <1>t DEF Unqueue, WorkerType, Resting
  <2>2. worker' \in [Worker -> WorkerType]
    BY <1>5, <1>t, <2>1 DEF Unqueue
  <2> QED BY <1>5, <2>2 DEF Unqueue, TypeOK, RoomInBatch, WorkerType
<1>6. ASSUME NEW w \in Worker, Begin(w) PROVE TypeOK' /\ RoomInBatch'
  <2>1. worker[w].job \in Job /\ worker[w].job.repo \in Repo
    BY <1>6, BusyHaveJobs DEF Begin, Job
  <2>2. code[worker[w].job.repo] \in 0..FullAge
    BY <2>1 DEF TypeOK
  <2>3. [pc |-> "scanning", job |-> worker[w].job, code |-> code[worker[w].job.repo]] \in WorkerType
    BY <2>1, <2>2 DEF WorkerType
  <2>4. worker' \in [Worker -> WorkerType]
    BY <1>6, <1>t, <2>3 DEF Begin
  <2>5. attempt' \in [Repo -> 0..ImageAge] /\ unseen' \subseteq Repo
    <3>1. attempt' = [attempt EXCEPT ![worker[w].job.repo] = 0] /\ unseen' \subseteq unseen
      BY <1>6 DEF Begin
    <3>2. attempt \in [Repo -> 0..ImageAge] /\ unseen \subseteq Repo
      BY DEF TypeOK
    <3>3. 0 \in 0..ImageAge
      BY <1>t
    <3> QED BY <3>1, <3>2, <3>3
  <2> QED BY <1>6, <2>4, <2>5 DEF Begin, TypeOK, RoomInBatch, WorkerType
<1>7. ASSUME NEW w \in Worker, Scanned(w) PROVE TypeOK' /\ RoomInBatch'
  <2>1. worker[w].code \in 0..FullAge
    BY <1>7, <1>t DEF Scanned, WorkerType, Resting
  <2>2. worker' \in [Worker -> WorkerType]
    BY <1>7, <1>t DEF Scanned, WorkerType
  <2>3. code' \in [Repo -> 0..FullAge] /\ updated' \in [Repo -> 0..ImageAge]
    <3>1. code' = [code EXCEPT ![worker[w].job.repo] = CodeDate(worker[w])]
      BY <1>7 DEF Scanned
    <3>4. CodeDate(worker[w]) \in 0..FullAge /\ 0 \in 0..ImageAge
      BY <1>t, <2>1 DEF CodeDate
    <3>2. updated' = [updated EXCEPT ![worker[w].job.repo] = 0]
      BY <1>7 DEF Scanned
    <3>3. code \in [Repo -> 0..FullAge] /\ updated \in [Repo -> 0..ImageAge]
      BY DEF TypeOK
    <3> QED BY <3>1, <3>2, <3>3, <3>4
  <2> QED BY <1>7, <2>2, <2>3 DEF Scanned, TypeOK, RoomInBatch, WorkerType
<1>8. ASSUME NEW w \in Worker, ScanFailed(w) PROVE TypeOK' /\ RoomInBatch'
  <2>1. worker' \in [Worker -> WorkerType]
    BY <1>8, <1>t DEF ScanFailed, WorkerType
  <2>2. disturbances' \in 0..MaxDisturb
    BY <1>8, <1>t DEF ScanFailed, TypeOK
  <2> QED BY <1>8, <2>1, <2>2 DEF ScanFailed, TypeOK, RoomInBatch, WorkerType
<1>9. CASE PollStart
  <2>1. poll' \in [next : 1..(Repos + 1), count : 0..Batch, pick : SUBSET Job] /\ poll'.pick = {}
    BY <1>9, <1>t DEF PollStart, NoPass
  <2> QED BY <1>9, <2>1 DEF PollStart, TypeOK, RoomInBatch
<1>10. CASE PollLook
  <2>1. poll.next \in Repo /\ Due(poll.next) \subseteq Job
    BY <1>10, <1>t, DueAreJobs DEF PollLook, TypeOK, Repo
  <2>2. /\ poll' \in [next : 1..(Repos + 1), count : 0..Batch, pick : SUBSET Job]
        /\ poll'.pick # {} => poll'.count < Batch
    <3>1. poll \in [next : 1..(Repos + 1), count : 0..Batch, pick : SUBSET Job]
      BY DEF TypeOK
    <3>2. CASE poll.count >= Batch
      <4>1. poll' = [next |-> Repos + 1, count |-> 0, pick |-> {}]
        BY <1>10, <3>2 DEF PollLook, NoPass
      <4> QED BY <1>t, <4>1
    <3>3. CASE poll.count < Batch
      <4>1. poll' = [poll EXCEPT !.next = poll.next + 1, !.pick = Due(poll.next)]
        BY <1>10, <1>t, <3>1, <3>3 DEF PollLook
      <4>2. poll.next + 1 \in 1..(Repos + 1)
        BY <1>t, <2>1 DEF Repo
      <4> QED BY <2>1, <3>1, <3>3, <4>1, <4>2
    <3> QED BY <1>t, <3>1, <3>2, <3>3
  <2> QED BY <1>10, <2>2 DEF PollLook, TypeOK, RoomInBatch
<1>11. CASE PollEnqueue
  <2>1. PICK j \in poll.pick : EnqueueScan(Poller, j)
    BY <1>11 DEF PollEnqueue
  <2>2. j \in Job /\ Poller \in Caller
    BY DEF TypeOK
  <2>3. queued' \subseteq Job /\ call' \in [Caller -> CallType]
    BY <2>1, <2>2, EnqueueTyped
  <2>4. /\ poll' \in [next : 1..(Repos + 1), count : 0..Batch, pick : SUBSET Job]
        /\ poll'.pick = {}
    <3>1. poll \in [next : 1..(Repos + 1), count : 0..Batch, pick : SUBSET Job]
      BY DEF TypeOK
    <3>2. poll.count + 1 \in 0..Batch
      BY <1>t, <2>1, <3>1 DEF RoomInBatch
    <3>3. poll' = [poll EXCEPT !.pick = {}, !.count = poll.count + 1]
      BY <1>11 DEF PollEnqueue
    <3> QED BY <3>1, <3>2, <3>3
  <2> QED BY <1>11, <2>3, <2>4 DEF PollEnqueue, TypeOK, RoomInBatch, CallType
<1>12. CASE Tick
  <2>1. /\ attempt' \in [Repo -> 0..ImageAge] /\ code' \in [Repo -> 0..FullAge]
        /\ updated' \in [Repo -> 0..ImageAge]
    BY <1>12, <1>t, OlderBounded DEF Tick, TypeOK
  <2>2. ASSUME NEW w \in Worker, worker[w].pc = "scanning"
        PROVE  [worker[w] EXCEPT !.code = Older(@, FullAge)] \in WorkerType
    <3>1. worker[w] \in [pc : {"scanning"}, job : Job, code : 0..FullAge]
      BY <1>t, <2>2 DEF WorkerType, Resting
    <3>2. Older(worker[w].code, FullAge) \in 0..FullAge
      BY <1>t, <3>1, OlderBounded
    <3> QED BY <3>1, <3>2 DEF WorkerType
  <2>3. worker' \in [Worker -> WorkerType]
    BY <1>12, <1>t, <2>2 DEF Tick
  <2> QED BY <1>12, <2>1, <2>3 DEF Tick, TypeOK, RoomInBatch, WorkerType
<1>13. CASE Restart
  <2>1. call' \in [Caller -> CallType] /\ worker' \in [Worker -> WorkerType]
    BY <1>13 DEF Restart, CallType, WorkerType
  <2>2. /\ poll' \in [next : 1..(Repos + 1), count : 0..Batch, pick : SUBSET Job]
        /\ poll'.pick = {}
    BY <1>13, <1>t DEF Restart, NoPass
  <2>3. attempt' \in [Repo -> 0..ImageAge] /\ disturbances' \in 0..MaxDisturb
    BY <1>13, <1>t DEF Restart, TypeOK
  <2>4. scanQueue' \in Seq(Job) /\ Len(scanQueue') <= Depth
    BY <1>13, <1>t DEF Restart
  <2> QED BY <1>13, <2>1, <2>2, <2>3, <2>4 DEF Restart, TypeOK, RoomInBatch, CallType, WorkerType
<1>14. CASE UNCHANGED vars
  BY <1>14 DEF vars, TypeOK, RoomInBatch
<1> QED
  BY <1>1, <1>2, <1>3, <1>4, <1>5, <1>6, <1>7, <1>8, <1>9, <1>10, <1>11, <1>12, <1>13, <1>14
  DEF Next, Enqueueing, Working, Polling

-----------------------------------------------------------------------------
(* Flags and jobs.                                                         *)

Held == FlagHeld /\ HeldFlag /\ HeldOnce

\* EnqueueScan by a caller that is nowhere else gives a job its flag.
LEMMA EnqueueHeld ==
    ASSUME TypeOK, Held, NEW c \in Caller, NEW j \in Job, call[c] = Resting,
           EnqueueScan(c, j), scanQueue' = scanQueue, worker' = worker
    PROVE  Held'
<1>1. CASE j \in queued
  BY <1>1 DEF EnqueueScan, Held, FlagHeld, HeldFlag, HeldOnce, Asking, At, Took
<1>2. CASE j \notin queued
  <2>1. queued' = queued \cup {j} /\ call'[c] = [pc |-> "sending", job |-> j]
    BY <1>2 DEF EnqueueScan, TypeOK
  <2>2. \A d \in Caller : d # c => call'[d] = call[d]
    BY <1>2 DEF EnqueueScan, TypeOK
  <2>3. ~Asking(c, j) /\ \A k \in Job : ~Asking(c, k)
    BY DEF Asking, Resting
  <2>4. \A d \in Caller, k \in Job : Asking(d, k)' <=> Asking(d, k) \/ (d = c /\ k = j)
    BY <2>1, <2>2, <2>3 DEF Asking
  <2>5. /\ \A i, k : At(i, k)' <=> At(i, k)
        /\ \A w, k : Took(w, k)' <=> Took(w, k)
    BY DEF At, Took
  <2>6. /\ \A d \in Caller : ~Asking(d, j)
        /\ \A i \in 1..Len(scanQueue) : ~At(i, j)
        /\ \A w \in Worker : ~Took(w, j)
    BY <1>2 DEF Held, HeldFlag
  <2>7. FlagHeld'
    BY <2>1, <2>4, <2>5 DEF Held, FlagHeld, TypeOK
  <2>8. HeldFlag'
    BY <2>1, <2>4, <2>5 DEF Held, HeldFlag
  <2>9. HeldOnce'
    BY <2>4, <2>5, <2>6 DEF Held, HeldOnce
  <2> QED BY <2>7, <2>8, <2>9 DEF Held
<1> QED BY <1>1, <1>2

\* A send moves a job from its caller to the end of the channel, or leaves it
\* where it is.
LEMMA SendHeld ==
    ASSUME TypeOK, Held, NEW c \in Caller, Send(c)
    PROVE  Held'
<1> DEFINE j == call[c].job
           n == Len(scanQueue)
<1>1. /\ scanQueue \in Seq(Job) /\ call \in [Caller -> CallType]
      /\ queued' = queued /\ worker' = worker /\ call[c].pc = "sending" /\ j \in Job
  BY BusyHaveJobs DEF TypeOK, CallType, Send
<1>2. \A w \in Worker, k \in Job : Took(w, k)' <=> Took(w, k)
  BY <1>1 DEF Took
<1>3. CASE scanQueue' = Append(scanQueue, j) /\ call' = [call EXCEPT ![c] = Resting]
  <2>1. \A d \in Caller, k \in Job : Asking(d, k)' <=> Asking(d, k) /\ d # c
    BY <1>1, <1>3 DEF Asking, Resting
  <2>2. n \in Nat /\ Len(scanQueue') = n + 1
    BY <1>1, <1>3, AddLast
  <2>3. \A i \in 1..(n + 1), k \in Job : At(i, k)' <=> (i <= n /\ At(i, k)) \/ (i = n + 1 /\ k = j)
    BY <1>1, <1>3, <2>2, AddLast DEF At
  <2>4. Asking(c, j)
    BY <1>1 DEF Asking
  <2> HIDE DEF j, n
  <2>5. 1..Len(scanQueue) = 1..n
    BY DEF n
  <2>6. FlagHeld'
    <3>1. SUFFICES ASSUME NEW k \in queued
                   PROVE  \/ \E d \in Caller : Asking(d, k)'
                          \/ \E i \in 1..(n + 1) : At(i, k)'
                          \/ \E w \in Worker : Took(w, k)'
      BY <1>1, <2>2 DEF FlagHeld
    <3>2. k \in Job
      BY DEF TypeOK
    <3>3. CASE \E d \in Caller : Asking(d, k) /\ d # c
      BY <2>1, <3>2, <3>3
    <3>4. CASE Asking(c, k)
      <4>1. k = j /\ n + 1 \in 1..(n + 1)
        BY <2>2, <3>4 DEF Asking, j
      <4> QED BY <2>3, <3>2, <4>1
    <3>5. CASE \E i \in 1..n : At(i, k)
      <4>1. PICK i \in 1..n : At(i, k)
        BY <3>5
      <4>2. i \in 1..(n + 1) /\ i <= n
        BY <2>2
      <4> QED BY <2>3, <3>2, <4>1, <4>2
    <3>6. CASE \E w \in Worker : Took(w, k)
      BY <1>2, <3>2, <3>6
    <3> QED BY <2>5, <3>3, <3>4, <3>5, <3>6 DEF Held, FlagHeld
  <2>7. HeldFlag'
    BY <1>1, <1>2, <2>1, <2>2, <2>3, <2>4, <2>5 DEF Held, HeldFlag
  <2>8. HeldOnce'
    BY <1>1, <1>2, <2>1, <2>2, <2>3, <2>4, <2>5 DEF Held, HeldOnce
  <2> QED BY <2>6, <2>7, <2>8 DEF Held
<1>4. CASE scanQueue' = scanQueue /\ call' = [call EXCEPT ![c].pc = "dropping"]
  <2>1. call'[c].pc = "dropping" /\ call'[c].job = call[c].job
    BY <1>1, <1>4 DEF CallType, Resting
  <2>2. \A d \in Caller : d # c => call'[d] = call[d]
    BY <1>1, <1>4
  <2>3. \A d \in Caller, k \in Job : Asking(d, k)' <=> Asking(d, k)
    BY <1>1, <2>1, <2>2 DEF Asking
  <2>4. \A i, k : At(i, k)' <=> At(i, k)
    BY <1>4 DEF At
  <2>5. 1..Len(scanQueue') = 1..Len(scanQueue)
    BY <1>4
  <2>6. FlagHeld'
    BY <1>1, <1>2, <2>3, <2>4, <2>5 DEF Held, FlagHeld, TypeOK
  <2>7. HeldFlag'
    BY <1>1, <1>2, <2>3, <2>4, <2>5 DEF Held, HeldFlag
  <2>8. HeldOnce'
    BY <1>1, <1>2, <2>3, <2>4, <2>5 DEF Held, HeldOnce
  <2> QED BY <2>6, <2>7, <2>8 DEF Held
<1> QED BY <1>3, <1>4 DEF Send

\* A drop takes a job from its caller, and its flag with it.
LEMMA DropHeld ==
    ASSUME TypeOK, Held, NEW c \in Caller, Drop(c)
    PROVE  Held'
<1> DEFINE j == call[c].job
<1>1. /\ scanQueue' = scanQueue /\ worker' = worker /\ queued' = queued \ {j}
      /\ j \in Job /\ Asking(c, j)
  BY BusyHaveJobs DEF Drop, Asking
<1>2. \A d \in Caller, k \in Job : Asking(d, k)' <=> Asking(d, k) /\ d # c
  BY DEF Drop, Asking, Resting, TypeOK
<1>3. /\ \A i, k : At(i, k)' <=> At(i, k)
      /\ \A w, k : Took(w, k)' <=> Took(w, k)
      /\ 1..Len(scanQueue') = 1..Len(scanQueue)
  BY <1>1 DEF At, Took
<1>4. \A k \in Job : Asking(c, k) => k = j
  BY DEF Asking
<1> HIDE DEF j
<1>5. FlagHeld'
  <2>1. SUFFICES ASSUME NEW k \in queued, k # j
                 PROVE  \/ \E d \in Caller : Asking(d, k)'
                        \/ \E i \in 1..Len(scanQueue) : At(i, k)'
                        \/ \E w \in Worker : Took(w, k)'
    BY <1>1, <1>3 DEF FlagHeld
  <2>2. k \in Job /\ ~Asking(c, k)
    BY <1>4, <2>1 DEF TypeOK
  <2> QED BY <1>2, <1>3, <2>2 DEF Held, FlagHeld
<1>6. HeldFlag'
  BY <1>1, <1>2, <1>3 DEF Held, HeldFlag, HeldOnce
<1>7. HeldOnce'
  BY <1>2, <1>3 DEF Held, HeldOnce
<1> QED BY <1>5, <1>6, <1>7 DEF Held

\* A worker that receives takes the first job out of the channel.
LEMMA ReceiveHeld ==
    ASSUME TypeOK, Held, NEW w \in Worker, Receive(w)
    PROVE  Held'
<1> DEFINE j == Head(scanQueue)
           n == Len(scanQueue)
<1>1. /\ scanQueue \in Seq(Job) /\ scanQueue # <<>> /\ queued' = queued /\ call' = call
      /\ scanQueue' = Tail(scanQueue)
  BY DEF TypeOK, Receive
<1>2. n \in Nat /\ n > 0 /\ j \in Job /\ Len(scanQueue') = n - 1 /\ At(1, j)
  BY <1>1, TakeFirst DEF At
<1>3. \A i \in 1..(n - 1), k \in Job : At(i, k)' <=> At(i + 1, k)
  BY <1>1, <1>2, TakeFirst DEF At
<1>4. \A v \in Worker, k \in Job : Took(v, k)' <=> Took(v, k) \/ (v = w /\ k = j)
  BY DEF Took, Receive, TypeOK, Resting
<1>5. \A k \in Job : ~Took(w, k)
  BY DEF Took, Receive, Resting
<1>6. \A c, k : Asking(c, k)' <=> Asking(c, k)
  BY <1>1 DEF Asking
<1>7. \A k \in Job : At(1, k) => k = j
  BY <1>2 DEF At
<1>8. 1..Len(scanQueue) = 1..n /\ 1..Len(scanQueue') = 1..(n - 1)
  BY <1>2
<1> HIDE DEF j, n
<1>9. FlagHeld'
  <2>1. ASSUME NEW k \in Job, NEW i \in 1..n, At(i, k)
        PROVE  (\E h \in 1..(n - 1) : At(h, k)') \/ k = j
    <3>1. CASE i = 1
      BY <2>1, <3>1, <1>7
    <3>2. CASE i # 1
      <4>1. i - 1 \in 1..(n - 1) /\ (i - 1) + 1 = i
        BY <1>2, <3>2
      <4> QED BY <2>1, <4>1, <1>3
    <3> QED BY <3>1, <3>2
  <2> QED BY <2>1, <1>1, <1>2, <1>4, <1>6, <1>8 DEF Held, FlagHeld, TypeOK
<1>10. HeldFlag'
  BY <1>1, <1>2, <1>3, <1>4, <1>6, <1>8 DEF Held, HeldFlag
<1>11. HeldOnce'
  <2>1. \A i \in 1..(n - 1) : i \in 1..n /\ i + 1 \in 1..n /\ i + 1 # 1 /\ 1 \in 1..n
    BY <1>2
  <2>2. \A i \in 1..(n - 1), k \in Job : At(i, k)' => k # j
    BY <1>2, <1>3, <1>8, <2>1 DEF Held, HeldOnce
  <2>3. \A i, h \in 1..(n - 1), k \in Job : At(i, k)' /\ At(h, k)' => i = h
    BY <1>2, <1>3, <1>8, <2>1 DEF Held, HeldOnce
  <2>4. \A v \in Worker, c \in Caller : /\ Took(v, j) => FALSE
                                        /\ Asking(c, j) => FALSE
    BY <1>2, <1>8, <2>1 DEF Held, HeldOnce
  <2> QED BY <1>2, <1>3, <1>4, <1>6, <1>8, <2>1, <2>2, <2>3, <2>4 DEF Held, HeldOnce
<1> QED BY <1>9, <1>10, <1>11 DEF Held

\* A worker that clears the flag no longer counts as holding the job.
LEMMA UnqueueHeld ==
    ASSUME TypeOK, Held, NEW w \in Worker, Unqueue(w)
    PROVE  Held'
<1> DEFINE j == worker[w].job
<1>1. /\ scanQueue' = scanQueue /\ call' = call /\ queued' = queued \ {j}
      /\ j \in Job /\ Took(w, j)
  BY BusyHaveJobs DEF Unqueue, Took
<1>2. \A v \in Worker, k \in Job : Took(v, k)' <=> Took(v, k) /\ v # w
  <2>1. worker[w] \in [pc : {"received", "unqueued"}, job : Job]
    BY DEF Unqueue, TypeOK, Resting
  <2>2. worker'[w].pc = "unqueued" /\ \A v \in Worker : v # w => worker'[v] = worker[v]
    BY <2>1 DEF Unqueue, TypeOK
  <2> QED BY <2>2 DEF Took
<1>3. /\ \A i, k : At(i, k)' <=> At(i, k)
      /\ \A c, k : Asking(c, k)' <=> Asking(c, k)
      /\ 1..Len(scanQueue') = 1..Len(scanQueue)
  BY <1>1 DEF At, Asking
<1>4. \A k \in Job : Took(w, k) => k = j
  BY DEF Took
<1> HIDE DEF j
<1>5. FlagHeld'
  <2>1. SUFFICES ASSUME NEW k \in queued, k # j
                 PROVE  \/ \E c \in Caller : Asking(c, k)'
                        \/ \E i \in 1..Len(scanQueue) : At(i, k)'
                        \/ \E v \in Worker : Took(v, k)'
    BY <1>1, <1>3 DEF FlagHeld
  <2>2. k \in Job /\ ~Took(w, k)
    BY <1>4, <2>1 DEF TypeOK
  <2> QED BY <1>2, <1>3, <2>2 DEF Held, FlagHeld
<1>6. HeldFlag'
  BY <1>1, <1>2, <1>3 DEF Held, HeldFlag, HeldOnce
<1>7. HeldOnce'
  BY <1>2, <1>3 DEF Held, HeldOnce
<1> QED BY <1>5, <1>6, <1>7 DEF Held

\* Steps that move no job that is on its way.
LEMMA OthersHeld ==
    ASSUME TypeOK, Held, scanQueue' = scanQueue, call' = call, queued' = queued,
           \A w \in Worker, k \in Job : Took(w, k)' <=> Took(w, k)
    PROVE  Held'
<1>1. /\ \A i, k : At(i, k)' <=> At(i, k)
      /\ \A c, k : Asking(c, k)' <=> Asking(c, k)
      /\ 1..Len(scanQueue') = 1..Len(scanQueue)
  BY DEF At, Asking
<1>2. HeldFlag' /\ HeldOnce'
  BY <1>1 DEF Held, HeldFlag, HeldOnce
<1>3. queued \subseteq Job
  BY DEF TypeOK
<1> QED BY <1>1, <1>2, <1>3 DEF Held, FlagHeld

\* Every step keeps flags and jobs together.
LEMMA HeldKeeps ==
    ASSUME TypeOK, Held, [Next]_vars
    PROVE  Held'
<1>1. ASSUME NEW c \in Caller, NEW r \in Repo, Commit(c, r) PROVE Held'
  BY <1>1, EnqueueHeld, JobsAreJobs DEF Commit
<1>2. ASSUME NEW c \in Caller, Send(c) PROVE Held'
  BY <1>2, SendHeld
<1>3. ASSUME NEW c \in Caller, Drop(c) PROVE Held'
  BY <1>3, DropHeld
<1>4. ASSUME NEW w \in Worker, Receive(w) PROVE Held'
  BY <1>4, ReceiveHeld
<1>5. ASSUME NEW w \in Worker, Unqueue(w) PROVE Held'
  BY <1>5, UnqueueHeld
<1>6. ASSUME NEW w \in Worker, Begin(w) \/ Scanned(w) \/ ScanFailed(w) PROVE Held'
  <2>1. /\ worker[w].pc # "received" /\ worker'[w].pc # "received"
        /\ \A v \in Worker : v # w => worker'[v] = worker[v]
    BY <1>6 DEF Begin, Scanned, ScanFailed, Resting, TypeOK
  <2>2. \A v \in Worker, k \in Job : Took(v, k)' <=> Took(v, k)
    BY <2>1 DEF Took
  <2>3. scanQueue' = scanQueue /\ call' = call /\ queued' = queued
    BY <1>6 DEF Begin, Scanned, ScanFailed
  <2> QED BY <2>2, <2>3, OthersHeld
<1>7. CASE PollStart \/ PollLook \/ UNCHANGED vars
  <2>1. scanQueue' = scanQueue /\ call' = call /\ queued' = queued /\ worker' = worker
    BY <1>7 DEF PollStart, PollLook, vars
  <2> QED BY <2>1, OthersHeld DEF Took
<1>8. CASE PollEnqueue
  <2>1. PICK j \in poll.pick : EnqueueScan(Poller, j)
    BY <1>8 DEF PollEnqueue
  <2>2. j \in Job /\ Poller \in Caller
    BY DEF TypeOK
  <2>3. call[Poller] = Resting /\ scanQueue' = scanQueue /\ worker' = worker
    BY <1>8 DEF PollEnqueue
  <2> QED BY <2>1, <2>2, <2>3, EnqueueHeld
<1>9. CASE Tick
  <2>1. scanQueue' = scanQueue /\ call' = call /\ queued' = queued
    BY <1>9 DEF Tick
  <2>2. ASSUME NEW w \in Worker
        PROVE  worker[w].pc # "received" /\ worker'[w].pc # "received"
    <3>1. CASE worker[w].pc = "scanning"
      <4>1. worker[w] \in [pc : {"scanning"}, job : Job, code : 0..FullAge]
        <5>1. worker[w] \in WorkerType
          BY DEF TypeOK, WorkerType
        <5> QED BY <3>1, <5>1 DEF WorkerType, Resting
      <4>2. worker'[w] = [worker[w] EXCEPT !.code = Older(worker[w].code, FullAge)]
        BY <1>9, <3>1 DEF Tick
      <4> QED BY <4>1, <4>2
    <3>2. CASE worker[w] = Resting
      BY <1>9, <3>2 DEF Tick, Resting
    <3> QED BY <1>9, <3>1, <3>2 DEF Tick, HandedOver
  <2> QED BY <2>1, <2>2, OthersHeld DEF Took
<1>10. CASE Restart
  <2>1. /\ queued' = {} /\ Len(scanQueue') = 0
        /\ \A c \in Caller : call'[c].pc = "idle"
        /\ \A w \in Worker : worker'[w].pc = "idle"
    BY <1>10 DEF Restart, Resting
  <2> QED BY <2>1 DEF Held, FlagHeld, HeldFlag, HeldOnce, Asking, At, Took
<1> QED
  BY <1>1, <1>2, <1>3, <1>4, <1>5, <1>6, <1>7, <1>8, <1>9, <1>10
  DEF Next, Enqueueing, Working, Polling

-----------------------------------------------------------------------------
(* Commits.                                                                *)

\* Every step keeps a commit no scan has looked at covered.
LEMMA CoverKeeps ==
    ASSUME TypeOK, CommitsCovered, [Next]_vars
    PROVE  CommitsCovered'
<1>1. ASSUME NEW c \in Caller, NEW r \in Repo, Commit(c, r) PROVE CommitsCovered'
  <2>1. Full(r) \in queued' /\ queued \subseteq queued' /\ worker' = worker
    BY <1>1 DEF Commit, EnqueueScan
  <2> QED BY <1>1, <2>1 DEF Commit, CommitsCovered, Full
<1>2. ASSUME NEW c \in Caller, Drop(c) PROVE CommitsCovered'
  <2>1. ASSUME NEW r \in unseen' PROVE r \in unseen /\ (Full(r) \in queued => Full(r) \in queued')
    BY <1>2, <2>1 DEF Drop
  <2>2. worker' = worker
    BY <1>2 DEF Drop
  <2> QED BY <2>1, <2>2 DEF CommitsCovered, Full
<1>3. ASSUME NEW w \in Worker, Unqueue(w) PROVE CommitsCovered'
  <2>1. worker[w] \in [pc : {"received", "unqueued"}, job : Job] /\ worker[w].pc = "received"
    BY <1>3 DEF Unqueue, TypeOK, Resting
  <2>2. /\ worker'[w].pc = "unqueued" /\ worker'[w].job = worker[w].job
        /\ \A v \in Worker : v # w => worker'[v] = worker[v]
        /\ queued' = queued \ {worker[w].job} /\ unseen' = unseen
    BY <1>3, <2>1 DEF Unqueue, TypeOK
  <2> QED BY <2>1, <2>2 DEF CommitsCovered, Full
<1>4. ASSUME NEW w \in Worker, Begin(w) PROVE CommitsCovered'
  <2>1. /\ queued' = queued /\ \A v \in Worker : v # w => worker'[v] = worker[v]
        /\ worker[w].job \in Job
    BY <1>4, BusyHaveJobs DEF Begin, TypeOK
  <2>2. ASSUME NEW r \in unseen' PROVE r \in unseen /\ worker[w].job # Full(r)
    BY <1>4, <2>2 DEF Begin, Full
  <2> QED BY <2>1, <2>2 DEF CommitsCovered, Full
<1>5. ASSUME unseen' \subseteq unseen, queued \subseteq queued',
             \A w \in Worker : worker[w].pc = "unqueued" => worker'[w] = worker[w]
      PROVE  CommitsCovered'
  BY <1>5 DEF CommitsCovered, Full
<1>6. ASSUME NEW c \in Caller, Send(c) PROVE CommitsCovered'
  BY <1>5, <1>6 DEF Send
<1>7. ASSUME NEW w \in Worker, Receive(w) \/ Scanned(w) \/ ScanFailed(w) PROVE CommitsCovered'
  <2>3. worker[w].pc # "unqueued"
    BY <1>7 DEF Receive, Scanned, ScanFailed, Resting
  <2>4. \E x : worker' = [worker EXCEPT ![w] = x]
    BY <1>7 DEF Receive, Scanned, ScanFailed
  <2>1. \A v \in Worker : worker[v].pc = "unqueued" => worker'[v] = worker[v]
    BY <2>3, <2>4 DEF TypeOK
  <2>2. unseen' = unseen /\ queued' = queued
    BY <1>7 DEF Receive, Scanned, ScanFailed
  <2> QED BY <1>5, <2>1, <2>2
<1>8. CASE PollStart \/ PollLook \/ PollEnqueue \/ UNCHANGED vars
  <2>1. unseen' = unseen /\ queued \subseteq queued' /\ worker' = worker
    BY <1>8 DEF PollStart, PollLook, PollEnqueue, EnqueueScan, vars
  <2> QED BY <1>5, <2>1
<1>9. CASE Tick
  <2>1. unseen' = unseen /\ queued' = queued
    BY <1>9 DEF Tick
  <2>2. \A w \in Worker : worker[w].pc = "unqueued" => worker'[w] = worker[w]
    BY <1>9 DEF Tick
  <2> QED BY <1>5, <2>1, <2>2
<1>10. CASE Restart
  BY <1>10 DEF Restart, CommitsCovered
<1> QED
  BY <1>1, <1>2, <1>3, <1>4, <1>6, <1>7, <1>8, <1>9, <1>10
  DEF Next, Enqueueing, Working, Polling

-----------------------------------------------------------------------------
(* The theorems.                                                           *)

\* The queue starts with nothing waiting.
LEMMA InitQueueInv == Init => QueueInv
<1> SUFFICES ASSUME Init PROVE QueueInv
  OBVIOUS
<1>1. TypeOK
  <2>1. call \in [Caller -> CallType] /\ worker \in [Worker -> WorkerType]
    BY DEF Init, CallType, WorkerType
  <2>2. poll \in [next : 1..(Repos + 1), count : 0..Batch, pick : SUBSET Job]
    BY DEF Init, NoPass
  <2>3. /\ attempt \in [Repo -> 0..ImageAge] /\ code \in [Repo -> 0..FullAge]
        /\ updated \in [Repo -> 0..ImageAge] /\ disturbances \in 0..MaxDisturb
    BY DEF Init
  <2>4. scanQueue \in Seq(Job) /\ Len(scanQueue) <= Depth
    BY DEF Init
  <2> QED BY <2>1, <2>2, <2>3, <2>4 DEF Init, TypeOK, CallType, WorkerType
<1>2. /\ queued = {} /\ Len(scanQueue) = 0 /\ unseen = {} /\ poll.pick = {}
      /\ \A c \in Caller : call[c].pc = "idle"
      /\ \A w \in Worker : worker[w].pc = "idle"
  BY DEF Init, Resting, NoPass
<1> QED
  BY <1>1, <1>2 DEF QueueInv, RoomInBatch, FlagHeld, HeldFlag, HeldOnce, CommitsCovered,
     Asking, At, Took

\* The inductive invariant holds in every state.
LEMMA QueueInvAlways == Spec => []QueueInv
<1>1. QueueInv /\ [Next]_vars => QueueInv'
  BY TypeKeeps, HeldKeeps, CoverKeeps DEF QueueInv, Held
<1> QED BY InitQueueInv, <1>1, PTL DEF Spec

\* The state of the queue has its type whatever the sizes of the channel, the
\* pool and the batch; in particular the channel never holds more than Depth.
THEOREM ScanQueueTypeCorrect == Spec => []TypeOK
<1>1. QueueInv => TypeOK
  BY DEF QueueInv
<1> QED BY <1>1, QueueInvAlways, PTL

\* What the three places say of a key is what its holders are.
LEMMA HoldersOnce ==
    ASSUME QueueInv, NEW j \in Job
    PROVE  /\ j \in queued <=> Holders(j) # {}
           /\ \A h1, h2 \in Holders(j) : h1 = h2
<1>1. \A h \in Holders(j) :
         \/ \E c \in Caller : h = <<"caller", c>> /\ Asking(c, j)
         \/ \E i \in 1..Len(scanQueue) : h = <<"place", i>> /\ At(i, j)
         \/ \E w \in Worker : h = <<"worker", w>> /\ Took(w, j)
  BY DEF Holders, Asking, At, Took
<1>2. /\ \A c \in Caller : Asking(c, j) => <<"caller", c>> \in Holders(j)
      /\ \A i \in 1..Len(scanQueue) : At(i, j) => <<"place", i>> \in Holders(j)
      /\ \A w \in Worker : Took(w, j) => <<"worker", w>> \in Holders(j)
  BY DEF Holders, Asking, At, Took
<1>3. j \in queued => Holders(j) # {}
  BY <1>2 DEF QueueInv, FlagHeld
<1>4. Holders(j) # {} => j \in queued
  BY <1>1 DEF QueueInv, HeldFlag
<1>5. \A h1, h2 \in Holders(j) : h1 = h2
  BY <1>1 DEF QueueInv, HeldOnce
<1> QED BY <1>3, <1>4, <1>5

\* A key is flagged exactly while one job of it is on its way to a scan:
\* nothing waits twice, and no flag outlives its job.
THEOREM FlagsAreExact == Spec => []FlagMeansOneWaiting
<1>1. QueueInv => FlagMeansOneWaiting
  BY HoldersOnce DEF FlagMeansOneWaiting
<1> QED BY <1>1, QueueInvAlways, PTL

\* A request that was collapsed into another is served by a scan that begins
\* after it, unless the queue was full.
THEOREM CommitsAreRemembered == Spec => []NoCommitForgotten
<1>1. QueueInv => NoCommitForgotten
  <2>1. ASSUME QueueInv, NEW r \in unseen, Full(r) \in queued PROVE Holders(Full(r)) # {}
    <3>1. Full(r) \in Job
      BY <2>1, JobsAreJobs DEF QueueInv, TypeOK
    <3> QED BY <2>1, <3>1, HoldersOnce
  <2> QED BY <2>1 DEF QueueInv, CommitsCovered, NoCommitForgotten
<1> QED BY <1>1, QueueInvAlways, PTL
=============================================================================
