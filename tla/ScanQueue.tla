------------------------------ MODULE ScanQueue ------------------------------
(***************************************************************************)
(* The scan queue and the scheduled rescans: backend/handlers/scan_queue.go*)
(* with the dates that runScan and runImageOnlyScan (scan.go) leave behind.*)
(*                                                                         *)
(* Callers ask for scans: the handlers behind a commit or an import, and   *)
(* PollRescans.  A key waiting already is not queued again; a full channel *)
(* drops the request.  Workers receive jobs and run them.                  *)
(*                                                                         *)
(* The unit of time is the interval between two rescan passes, and dates   *)
(* are kept as ages: the number of passes begun since, which stops growing *)
(* where the code stops telling ages apart.  What is done after a pass is  *)
(* a moment too young 24 hourly passes later, so 24h is an age of 25 here. *)
(* What a scan finds is left out.                                          *)
(***************************************************************************)
EXTENDS Integers, Sequences

CONSTANTS
    Repos,       \* how many repositories there are
    Broken,      \* repositories that cannot be cloned
    Worker,      \* SCAN_WORKERS
    Caller,      \* goroutines that ask for scans
    Poller,      \* the one among them that runs PollRescans
    Depth,       \* SCAN_QUEUE_DEPTH
    Batch,       \* RESCAN_BATCH
    ImageAge,    \* RESCAN_IMAGE_AGE, in passes
    FullAge,     \* RESCAN_FULL_AGE, in passes
    MaxDisturb   \* bound: commits, failed scans and restarts

\* The repositories, in the order the table lists them.
Repo == 1..Repos

ASSUME ScanQueueAssumption ==
    /\ Repos \in Nat /\ Broken \subseteq Repo
    /\ Poller \in Caller
    /\ Depth \in Nat \ {0} /\ Batch \in Nat \ {0}
    /\ ImageAge \in Nat \ {0} /\ FullAge \in Nat \ {0}
    /\ MaxDisturb \in Nat

VARIABLES
    scanQueue,   \* the channel
    queued,      \* the keys counted as waiting
    call,        \* call[c]: where c is in EnqueueScan
    worker,      \* worker[w]: what scan worker w is doing
    poll,        \* the pass of PollRescans under way
    polled,      \* the pass of this interval is over
    attempt,     \* attempt[r]: the age of lastAttempt, ImageAge if older or none
    code,        \* code[r]: the age of CodeScannedAt, FullAge if older or none
    updated,     \* updated[r]: the age of UpdatedAt, ImageAge if older or none
    unseen,      \* commits a scan was asked for and none has looked at since
    disturbances \* how much of MaxDisturb has been used

vars == <<scanQueue, queued, call, worker, poll, polled, attempt, code, updated, unseen,
          disturbances>>
rowVars == <<attempt, code, updated>>
pollVars == <<poll, polled>>

Job == [repo : Repo, mode : {"full", "image"}]
Full(r) == [repo |-> r, mode |-> "full"]
Image(r) == [repo |-> r, mode |-> "image"]

Resting == [pc |-> "idle"]
NoPass == [next |-> Repos + 1, count |-> 0, pick |-> {}]

Happens ==
    /\ disturbances < MaxDisturb
    /\ disturbances' = disturbances + 1
Fine == UNCHANGED disturbances

-----------------------------------------------------------------------------
(* EnqueueScan: the flag first, then a send that does not wait.            *)

EnqueueScan(c, j) ==
    IF j \in queued THEN UNCHANGED <<queued, call>>
    ELSE /\ queued' = queued \cup {j}
         /\ call' = [call EXCEPT ![c] = [pc |-> "sending", job |-> j]]

\* A handler that committed to r asks for a scan (TriggerScanBackground).
Commit(c, r) ==
    /\ c # Poller /\ call[c] = Resting
    /\ Happens
    /\ unseen' = unseen \cup {r}
    /\ EnqueueScan(c, Full(r))
    /\ UNCHANGED <<scanQueue, worker, pollVars, rowVars>>

\* A send that does not wait.
Send(c) ==
    /\ call[c].pc = "sending"
    /\ \/ /\ Len(scanQueue) < Depth
          /\ scanQueue' = Append(scanQueue, call[c].job)
          /\ call' = [call EXCEPT ![c] = Resting]
       \/ /\ Len(scanQueue) = Depth
          /\ call' = [call EXCEPT ![c].pc = "dropping"]
          /\ UNCHANGED scanQueue
    /\ UNCHANGED <<queued, worker, pollVars, rowVars, unseen>> /\ Fine

\* A drop that leaves the flag set: the mutation of Drop.
DropKeepingFlag(c) ==
    /\ call[c].pc = "dropping"
    /\ unseen' = {r \in unseen : call[c].job # Full(r)}
    /\ call' = [call EXCEPT ![c] = Resting]
    /\ UNCHANGED <<scanQueue, queued, worker, pollVars, rowVars>> /\ Fine

\* The queue was full: the job is dropped, with every request that was
\* collapsed into it meanwhile.
Drop(c) ==
    /\ call[c].pc = "dropping"
    /\ queued' = queued \ {call[c].job}
    /\ unseen' = {r \in unseen : call[c].job # Full(r)}
    /\ call' = [call EXCEPT ![c] = Resting]
    /\ UNCHANGED <<scanQueue, worker, pollVars, rowVars>> /\ Fine

-----------------------------------------------------------------------------
(* The workers.                                                            *)

Receive(w) ==
    /\ worker[w] = Resting /\ scanQueue # <<>>
    /\ worker' = [worker EXCEPT ![w] = [pc |-> "received", job |-> Head(scanQueue)]]
    /\ scanQueue' = Tail(scanQueue)
    /\ UNCHANGED <<queued, call, pollVars, rowVars, unseen>> /\ Fine

\* A worker that leaves the flag set: the mutation of Unqueue.
UnqueueNot(w) ==
    /\ worker[w].pc = "received"
    /\ worker' = [worker EXCEPT ![w].pc = "unqueued"]
    /\ UNCHANGED <<queued, scanQueue, call, pollVars, rowVars, unseen>> /\ Fine

\* From here on the key may be queued again.
Unqueue(w) ==
    /\ worker[w].pc = "received"
    /\ queued' = queued \ {worker[w].job}
    /\ worker' = [worker EXCEPT ![w].pc = "unqueued"]
    /\ UNCHANGED <<scanQueue, call, pollVars, rowVars, unseen>> /\ Fine

\* markAttempt, and the scan begins.  An image pass loads the row it will
\* write back; a full pass clones what has been committed up to now.
Begin(w) ==
    /\ worker[w].pc = "unqueued"
    /\ LET j == worker[w].job IN
       /\ attempt' = [attempt EXCEPT ![j.repo] = 0]
       /\ worker' = [worker EXCEPT ![w] = [pc |-> "scanning", job |-> j, code |-> code[j.repo]]]
       /\ unseen' = IF j.mode = "full" THEN unseen \ {j.repo} ELSE unseen
    /\ UNCHANGED <<scanQueue, queued, call, pollVars, code, updated>> /\ Fine

\* The code date a scan leaves: a full pass writes a new one, an image pass
\* writes back the one it loaded, also when the image could not be scanned.
CodeDate(x) == IF x.job.mode = "full" THEN 0 ELSE x.code

\* The row is saved, with a new UpdatedAt.
Scanned(w) ==
    /\ worker[w].pc = "scanning"
    /\ worker[w].job \notin {Full(r) : r \in Broken}
    /\ LET r == worker[w].job.repo IN
       /\ code' = [code EXCEPT ![r] = CodeDate(worker[w])]
       /\ updated' = [updated EXCEPT ![r] = 0]
    /\ worker' = [worker EXCEPT ![w] = Resting]
    /\ UNCHANGED <<scanQueue, queued, call, pollVars, attempt, unseen>> /\ Fine

\* A pass that fails writes nothing: a broken repository's full pass always,
\* any other once in a while.
ScanFailed(w) ==
    /\ worker[w].pc = "scanning"
    /\ IF worker[w].job \in {Full(r) : r \in Broken} THEN Fine ELSE Happens
    /\ worker' = [worker EXCEPT ![w] = Resting]
    /\ UNCHANGED <<scanQueue, queued, call, pollVars, rowVars, unseen>>

-----------------------------------------------------------------------------
(* PollRescans: repositories in the order of the table, a batch at most.   *)

PassUnderWay == poll.next <= Repos \/ poll.pick # {} \/ call[Poller] # Resting

PollStart ==
    /\ ~polled /\ ~PassUnderWay
    /\ poll' = [NoPass EXCEPT !.next = 1]
    /\ polled' = TRUE
    /\ UNCHANGED <<scanQueue, queued, call, worker, rowVars, unseen>> /\ Fine

\* The pass does not ask when r was last tried: the mutation of Due.
DueUntried(r) ==
    IF code[r] >= FullAge THEN {Full(r)}
    ELSE IF updated[r] >= ImageAge THEN {Image(r)} ELSE {}

\* What r is due for, unless it was tried within the window.
Due(r) ==
    IF attempt[r] < ImageAge THEN {}
    ELSE IF code[r] >= FullAge THEN {Full(r)}
    ELSE IF updated[r] >= ImageAge THEN {Image(r)} ELSE {}

\* The next repository is looked at, or the batch is full.
PollLook ==
    /\ call[Poller] = Resting /\ poll.pick = {} /\ poll.next <= Repos
    /\ poll' = IF poll.count >= Batch THEN NoPass
               ELSE [poll EXCEPT !.next = @ + 1, !.pick = Due(poll.next)]
    /\ UNCHANGED <<scanQueue, queued, call, worker, polled, rowVars, unseen>> /\ Fine

\* What is due is asked for, and counts whether or not it was queued.
PollEnqueue ==
    /\ call[Poller] = Resting
    /\ \E j \in poll.pick : EnqueueScan(Poller, j)
    /\ poll' = [poll EXCEPT !.pick = {}, !.count = @ + 1]
    /\ UNCHANGED <<scanQueue, worker, polled, rowVars, unseen>> /\ Fine

-----------------------------------------------------------------------------
Older(age, limit) == IF age < limit THEN age + 1 ELSE age

\* A pass, and handing a job to a worker that is free, take far less than an
\* interval; a scan may take several.
HandedOver ==
    /\ polled /\ ~PassUnderWay
    /\ \A c \in Caller : call[c] = Resting
    /\ \A w \in Worker : worker[w].pc = "scanning" \/ (worker[w] = Resting /\ scanQueue = <<>>)

\* An interval passes.
Tick ==
    /\ HandedOver
    /\ polled' = FALSE
    /\ attempt' = [r \in Repo |-> Older(attempt[r], ImageAge)]
    /\ code' = [r \in Repo |-> Older(code[r], FullAge)]
    /\ updated' = [r \in Repo |-> Older(updated[r], ImageAge)]
    /\ worker' = [w \in Worker |->
          IF worker[w].pc = "scanning" THEN [worker[w] EXCEPT !.code = Older(@, FullAge)]
                                       ELSE worker[w]]
    /\ UNCHANGED <<scanQueue, queued, call, poll, unseen>> /\ Fine

\* The process starts again: the queue, the flags and the attempts were only
\* in its memory.
Restart ==
    /\ Happens
    /\ scanQueue' = <<>> /\ queued' = {} /\ unseen' = {}
    /\ call' = [c \in Caller |-> Resting]
    /\ worker' = [w \in Worker |-> Resting]
    /\ poll' = NoPass /\ polled' = FALSE
    /\ attempt' = [r \in Repo |-> ImageAge]
    /\ UNCHANGED <<code, updated>>

Init ==
    /\ scanQueue = <<>> /\ queued = {} /\ unseen = {}
    /\ call = [c \in Caller |-> Resting]
    /\ worker = [w \in Worker |-> Resting]
    /\ poll = NoPass /\ polled = FALSE
    /\ attempt = [r \in Repo |-> ImageAge]
    /\ code = [r \in Repo |-> FullAge]
    /\ updated = [r \in Repo |-> ImageAge]
    /\ disturbances = 0

Enqueueing(c) == Send(c) \/ Drop(c)
Working(w) == Receive(w) \/ Unqueue(w) \/ Begin(w) \/ Scanned(w) \/ ScanFailed(w)
Polling == PollStart \/ PollLook \/ PollEnqueue

Next ==
    \/ \E c \in Caller : Enqueueing(c) \/ \E r \in Repo : Commit(c, r)
    \/ \E w \in Worker : Working(w)
    \/ Polling \/ Tick \/ Restart

Spec == Init /\ [][Next]_vars

\* Goroutines go on, scans end (every command they run does), and the passes
\* come round with the clock.
Fairness ==
    /\ \A c \in Caller : WF_vars(Enqueueing(c))
    /\ \A w \in Worker : WF_vars(Working(w))
    /\ WF_vars(Polling) /\ WF_vars(Tick)

FairSpec == Spec /\ Fairness

-----------------------------------------------------------------------------
(* What the queue promises.                                                *)

TypeOK ==
    /\ scanQueue \in Seq(Job) /\ Len(scanQueue) <= Depth
    /\ queued \subseteq Job
    /\ call \in [Caller -> {Resting} \cup [pc : {"sending", "dropping"}, job : Job]]
    /\ worker \in [Worker -> {Resting} \cup [pc : {"received", "unqueued"}, job : Job]
                             \cup [pc : {"scanning"}, job : Job, code : 0..FullAge]]
    /\ poll \in [next : 1..(Repos + 1), count : 0..Batch, pick : SUBSET Job]
    /\ polled \in BOOLEAN
    /\ attempt \in [Repo -> 0..ImageAge]
    /\ code \in [Repo -> 0..FullAge]
    /\ updated \in [Repo -> 0..ImageAge]
    /\ unseen \subseteq Repo
    /\ disturbances \in 0..MaxDisturb

\* Everyone who holds a job on its way to a scan that has not begun: a caller
\* in EnqueueScan, a place in the channel, a worker that has just received it.
Holders(j) ==
    {<<"caller", c>> : c \in {d \in Caller : call[d].pc # "idle" /\ call[d].job = j}}
    \cup {<<"place", i>> : i \in {k \in 1..Len(scanQueue) : scanQueue[k] = j}}
    \cup {<<"worker", w>> : w \in {v \in Worker : worker[v].pc = "received" /\ worker[v].job = j}}

\* A flag is set exactly while its one job is on its way: no key waits twice,
\* and no flag is left behind that would keep its repository from being
\* scanned ever again (EnqueueScan, the drop and the worker's delete).
FlagMeansOneWaiting ==
    \A j \in Job :
        /\ j \in queued <=> Holders(j) # {}
        /\ \A h1, h2 \in Holders(j) : h1 = h2

\* Collapsing duplicates loses nothing: as long as no scan has looked at a
\* commit, and the queue was not full, a full scan that will is on its way.
NoCommitForgotten ==
    \A r \in unseen :
        \/ Holders(Full(r)) # {}
        \/ \E w \in Worker : worker[w].pc = "unqueued" /\ worker[w].job = Full(r)

\* Every repository that can be cloned has its code scanned again and again,
\* whatever the broken ones, the image passes and the batch take for
\* themselves, once commits, failures and restarts stop (PollRescans).
CodeIsRescanned == \A r \in Repo \ Broken : []<>(code[r] = 0)
=============================================================================
