---------------------------- MODULE ErrorWindows ----------------------------
(***************************************************************************)
(* The counts of error lines a pass of PollAppErrors (apperrors.go) reads  *)
(* out of container logs and stores in five-minute buckets.  A pass lists  *)
(* the containers, reads each one's running log back to the lookback and,  *)
(* when it has restarted, the log of the instance before, and overwrites   *)
(* the buckets it met.  Meanwhile containers write, restart and are        *)
(* replaced, and the backend may die.                                      *)
(*                                                                         *)
(* One workload; a container writes at most one error line a tick.  What   *)
(* evaluateWindows makes of the counts is in Collectors.                   *)
(***************************************************************************)
EXTENDS Naturals, FiniteSets, FiniteSetsExt
CONSTANTS
    Containers,
    Bucket,      \* errorBucket and logLookback, in ticks
    Lookback,
    MaxTime,     \* bound: the clock stops here
    MaxLines,    \* bound: error lines written
    MaxRestarts  \* bound: containers restarted or replaced

(* What the constants may be. *)
WindowBounds ==
    Bucket \in Nat \ {0} /\ Lookback \in Nat /\ MaxTime \in Nat /\ MaxLines \in Nat
    /\ MaxRestarts \in Nat

VARIABLES
    clock,
    log,     \* each container's running and previous log, and whether it has restarted
    restarts,
    said,    \* every error line there ever was
    pass,    \* the pass under way: when it began, what it has to read, what it counted
    window   \* the stored rows: each bucket's count, and whether it counts a line twice
vars == <<clock, log, restarts, said, pass, window>>

Times == 0..MaxTime
bucketOf(t) == t \div Bucket
Buckets == {bucketOf(t) : t \in Times}
NoPass == [at |-> 0, todo |-> {}, counts |-> [b \in Buckets |-> 0], twice |-> {}, on |-> FALSE]
NoRow == [count |-> 0, twice |-> FALSE]
NewLog == [running |-> {}, previous |-> {}, restarted |-> FALSE]

Init ==
    /\ clock = 0
    /\ log = [c \in Containers |-> NewLog]
    /\ restarts = 0
    /\ said = {}
    /\ pass = NoPass
    /\ window = [b \in Buckets |-> NoRow]

-----------------------------------------------------------------------------
(* The containers. *)
Tick == clock < MaxTime /\ clock' = clock + 1 /\ UNCHANGED <<log, restarts, said, pass, window>>

Say(c) ==
    /\ <<c, clock>> \notin said /\ Cardinality(said) < MaxLines
    /\ said' = said \cup {<<c, clock>>}
    /\ log' = [log EXCEPT ![c].running = @ \cup {clock}]
    /\ UNCHANGED <<clock, restarts, pass, window>>

\* A running log the pass has read becomes the previous log it has yet to read.
RestartContainer(c) ==
    /\ restarts < MaxRestarts /\ restarts' = restarts + 1
    /\ log' = [log EXCEPT ![c] = [running |-> {}, previous |-> @.running, restarted |-> TRUE]]
    /\ pass' = IF <<c, "previous">> \in pass.todo /\ <<c, "running">> \notin pass.todo
               THEN [pass EXCEPT !.twice = @ \cup {bucketOf(t) : t \in log[c].running}]
               ELSE pass
    /\ UNCHANGED <<clock, said, window>>

Replace(c) ==
    /\ restarts < MaxRestarts /\ restarts' = restarts + 1
    /\ log' = [log EXCEPT ![c] = NewLog]
    /\ UNCHANGED <<clock, said, pass, window>>

-----------------------------------------------------------------------------
(* The pass.  restarts is what the listing of the pods said. *)
ListPods ==
    /\ ~pass.on
    /\ pass' = [NoPass EXCEPT
          !.on = TRUE, !.at = clock,
          !.todo = {<<c, "running">> : c \in Containers}
                     \cup {<<c, "previous">> : c \in {d \in Containers : log[d].restarted}}]
    /\ UNCHANGED <<clock, log, restarts, said, window>>

\* readPodLog: the lookback bounds a running log and not a previous one.
Readable(c, which) ==
    IF which = "previous" THEN log[c].previous
    ELSE {t \in log[c].running : t + Lookback >= pass.at}

\* addErrorLine has no lock: when a second log of the workload is read at the
\* same time the two may overwrite each other's counts, but one line counts.
Sums(a, b) == IF a = 0 \/ b = 0 THEN {a + b} ELSE 1..(a + b)

(* scan: the byte limit, or a stream that breaks, keeps the first lines. *)
ReadLog(c, which) ==
    /\ <<c, which>> \in pass.todo
    /\ which = "previous" => <<c, "running">> \notin pass.todo
    /\ \E upto \in {0, MaxTime + 1}, counts \in [Buckets -> 0..(2 * MaxLines)] :
          LET read == {t \in Readable(c, which) : t < upto} IN
          /\ \A b \in Buckets : counts[b] \in
                Sums(pass.counts[b], Cardinality({t \in read : bucketOf(t) = b}))
          /\ pass' = [pass EXCEPT !.todo = @ \ {<<c, which>>}, !.counts = counts]
    /\ UNCHANGED <<clock, log, restarts, said, window>>

\* Adding to the rows where the code assigns them.
Accumulated(b) ==
    IF pass.counts[b] = 0 THEN window[b]
    ELSE [count |-> window[b].count + pass.counts[b], twice |-> b \in pass.twice]
(* The upsert of a bucket the pass met; the others are left alone. *)
Overwritten(b) ==
    IF pass.counts[b] = 0 THEN window[b]
    ELSE [count |-> pass.counts[b], twice |-> b \in pass.twice]

PersistErrorWindows ==
    /\ pass.on /\ pass.todo = {}
    /\ window' = [b \in Buckets |-> Overwritten(b)]
    /\ pass' = NoPass
    /\ UNCHANGED <<clock, log, restarts, said>>

(* The database refuses, or the process dies: two readers writing one map  *)
(* of statuses at once is such a death.                                    *)
Abandoned ==
    /\ pass.on
    /\ pass' = NoPass
    /\ UNCHANGED <<clock, log, restarts, said, window>>

Next ==
    \/ Tick
    \/ \E c \in Containers : Say(c)
    \/ \E c \in Containers : RestartContainer(c)
    \/ \E c \in Containers : Replace(c)
    \/ ListPods
    \/ \E c \in Containers, which \in {"running", "previous"} : ReadLog(c, which)
    \/ PersistErrorWindows
    \/ Abandoned

Spec == Init /\ [][Next]_vars

-----------------------------------------------------------------------------
(* The logs, the pass and the rows are well formed. *)
TypeOK ==
    /\ clock \in Times /\ restarts \in 0..MaxRestarts /\ said \subseteq Containers \X Times
    /\ log \in [Containers -> [running : SUBSET Times, previous : SUBSET Times,
                               restarted : BOOLEAN]]
    /\ pass \in [at : Times, todo : SUBSET (Containers \X {"running", "previous"}),
                 counts : [Buckets -> 0..(2 * MaxLines)], twice : SUBSET Buckets, on : BOOLEAN]
    /\ window \in [Buckets -> [count : 0..(2 * MaxLines), twice : BOOLEAN]]

(* "a re-read cannot inflate a count" (apperrors.go, persistErrorWindows): *)
(* over any number of overlapping and abandoned passes a row counts no     *)
(* more lines than the bucket had, but for a container that restarted      *)
(* between the two reads of its logs, whose one log was read as both.      *)
NeverInflated ==
    \A b \in Buckets :
        window[b].twice \/ window[b].count <= Cardinality({l \in said : bucketOf(l[2]) = b})
=============================================================================
