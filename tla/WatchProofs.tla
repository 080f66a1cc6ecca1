------------------------------ MODULE WatchProofs -----------------------------
(***************************************************************************)
(* Proofs about what is watched: about ErrorWindows, for any containers,   *)
(* buckets and bounds, that no bucket counts more lines than were written, *)
(* but for the one its property names; and, in sections of their own       *)
(* below, about EdgeHistory and EdgeAlerts, of a Cloudflare zone, and      *)
(* Posture, Remediation, ServiceMap and Topology, of a cluster.            *)
(*                                                                         *)
(* The first rests on the lines a pass has yet to read: what a bucket      *)
(* counts is at most the lines of it that were read, so what is read next  *)
(* is counted for the first time, unless the bucket is one of those that   *)
(* the code counts twice.                                                  *)
(***************************************************************************)
EXTENDS ErrorWindows, Sequences, FiniteSetTheorems, WellFoundedInduction, TLAPS

(* The lines of a bucket, and those of the logs that the pass has yet to read. *)
LinesOf(b) == {l \in said : bucketOf(l[2]) = b}
Unread ==
    {l \in said : \/ <<l[1], "running">> \in pass.todo /\ l[2] \in log[l[1]].running
                  \/ <<l[1], "previous">> \in pass.todo /\ l[2] \in log[l[1]].previous}

(* What is in a log was said, and once. *)
LogsTold ==
    \A c \in Containers :
        /\ \A t \in log[c].running \cup log[c].previous : <<c, t>> \in said
        /\ log[c].running \cap log[c].previous = {}
(* A pass has counted no more lines than there are in what it has read, or it *)
(* knows that it read some twice.                                             *)
CountedOnce ==
    \A b \in Buckets : b \in pass.twice \/ pass.counts[b] <= Cardinality(LinesOf(b) \ Unread)

WindowInv == TypeOK /\ IsFiniteSet(said) /\ LogsTold /\ CountedOnce /\ NeverInflated

LEMMA WindowStart == WindowBounds /\ Init => WindowInv
<1> SUFFICES ASSUME WindowBounds, Init PROVE WindowInv OBVIOUS
<1>1. /\ 0 \in Times /\ 0 \in 0..(2 * MaxLines) /\ 0 \in 0..MaxRestarts
      BY DEF Times, WindowBounds
<1>2. NoPass \in [at : Times, todo : SUBSET (Containers \X {"running", "previous"}),
                  counts : [Buckets -> 0..(2 * MaxLines)], twice : SUBSET Buckets, on : BOOLEAN]
      BY <1>1 DEF NoPass
<1>3. NoRow \in [count : 0..(2 * MaxLines), twice : BOOLEAN] BY <1>1 DEF NoRow
<1>4. NewLog \in [running : SUBSET Times, previous : SUBSET Times, restarted : BOOLEAN]
      BY DEF NewLog
<1>5. TypeOK BY <1>1, <1>2, <1>3, <1>4 DEF Init, TypeOK
<1>6. IsFiniteSet(said) /\ \A b : IsFiniteSet(LinesOf(b)) /\ Cardinality(LinesOf(b)) = 0
      BY FS_EmptySet DEF Init, LinesOf
<1>7. LogsTold BY DEF Init, LogsTold, NewLog
<1>8. NeverInflated BY <1>6 DEF Init, NeverInflated, NoRow, LinesOf
<1>9. CountedOnce
  <2>1. \A b : LinesOf(b) \ Unread = {} BY DEF Init, LinesOf
  <2> QED BY <2>1, FS_EmptySet DEF Init, CountedOnce, NoPass
<1> QED BY <1>5, <1>6, <1>7, <1>8, <1>9 DEF WindowInv

(* Sizes of sets of lines. *)
LEMMA Finite ==
    ASSUME WindowInv, NEW b
    PROVE  /\ IsFiniteSet(LinesOf(b)) /\ Cardinality(LinesOf(b)) \in Nat
           /\ IsFiniteSet(LinesOf(b) \ Unread) /\ Cardinality(LinesOf(b) \ Unread) \in Nat
           /\ Cardinality(LinesOf(b) \ Unread) <= Cardinality(LinesOf(b))
<1>1. IsFiniteSet(LinesOf(b)) BY FS_Subset DEF WindowInv, LinesOf
<1>2. IsFiniteSet(LinesOf(b) \ Unread) /\ Cardinality(LinesOf(b) \ Unread) <= Cardinality(LinesOf(b))
      BY <1>1, FS_Subset
<1> QED BY <1>1, <1>2, FS_CardinalityType

(* What the containers do: lines are added, none is lost, and none that was *)
(* read becomes unread, but for those that are noted.                       *)
LEMMA Going ==
    ASSUME WindowInv, TypeOK', IsFiniteSet(said)', LogsTold', said \subseteq said',
           UNCHANGED window, pass'.counts = pass.counts, pass.twice \subseteq pass'.twice,
           \A l \in Unread' : l \in said => l \in Unread \/ bucketOf(l[2]) \in pass'.twice
    PROVE  WindowInv'
<1>1. ASSUME NEW b \in Buckets
      PROVE  /\ Cardinality(LinesOf(b)) <= Cardinality(LinesOf(b)')
             /\ b \notin pass'.twice =>
                  Cardinality(LinesOf(b) \ Unread) <= Cardinality((LinesOf(b) \ Unread)')
             /\ Cardinality(LinesOf(b)) \in Nat /\ Cardinality(LinesOf(b)') \in Nat
             /\ Cardinality(LinesOf(b) \ Unread) \in Nat
             /\ Cardinality((LinesOf(b) \ Unread)') \in Nat
  <2>1. IsFiniteSet(LinesOf(b)') /\ IsFiniteSet((LinesOf(b) \ Unread)')
    <3>1. LinesOf(b)' \in SUBSET said' BY DEF LinesOf
    <3>2. (LinesOf(b) \ Unread)' \in SUBSET said' BY DEF LinesOf
    <3> QED BY <3>1, <3>2, FS_Subset
  <2>2. LinesOf(b) \subseteq LinesOf(b)' BY DEF LinesOf
  <2>3. b \notin pass'.twice => LinesOf(b) \ Unread \subseteq (LinesOf(b) \ Unread)'
        BY <2>2 DEF LinesOf
  <2>4. Cardinality(LinesOf(b)) <= Cardinality(LinesOf(b)') BY <2>1, <2>2, FS_Subset
  <2>5. b \notin pass'.twice =>
          Cardinality(LinesOf(b) \ Unread) <= Cardinality((LinesOf(b) \ Unread)')
        BY <2>1, <2>3, FS_Subset
  <2> QED BY <2>1, <2>4, <2>5, Finite, FS_CardinalityType
<1>2. CountedOnce'
  <2> SUFFICES ASSUME NEW b \in Buckets, b \notin pass'.twice
               PROVE  pass'.counts[b] <= Cardinality((LinesOf(b) \ Unread)')
      BY DEF CountedOnce
  <2>1. pass.counts[b] <= Cardinality(LinesOf(b) \ Unread) /\ pass.counts[b] \in Nat
        BY DEF WindowInv, CountedOnce, TypeOK
  <2> QED BY <1>1, <2>1
<1>3. NeverInflated'
  <2> SUFFICES ASSUME NEW b \in Buckets, ~window[b].twice
               PROVE  window[b].count <= Cardinality(LinesOf(b)')
      BY DEF NeverInflated, LinesOf
  <2>1. window[b].count <= Cardinality(LinesOf(b))
        BY DEF WindowInv, NeverInflated, LinesOf
  <2>2. window[b].count \in Nat BY DEF WindowInv, TypeOK
  <2>3. /\ Cardinality(LinesOf(b)) <= Cardinality(LinesOf(b)')
        /\ Cardinality(LinesOf(b)) \in Nat /\ Cardinality(LinesOf(b)') \in Nat
        BY <1>1
  <2> HIDE DEF WindowInv
  <2> QED BY <2>1, <2>2, <2>3
<1> QED BY <1>2, <1>3 DEF WindowInv

LEMMA Containing ==
    ASSUME WindowBounds, WindowInv,
           Tick \/ \E c \in Containers : Say(c) \/ RestartContainer(c) \/ Replace(c)
    PROVE  WindowInv'
<1>0. TypeOK /\ IsFiniteSet(said) /\ LogsTold BY DEF WindowInv
<1>1. CASE Tick
  <2>1. /\ clock' = clock + 1 /\ clock < MaxTime /\ UNCHANGED <<log, restarts, said, pass, window>>
        BY <1>1 DEF Tick
  <2>2. TypeOK' BY <1>0, <2>1 DEF TypeOK, Times, WindowBounds
  <2>3. LogsTold' /\ Unread' = Unread BY <1>0, <2>1 DEF LogsTold, Unread
  <2> QED BY <1>0, <2>1, <2>2, <2>3, Going
<1>2. ASSUME NEW c \in Containers, Say(c) PROVE WindowInv'
  <2>1. /\ <<c, clock>> \notin said /\ said' = said \cup {<<c, clock>>}
        /\ log' = [log EXCEPT ![c].running = @ \cup {clock}]
        /\ UNCHANGED <<clock, restarts, pass, window>>
        BY <1>2 DEF Say
  <2>2. TypeOK'
    <3>1. clock \in Times /\ log[c] \in [running : SUBSET Times, previous : SUBSET Times,
                                        restarted : BOOLEAN]
          BY <1>0 DEF TypeOK
    <3>2. [log[c] EXCEPT !.running = @ \cup {clock}]
            \in [running : SUBSET Times, previous : SUBSET Times, restarted : BOOLEAN]
          BY <3>1
    <3>3. log' = [log EXCEPT ![c] = [log[c] EXCEPT !.running = @ \cup {clock}]]
          BY <1>0, <2>1 DEF TypeOK
    <3>4. log' \in [Containers -> [running : SUBSET Times, previous : SUBSET Times,
                                   restarted : BOOLEAN]]
          BY <1>0, <3>2, <3>3 DEF TypeOK
    <3>5. said' \subseteq Containers \X Times BY <1>0, <2>1, <3>1 DEF TypeOK
    <3> QED BY <1>0, <2>1, <3>4, <3>5 DEF TypeOK
  <2>3. IsFiniteSet(said') BY <1>0, <2>1, FS_AddElement
  <2>4. /\ \A d \in Containers : log'[d].previous = log[d].previous
        /\ \A d \in Containers \ {c} : log'[d].running = log[d].running
        /\ log'[c].running = log[c].running \cup {clock}
        BY <1>0, <2>1 DEF TypeOK
  <2>5. LogsTold' BY <1>0, <2>1, <2>4 DEF LogsTold
  <2>6. \A l \in Unread' : l \in said => l \in Unread
    <3> SUFFICES ASSUME NEW l \in Unread', l \in said PROVE l \in Unread OBVIOUS
    <3>1. l[1] \in Containers /\ l = <<l[1], l[2]>> BY <1>0 DEF TypeOK
    <3>2. log'[l[1]].previous = log[l[1]].previous BY <2>4, <3>1
    <3>3. l[2] \in log'[l[1]].running => l[2] \in log[l[1]].running BY <2>1, <2>4, <3>1
    <3> QED BY <2>1, <3>2, <3>3 DEF Unread
  <2> QED BY <2>1, <2>2, <2>3, <2>5, <2>6, Going
<1>3. ASSUME NEW c \in Containers, RestartContainer(c) PROVE WindowInv'
  <2>1. /\ restarts < MaxRestarts /\ restarts' = restarts + 1
        /\ log' = [log EXCEPT ![c] = [running |-> {}, previous |-> log[c].running, restarted |-> TRUE]]
        /\ UNCHANGED <<clock, said, window>>
        BY <1>3 DEF RestartContainer
  <2>2. pass' = IF <<c, "previous">> \in pass.todo /\ <<c, "running">> \notin pass.todo
                THEN [pass EXCEPT !.twice = @ \cup {bucketOf(t) : t \in log[c].running}]
                ELSE pass
        BY <1>3 DEF RestartContainer
  <2>3. {bucketOf(t) : t \in log[c].running} \subseteq Buckets BY <1>0 DEF TypeOK, Buckets
  <2>4. /\ pass' \in [at : Times, todo : SUBSET (Containers \X {"running", "previous"}),
                      counts : [Buckets -> 0..(2 * MaxLines)], twice : SUBSET Buckets, on : BOOLEAN]
        /\ pass'.counts = pass.counts /\ pass'.todo = pass.todo /\ pass.twice \subseteq pass'.twice
        /\ <<c, "previous">> \in pass.todo /\ <<c, "running">> \notin pass.todo =>
             {bucketOf(t) : t \in log[c].running} \subseteq pass'.twice
        BY <1>0, <2>2, <2>3 DEF TypeOK
  <2>5. TypeOK' BY <1>0, <2>1, <2>4 DEF TypeOK, WindowBounds
  <2>6. /\ \A d \in Containers \ {c} : log'[d] = log[d]
        /\ log'[c].running = {} /\ log'[c].previous = log[c].running
        BY <1>0, <2>1 DEF TypeOK
  <2>7. LogsTold' BY <1>0, <2>1, <2>6 DEF LogsTold
  <2>8. \A l \in Unread' : l \in Unread \/ bucketOf(l[2]) \in pass'.twice
    <3> SUFFICES ASSUME NEW l \in Unread' PROVE l \in Unread \/ bucketOf(l[2]) \in pass'.twice
        OBVIOUS
    <3>1. l[1] \in Containers /\ l \in said BY <1>0, <2>1 DEF TypeOK, Unread
    <3>2. CASE l[1] # c
          BY <2>4, <2>6, <3>1, <3>2 DEF Unread
    <3>3. CASE l[1] = c
      <4>1. <<c, "previous">> \in pass.todo /\ l[2] \in log[c].running
            BY <2>4, <2>6, <3>3 DEF Unread
      <4>2. CASE <<c, "running">> \in pass.todo BY <3>1, <3>3, <4>1, <4>2 DEF Unread
      <4>3. CASE <<c, "running">> \notin pass.todo BY <2>4, <4>1, <4>3
      <4> QED BY <4>2, <4>3
    <3> QED BY <3>2, <3>3
  <2> QED BY <1>0, <2>1, <2>4, <2>5, <2>7, <2>8, Going
<1>4. ASSUME NEW c \in Containers, Replace(c) PROVE WindowInv'
  <2>1. /\ restarts < MaxRestarts /\ restarts' = restarts + 1 /\ log' = [log EXCEPT ![c] = NewLog]
        /\ UNCHANGED <<clock, said, pass, window>>
        BY <1>4 DEF Replace
  <2>2. TypeOK' BY <1>0, <2>1 DEF TypeOK, WindowBounds, NewLog
  <2>3. /\ \A d \in Containers \ {c} : log'[d] = log[d]
        /\ log'[c].running = {} /\ log'[c].previous = {}
        BY <1>0, <2>1 DEF TypeOK, NewLog
  <2>4. LogsTold' BY <1>0, <2>1, <2>3 DEF LogsTold
  <2>5. \A l \in Unread' : l \in Unread
    <3> SUFFICES ASSUME NEW l \in Unread' PROVE l \in Unread OBVIOUS
    <3>1. l[1] \in Containers /\ l \in said BY <1>0, <2>1 DEF TypeOK, Unread
    <3> QED BY <2>1, <2>3, <3>1 DEF Unread
  <2> QED BY <1>0, <2>1, <2>2, <2>4, <2>5, Going
<1> QED BY <1>1, <1>2, <1>3, <1>4

(* The pass. *)
LEMMA Listing == ASSUME WindowBounds, WindowInv, ListPods PROVE WindowInv'
<1>0. TypeOK /\ IsFiniteSet(said) /\ LogsTold BY DEF WindowInv
<1> DEFINE todo == {<<c, "running">> : c \in Containers}
                     \cup {<<c, "previous">> : c \in {d \in Containers : log[d].restarted}}
<1>1. /\ pass' = [at |-> clock, todo |-> todo, counts |-> [b \in Buckets |-> 0], twice |-> {},
                  on |-> TRUE]
      /\ UNCHANGED <<clock, log, restarts, said, window>>
      BY DEF ListPods, NoPass
<1>2. todo \in SUBSET (Containers \X {"running", "previous"}) OBVIOUS
<1>3. [b \in Buckets |-> 0] \in [Buckets -> 0..(2 * MaxLines)] BY DEF WindowBounds
<1> HIDE DEF todo
<1>4. TypeOK' BY <1>0, <1>1, <1>2, <1>3 DEF TypeOK
<1>5. IsFiniteSet(said)' /\ LogsTold' /\ NeverInflated'
      BY <1>0, <1>1 DEF WindowInv, LogsTold, NeverInflated
<1>6. CountedOnce'
  <2> SUFFICES ASSUME NEW b \in Buckets PROVE 0 <= Cardinality((LinesOf(b) \ Unread)')
      BY <1>1 DEF CountedOnce
  <2>1. (LinesOf(b) \ Unread)' \in SUBSET said BY <1>1 DEF LinesOf
  <2> QED BY <1>0, <2>1, FS_Subset, FS_CardinalityType
<1> QED BY <1>4, <1>5, <1>6 DEF WindowInv

LEMMA Reading ==
    ASSUME WindowBounds, WindowInv, NEW c \in Containers, NEW which \in {"running", "previous"},
           ReadLog(c, which)
    PROVE  WindowInv'
<1>0. TypeOK /\ IsFiniteSet(said) /\ LogsTold BY DEF WindowInv
<1>1. PICK upto \in {0, MaxTime + 1}, counts \in [Buckets -> 0..(2 * MaxLines)] :
        /\ \A b \in Buckets : counts[b] \in
              Sums(pass.counts[b],
                   Cardinality({t \in {u \in Readable(c, which) : u < upto} : bucketOf(t) = b}))
        /\ pass' = [pass EXCEPT !.todo = @ \ {<<c, which>>}, !.counts = counts]
      BY Zenon DEF ReadLog
<1>2. <<c, which>> \in pass.todo /\ UNCHANGED <<clock, log, restarts, said, window>>
      BY Zenon DEF ReadLog
<1>3. pass' = [at |-> pass.at, todo |-> pass.todo \ {<<c, which>>}, counts |-> counts,
               twice |-> pass.twice, on |-> pass.on]
      BY <1>0, <1>1 DEF TypeOK
<1>4. TypeOK' BY <1>0, <1>2, <1>3 DEF TypeOK
<1>5. IsFiniteSet(said)' /\ LogsTold' /\ NeverInflated'
      BY <1>0, <1>2 DEF WindowInv, LogsTold, NeverInflated
<1> DEFINE kept == IF which = "running" THEN log[c].running ELSE log[c].previous
<1>6. Readable(c, which) \subseteq kept BY DEF Readable
<1>7. kept \subseteq Times /\ \A t \in kept : <<c, t>> \in Unread
      BY <1>0, <1>2 DEF TypeOK, LogsTold, Unread
<1>8. \A t \in kept : <<c, t>> \notin Unread'
      BY <1>0, <1>2, <1>3 DEF Unread, LogsTold
<1>9. Unread' \subseteq Unread BY <1>2, <1>3 DEF Unread
<1> HIDE DEF kept
<1>10. ASSUME NEW b \in Buckets, b \notin pass.twice
       PROVE  counts[b] <= Cardinality((LinesOf(b) \ Unread)')
  <2> DEFINE read == {t \in {u \in Readable(c, which) : u < upto} : bucketOf(t) = b}
             lines == {c} \X read
             old == LinesOf(b) \ Unread
             new == (LinesOf(b) \ Unread)'
  <2>1. lines \subseteq LinesOf(b)
    <3> SUFFICES ASSUME NEW t \in read PROVE <<c, t>> \in LinesOf(b) OBVIOUS
    <3>1. t \in kept /\ bucketOf(t) = b BY <1>6
    <3>2. <<c, t>> \in said BY <1>7, <3>1 DEF Unread
    <3>3. <<c, t>>[2] = t OBVIOUS
    <3> QED BY <3>1, <3>2, <3>3 DEF LinesOf
  <2>2. IsFiniteSet(lines) /\ IsFiniteSet(old) /\ IsFiniteSet(new)
    <3>1. new \in SUBSET said BY <1>2 DEF LinesOf
    <3> QED BY <1>0, <2>1, <3>1, Finite, FS_Subset
  <2>3. lines \cap old = {} BY <1>6, <1>7
  <2>4. lines \cup old \subseteq new
    <3>1. LinesOf(b)' = LinesOf(b) BY <1>2 DEF LinesOf
    <3> QED BY <1>6, <1>8, <1>9, <2>1, <3>1
  <2>5. IsFiniteSet(read) /\ Cardinality(read) <= Cardinality(lines)
    <3> DEFINE f == [t \in read |-> <<c, t>>]
    <3>1. f \in [read -> lines] OBVIOUS
    <3>2. \A t, u \in read : f[t] = f[u] => t = u OBVIOUS
    <3> HIDE DEF f, read, lines
    <3>3. f \in Injection(read, lines) BY <3>1, <3>2 DEF Injection, IsInjective
    <3> QED BY <2>2, <3>3, FS_Injection
  <2>6. Cardinality(lines \cup old) = Cardinality(lines) + Cardinality(old)
    <3> HIDE DEF lines, old
    <3>1. Cardinality(lines \cap old) = 0 BY <2>3, FS_EmptySet
    <3>2. Cardinality(lines) \in Nat /\ Cardinality(old) \in Nat BY <2>2, FS_CardinalityType
    <3>3. Cardinality(lines \cup old) = Cardinality(lines) + Cardinality(old) - Cardinality(lines \cap old)
          BY <2>2, FS_Union
    <3> QED BY <3>1, <3>2, <3>3
  <2>7. Cardinality(lines \cup old) <= Cardinality(new)
        BY <2>2, <2>4, FS_Subset
  <2>8. /\ Cardinality(read) \in Nat /\ Cardinality(lines) \in Nat /\ Cardinality(old) \in Nat
        /\ Cardinality(new) \in Nat
        BY <2>2, <2>5, FS_CardinalityType
  <2>9. pass.counts[b] <= Cardinality(old) /\ pass.counts[b] \in Nat /\ counts[b] \in Nat
        BY <1>0, <1>10 DEF WindowInv, CountedOnce, TypeOK
  <2>10. counts[b] \in Sums(pass.counts[b], Cardinality(read)) BY <1>1
  <2> HIDE DEF read, lines, old, new
  <2>11. counts[b] <= pass.counts[b] + Cardinality(read)
        BY <2>8, <2>9, <2>10 DEF Sums
  <2>12. counts[b] <= Cardinality(new)
        BY <2>5, <2>6, <2>7, <2>8, <2>9, <2>11
  <2> QED BY <2>12 DEF new
<1>11. CountedOnce' BY <1>3, <1>10 DEF CountedOnce
<1> QED BY <1>4, <1>5, <1>11 DEF WindowInv

LEMMA Persisting ==
    ASSUME WindowBounds, WindowInv, PersistErrorWindows \/ Abandoned PROVE WindowInv'
<1>0. TypeOK /\ IsFiniteSet(said) /\ LogsTold BY DEF WindowInv
<1>1. /\ pass' = NoPass /\ UNCHANGED <<clock, log, restarts, said>>
      /\ window' = [b \in Buckets |-> Overwritten(b)] \/ window' = window
      BY DEF PersistErrorWindows, Abandoned
<1>2. NoPass \in [at : Times, todo : SUBSET (Containers \X {"running", "previous"}),
                  counts : [Buckets -> 0..(2 * MaxLines)], twice : SUBSET Buckets, on : BOOLEAN]
      BY DEF NoPass, Times, WindowBounds
<1>3. ASSUME NEW b \in Buckets
      PROVE  Overwritten(b) \in [count : 0..(2 * MaxLines), twice : BOOLEAN]
  <2>1. pass.counts[b] \in 0..(2 * MaxLines) /\ (b \in pass.twice) \in BOOLEAN
        BY <1>0 DEF TypeOK
  <2>2. window[b] \in [count : 0..(2 * MaxLines), twice : BOOLEAN] BY <1>0 DEF TypeOK
  <2> QED BY <2>1, <2>2 DEF Overwritten
<1>4. TypeOK' BY <1>0, <1>1, <1>2, <1>3 DEF TypeOK
<1>5. IsFiniteSet(said)' /\ LogsTold' BY <1>0, <1>1 DEF LogsTold
<1>6. CountedOnce'
  <2> SUFFICES ASSUME NEW b \in Buckets PROVE 0 <= Cardinality((LinesOf(b) \ Unread)')
      BY <1>1 DEF CountedOnce, NoPass
  <2>1. (LinesOf(b) \ Unread)' \in SUBSET said BY <1>1 DEF LinesOf
  <2> QED BY <1>0, <2>1, FS_Subset, FS_CardinalityType
<1>7. NeverInflated'
  <2> SUFFICES ASSUME NEW b \in Buckets, ~window'[b].twice
               PROVE  window'[b].count <= Cardinality(LinesOf(b))
      BY <1>1 DEF NeverInflated, LinesOf
  <2>1. CASE window'[b] = window[b] BY <2>1 DEF WindowInv, NeverInflated, LinesOf
  <2>2. CASE window'[b] = [count |-> pass.counts[b], twice |-> b \in pass.twice]
    <3> DEFINE again == b \in pass.twice
    <3>0. window'[b] = [count |-> pass.counts[b], twice |-> again] BY <2>2
    <3> HIDE DEF again
    <3>0a. window'[b].twice = again /\ window'[b].count = pass.counts[b] BY <3>0
    <3>1. b \notin pass.twice /\ window'[b].count = pass.counts[b] BY <3>0a DEF again
    <3>2. pass.counts[b] <= Cardinality(LinesOf(b) \ Unread)
          BY <3>1 DEF WindowInv, CountedOnce
    <3>3. pass.counts[b] \in Nat BY <1>0 DEF TypeOK
    <3> QED BY <3>1, <3>2, <3>3, Finite
  <2> QED BY <1>1, <2>1, <2>2 DEF Overwritten
<1> QED BY <1>4, <1>5, <1>6, <1>7 DEF WindowInv

LEMMA WindowStep == WindowBounds /\ WindowInv /\ [Next]_vars => WindowInv'
<1> SUFFICES ASSUME WindowBounds, WindowInv, [Next]_vars PROVE WindowInv' OBVIOUS
<1>1. CASE UNCHANGED vars
      BY <1>1, Zenon DEF vars, WindowInv, TypeOK, LogsTold, CountedOnce, NeverInflated, LinesOf, Unread
<1>2. CASE Tick \/ \E c \in Containers : Say(c) \/ RestartContainer(c) \/ Replace(c)
      BY <1>2, Containing
<1>3. CASE ListPods BY <1>3, Listing
<1>4. CASE \E c \in Containers, which \in {"running", "previous"} : ReadLog(c, which)
      BY <1>4, Reading
<1>5. CASE PersistErrorWindows \/ Abandoned BY <1>5, Persisting
<1> QED BY <1>1, <1>2, <1>3, <1>4, <1>5 DEF Next

LEMMA WindowInvariant == ASSUME WindowBounds PROVE Spec => []WindowInv
<1>1. Init => WindowInv BY WindowStart
<1>2. WindowInv /\ [Next]_vars => WindowInv' BY WindowStep
<1> QED BY <1>1, <1>2, PTL DEF Spec

(* apperrors.go, persistErrorWindows: a re-read cannot inflate a count, over *)
(* any containers, buckets, passes and restarts, but for the one log that    *)
(* was read as two.                                                          *)
THEOREM CountsAreLines == ASSUME WindowBounds PROVE Spec => []NeverInflated
BY WindowInvariant, PTL DEF WindowInv

(* apperrors.go: logs, passes and rows keep to the times and counts they can *)
(* have.                                                                     *)
THEOREM WindowsTyped == ASSUME WindowBounds PROVE Spec => []TypeOK
BY WindowInvariant, PTL DEF WindowInv

-----------------------------------------------------------------------------
(***************************************************************************)
(* The alerts that Cloudflare sent (EdgeHistory), for any zones and any    *)
(* time: each is filed under the zones it is for, or was given up by a     *)
(* step that says so.                                                      *)
(*                                                                         *)
(* A zone's synced_at is below the time an alert can no longer come late,  *)
(* and the alert is not a week old, or the alert has been filed, or given  *)
(* up, or a pass that read it is about to file it.                         *)
(***************************************************************************)
CONSTANTS Zones, Week, LastTime
VARIABLES alert, synced, filed, sync, missed
Hist == INSTANCE EdgeHistory WITH MaxTime <- LastTime, pass <- sync

(* An alert as it can be, and a pass. *)
Steps == {"idle", "fetch", "stamp", "file"}
HistoryTyped ==
    /\ clock \in 0..LastTime
    /\ alert = Hist!Unsent \/ alert.sent \in 0..clock
    /\ alert \in [sent : Int, names : SUBSET Zones, listed : BOOLEAN]
    /\ synced \in [Hist!Registered -> Int] /\ Hist!Registered \subseteq Zones
    /\ \A z \in Hist!Registered : synced[z] \in Hist!Never..clock
    /\ filed \subseteq Hist!Registered /\ missed \subseteq Hist!Registered
    /\ sync \in [at : Steps, zones : SUBSET Hist!Registered, since : Int,
                 todo : SUBSET Hist!Registered, left : BOOLEAN, began : Int]
    /\ sync.todo \subseteq sync.zones
    /\ sync.at # "idle" => sync.zones # {}

Settled == filed \cup missed
ToFile == IF sync.at = "file" THEN sync.todo ELSE {}
(* Some zone was synced so late that a pass with it reads the alert no more. *)
Passed(s) == \E y \in Hist!Registered : synced[y] - Hist!Overlap > s
(* Or a week has gone by. *)
Gone(s) == Passed(s) \/ s < clock - Week
(* What the passes have moved beyond is filed, given up, or being filed. *)
NoneSkipped ==
    alert.sent # Hist!Never /\ Gone(alert.sent) => Hist!Belongs \subseteq Settled \cup ToFile
(* What the reading will not find had been filed before. *)
ReadingKnows ==
    sync.at = "fetch" =>
        /\ sync.since <= clock
        /\ alert.sent # Hist!Never /\ alert.sent < sync.since => Hist!Belongs \subseteq Settled
(* What was read in time will be filed. *)
StampKnows ==
    sync.at = "stamp" =>
        /\ sync.began <= clock /\ clock <= sync.began + 1
        /\ \/ alert.sent = Hist!Never \/ sync.began <= alert.sent + 1 \/ sync.left
           \/ Hist!Belongs \cap sync.zones \subseteq sync.todo \cup Settled
ListedSoon == alert.sent # Hist!Never /\ ~alert.listed => clock <= alert.sent + 1

HistoryInv ==
    HistoryTyped /\ NoneSkipped /\ ReadingKnows /\ StampKnows /\ ListedSoon

(* A set of integers that has 0 in it and a bound has a greatest element. *)
LEMMA Greatest ==
    ASSUME NEW S, NEW n \in Nat, S \subseteq Int, 0 \in S, \A x \in S : x <= n
    PROVE  Hist!Max(S) \in S /\ \A x \in S : x <= Hist!Max(S)
<1> DEFINE below == {k \in Nat : n - k \in S}
<1>1. PICK k \in below : \A j \in below : ~(<<j, k>> \in OpToRel(<, Nat))
  <2>1. IsWellFoundedOn(OpToRel(<, Nat), Nat) BY NatLessThanWellFounded
  <2>2. n \in below OBVIOUS
  <2> HIDE DEF OpToRel
  <2> QED BY <2>1, <2>2, WFMin
<1>2. ASSUME NEW j \in below PROVE k <= j
  <2>1. ~(j < k) BY <1>1 DEF OpToRel
  <2> QED BY <2>1
<1>3. \A x \in S : n - x \in below OBVIOUS
<1>4. n - k \in S /\ \A x \in S : x <= n - k
  <2>1. ASSUME NEW x \in S PROVE x <= n - k
    <3>1. k <= n - x BY <1>2, <1>3
    <3> QED BY <3>1
  <2> QED BY <2>1
<1> QED BY <1>4 DEF Hist!Max

LEMMA SinceIs ==
    ASSUME Hist!HistoryBounds, HistoryTyped, NEW zones \in SUBSET Hist!Registered
    PROVE  /\ Hist!Since(zones) \in Int /\ Hist!Since(zones) <= clock
           /\ \A s \in Nat : s < Hist!Since(zones) => Gone(s)
<1> DEFINE S == {0, clock - Week} \cup {synced[z] - Hist!Overlap : z \in zones}
<1>1. S \subseteq Int /\ 0 \in S /\ (\A x \in S : x <= clock) /\ clock \in Nat
      BY DEF HistoryTyped, Hist!Never, Hist!Overlap, Hist!HistoryBounds
<1>2. Hist!Max(S) \in S BY <1>1, Greatest
<1>3. Hist!Since(zones) \in S BY <1>2 DEF Hist!Since
<1> QED BY <1>1, <1>3 DEF HistoryTyped, Hist!Overlap, Gone, Passed

LEMMA HistoryStart == Hist!HistoryBounds /\ Hist!Init => HistoryInv
BY DEF Hist!HistoryBounds, Hist!Init, HistoryInv, HistoryTyped, NoneSkipped, ReadingKnows,
       StampKnows,
       ListedSoon, Hist!Unsent, Hist!NoPass, Hist!Never, Steps, Hist!Registered, Passed,
       Gone, Hist!Belongs, Hist!Overlap

(* The steps of a pass. *)
LEMMA Beginning ==
    ASSUME Hist!HistoryBounds, HistoryInv, NEW zones \in SUBSET Hist!Registered, Hist!Begins(zones)
    PROVE  HistoryInv'
<1>1. /\ sync.at = "idle" /\ zones # {} /\ UNCHANGED <<clock, alert, synced, filed, missed>>
      /\ sync' = [at |-> "fetch", zones |-> zones, since |-> Hist!Since(zones), todo |-> {},
                  left |-> FALSE, began |-> 0]
      BY DEF Hist!Begins, Hist!NoPass
<1>2. /\ Hist!Since(zones) \in Int /\ Hist!Since(zones) <= clock
      /\ \A s \in Nat : s < Hist!Since(zones) => Gone(s)
      BY SinceIs DEF HistoryInv
<1>3. HistoryTyped' BY <1>1, <1>2 DEF HistoryInv, HistoryTyped, Hist!Registered, Steps
<1>4. NoneSkipped' BY <1>1 DEF HistoryInv, NoneSkipped, Gone, Passed, Hist!Belongs,
                               Hist!Registered, Settled, ToFile
<1>5. ReadingKnows'
  <2>1. alert.sent # Hist!Never => alert.sent \in Nat
        BY DEF HistoryInv, HistoryTyped, Hist!Unsent
  <2>2. alert.sent # Hist!Never /\ alert.sent < Hist!Since(zones) => Gone(alert.sent)
        BY <1>2, <2>1
  <2>3. alert.sent # Hist!Never /\ alert.sent < Hist!Since(zones) => Hist!Belongs \subseteq Settled
        BY <1>1, <2>2 DEF HistoryInv, NoneSkipped, ToFile
  <2> QED BY <1>1, <1>2, <2>3 DEF ReadingKnows, Hist!Belongs, Hist!Registered, Settled
<1>6. StampKnows' /\ ListedSoon' BY <1>1 DEF HistoryInv, StampKnows, ListedSoon
<1> QED BY <1>3, <1>4, <1>5, <1>6 DEF HistoryInv

LEMMA Fetching == ASSUME Hist!HistoryBounds, HistoryInv, Hist!Fetch PROVE HistoryInv'
<1>1. /\ sync.at = "fetch" /\ UNCHANGED <<clock, alert, synced, filed, missed>> BY
                                                                                DEF Hist!Fetch
<1>2. CASE sync' = Hist!NoPass
      BY <1>1, <1>2 DEF HistoryInv, HistoryTyped, NoneSkipped, ReadingKnows, StampKnows,
         ListedSoon, Hist!NoPass, Steps, Hist!Registered, Gone, Passed, Hist!Belongs, Settled,
         ToFile
<1>3. ASSUME NEW onPage \in BOOLEAN,
             sync' = [sync EXCEPT !.at = "stamp", !.since = 0, !.began = clock,
                      !.todo = IF Hist!AskedFor /\ onPage
                               THEN Hist!cloudflareAlertTargets(sync.zones) ELSE {},
                      !.left = Hist!AskedFor /\ ~onPage]
      PROVE  HistoryInv'
  <2> DEFINE found == Hist!AskedFor /\ onPage
             todo == IF found THEN Hist!cloudflareAlertTargets(sync.zones) ELSE {}
             left == Hist!AskedFor /\ ~onPage
  <2>1. sync' = [at |-> "stamp", zones |-> sync.zones, since |-> 0, todo |-> todo,
                 left |-> left, began |-> clock]
        BY <1>3 DEF HistoryInv, HistoryTyped
  <2>2. todo \subseteq sync.zones BY DEF Hist!cloudflareAlertTargets
  <2>3. found => Hist!Belongs \cap sync.zones \subseteq todo
        BY DEF Hist!cloudflareAlertTargets, Hist!Belongs, HistoryInv, HistoryTyped
  <2>3a. left \in BOOLEAN BY DEF Hist!AskedFor
  <2>3b. Hist!AskedFor => found \/ left OBVIOUS
  <2> HIDE DEF todo, left, found
  <2>4. HistoryTyped' BY <1>1, <2>1, <2>2, <2>3a DEF HistoryInv, HistoryTyped,
                                                     Hist!Registered, Steps
  <2>5. NoneSkipped' BY <1>1, <2>1 DEF HistoryInv, NoneSkipped, Gone, Passed, Hist!Belongs,
                                       Hist!Registered, Settled, ToFile
  <2>6. \/ alert.sent = Hist!Never \/ clock <= alert.sent + 1 \/ left
        \/ Hist!Belongs \cap sync.zones \subseteq todo \cup Settled
    <3>1. CASE found BY <2>3, <3>1
    <3>2. CASE ~alert.listed BY <3>2 DEF HistoryInv, ListedSoon
    <3>3. CASE ~(alert.sent >= sync.since)
          BY <1>1, <3>3 DEF HistoryInv, ReadingKnows, HistoryTyped, Hist!Unsent, Hist!Never
    <3> QED BY <2>3b, <3>1, <3>2, <3>3 DEF Hist!AskedFor
  <2>7. StampKnows' BY <1>1, <2>1, <2>6 DEF StampKnows, Hist!Belongs, Hist!Registered,
                                            Settled, HistoryInv, HistoryTyped
  <2> QED BY <1>1, <2>1, <2>4, <2>5, <2>7 DEF HistoryInv, ReadingKnows, ListedSoon
<1> QED BY <1>2, <1>3 DEF Hist!Fetch

LEMMA Stamping == ASSUME Hist!HistoryBounds, HistoryInv, Hist!Stamp PROVE HistoryInv'
<1> DEFINE late == {z \in Hist!Registered : /\ z \notin sync.zones \/ sync.left
                                           /\ alert.sent # Hist!Never
                                           /\ alert.sent < clock - Hist!Overlap}
<1>1. /\ sync.at = "stamp" /\ UNCHANGED <<clock, alert, filed>>
      /\ synced' = [z \in Hist!Registered |-> IF z \in sync.zones THEN clock ELSE synced[z]]
      /\ sync' = [sync EXCEPT !.at = "file", !.left = FALSE, !.began = 0]
      /\ missed' = missed \cup late
      BY DEF Hist!Stamp
<1>2. Hist!Registered' = Hist!Registered BY <1>1 DEF Hist!Registered
<1>3. HistoryTyped'
  <2>1. /\ sync' \in [at : Steps, zones : SUBSET Hist!Registered, since : Int,
                      todo : SUBSET Hist!Registered, left : BOOLEAN, began : Int]
        /\ sync'.todo = sync.todo /\ sync'.zones = sync.zones
    <3>1. sync \in [at : Steps, zones : SUBSET Hist!Registered, since : Int,
                    todo : SUBSET Hist!Registered, left : BOOLEAN, began : Int]
          BY DEF HistoryInv, HistoryTyped
    <3>2. sync' = [at |-> "file", zones |-> sync.zones, since |-> sync.since,
                   todo |-> sync.todo, left |-> FALSE, began |-> 0]
          BY <1>1, <3>1
    <3> QED BY <3>1, <3>2 DEF Steps
  <2>2. synced' \in [Hist!Registered -> Int] /\ \A z \in Hist!Registered : synced'[z] \in Hist!Never..clock
        BY <1>1, <1>2 DEF HistoryInv, HistoryTyped, Hist!Never
  <2>3. sync.zones # {} BY <1>1 DEF HistoryInv, HistoryTyped
  <2> QED BY <1>1, <1>2, <2>1, <2>2, <2>3 DEF HistoryInv, HistoryTyped
<1>4. NoneSkipped'
  <2> SUFFICES ASSUME alert.sent # Hist!Never, Gone(alert.sent)', NEW z \in Hist!Belongs
               PROVE  z \in filed \cup missed' \cup sync.todo
      <3>1. sync'.at = "file" /\ sync'.todo = sync.todo BY <1>1 DEF HistoryInv, HistoryTyped
      <3> QED BY <1>1, <1>2, <3>1 DEF NoneSkipped, Settled, ToFile, Hist!Belongs
  <2>1. CASE Gone(alert.sent)
        BY <1>1, <2>1 DEF HistoryInv, NoneSkipped, ToFile, Settled
  <2>2. CASE ~Gone(alert.sent)
    <3>0. PICK y \in Hist!Registered : synced'[y] - Hist!Overlap > alert.sent
          BY <1>1, <1>2, <2>2 DEF Gone, Passed
    <3>0a. y \in sync.zones BY <1>1, <2>2, <3>0 DEF Gone, Passed
    <3>1. clock - Hist!Overlap > alert.sent BY <1>1, <3>0, <3>0a
    <3>1a. z \in Hist!Registered BY DEF Hist!Belongs
    <3>2. CASE z \notin sync.zones
          BY <1>1, <3>1, <3>1a, <3>2 DEF HistoryInv, HistoryTyped, Hist!Overlap, Hist!Never
    <3>3. CASE z \in sync.zones
      <4>1. ~(sync.began <= alert.sent + 1)
            BY <1>1, <3>1 DEF HistoryInv, StampKnows, HistoryTyped, Hist!Overlap
      <4>2. CASE sync.left
            BY <1>1, <3>1, <3>1a, <4>2 DEF HistoryInv, HistoryTyped, Hist!Overlap, Hist!Never
      <4> QED BY <1>1, <3>3, <4>1, <4>2 DEF HistoryInv, StampKnows, Settled
    <3> QED BY <3>2, <3>3
  <2> QED BY <2>1, <2>2
<1>5. sync'.at = "file" BY <1>1 DEF HistoryInv, HistoryTyped
<1> QED BY <1>1, <1>3, <1>4, <1>5 DEF HistoryInv, ReadingKnows, StampKnows, ListedSoon

LEMMA Filing ==
    ASSUME Hist!HistoryBounds, HistoryInv, (\E z \in Zones : Hist!File(z)) \/ Hist!Filed \/ Hist!Crash
    PROVE  HistoryInv'
<1>1. CASE \E z \in Zones : Hist!File(z)
  <2>1. PICK z \in Zones : Hist!File(z) BY <1>1
  <2>2. /\ sync.at = "file" /\ z \in sync.todo /\ UNCHANGED <<clock, alert, synced>>
        /\ Settled' = Settled \cup {z} /\ filed \subseteq filed' /\ missed \subseteq missed'
        BY <2>1 DEF Hist!File, Settled
  <2>3. sync' = [sync EXCEPT !.todo = sync.todo \ {z}] BY <2>1 DEF Hist!File
  <2>4. /\ sync'.at = "file" /\ sync'.todo = sync.todo \ {z} /\ sync'.zones = sync.zones
        /\ sync' \in [at : Steps, zones : SUBSET Hist!Registered, since : Int,
                      todo : SUBSET Hist!Registered, left : BOOLEAN, began : Int]
        BY <2>2, <2>3 DEF HistoryInv, HistoryTyped
  <2>5. filed' \subseteq Hist!Registered /\ missed' \subseteq Hist!Registered
        BY <2>2 DEF Settled, HistoryInv, HistoryTyped
  <2>6. HistoryTyped' BY <2>2, <2>4, <2>5 DEF HistoryInv, HistoryTyped, Hist!Registered
  <2>7. NoneSkipped' BY <2>2, <2>4 DEF HistoryInv, NoneSkipped, Gone, Passed, Hist!Belongs,
                                       Hist!Registered, ToFile
  <2> QED BY <2>2, <2>4, <2>6, <2>7 DEF HistoryInv, ReadingKnows, StampKnows, ListedSoon
<1>2. CASE Hist!Filed
  <2>1. /\ sync.at = "file" /\ sync.todo = {} /\ sync' = Hist!NoPass
        /\ UNCHANGED <<clock, alert, synced, filed, missed>>
        BY <1>2 DEF Hist!Filed
  <2> QED BY <2>1 DEF HistoryInv, HistoryTyped, NoneSkipped, ReadingKnows, StampKnows,
         ListedSoon, Hist!NoPass, Steps, Hist!Registered, Gone, Passed, Hist!Belongs, Settled,
         ToFile
<1>3. CASE Hist!Crash
  <2>1. /\ sync' = Hist!NoPass /\ UNCHANGED <<clock, alert, synced, filed>>
        /\ missed' = missed \cup (ToFile \ filed)
        BY <1>3 DEF Hist!Crash, ToFile
  <2>2. HistoryTyped'
        BY <2>1 DEF HistoryInv, HistoryTyped, Hist!NoPass, Steps, Hist!Registered, ToFile
  <2>3. NoneSkipped'
        BY <2>1 DEF HistoryInv, NoneSkipped, Hist!NoPass, Gone, Passed, Hist!Belongs,
                    Hist!Registered, Settled, ToFile
  <2> QED BY <2>1, <2>2, <2>3 DEF HistoryInv, ReadingKnows, StampKnows, ListedSoon,
                                  Hist!NoPass
<1> QED BY <1>1, <1>2, <1>3

(* The zones' rows, the world and the clock. *)
LEMMA Creating ==
    ASSUME Hist!HistoryBounds, HistoryInv, NEW z \in Zones, Hist!CreateCloudflareZone(z)
    PROVE  HistoryInv'
<1>1. /\ z \notin Hist!Registered /\ UNCHANGED <<clock, alert, filed, sync>>
      /\ synced' = [x \in Hist!Registered \cup {z} |-> IF x = z THEN Hist!Never ELSE synced[x]]
      /\ missed' = IF alert.sent = Hist!Never THEN missed ELSE missed \cup {z}
      BY DEF Hist!CreateCloudflareZone
<1>2. Hist!Registered' = Hist!Registered \cup {z} BY <1>1 DEF Hist!Registered
<1>3. HistoryTyped'
  <2>1. synced' \in [Hist!Registered' -> Int] /\ \A x \in Hist!Registered' : synced'[x] \in Hist!Never..clock
        BY <1>1, <1>2 DEF HistoryInv, HistoryTyped, Hist!Never
  <2>2. sync \in [at : Steps, zones : SUBSET Hist!Registered', since : Int,
                  todo : SUBSET Hist!Registered', left : BOOLEAN, began : Int]
        BY <1>2 DEF HistoryInv, HistoryTyped
  <2>3. Hist!Registered' \subseteq Zones /\ filed' \subseteq Hist!Registered' /\ missed' \subseteq Hist!Registered'
        BY <1>1, <1>2 DEF HistoryInv, HistoryTyped
  <2> QED BY <1>1, <2>1, <2>2, <2>3 DEF HistoryInv, HistoryTyped
<1>4. alert.sent # Hist!Never => Hist!Belongs' \subseteq Hist!Belongs \cup missed' /\ z \in missed'
      BY <1>1, <1>2 DEF Hist!Belongs
<1>5. alert.sent # Hist!Never => (Passed(alert.sent)' => Passed(alert.sent))
  <2> SUFFICES ASSUME alert.sent # Hist!Never, NEW y \in Hist!Registered', synced'[y] - Hist!Overlap > alert.sent
               PROVE  Passed(alert.sent)
      BY <1>1 DEF Passed
  <2>1. y # z BY <1>1, <1>2 DEF HistoryInv, HistoryTyped, Hist!Unsent, Hist!Never,
                                Hist!Overlap
  <2> QED BY <1>1, <1>2, <2>1 DEF Passed
<1>6. Settled \subseteq Settled' /\ missed' \subseteq Settled' /\ ToFile' = ToFile
      BY <1>1 DEF Settled, ToFile
<1>7. NoneSkipped' BY <1>1, <1>4, <1>5, <1>6 DEF HistoryInv, NoneSkipped, Gone
<1>8. ReadingKnows' BY <1>1, <1>4, <1>6 DEF HistoryInv, ReadingKnows
<1>9. StampKnows' BY <1>1, <1>4, <1>6 DEF HistoryInv, StampKnows
<1> QED BY <1>1, <1>3, <1>7, <1>8, <1>9 DEF HistoryInv, ListedSoon

LEMMA Updating ==
    ASSUME Hist!HistoryBounds, HistoryInv, NEW z \in Zones, NEW then \in Hist!Never..LastTime,
           Hist!UpdateCloudflareZone(z, then)
    PROVE  HistoryInv'
<1>1. /\ z \in Hist!Registered /\ then < synced[z] /\ synced' = [synced EXCEPT ![z] = then]
      /\ UNCHANGED <<clock, alert, filed, sync, missed>>
      BY DEF Hist!UpdateCloudflareZone
<1>2. Hist!Registered' = Hist!Registered BY <1>1 DEF Hist!Registered, HistoryInv,
                                                     HistoryTyped
<1>3. /\ synced' \in [Hist!Registered -> Int] /\ \A x \in Hist!Registered : synced'[x] \in Hist!Never..clock
      /\ \A x \in Hist!Registered : synced'[x] <= synced[x]
      BY <1>1 DEF HistoryInv, HistoryTyped, Hist!Never, Hist!HistoryBounds
<1>4. HistoryTyped' BY <1>1, <1>2, <1>3 DEF HistoryInv, HistoryTyped
<1>5. Passed(alert.sent)' => Passed(alert.sent)
      BY <1>1, <1>2, <1>3 DEF Passed, HistoryInv, HistoryTyped, Hist!Overlap
<1>6. Hist!Belongs' = Hist!Belongs /\ Settled' = Settled /\ ToFile' = ToFile
      BY <1>1, <1>2 DEF Hist!Belongs, Settled, ToFile
<1> QED BY <1>1, <1>4, <1>5, <1>6 DEF HistoryInv, NoneSkipped, Gone, ReadingKnows, StampKnows,
                                      ListedSoon

LEMMA Happening ==
    ASSUME Hist!HistoryBounds, HistoryInv,
           \/ Hist!Tick \/ Hist!List \/ \E names \in SUBSET Zones, listed \in BOOLEAN : Hist!Send(names, listed)
    PROVE  HistoryInv'
<1>1. CASE Hist!Tick
  <2>1. /\ clock < LastTime /\ clock' = clock + 1 /\ UNCHANGED <<alert, synced, filed, sync>>
        /\ alert.sent # Hist!Never /\ ~alert.listed => clock = alert.sent
        /\ sync.at = "stamp" => clock = sync.began
        /\ missed' = IF alert.sent # Hist!Never /\ alert.sent = clock - Week /\ ~Hist!MovedOn
                     THEN Hist!Registered ELSE missed
        BY <1>1 DEF Hist!Tick
  <2>1a. missed \subseteq missed' /\ missed' \subseteq Hist!Registered
         BY <2>1 DEF HistoryInv, HistoryTyped
  <2>2. HistoryTyped' BY <2>1, <2>1a DEF HistoryInv, HistoryTyped, Hist!Registered,
                                  Hist!HistoryBounds, Hist!Never
  <2>3. Hist!Belongs' = Hist!Belongs /\ Settled \subseteq Settled' /\ ToFile' = ToFile
        /\ (Passed(alert.sent)' <=> Passed(alert.sent))
        BY <2>1, <2>1a DEF Hist!Belongs, Settled, ToFile, Passed, Hist!Registered
  <2>4. ASSUME alert.sent # Hist!Never, Gone(alert.sent)'
        PROVE  Hist!Belongs \subseteq Settled' \cup ToFile
    <3>1. CASE Gone(alert.sent) BY <2>3, <2>4, <3>1 DEF HistoryInv, NoneSkipped
    <3>2. CASE ~Gone(alert.sent)
      <4>1. alert.sent = clock - Week
            BY <2>1, <2>3, <2>4, <3>2
            DEF Gone, HistoryInv, HistoryTyped, Hist!HistoryBounds, Hist!Unsent
      <4>2. ~Hist!MovedOn BY <3>2 DEF Gone, Passed, Hist!MovedOn
      <4> QED BY <2>1, <2>4, <4>1, <4>2 DEF Settled, Hist!Belongs
    <3> QED BY <3>1, <3>2
  <2>5. NoneSkipped' BY <2>1, <2>3, <2>4 DEF NoneSkipped
  <2>6. ReadingKnows' BY <2>1, <2>2, <2>3 DEF HistoryInv, HistoryTyped, ReadingKnows
  <2>7. StampKnows' BY <2>1, <2>2, <2>3 DEF HistoryInv, HistoryTyped, StampKnows
  <2> QED BY <2>1, <2>2, <2>5, <2>6, <2>7 DEF HistoryInv, ListedSoon, HistoryTyped
<1>2. CASE Hist!List
  <2>1. /\ alert.sent # Hist!Never /\ alert' = [alert EXCEPT !.listed = TRUE]
        /\ UNCHANGED <<clock, synced, filed, sync, missed>>
        BY <1>2 DEF Hist!List
  <2>2. /\ alert'.sent = alert.sent /\ alert'.names = alert.names /\ alert'.listed = TRUE
        /\ alert' \in [sent : Int, names : SUBSET Zones, listed : BOOLEAN]
        BY <2>1 DEF HistoryInv, HistoryTyped
  <2>3. HistoryTyped' BY <2>1, <2>2 DEF HistoryInv, HistoryTyped, Hist!Registered,
                                        Hist!Unsent
  <2>4. Hist!Belongs' = Hist!Belongs /\ Settled' = Settled /\ ToFile' = ToFile
        BY <2>1, <2>2 DEF Hist!Belongs, Settled, ToFile, Hist!Registered
  <2>5. Passed(alert.sent)' <=> Passed(alert.sent) BY <2>1, <2>2 DEF Passed, Hist!Registered
  <2> QED BY <2>1, <2>2, <2>3, <2>4, <2>5 DEF HistoryInv, NoneSkipped, Gone, ReadingKnows,
                                              StampKnows,
             ListedSoon
<1>3. CASE \E names \in SUBSET Zones, listed \in BOOLEAN : Hist!Send(names, listed)
  <2>1. PICK names \in SUBSET Zones, listed \in BOOLEAN : Hist!Send(names, listed) BY <1>3
  <2>2. /\ alert' = [sent |-> clock, names |-> names, listed |-> listed]
        /\ UNCHANGED <<clock, synced, filed, sync, missed>>
        BY <2>1 DEF Hist!Send
  <2>3. HistoryTyped' BY <2>2 DEF HistoryInv, HistoryTyped, Hist!Registered
  <2>4. ~Gone(clock) BY DEF HistoryInv, HistoryTyped, Gone, Passed, Hist!Never, Hist!Overlap,
                            Hist!HistoryBounds
  <2>5. NoneSkipped' BY <2>2, <2>4 DEF NoneSkipped, Gone, Passed, Hist!Registered
  <2>6. ReadingKnows' /\ StampKnows' /\ ListedSoon'
        BY <2>2 DEF HistoryInv, HistoryTyped, ReadingKnows, StampKnows, ListedSoon
  <2> QED BY <2>3, <2>5, <2>6 DEF HistoryInv
<1> QED BY <1>1, <1>2, <1>3

LEMMA HistoryStep == Hist!HistoryBounds /\ HistoryInv /\ [Hist!Next]_(Hist!vars) => HistoryInv'
<1> SUFFICES ASSUME Hist!HistoryBounds, HistoryInv, [Hist!Next]_(Hist!vars)
          PROVE HistoryInv' OBVIOUS
<1>1. CASE UNCHANGED Hist!vars
      BY <1>1 DEF Hist!vars, HistoryInv, HistoryTyped, NoneSkipped, ReadingKnows,
                  StampKnows,
         ListedSoon, Hist!Registered, Gone, Passed, Hist!Belongs, Settled, ToFile
<1>2. CASE Hist!PollCloudflare BY <1>2, Beginning DEF Hist!PollCloudflare
<1>3. ASSUME NEW z \in Zones, Hist!pollCloudflareZone(z) PROVE HistoryInv'
      BY <1>3, Beginning DEF Hist!pollCloudflareZone
<1>4. CASE Hist!Fetch BY <1>4, Fetching
<1>5. CASE Hist!Stamp BY <1>5, Stamping
<1>6. CASE Hist!Filed \/ Hist!Crash \/ \E z \in Zones : Hist!File(z) BY <1>6, Filing
<1>7. ASSUME NEW z \in Zones, Hist!CreateCloudflareZone(z) PROVE HistoryInv' BY <1>7, Creating
<1>8. ASSUME NEW z \in Zones, NEW then \in Hist!Never..LastTime, Hist!UpdateCloudflareZone(z, then)
      PROVE  HistoryInv'
      BY <1>8, Updating
<1>9. CASE \/ Hist!Tick \/ Hist!List
           \/ \E names \in SUBSET Zones, listed \in BOOLEAN : Hist!Send(names, listed)
      BY <1>9, Happening
<1> QED BY <1>1, <1>2, <1>3, <1>4, <1>5, <1>6, <1>7, <1>8, <1>9 DEF Hist!Next

LEMMA HistoryInvariant == ASSUME Hist!HistoryBounds PROVE Hist!Spec => []HistoryInv
<1>1. Hist!Init => HistoryInv BY HistoryStart
<1>2. HistoryInv /\ [Hist!Next]_(Hist!vars) => HistoryInv' BY HistoryStep
<1> QED BY <1>1, <1>2, PTL DEF Hist!Spec

LEMMA SkippedNowhere == ASSUME Hist!HistoryBounds, HistoryInv PROVE Hist!HistoryIsFiled
<1> SUFFICES ASSUME alert.sent # Hist!Never, NEW z \in Hist!Belongs, Hist!OutOfReach(z)
             PROVE  z \in filed \cup missed
    BY DEF Hist!HistoryIsFiled
<1>1. alert.sent \in Nat BY DEF HistoryInv, HistoryTyped, Hist!Unsent
<1>2. Gone(alert.sent) BY <1>1, SinceIs DEF Hist!OutOfReach, HistoryInv
<1> QED BY <1>2 DEF HistoryInv, NoneSkipped, Settled, ToFile, Hist!OutOfReach

(* syncCloudflareHistory: an alert that belongs to a zone is filed under it  *)
(* before the passes no longer reach it, or was given up by a step that the  *)
(* property names, for any zones and however late it appears.                *)
THEOREM AlertsAreFiled == ASSUME Hist!HistoryBounds PROVE Hist!Spec => []Hist!HistoryIsFiled
<1>1. HistoryInv => Hist!HistoryIsFiled BY SkippedNowhere
<1> QED BY <1>1, HistoryInvariant, PTL

(* cloudflare_poller.go: zones are synced in the past, and a pass files what  *)
(* is left of the zones it began with.                                        *)
THEOREM SyncsTyped == ASSUME Hist!HistoryBounds PROVE Hist!Spec => []Hist!TypeOK
<1>1. HistoryInv => Hist!TypeOK BY DEF HistoryInv, HistoryTyped, Hist!TypeOK
<1> QED BY <1>1, HistoryInvariant, PTL

-----------------------------------------------------------------------------
(***************************************************************************)
(* The alert log of a zone (EdgeAlerts), for any rules, findings, changes  *)
(* of the world and requests: what an alert is about is not closed under   *)
(* it.                                                                     *)
(*                                                                         *)
(* A pass knows of whatever it will judge that it was quiet when it was    *)
(* read, step by step; the world only adds to what has been quiet, and no  *)
(* other handler takes from it.                                            *)
(***************************************************************************)
CONSTANTS SecurityRules, TrafficRules, Ports, Names, MaxChanges, MaxRequests
VARIABLES present, records, changes, zone, open, poll, scan, requests, quiet
Edge == INSTANCE EdgeAlerts

ZoneRows == {<<>>} \cup {<<r>> : r \in [enabled : BOOLEAN, rules : SUBSET Edge!Rules]}
PollSteps == {"idle", "measure", "judge", "write"}
RequestSteps == {"unborn", "update", "delete", "deleting", "now", "polled", "done"}
ScanSteps == {"idle", "records", "addresses", "probe", "names", "look", "reconcile"}
EdgeTyped ==
    /\ present \subseteq Edge!Things /\ zone \in ZoneRows
    /\ poll \in [at : PollSteps, rules : SUBSET Edge!Rules, judge : Seq(Edge!Rules), loud : SUBSET Edge!Rules,
                 saw : BOOLEAN]
    /\ poll.at = "write" => poll.judge # <<>>
    /\ scan \in [at : ScanSteps, records : SUBSET Edge!Findings, found : SUBSET Edge!Findings,
                 unanswered : SUBSET Edge!Findings, checked : BOOLEAN, saw : SUBSET Edge!Findings,
                 todo : SUBSET Edge!Findings]
    /\ requests \in [Edge!Requests -> [at : RequestSteps, zone : ZoneRows]]
    /\ records \subseteq Edge!Findings

(* A rule that is judged and was not found breached was read as quiet. *)
JudgedQuiet ==
    poll.at \in {"judge", "write"} =>
        \A rule \in Edge!ToSet(poll.judge) : rule \notin poll.loud => rule \in quiet

(* What the pass over the findings knows at each of its steps: what has no    *)
(* record is quiet; then, what is not listed is; in the end whatever it takes *)
(* to be gone is, or did not answer.                                          *)
ScanKnows ==
    /\ scan.at \notin {"idle", "records"} => Edge!Findings \ scan.records \subseteq quiet
    /\ scan.at \in {"records", "addresses"} => scan.found = {} /\ ~scan.checked
    /\ scan.at \in {"probe", "names"} => scan.found \subseteq scan.records
    /\ scan.at = "probe" => /\ scan.found \subseteq Ports
                            /\ scan.checked => Ports \ scan.found \subseteq quiet
    /\ scan.at = "names" =>
         \A p \in Ports \ scan.found :
            scan.checked \/ p \notin scan.records => p \in quiet \cup scan.unanswered
    /\ scan.at \in {"look", "reconcile"} =>
         \A f \in Edge!Findings \ scan.found : Edge!Gone(f) => f \in quiet \cup scan.unanswered

EdgeInv == EdgeTyped /\ JudgedQuiet /\ ScanKnows

LEMMA FirstsAndRests ==
    ASSUME NEW S, NEW s \in Seq(S), s # <<>>
    PROVE  /\ Head(s) \in Edge!ToSet(s) /\ Head(s) \in S
           /\ Tail(s) \in Seq(S) /\ Edge!ToSet(Tail(s)) \subseteq Edge!ToSet(s)
<1>1. Head(s) = s[1] /\ 1 \in DOMAIN s OBVIOUS
<1>2. Tail(s) \in Seq(S) /\ \A i \in DOMAIN Tail(s) : Tail(s)[i] = s[i + 1] /\ i + 1 \in DOMAIN s
      OBVIOUS
<1> QED BY <1>1, <1>2 DEF Edge!ToSet

LEMMA EdgeStart == Edge!EdgeAssumption /\ Edge!Init => EdgeInv
<1> SUFFICES ASSUME Edge!EdgeAssumption, Edge!Init PROVE EdgeInv OBVIOUS
<1>1. [enabled |-> TRUE, rules |-> Edge!Rules] \in [enabled : BOOLEAN, rules : SUBSET Edge!Rules]
      OBVIOUS
<1>2. zone \in ZoneRows BY <1>1 DEF Edge!Init, ZoneRows
<1>3. <<>> \in Seq(Edge!Rules) OBVIOUS
<1>4. Edge!NoPoll \in [at : PollSteps, rules : SUBSET Edge!Rules, judge : Seq(Edge!Rules), loud : SUBSET Edge!Rules,
                 saw : BOOLEAN]
      BY <1>3 DEF Edge!NoPoll, PollSteps
<1>5. Edge!NoScan \in [at : ScanSteps, records : SUBSET Edge!Findings, found : SUBSET Edge!Findings,
                 unanswered : SUBSET Edge!Findings, checked : BOOLEAN, saw : SUBSET Edge!Findings,
                 todo : SUBSET Edge!Findings]
      BY DEF Edge!NoScan, ScanSteps
<1>6. Edge!Unborn \in [at : RequestSteps, zone : ZoneRows] BY DEF Edge!Unborn, ZoneRows,
                                                                  RequestSteps
<1>7. EdgeTyped BY <1>2, <1>4, <1>5, <1>6 DEF Edge!Init, EdgeTyped, Edge!NoPoll
<1>8. JudgedQuiet /\ ScanKnows BY DEF Edge!Init, JudgedQuiet, ScanKnows, Edge!NoPoll,
                                      Edge!NoScan
<1> QED BY <1>7, <1>8 DEF EdgeInv

(* A pass that has nothing to go by knows nothing wrong. *)
LEMMA Idle == /\ poll.at \in {"idle", "measure"} => JudgedQuiet
              /\ scan.at = "idle" => ScanKnows
BY DEF JudgedQuiet, ScanKnows

(* What one pass reads is no matter of the other. *)
LEMMA QuieterPoll ==
    ASSUME Edge!EdgeAssumption, EdgeTyped, JudgedQuiet, poll' = poll,
           quiet \subseteq quiet' \cup Edge!Findings
    PROVE  JudgedQuiet'
<1> SUFFICES ASSUME poll.at \in {"judge", "write"}, NEW rule \in Edge!ToSet(poll.judge), rule \notin poll.loud
             PROVE  rule \in quiet'
    BY DEF JudgedQuiet
<1>1. rule \in Edge!Rules BY DEF EdgeTyped, Edge!ToSet
<1> QED BY <1>1 DEF Edge!EdgeAssumption, JudgedQuiet
LEMMA QuieterScan ==
    ASSUME Edge!EdgeAssumption, EdgeTyped, ScanKnows, scan' = scan,
           quiet \subseteq quiet' \cup Edge!Rules
    PROVE  ScanKnows'
<1>1. \A f \in Edge!Findings : f \in quiet => f \in quiet' BY DEF Edge!EdgeAssumption
<1>2. Ports \subseteq Edge!Findings BY DEF Edge!Findings
<1> QED BY <1>1, <1>2 DEF ScanKnows, Edge!Gone

(* The pass over the rules. *)
LEMMA PollTyped ==
    ASSUME EdgeTyped, zone # <<>>, Edge!PollBegins, poll.at = "idle"
    PROVE  /\ poll' \in [at : PollSteps, rules : SUBSET Edge!Rules, judge : Seq(Edge!Rules),
                         loud : SUBSET Edge!Rules, saw : BOOLEAN]
           /\ poll'.at \in {"idle", "measure"}
<1>1. CASE poll' = poll BY <1>1 DEF EdgeTyped
<1>2. CASE poll' = [Edge!NoPoll EXCEPT !.at = "measure", !.rules = zone[1].rules]
  <2>1. PICK r \in [enabled : BOOLEAN, rules : SUBSET Edge!Rules] : zone = <<r>>
        BY DEF EdgeTyped, ZoneRows
  <2>2. zone[1].rules \in SUBSET Edge!Rules BY <2>1
  <2>3. poll' = [at |-> "measure", rules |-> zone[1].rules, judge |-> <<>>, loud |-> {}, saw |-> FALSE]
        BY <1>2 DEF Edge!NoPoll
  <2> QED BY <2>2, <2>3 DEF PollSteps
<1> QED BY <1>1, <1>2 DEF Edge!PollBegins

LEMMA Polling ==
    ASSUME Edge!EdgeAssumption, EdgeInv,
           Edge!PollCloudflare \/ Edge!measureCloudflareWindow \/ Edge!JudgeLooks \/ Edge!JudgeWrites
    PROVE  EdgeInv' /\ Edge!ClosesOnlyQuiet
<1>0. EdgeTyped /\ JudgedQuiet /\ ScanKnows BY DEF EdgeInv
<1>1. CASE Edge!PollCloudflare
  <2>1. /\ poll.at = "idle" /\ zone # <<>> /\ Edge!PollBegins
        /\ UNCHANGED <<present, records, changes, zone, open, scan, requests, quiet>>
        BY <1>1 DEF Edge!PollCloudflare
  <2>2. EdgeTyped' BY <1>0, <2>1, PollTyped DEF EdgeTyped
  <2>3. JudgedQuiet' BY <1>0, <2>1, PollTyped DEF JudgedQuiet
  <2>4. ScanKnows' BY <1>0, <2>1, QuieterScan
  <2> QED BY <2>1, <2>2, <2>3, <2>4 DEF EdgeInv, Edge!ClosesOnlyQuiet
<1>2. CASE Edge!measureCloudflareWindow
  <2> DEFINE half(read) == CASE read = "nothing" -> {}
                             [] read = "traffic" -> Edge!ToSet(TrafficRules)
                             [] read = "all" -> Edge!Rules
             loud(read) == present \cap half(read) \cap poll.rules
  <2>1. PICK read \in {"nothing", "traffic", "all"} :
          /\ poll' = [poll EXCEPT !.at = "judge", !.judge = Edge!Judged(read), !.loud = loud(read)]
          /\ Edge!Reads(loud(read), half(read) \ loud(read))
        BY <1>2, Zenon DEF Edge!measureCloudflareWindow
  <2>2. UNCHANGED <<present, records, changes, zone, open, scan, requests>>
        BY <1>2, Zenon DEF Edge!measureCloudflareWindow
  <2>3. Edge!Judged(read) \in Seq(Edge!Rules) /\ Edge!ToSet(Edge!Judged(read)) \subseteq half(read)
        /\ half(read) \subseteq Edge!Rules
    <3>1. Edge!ToSet(<<>>) = {} BY DEF Edge!ToSet
    <3>2. Edge!ToSet(TrafficRules) \subseteq Edge!Rules BY DEF Edge!EdgeAssumption,
                                                               Edge!ToSet
    <3>3. SecurityRules \o TrafficRules \in Seq(Edge!Rules) BY DEF Edge!EdgeAssumption
    <3>4. CASE read = "nothing" BY <3>1, <3>4 DEF Edge!Judged
    <3>5. CASE read = "traffic" BY <3>2, <3>5 DEF Edge!Judged, Edge!EdgeAssumption
    <3>6. CASE read = "all" BY <3>3, <3>6 DEF Edge!Judged, Edge!Rules
    <3> QED BY <3>4, <3>5, <3>6
  <2> DEFINE heard == loud(read)
             listened == half(read)
  <2>3a. heard \in SUBSET Edge!Rules BY <2>3
  <2>3b. poll' = [poll EXCEPT !.at = "judge", !.judge = Edge!Judged(read), !.loud = heard]
         /\ quiet' = (quiet \ heard) \cup (listened \ heard)
         BY <2>1 DEF Edge!Reads
  <2>3c. Edge!ToSet(Edge!Judged(read)) \subseteq listened BY <2>3
  <2> HIDE DEF heard, listened, half, loud
  <2>4. poll' = [at |-> "judge", rules |-> poll.rules, judge |-> Edge!Judged(read), loud |-> heard,
                 saw |-> poll.saw]
        BY <1>0, <2>3b DEF EdgeTyped
  <2>5. EdgeTyped' BY <1>0, <2>2, <2>3, <2>3a, <2>4 DEF EdgeTyped, PollSteps
  <2>6. JudgedQuiet' BY <2>3b, <2>3c, <2>4 DEF JudgedQuiet
  <2>7. ScanKnows' BY <1>0, <2>2, <2>3a, <2>3b, QuieterScan
  <2> QED BY <2>2, <2>5, <2>6, <2>7 DEF EdgeInv, Edge!ClosesOnlyQuiet
<1>3. CASE Edge!JudgeLooks
  <2>1. /\ poll.at = "judge" /\ UNCHANGED <<present, records, changes, zone, open, scan, requests, quiet>>
        /\ poll' = IF poll.judge = <<>> THEN Edge!NoPoll
                   ELSE [poll EXCEPT !.at = "write", !.saw = Head(poll.judge) \in open]
        BY <1>3 DEF Edge!JudgeLooks
  <2>2. ScanKnows' BY <1>0, <2>1, QuieterScan
  <2>3. CASE poll.judge = <<>>
    <3>1. EdgeTyped' BY <1>0, <2>1, <2>3 DEF EdgeTyped, Edge!NoPoll, PollSteps
    <3> QED BY <2>1, <2>2, <2>3, <3>1 DEF EdgeInv, Edge!ClosesOnlyQuiet, JudgedQuiet,
                                          Edge!NoPoll
  <2>4. CASE poll.judge # <<>>
    <3> DEFINE is == Head(poll.judge) \in open
    <3>1. poll' = [at |-> "write", rules |-> poll.rules, judge |-> poll.judge, loud |-> poll.loud,
                   saw |-> is]
          BY <1>0, <2>1, <2>4 DEF EdgeTyped
    <3>2. is \in BOOLEAN OBVIOUS
    <3> HIDE DEF is
    <3>3. EdgeTyped' BY <1>0, <2>1, <2>4, <3>1, <3>2 DEF EdgeTyped, PollSteps
    <3>4. JudgedQuiet' BY <1>0, <2>1, <3>1 DEF JudgedQuiet
    <3> QED BY <2>1, <2>2, <3>3, <3>4 DEF EdgeInv, Edge!ClosesOnlyQuiet
  <2> QED BY <2>3, <2>4
<1>4. CASE Edge!JudgeWrites
  <2> DEFINE rule == Head(poll.judge)
  <2>1. /\ poll.at = "write" /\ UNCHANGED <<present, records, changes, zone, scan, requests, quiet>>
        /\ poll' = [poll EXCEPT !.at = "judge", !.judge = Tail(poll.judge), !.saw = FALSE]
        /\ \/ open \subseteq open'
           \/ rule \notin poll.loud /\ open \ open' \subseteq {rule}
        BY <1>4 DEF Edge!JudgeWrites
  <2>2. ScanKnows' BY <1>0, <2>1, QuieterScan
  <2>3. poll.judge \in Seq(Edge!Rules) /\ poll.judge # <<>> BY <1>0, <2>1 DEF EdgeTyped
  <2>4. /\ rule \in Edge!ToSet(poll.judge) /\ rule \in Edge!Rules /\ Tail(poll.judge) \in Seq(Edge!Rules)
        /\ Edge!ToSet(Tail(poll.judge)) \subseteq Edge!ToSet(poll.judge)
        BY <2>3, FirstsAndRests
  <2> DEFINE rest == Tail(poll.judge)
  <2> HIDE DEF rule, rest
  <2>5. poll' = [at |-> "judge", rules |-> poll.rules, judge |-> rest, loud |-> poll.loud,
                 saw |-> FALSE]
        BY <1>0, <2>1 DEF EdgeTyped, rest
  <2>6. rest \in Seq(Edge!Rules) /\ Edge!ToSet(rest) \subseteq Edge!ToSet(poll.judge)
        BY <2>4 DEF rest
  <2> USE <1>0
  <2>6a. UNCHANGED <<present, records, changes, zone, scan, requests, quiet>> /\ poll.at = "write"
        BY <2>1
  <2>6b. rest \in Seq(Edge!Rules) BY <2>6
  <2>7. EdgeTyped' BY <2>6a, <2>5, <2>6b DEF EdgeTyped, PollSteps
  <2>8. JudgedQuiet' BY <2>6a, <2>5, <2>6 DEF JudgedQuiet
  <2>9. rule \notin poll.loud => rule \in quiet BY <1>0, <2>1, <2>4 DEF JudgedQuiet
  <2>10. Edge!ClosesOnlyQuiet BY <2>1, <2>9 DEF Edge!ClosesOnlyQuiet, rule
  <2> QED BY <2>2, <2>7, <2>8, <2>10 DEF EdgeInv
<1> QED BY <1>1, <1>2, <1>3, <1>4

(* The pass over the findings starts from nothing. *)
ScanTyped ==
    scan \in [at : ScanSteps, records : SUBSET Edge!Findings, found : SUBSET Edge!Findings,
              unanswered : SUBSET Edge!Findings, checked : BOOLEAN, saw : SUBSET Edge!Findings,
              todo : SUBSET Edge!Findings]
LEMMA ScanStarts ==
    ASSUME Edge!EdgeAssumption, EdgeInv, quiet' = quiet, Edge!ScanBegins \/ scan' = Edge!NoScan
    PROVE  ScanTyped' /\ ScanKnows'
<1>0. EdgeTyped /\ ScanKnows BY DEF EdgeInv
<1>1. CASE scan' = scan BY <1>0, <1>1, QuieterScan DEF EdgeTyped, ScanTyped
<1>2. CASE scan' = Edge!NoScan BY <1>2 DEF ScanTyped, ScanKnows, Edge!NoScan, ScanSteps
<1>3. CASE scan' = [Edge!NoScan EXCEPT !.at = "records"]
  <2>1. scan' = [at |-> "records", records |-> {}, found |-> {}, unanswered |-> {},
                 checked |-> FALSE, saw |-> {}, todo |-> {}]
        BY <1>3 DEF Edge!NoScan
  <2> QED BY <2>1 DEF ScanTyped, ScanKnows, ScanSteps
<1> QED BY <1>1, <1>2, <1>3 DEF Edge!ScanBegins

(* The pass over the findings: asking, and writing what came of it. *)
LEMMA Scanning ==
    ASSUME Edge!EdgeAssumption, EdgeInv,
           \/ Edge!PollCloudflareExposure \/ Edge!ListRecords \/ Edge!LookUpAddresses \/ Edge!probeExposedPorts
           \/ Edge!LookUpNames \/ Edge!ReconcileLooks \/ Edge!ScanEnds \/ \E f \in Edge!Findings : Edge!Reconciles(f)
    PROVE  EdgeInv' /\ Edge!ClosesOnlyQuiet
<1>0. /\ EdgeTyped /\ JudgedQuiet /\ ScanKnows BY DEF EdgeInv
<1>0a. Ports \subseteq Edge!Findings /\ Names \subseteq Edge!Findings /\ Edge!Findings \subseteq Ports \cup Names
       BY DEF Edge!Findings
<1>1. CASE Edge!PollCloudflareExposure \/ Edge!ScanEnds
  <2>1. /\ UNCHANGED <<present, records, changes, zone, open, poll, requests, quiet>>
        /\ Edge!ScanBegins \/ scan' = Edge!NoScan
        BY <1>1 DEF Edge!PollCloudflareExposure, Edge!ScanEnds
  <2>2. JudgedQuiet' BY <1>0, <2>1, QuieterPoll
  <2>3. ScanTyped' /\ ScanKnows' BY <2>1, ScanStarts
  <2>4. EdgeTyped' BY <1>0, <2>1, <2>3 DEF EdgeTyped, ScanTyped
  <2> QED BY <2>1, <2>2, <2>3, <2>4 DEF EdgeInv, Edge!ClosesOnlyQuiet
<1>2. CASE Edge!ListRecords
  <2>1. /\ scan.at = "records" /\ UNCHANGED <<present, records, changes, zone, open, poll, requests>>
        /\ \/ /\ scan' = [scan EXCEPT !.at = "addresses", !.records = records]
              /\ quiet' = (quiet \ {}) \cup (Edge!Findings \ records)
           \/ scan' = Edge!NoScan /\ quiet' = quiet
        BY <1>2 DEF Edge!ListRecords, Edge!Reads
  <2>2. JudgedQuiet' BY <1>0, <2>1, QuieterPoll
  <2>3. CASE scan' = Edge!NoScan
    <3>1. EdgeTyped' BY <1>0, <2>1, <2>3 DEF EdgeTyped, Edge!NoScan, ScanSteps
    <3>2. ScanKnows' BY <2>3 DEF ScanKnows, Edge!NoScan
    <3> QED BY <2>1, <2>2, <3>1, <3>2 DEF EdgeInv, Edge!ClosesOnlyQuiet
  <2>4. CASE /\ scan' = [scan EXCEPT !.at = "addresses", !.records = records]
             /\ quiet' = (quiet \ {}) \cup (Edge!Findings \ records)
    <3>1. scan' = [at |-> "addresses", records |-> records, found |-> scan.found,
                   unanswered |-> scan.unanswered, checked |-> scan.checked, saw |-> scan.saw,
                   todo |-> scan.todo]
          BY <1>0, <2>4 DEF EdgeTyped
    <3>2. scan.found = {} /\ ~scan.checked BY <1>0, <2>1 DEF ScanKnows
    <3>3. EdgeTyped' BY <1>0, <2>1, <3>1 DEF EdgeTyped, ScanSteps
    <3>4. ScanKnows' BY <2>4, <3>1, <3>2 DEF ScanKnows
    <3> QED BY <2>1, <2>2, <3>3, <3>4 DEF EdgeInv, Edge!ClosesOnlyQuiet
  <2> QED BY <2>1, <2>3, <2>4
<1>3. CASE Edge!LookUpAddresses
  <2> DEFINE listed == Ports \cap scan.records \cap present
  <2>1. /\ scan.at = "addresses" /\ UNCHANGED <<present, records, changes, zone, open, poll, requests>>
        /\ \/ scan' = [scan EXCEPT !.at = "probe"] /\ quiet' = quiet
           \/ /\ scan' = [scan EXCEPT !.at = "probe", !.checked = TRUE, !.found = listed]
              /\ quiet' = (quiet \ {}) \cup (Ports \ present)
        BY <1>3 DEF Edge!LookUpAddresses, Edge!Reads
  <2>2. JudgedQuiet' BY <1>0, <2>1, QuieterPoll
  <2>3. scan.found = {} /\ ~scan.checked /\ Edge!Findings \ scan.records \subseteq quiet
        BY <1>0, <2>1 DEF ScanKnows
  <2>4. /\ listed \in SUBSET Edge!Findings /\ listed \subseteq scan.records
        /\ Ports \ listed \subseteq (Edge!Findings \ scan.records) \cup (Ports \ present)
        BY <1>0a
  <2> HIDE DEF listed
  <2>5. CASE scan' = [scan EXCEPT !.at = "probe"] /\ quiet' = quiet
    <3>1. scan' = [at |-> "probe", records |-> scan.records, found |-> scan.found,
                   unanswered |-> scan.unanswered, checked |-> scan.checked, saw |-> scan.saw,
                   todo |-> scan.todo]
          BY <1>0, <2>5 DEF EdgeTyped
    <3>2. EdgeTyped' BY <1>0, <2>1, <3>1 DEF EdgeTyped, ScanSteps
    <3>3. ScanKnows' BY <2>3, <2>5, <3>1 DEF ScanKnows
    <3> QED BY <2>1, <2>2, <3>2, <3>3 DEF EdgeInv, Edge!ClosesOnlyQuiet
  <2>6. CASE /\ scan' = [scan EXCEPT !.at = "probe", !.checked = TRUE, !.found = listed]
             /\ quiet' = (quiet \ {}) \cup (Ports \ present)
    <3>1. scan' = [at |-> "probe", records |-> scan.records, found |-> listed,
                   unanswered |-> scan.unanswered, checked |-> TRUE, saw |-> scan.saw,
                   todo |-> scan.todo]
          BY <1>0, <2>6 DEF EdgeTyped
    <3>2. EdgeTyped' BY <1>0, <2>1, <2>4, <3>1 DEF EdgeTyped, ScanSteps
    <3>3. listed \subseteq Ports BY <2>1 DEF listed
    <3>4. ScanKnows' BY <2>3, <2>4, <2>6, <3>1, <3>3 DEF ScanKnows
    <3> QED BY <2>1, <2>2, <3>2, <3>4 DEF EdgeInv, Edge!ClosesOnlyQuiet
  <2> QED BY <2>1, <2>5, <2>6
<1>4. CASE Edge!probeExposedPorts
  <2>1. PICK cutOff \in SUBSET scan.found :
          LET reached == Edge!Exposed(scan.found, cutOff \cup (Ports \ present)) IN
            /\ scan' = [scan EXCEPT !.at = "names", !.found = reached, !.unanswered = cutOff]
            /\ Edge!Reads(reached, (scan.found \ cutOff) \ present)
        BY <1>4, Zenon DEF Edge!probeExposedPorts
  <2>2. scan.at = "probe" /\ UNCHANGED <<present, records, changes, zone, open, poll, requests>>
        BY <1>4, Zenon DEF Edge!probeExposedPorts
  <2> DEFINE reached == Edge!Exposed(scan.found, cutOff \cup (Ports \ present))
             gone == (scan.found \ cutOff) \ present
  <2>3. /\ scan' = [scan EXCEPT !.at = "names", !.found = reached, !.unanswered = cutOff]
        /\ quiet' = (quiet \ reached) \cup gone
        BY <2>1 DEF Edge!Reads
  <2>4. /\ scan.found \subseteq Ports /\ Edge!Findings \ scan.records \subseteq quiet
        /\ scan.checked => Ports \ scan.found \subseteq quiet
        BY <1>0, <2>2 DEF ScanKnows
  <2>5. /\ reached \subseteq scan.found /\ gone \subseteq Edge!Findings
        /\ scan.found \subseteq reached \cup cutOff \cup gone
        BY <1>0a, <2>4 DEF Edge!Exposed
  <2>6. reached \in SUBSET Edge!Findings /\ cutOff \in SUBSET Edge!Findings /\ cutOff \subseteq scan.found
        BY <1>0a, <2>4, <2>5
  <2> HIDE DEF reached, gone
  <2>7. scan' = [at |-> "names", records |-> scan.records, found |-> reached,
                 unanswered |-> cutOff, checked |-> scan.checked, saw |-> scan.saw,
                 todo |-> scan.todo]
        BY <1>0, <2>3 DEF EdgeTyped
  <2>8. EdgeTyped' BY <1>0, <2>2, <2>6, <2>7 DEF EdgeTyped, ScanSteps
  <2>9. JudgedQuiet' BY <1>0, <2>2, <2>3, <2>6, QuieterPoll
  <2>10. ASSUME NEW p \in Ports, p \notin reached, scan.checked \/ p \notin scan.records
         PROVE  p \in quiet' \cup cutOff
         BY <1>0a, <2>3, <2>4, <2>5, <2>10
  <2>11. Edge!Findings \ scan.records \subseteq quiet' /\ reached \subseteq scan.records
        BY <1>0, <2>2, <2>3, <2>4, <2>5 DEF ScanKnows
  <2>12. ScanKnows' BY <2>7, <2>10, <2>11 DEF ScanKnows
  <2> QED BY <2>2, <2>8, <2>9, <2>12 DEF EdgeInv, Edge!ClosesOnlyQuiet
<1>5. CASE Edge!LookUpNames
  <2> DEFINE asked == Names \cap scan.records
             dangling(silent) == (asked \ silent) \cap present
  <2>1. PICK silent \in SUBSET asked :
          /\ scan' = [scan EXCEPT !.at = "look", !.found = @ \cup dangling(silent),
                                  !.unanswered = @ \cup silent]
          /\ Edge!Reads(dangling(silent), (asked \ silent) \ present)
        BY <1>5, Zenon DEF Edge!LookUpNames
  <2>2. scan.at = "names" /\ UNCHANGED <<present, records, changes, zone, open, poll, requests>>
        BY <1>5, Zenon DEF Edge!LookUpNames
  <2> DEFINE lost == dangling(silent)
             gone == (asked \ silent) \ present
             found == scan.found \cup lost
             unanswered == scan.unanswered \cup silent
  <2>3. scan' = [scan EXCEPT !.at = "look", !.found = found, !.unanswered = unanswered]
        /\ quiet' = (quiet \ lost) \cup gone
        BY <2>1 DEF Edge!Reads
  <2>4. /\ Edge!Findings \ scan.records \subseteq quiet
        /\ \A p \in Ports \ scan.found :
             scan.checked \/ p \notin scan.records => p \in quiet \cup scan.unanswered
        BY <1>0, <2>2 DEF ScanKnows
  <2>5. /\ lost \subseteq asked /\ gone \subseteq Edge!Findings /\ silent \subseteq Edge!Findings
        /\ Names \cap scan.records \subseteq lost \cup silent \cup gone
        BY <1>0a
  <2>5a. asked \subseteq scan.records OBVIOUS
  <2>6. found \in SUBSET Edge!Findings /\ unanswered \in SUBSET Edge!Findings
        BY <1>0, <1>0a, <2>5 DEF EdgeTyped
  <2> HIDE DEF lost, gone, asked, dangling
  <2>7. ASSUME NEW f \in Edge!Findings \ found, f \in Names \/ scan.checked \/ f \notin scan.records
        PROVE  f \in quiet' \cup unanswered
    <3>1. CASE f \notin scan.records BY <2>3, <2>4, <3>1
    <3>2. CASE f \in Names /\ f \in scan.records BY <2>3, <2>5, <3>2
    <3>3. CASE f \in Ports /\ scan.checked BY <2>3, <2>4, <3>3
    <3> QED BY <1>0a, <2>7, <3>1, <3>2, <3>3
  <2> HIDE DEF found, unanswered
  <2>8. scan' = [at |-> "look", records |-> scan.records, found |-> found,
                 unanswered |-> unanswered, checked |-> scan.checked, saw |-> scan.saw,
                 todo |-> scan.todo]
        BY <1>0, <2>3 DEF EdgeTyped
  <2>9. EdgeTyped' BY <1>0, <2>2, <2>6, <2>8 DEF EdgeTyped, ScanSteps
  <2>10. quiet \subseteq quiet' \cup Edge!Findings BY <1>0a, <2>3, <2>5 DEF asked
  <2>11. JudgedQuiet' BY <1>0, <2>2, <2>10, QuieterPoll
  <2>12. Edge!Findings \ scan.records \subseteq quiet' BY <2>3, <2>4, <2>5, <2>5a
  <2>13. ScanKnows' BY <2>7, <2>8, <2>12 DEF ScanKnows, Edge!Gone
  <2> QED BY <2>2, <2>9, <2>11, <2>13 DEF EdgeInv, Edge!ClosesOnlyQuiet
<1>6. CASE Edge!ReconcileLooks
  <2> DEFINE mine == open \cap Edge!Findings
  <2>1. /\ scan.at = "look"
        /\ UNCHANGED <<present, records, changes, zone, open, poll, requests, quiet>>
        /\ scan' = [scan EXCEPT !.at = "reconcile", !.saw = mine, !.todo = Edge!Findings]
        BY <1>6 DEF Edge!ReconcileLooks
  <2>2. mine \in SUBSET Edge!Findings OBVIOUS
  <2> HIDE DEF mine
  <2>3. scan' = [at |-> "reconcile", records |-> scan.records, found |-> scan.found,
                 unanswered |-> scan.unanswered, checked |-> scan.checked, saw |-> mine,
                 todo |-> Edge!Findings]
        BY <1>0, <2>1 DEF EdgeTyped
  <2>4. EdgeTyped' BY <1>0, <2>1, <2>2, <2>3 DEF EdgeTyped, ScanSteps
  <2>5. JudgedQuiet' BY <1>0, <2>1, QuieterPoll
  <2>6. ScanKnows' BY <1>0, <2>1, <2>3 DEF ScanKnows, Edge!Gone
  <2> QED BY <2>1, <2>4, <2>5, <2>6 DEF EdgeInv, Edge!ClosesOnlyQuiet
<1>7. ASSUME NEW f \in Edge!Findings, Edge!Reconciles(f) PROVE EdgeInv' /\ Edge!ClosesOnlyQuiet
  <2>1. /\ scan.at = "reconcile"
        /\ UNCHANGED <<present, records, changes, zone, poll, requests, quiet>>
        /\ scan' = [scan EXCEPT !.todo = scan.todo \ {f}]
        BY <1>7 DEF Edge!Reconciles
  <2>2. open \subseteq open' \/ (open \ open' \subseteq {f} /\ f \notin scan.found /\ Edge!Gone(f))
        BY <1>7 DEF Edge!Reconciles
  <2>3. scan' = [at |-> "reconcile", records |-> scan.records, found |-> scan.found,
                 unanswered |-> scan.unanswered, checked |-> scan.checked, saw |-> scan.saw,
                 todo |-> scan.todo \ {f}]
        BY <1>0, <2>1 DEF EdgeTyped
  <2>4. EdgeTyped' BY <1>0, <2>1, <2>3 DEF EdgeTyped
  <2>5. JudgedQuiet' BY <1>0, <2>1, QuieterPoll
  <2>6. ScanKnows' BY <1>0, <2>1, <2>3 DEF ScanKnows, Edge!Gone
  <2>7. f \notin scan.found /\ Edge!Gone(f) => f \in quiet \cup scan.unanswered
        BY <1>0, <2>1 DEF ScanKnows
  <2>8. Edge!ClosesOnlyQuiet BY <2>2, <2>7 DEF Edge!ClosesOnlyQuiet
  <2> QED BY <2>4, <2>5, <2>6, <2>8 DEF EdgeInv
<1> QED BY <1>1, <1>2, <1>3, <1>4, <1>5, <1>6, <1>7

(* The handlers write no pass' findings: only a deletion takes alerts away. *)
LEMMA Handling ==
    ASSUME Edge!EdgeAssumption, EdgeInv, NEW s \in Edge!Requests, Edge!Handles(s)
    PROVE  EdgeInv' /\ Edge!ClosesOnlyQuiet
<1>0. EdgeTyped /\ JudgedQuiet /\ ScanKnows BY DEF EdgeInv
<1> DEFINE RequestRows == [at : RequestSteps, zone : ZoneRows]
<1>a. ASSUME NEW row \in RequestRows, requests' = [requests EXCEPT ![s] = row]
      PROVE  requests' \in [Edge!Requests -> RequestRows]
      BY <1>0, <1>a DEF EdgeTyped
<1>b. ASSUME NEW step \in RequestSteps, Edge!Moves(s, step)
      PROVE  requests' \in [Edge!Requests -> RequestRows]
  <2>1. requests[s] \in RequestRows BY <1>0 DEF EdgeTyped
  <2>2. [requests[s] EXCEPT !.at = step] \in RequestRows BY <2>1
  <2>3. requests' = [requests EXCEPT ![s] = [requests[s] EXCEPT !.at = step]]
        BY <1>b DEF Edge!Moves
  <2> QED BY <2>2, <2>3, <1>a
<1>c. ASSUME Edge!Ends(s) PROVE requests' \in [Edge!Requests -> RequestRows]
  <2>1. [at |-> "done", zone |-> <<>>] \in RequestRows BY DEF RequestSteps, ZoneRows
  <2>2. requests' = [requests EXCEPT ![s] = [at |-> "done", zone |-> <<>>]]
    <3>1. [Edge!Unborn EXCEPT !.at = "done"] = [at |-> "done", zone |-> <<>>] BY
                                                                              DEF Edge!Unborn
    <3> QED BY <1>c, <3>1, Zenon DEF Edge!Ends
  <2> QED BY <2>1, <2>2, <1>a
<1> HIDE DEF RequestRows
<1>1. ASSUME NEW what \in {"update", "delete", "now"}, Edge!Loads(s, what)
      PROVE  EdgeInv' /\ Edge!ClosesOnlyQuiet
  <2> DEFINE row == [at |-> what, zone |-> IF what = "update" THEN zone ELSE <<>>]
  <2>1. row \in RequestRows BY <1>0 DEF EdgeTyped, RequestRows, RequestSteps, ZoneRows
  <2>2. requests' = [requests EXCEPT ![s] = row]
        /\ UNCHANGED <<present, records, changes, zone, open, poll, scan, quiet>>
        BY <1>1 DEF Edge!Loads
  <2>3. requests' \in [Edge!Requests -> RequestRows] BY <1>a, <2>1, <2>2
  <2>4. EdgeTyped' BY <1>0, <2>2, <2>3 DEF EdgeTyped, RequestRows
  <2>5. JudgedQuiet' /\ ScanKnows' BY <1>0, <2>2, QuieterPoll, QuieterScan
  <2> QED BY <2>2, <2>4, <2>5 DEF EdgeInv, Edge!ClosesOnlyQuiet
<1>2. ASSUME NEW enabled \in BOOLEAN, NEW on \in SUBSET Edge!Rules,
             Edge!UpdateCloudflareZone(s, enabled, on)
      PROVE  EdgeInv' /\ Edge!ClosesOnlyQuiet
  <2>1. zone' = <<[enabled |-> enabled, rules |-> on]>> /\ Edge!Ends(s)
        /\ UNCHANGED <<present, records, changes, open, poll, scan, quiet>>
        BY <1>2 DEF Edge!UpdateCloudflareZone
  <2>2. zone' \in ZoneRows BY <2>1 DEF ZoneRows
  <2>3. EdgeTyped' BY <1>0, <1>c, <2>1, <2>2 DEF EdgeTyped, RequestRows
  <2>4. JudgedQuiet' /\ ScanKnows' BY <1>0, <2>1, QuieterPoll, QuieterScan
  <2> QED BY <2>1, <2>3, <2>4 DEF EdgeInv, Edge!ClosesOnlyQuiet
<1>3. CASE Edge!DeleteAlerts(s)
  <2>1. requests[s].at = "delete" /\ open' = {} /\ Edge!Moves(s, "deleting")
        /\ UNCHANGED <<present, records, changes, zone, poll, scan, quiet>>
        BY <1>3 DEF Edge!DeleteAlerts
  <2>2. requests' \in [Edge!Requests -> RequestRows] BY <1>b, <2>1 DEF RequestSteps
  <2>3. EdgeTyped' BY <1>0, <2>1, <2>2 DEF EdgeTyped, RequestRows
  <2>4. JudgedQuiet' /\ ScanKnows' BY <1>0, <2>1, QuieterPoll, QuieterScan
  <2>5. requests'[s].at = "deleting" BY <1>0, <2>1 DEF EdgeTyped, Edge!Moves
  <2>6. Edge!ClosesOnlyQuiet BY <2>1, <2>5 DEF Edge!ClosesOnlyQuiet
  <2> QED BY <2>3, <2>4, <2>6 DEF EdgeInv
<1>4. CASE Edge!DeleteZone(s)
  <2>1. zone' = <<>> /\ Edge!Ends(s)
        /\ UNCHANGED <<present, records, changes, open, poll, scan, quiet>>
        BY <1>4 DEF Edge!DeleteZone
  <2>2. EdgeTyped' BY <1>0, <1>c, <2>1 DEF EdgeTyped, RequestRows, ZoneRows
  <2>3. JudgedQuiet' /\ ScanKnows' BY <1>0, <2>1, QuieterPoll, QuieterScan
  <2> QED BY <2>1, <2>2, <2>3 DEF EdgeInv, Edge!ClosesOnlyQuiet
<1>5. CASE Edge!NowPolls(s)
  <2>1. /\ poll.at = "idle" /\ Edge!Moves(s, "polled")
        /\ UNCHANGED <<present, records, changes, zone, open, scan, quiet>>
        /\ (poll' = poll \/ (zone # <<>> /\ Edge!PollBegins))
        BY <1>5 DEF Edge!NowPolls
  <2>2. requests' \in [Edge!Requests -> RequestRows] BY <1>b, <2>1 DEF RequestSteps
  <2>3. /\ poll' \in [at : PollSteps, rules : SUBSET Edge!Rules, judge : Seq(Edge!Rules),
                       loud : SUBSET Edge!Rules, saw : BOOLEAN]
        /\ poll'.at \in {"idle", "measure"}
        BY <1>0, <2>1, PollTyped DEF EdgeTyped
  <2>4. EdgeTyped' BY <1>0, <2>1, <2>2, <2>3 DEF EdgeTyped, RequestRows
  <2>5. JudgedQuiet' /\ ScanKnows' BY <1>0, <2>1, <2>3, QuieterScan DEF JudgedQuiet
  <2> QED BY <2>1, <2>4, <2>5 DEF EdgeInv, Edge!ClosesOnlyQuiet
<1>6. CASE Edge!NowScans(s)
  <2>1. Edge!Ends(s) /\ Edge!ScanBegins
        /\ UNCHANGED <<present, records, changes, zone, open, poll, quiet>>
        BY <1>6 DEF Edge!NowScans
  <2>2. requests' \in [Edge!Requests -> RequestRows] BY <1>c, <2>1
  <2>3. ScanTyped' /\ ScanKnows' BY <1>0, <2>1, ScanStarts
  <2>4. EdgeTyped' BY <1>0, <2>1, <2>2, <2>3 DEF EdgeTyped, RequestRows, ScanTyped
  <2>5. JudgedQuiet' BY <1>0, <2>1, QuieterPoll
  <2> QED BY <2>1, <2>3, <2>4, <2>5 DEF EdgeInv, Edge!ClosesOnlyQuiet
<1> QED BY <1>1, <1>2, <1>3, <1>4, <1>5, <1>6 DEF Edge!Handles

(* The world only makes quiet: what was there is seen to be gone. *)
LEMMA Changing ==
    ASSUME Edge!EdgeAssumption, EdgeInv, NEW t \in Edge!Things, Edge!Changes(t)
    PROVE  EdgeInv' /\ Edge!ClosesOnlyQuiet
<1>0. EdgeTyped /\ JudgedQuiet /\ ScanKnows BY DEF EdgeInv
<1>1. UNCHANGED <<zone, open, poll, scan, requests>> /\ quiet \subseteq quiet'
      BY DEF Edge!Changes, Edge!Reads
<1>2. present' \subseteq Edge!Things /\ records' \subseteq Edge!Findings
      BY <1>0 DEF Edge!Changes, EdgeTyped
<1>3. EdgeTyped' BY <1>0, <1>1, <1>2 DEF EdgeTyped
<1>4. JudgedQuiet' /\ ScanKnows' BY <1>0, <1>1, QuieterPoll, QuieterScan
<1> QED BY <1>1, <1>3, <1>4 DEF EdgeInv, Edge!ClosesOnlyQuiet

LEMMA EdgeStep ==
    Edge!EdgeAssumption /\ EdgeInv /\ [Edge!Next]_(Edge!vars)
      => EdgeInv' /\ [Edge!ClosesOnlyQuiet]_(Edge!vars)
<1> SUFFICES ASSUME Edge!EdgeAssumption, EdgeInv, [Edge!Next]_(Edge!vars)
             PROVE  EdgeInv' /\ [Edge!ClosesOnlyQuiet]_(Edge!vars)
    OBVIOUS
<1>1. CASE UNCHANGED Edge!vars
      BY <1>1 DEF Edge!vars, EdgeInv, EdgeTyped, JudgedQuiet, ScanKnows, Edge!Gone
<1>2. CASE Edge!Passes BY <1>2, Polling, Scanning DEF Edge!Passes
<1>3. CASE \E s \in Edge!Requests : Edge!Handles(s) BY <1>3, Handling
<1>4. CASE \E t \in Edge!Things : Edge!Changes(t) BY <1>4, Changing
<1> QED BY <1>1, <1>2, <1>3, <1>4 DEF Edge!Next

(* An alert is closed only if what it is about was absent since it was last  *)
(* read, or the zone is being deleted, or a dial or a name went unanswered:  *)
(* evaluateCloudflareRule and reconcileExposureAlerts, between any edits.    *)
THEOREM AlertsCloseQuiet == ASSUME Edge!EdgeAssumption PROVE Edge!Spec => Edge!AlertsStand
<1>1. Edge!Init => EdgeInv BY EdgeStart
<1>2. EdgeInv /\ [Edge!Next]_(Edge!vars) => EdgeInv' /\ [Edge!ClosesOnlyQuiet]_(Edge!vars)
      BY EdgeStep
<1> QED BY <1>1, <1>2, PTL DEF Edge!Spec, Edge!AlertsStand

(* The types of EdgeAlerts. What is open is a rule or a finding, and a     *)
(* finding that was not answered for is none that was found.               *)
ScanTells ==
    /\ scan.found \subseteq scan.records /\ scan.found \cap scan.unanswered = {}
    /\ scan.at \in {"records", "addresses", "probe"} => scan.unanswered = {}
    /\ scan.at = "names" => scan.found \cup scan.unanswered \subseteq Ports
EdgeKept ==
    /\ open \subseteq Edge!Things /\ quiet \subseteq Edge!Things /\ changes \in 0..MaxChanges
    /\ poll.loud \subseteq poll.rules /\ ScanTells
\* What a step does to the rest of the log.
Logged == open' \subseteq Edge!Things /\ quiet' \subseteq Edge!Things /\ changes' \in 0..MaxChanges

LEMMA LogStays ==
    ASSUME Edge!EdgeAssumption, EdgeInv, EdgeKept, Edge!Next
    PROVE  Logged
<1>0. /\ open \subseteq Edge!Things /\ quiet \subseteq Edge!Things /\ changes \in 0..MaxChanges
      /\ Edge!Rules \subseteq Edge!Things /\ Edge!Findings \subseteq Edge!Things
      /\ Ports \subseteq Edge!Findings /\ Names \subseteq Edge!Findings /\ MaxChanges \in Nat
      BY DEF EdgeKept, Edge!Things, Edge!Findings, Edge!EdgeAssumption
<1>0a. EdgeTyped BY DEF EdgeInv
<1>0b. \A found, absent : Edge!Reads(found, absent) /\ absent \subseteq Edge!Things
                            => quiet' \subseteq Edge!Things
       BY <1>0 DEF Edge!Reads
<1>1. ASSUME UNCHANGED <<open, quiet, changes>> PROVE Logged BY <1>0, <1>1 DEF Logged
<1>2. ASSUME UNCHANGED <<open, changes>>, NEW found, NEW absent \in SUBSET Edge!Things,
             Edge!Reads(found, absent)
      PROVE  Logged
      BY <1>0, <1>0b, <1>2 DEF Logged
<1>3. ASSUME UNCHANGED <<quiet, changes>>, open' \subseteq Edge!Things PROVE Logged
      BY <1>0, <1>3 DEF Logged
<1>4. CASE Edge!measureCloudflareWindow
  <2> DEFINE half(read) == CASE read = "nothing" -> {}
                             [] read = "traffic" -> Edge!ToSet(TrafficRules)
                             [] read = "all" -> Edge!Rules
             loud(read) == present \cap half(read) \cap poll.rules
  <2>1. PICK read \in {"nothing", "traffic", "all"} : Edge!Reads(loud(read), half(read) \ loud(read))
        BY <1>4, Zenon DEF Edge!measureCloudflareWindow
  <2>2. half(read) \subseteq Edge!Rules
    <3>1. Edge!ToSet(TrafficRules) \subseteq Edge!Rules BY DEF Edge!EdgeAssumption, Edge!ToSet
    <3> QED BY <3>1
  <2>3. UNCHANGED <<open, changes>> BY <1>4, Zenon DEF Edge!measureCloudflareWindow
  <2> DEFINE heard == loud(read)
             absent == half(read) \ loud(read)
  <2>4. absent \in SUBSET Edge!Things /\ Edge!Reads(heard, absent) BY <1>0, <2>1, <2>2
  <2> HIDE DEF heard, absent
  <2> QED BY <1>2, <2>3, <2>4
<1>5. CASE Edge!JudgeWrites
  <2>1. poll.judge \in Seq(Edge!Rules) /\ poll.judge # <<>>
        BY <1>0a, <1>5 DEF EdgeTyped, Edge!JudgeWrites
  <2>2. Head(poll.judge) \in Edge!Rules BY <2>1
  <2>3. open' \subseteq open \cup {Head(poll.judge)} BY <1>5 DEF Edge!JudgeWrites
  <2>4. UNCHANGED <<quiet, changes>> BY <1>5 DEF Edge!JudgeWrites
  <2> QED BY <1>0, <1>3, <2>2, <2>3, <2>4
<1>6. CASE Edge!PollCloudflare \/ Edge!JudgeLooks \/ Edge!PollCloudflareExposure \/ Edge!ReconcileLooks \/ Edge!ScanEnds
      BY <1>1, <1>6 DEF Edge!PollCloudflare, Edge!JudgeLooks, Edge!PollCloudflareExposure,
                        Edge!ReconcileLooks, Edge!ScanEnds
<1>7. CASE Edge!ListRecords
  <2>1. UNCHANGED <<open, changes>> /\ (Edge!Reads({}, Edge!Findings \ records) \/ UNCHANGED quiet)
        BY <1>7 DEF Edge!ListRecords
  <2>2. Edge!Findings \ records \in SUBSET Edge!Things BY <1>0
  <2> QED BY <1>1, <1>2, <2>1, <2>2
<1>8. CASE Edge!LookUpAddresses
  <2>1. UNCHANGED <<open, changes>> /\ (Edge!Reads({}, Ports \ present) \/ UNCHANGED quiet)
        BY <1>8 DEF Edge!LookUpAddresses
  <2>2. Ports \ present \in SUBSET Edge!Things BY <1>0
  <2> QED BY <1>1, <1>2, <2>1, <2>2
<1>9. CASE Edge!probeExposedPorts
  <2>1. PICK cutOff \in SUBSET scan.found :
          Edge!Reads(Edge!Exposed(scan.found, cutOff \cup (Ports \ present)), (scan.found \ cutOff) \ present)
        BY <1>9, Zenon DEF Edge!probeExposedPorts
  <2>2. UNCHANGED <<open, changes>> BY <1>9, Zenon DEF Edge!probeExposedPorts
  <2>3. scan.found \subseteq Edge!Findings BY <1>0a DEF EdgeTyped
  <2>4. (scan.found \ cutOff) \ present \in SUBSET Edge!Things BY <1>0, <2>3
  <2> QED BY <1>2, <2>1, <2>2, <2>4
<1>10. CASE Edge!LookUpNames
  <2> DEFINE asked == Names \cap scan.records
             dangling(silent) == (asked \ silent) \cap present
  <2>1. PICK silent \in SUBSET asked : Edge!Reads(dangling(silent), (asked \ silent) \ present)
        BY <1>10, Zenon DEF Edge!LookUpNames
  <2>2. UNCHANGED <<open, changes>> BY <1>10, Zenon DEF Edge!LookUpNames
  <2>3. (asked \ silent) \ present \in SUBSET Edge!Things BY <1>0
  <2> QED BY <1>2, <2>1, <2>2, <2>3
<1>11. ASSUME NEW f \in Edge!Findings, Edge!Reconciles(f) PROVE Logged
  <2>1. UNCHANGED <<quiet, changes>> /\ open' \subseteq open \cup {f} BY <1>11 DEF Edge!Reconciles
  <2> QED BY <1>0, <1>3, <2>1
<1>12. ASSUME NEW s \in Edge!Requests, Edge!Handles(s) PROVE Logged
  <2>1. CASE Edge!DeleteAlerts(s) BY <1>3, <2>1 DEF Edge!DeleteAlerts
  <2>2. CASE ~Edge!DeleteAlerts(s)
    <3>1. UNCHANGED <<open, quiet, changes>>
          BY <1>12, <2>2 DEF Edge!Handles, Edge!Loads, Edge!UpdateCloudflareZone,
                             Edge!DeleteZone, Edge!NowPolls, Edge!NowScans
    <3> QED BY <1>1, <3>1
  <2> QED BY <2>1, <2>2
<1>13. ASSUME NEW t \in Edge!Things, Edge!Changes(t) PROVE Logged
  <2>1. /\ changes < MaxChanges /\ changes' = changes + 1 /\ UNCHANGED open
        /\ Edge!Reads({}, {t} \ (present' \cap (records' \cup Edge!Rules)))
        BY <1>13 DEF Edge!Changes
  <2>2. changes' \in 0..MaxChanges BY <1>0, <2>1
  <2>3. {t} \ (present' \cap (records' \cup Edge!Rules)) \subseteq Edge!Things BY <1>13
  <2>4. quiet' \subseteq Edge!Things BY <1>0b, <2>1, <2>3
  <2> QED BY <1>0, <2>1, <2>2, <2>4 DEF Logged
<1> QED BY <1>4, <1>5, <1>6, <1>7, <1>8, <1>9, <1>10, <1>11, <1>12, <1>13
        DEF Edge!Next, Edge!Passes

\* What is heard is of the rules that are on; what was found is of the records.
LEMMA PollStays ==
    ASSUME EdgeTyped, poll.loud \subseteq poll.rules, Edge!Next
    PROVE  poll'.loud \subseteq poll'.rules
<1>0. poll \in [at : PollSteps, rules : SUBSET Edge!Rules, judge : Seq(Edge!Rules), loud : SUBSET Edge!Rules,
                saw : BOOLEAN]
      BY DEF EdgeTyped
<1>1. CASE poll' = poll BY <1>1
<1>2. CASE Edge!PollBegins
  <2>1. poll' = poll \/ poll' = [Edge!NoPoll EXCEPT !.at = "measure", !.rules = zone[1].rules]
        BY <1>2 DEF Edge!PollBegins
  <2> QED BY <2>1 DEF Edge!NoPoll
<1>3. CASE Edge!measureCloudflareWindow
  <2> DEFINE half(read) == CASE read = "nothing" -> {}
                             [] read = "traffic" -> Edge!ToSet(TrafficRules)
                             [] read = "all" -> Edge!Rules
             loud(read) == present \cap half(read) \cap poll.rules
  <2>1. PICK read \in {"nothing", "traffic", "all"} :
          poll' = [poll EXCEPT !.at = "judge", !.judge = Edge!Judged(read), !.loud = loud(read)]
        BY <1>3, Zenon DEF Edge!measureCloudflareWindow
  <2>2. loud(read) \subseteq poll.rules OBVIOUS
  <2> DEFINE heard == loud(read)
  <2>3. heard \subseteq poll.rules BY <2>2
  <2>4. poll' = [poll EXCEPT !.at = "judge", !.judge = Edge!Judged(read), !.loud = heard] BY <2>1
  <2> HIDE DEF heard
  <2> QED BY <1>0, <2>3, <2>4
<1>4. CASE Edge!JudgeLooks BY <1>0, <1>4 DEF Edge!JudgeLooks, Edge!NoPoll
<1>5. CASE Edge!JudgeWrites BY <1>0, <1>5 DEF Edge!JudgeWrites
<1> QED BY <1>1, <1>2, <1>3, <1>4, <1>5
        DEF Edge!Next, Edge!Passes, Edge!Handles, Edge!PollCloudflare, Edge!PollCloudflareExposure,
            Edge!ListRecords, Edge!LookUpAddresses, Edge!probeExposedPorts, Edge!LookUpNames,
            Edge!ReconcileLooks, Edge!Reconciles, Edge!ScanEnds, Edge!Loads, Edge!UpdateCloudflareZone,
            Edge!DeleteAlerts, Edge!DeleteZone, Edge!NowPolls, Edge!NowScans, Edge!Changes

LEMMA ScanStays ==
    ASSUME Edge!EdgeAssumption, EdgeTyped, ScanKnows, ScanTells, Edge!Next
    PROVE  ScanTells'
<1>0. scan \in [at : ScanSteps, records : SUBSET Edge!Findings, found : SUBSET Edge!Findings,
                unanswered : SUBSET Edge!Findings, checked : BOOLEAN, saw : SUBSET Edge!Findings,
                todo : SUBSET Edge!Findings]
      BY DEF EdgeTyped
<1>1. CASE scan' = scan BY <1>1 DEF ScanTells
<1>2. CASE scan' = Edge!NoScan BY <1>2 DEF ScanTells, Edge!NoScan
<1>3. CASE Edge!ScanBegins
  <2>1. scan' = scan \/ scan' = [Edge!NoScan EXCEPT !.at = "records"] BY <1>3 DEF Edge!ScanBegins
  <2> QED BY <1>1, <2>1 DEF ScanTells, Edge!NoScan
<1>4. CASE Edge!ListRecords
  <2>1. /\ scan.at = "records"
        /\ scan' = [scan EXCEPT !.at = "addresses", !.records = records] \/ scan' = Edge!NoScan
        BY <1>4 DEF Edge!ListRecords
  <2>2. CASE scan' = [scan EXCEPT !.at = "addresses", !.records = records]
    <3>1. scan.found = {} /\ scan.unanswered = {} BY <2>1 DEF ScanKnows, ScanTells
    <3> QED BY <1>0, <2>2, <3>1 DEF ScanTells
  <2> QED BY <1>2, <2>1, <2>2
<1>5. CASE Edge!LookUpAddresses
  <2> DEFINE listed == Ports \cap scan.records \cap present
  <2>1. /\ scan.at = "addresses"
        /\ \/ scan' = [scan EXCEPT !.at = "probe"]
           \/ scan' = [scan EXCEPT !.at = "probe", !.checked = TRUE, !.found = listed]
        BY <1>5 DEF Edge!LookUpAddresses
  <2>2. listed \subseteq scan.records OBVIOUS
  <2> HIDE DEF listed
  <2>3. scan.unanswered = {} BY <2>1 DEF ScanTells
  <2> QED BY <1>0, <2>1, <2>2, <2>3 DEF ScanTells
<1>6. CASE Edge!probeExposedPorts
  <2>1. PICK cutOff \in SUBSET scan.found :
          scan' = [scan EXCEPT !.at = "names",
                               !.found = Edge!Exposed(scan.found, cutOff \cup (Ports \ present)),
                               !.unanswered = cutOff]
        BY <1>6, Zenon DEF Edge!probeExposedPorts
  <2>2. scan.at = "probe" BY <1>6, Zenon DEF Edge!probeExposedPorts
  <2>3. scan.found \subseteq Ports BY <2>2 DEF ScanKnows
  <2> DEFINE reached == Edge!Exposed(scan.found, cutOff \cup (Ports \ present))
  <2>4. reached \subseteq scan.found /\ reached \cap cutOff = {} BY DEF Edge!Exposed
  <2>5. scan' = [scan EXCEPT !.at = "names", !.found = reached, !.unanswered = cutOff] BY <2>1
  <2> HIDE DEF reached
  <2>6. /\ scan'.at = "names" /\ scan'.found = reached /\ scan'.unanswered = cutOff
        /\ scan'.records = scan.records
        BY <1>0, <2>5
  <2> QED BY <2>3, <2>4, <2>6 DEF ScanTells
<1>7. CASE Edge!LookUpNames
  <2> DEFINE asked == Names \cap scan.records
             dangling(silent) == (asked \ silent) \cap present
  <2>1. PICK silent \in SUBSET asked :
          scan' = [scan EXCEPT !.at = "look", !.found = @ \cup dangling(silent),
                               !.unanswered = @ \cup silent]
        BY <1>7, Zenon DEF Edge!LookUpNames
  <2>2. scan.at = "names" BY <1>7, Zenon DEF Edge!LookUpNames
  <2> DEFINE lost == dangling(silent)
             found == scan.found \cup lost
             unanswered == scan.unanswered \cup silent
  <2>3. /\ lost \subseteq Names /\ lost \subseteq scan.records /\ lost \cap silent = {}
        /\ silent \subseteq Names
        OBVIOUS
  <2>4. scan' = [scan EXCEPT !.at = "look", !.found = found, !.unanswered = unanswered] BY <2>1
  <2> HIDE DEF lost, asked
  <2>5. /\ scan.found \cup scan.unanswered \subseteq Ports /\ scan.found \subseteq scan.records
        /\ scan.found \cap scan.unanswered = {} /\ Ports \cap Names = {}
        BY <2>2 DEF ScanTells, Edge!EdgeAssumption
  <2>6. found \subseteq scan.records /\ found \cap unanswered = {} BY <2>3, <2>5
  <2> HIDE DEF found, unanswered
  <2>7. /\ scan'.at = "look" /\ scan'.found = found /\ scan'.unanswered = unanswered
        /\ scan'.records = scan.records
        BY <1>0, <2>4
  <2> QED BY <2>6, <2>7 DEF ScanTells
<1>8. CASE Edge!ReconcileLooks
  <2>1. /\ scan'.at = "reconcile" /\ scan'.found = scan.found /\ scan'.unanswered = scan.unanswered
        /\ scan'.records = scan.records
        BY <1>0, <1>8 DEF Edge!ReconcileLooks
  <2> QED BY <2>1 DEF ScanTells
<1>9. ASSUME NEW f, Edge!Reconciles(f) PROVE ScanTells'
  <2>1. /\ scan'.at = scan.at /\ scan'.found = scan.found /\ scan'.unanswered = scan.unanswered
        /\ scan'.records = scan.records
        BY <1>0, <1>9 DEF Edge!Reconciles
  <2> QED BY <2>1 DEF ScanTells
<1> QED BY <1>1, <1>2, <1>3, <1>4, <1>5, <1>6, <1>7, <1>8, <1>9
        DEF Edge!Next, Edge!Passes, Edge!Handles, Edge!PollCloudflare, Edge!PollCloudflareExposure,
            Edge!measureCloudflareWindow, Edge!JudgeLooks, Edge!JudgeWrites, Edge!ScanEnds, Edge!Loads,
            Edge!UpdateCloudflareZone, Edge!DeleteAlerts, Edge!DeleteZone, Edge!NowPolls, Edge!NowScans,
            Edge!Changes

LEMMA EdgeStays ==
    Edge!EdgeAssumption /\ EdgeInv /\ EdgeKept /\ [Edge!Next]_(Edge!vars) => EdgeKept'
<1> SUFFICES ASSUME Edge!EdgeAssumption, EdgeInv, EdgeKept, [Edge!Next]_(Edge!vars)
             PROVE  EdgeKept'
    OBVIOUS
<1>1. CASE UNCHANGED Edge!vars BY <1>1 DEF Edge!vars, EdgeKept, ScanTells
<1>2. CASE Edge!Next
  <2>1. EdgeTyped /\ ScanKnows /\ ScanTells /\ poll.loud \subseteq poll.rules
        BY DEF EdgeInv, EdgeKept
  <2> QED BY <1>2, <2>1, LogStays, PollStays, ScanStays DEF EdgeKept, Logged
<1> QED BY <1>1, <1>2

(* cloudflare_poller.go, cloudflare_exposure.go: an alert is of a rule or  *)
(* a finding, only rules that are on are breached, and what was found is   *)
(* of the records that were listed and none that did not answer.           *)
THEOREM EdgeAlertsTyped == ASSUME Edge!EdgeAssumption PROVE Edge!Spec => []Edge!TypeOK
<1>1. Edge!Init => EdgeInv BY EdgeStart
<1>2. Edge!Init => EdgeKept
  <2> SUFFICES ASSUME Edge!Init PROVE EdgeKept OBVIOUS
  <2>1. 0 \in 0..MaxChanges BY DEF Edge!EdgeAssumption
  <2>2. ScanTells /\ poll.loud \subseteq poll.rules
        BY DEF Edge!Init, ScanTells, Edge!NoScan, Edge!NoPoll
  <2> QED BY <2>1, <2>2 DEF Edge!Init, EdgeKept
<1>3. EdgeInv /\ EdgeKept => Edge!TypeOK
      BY DEF EdgeInv, EdgeTyped, EdgeKept, ScanTells, Edge!TypeOK
<1> QED BY <1>1, <1>2, <1>3, EdgeStep, EdgeStays, PTL DEF Edge!Spec

-----------------------------------------------------------------------------
(***************************************************************************)
(* Assessments (Posture), for any cluster, catalogue and callers: what a   *)
(* scoped reader gets is what an assessment of their namespaces alone      *)
(* would give.                                                             *)
(*                                                                         *)
(* An assessment is stored with the numbers of what was listed; and those  *)
(* of the namespaces in scope are counted from their resources only.       *)
(***************************************************************************)
CONSTANTS Resources, NsOf, KindOf, Catalog, Applies, Essential, Callers, MaxRuns, MaxDeploys
VARIABLES cluster, deploys, postureLock, caller, src, stored
Board == INSTANCE Posture WITH MaxChanges <- MaxDeploys, changes <- deploys

Assessments == {[of |-> inv, made |-> Board!evaluatePosture(inv)] : inv \in Board!Inventories}
(* What is listed of a kind is a possible state of each of its resources. *)
BoardInv ==
    /\ cluster \in Board!Inventories
    /\ \A k \in DOMAIN src : \A r \in Resources :
         KindOf[r] = k => src[k][r] \in (SUBSET Board!Rules) \cup {Board!Absent}
    /\ stored \in Seq(Assessments)

LEMMA BoardStart == Board!Init => BoardInv
<1> SUFFICES ASSUME Board!Init PROVE BoardInv OBVIOUS
<1>1. cluster \in Board!Inventories BY DEF Board!Init, Board!Inventories
<1>2. src = <<>> /\ stored = <<>> BY DEF Board!Init
<1>3. DOMAIN src = {} BY <1>2
<1> QED BY <1>1, <1>2, <1>3 DEF BoardInv

LEMMA BoardStep == BoardInv /\ [Board!Next]_(Board!vars) => BoardInv'
<1> SUFFICES ASSUME BoardInv, [Board!Next]_(Board!vars) PROVE BoardInv' OBVIOUS
<1>1. CASE UNCHANGED <<cluster, src, stored>>
      BY <1>1 DEF BoardInv, Board!Inventories, Board!Rules, Board!Absent
<1>2. ASSUME NEW r \in Resources, NEW fails \in (SUBSET Board!Rules) \cup {Board!Absent},
             Board!ClusterChanges(r, fails)
      PROVE  BoardInv'
  <2>1. cluster' = [cluster EXCEPT ![r] = fails] /\ src' = src /\ stored' = stored
        BY <1>2 DEF Board!ClusterChanges
  <2>2. cluster' \in Board!Inventories BY <1>2, <2>1 DEF BoardInv, Board!Inventories
  <2> QED BY <2>1, <2>2 DEF BoardInv
<1>3. CASE Board!PollPosture
  <2>1. cluster' = cluster /\ src' = src BY <1>3 DEF Board!PollPosture
  <2>2. PICK n \in 0..Len(stored) : stored' = SubSeq(stored, n + 1, Len(stored))
        BY <1>3 DEF Board!PollPosture
  <2>3. stored' \in Seq(Assessments) BY <2>2 DEF BoardInv
  <2> QED BY <2>1, <2>3 DEF BoardInv
<1>4. ASSUME NEW k, Board!ListKind(k) PROVE BoardInv'
  <2>1. /\ cluster' = cluster /\ stored' = stored
        /\ src' = [l \in DOMAIN src \cup {k} |->
                     IF l = k THEN [r \in {q \in Resources : KindOf[q] = k} |-> cluster[r]] ELSE src[l]]
        BY <1>4 DEF Board!ListKind
  <2>2. ASSUME NEW l \in DOMAIN src', NEW r \in Resources, KindOf[r] = l
        PROVE  src'[l][r] \in (SUBSET Board!Rules) \cup {Board!Absent}
    <3>1. CASE l = k
      <4>1. src'[l] = [q \in {p \in Resources : KindOf[p] = k} |-> cluster[q]] BY <2>1, <3>1
      <4>2. src'[l][r] = cluster[r] BY <2>2, <3>1, <4>1
      <4> QED BY <4>2 DEF BoardInv, Board!Inventories
    <3>2. CASE l # k
      <4>1. l \in DOMAIN src /\ src'[l] = src[l] BY <2>1, <3>2
      <4> QED BY <2>2, <4>1 DEF BoardInv
    <3> QED BY <3>1, <3>2
  <2> QED BY <2>1, <2>2 DEF BoardInv
<1>5. CASE Board!AssessmentFails
  <2>1. cluster' = cluster /\ stored' = stored /\ src' = <<>>
        BY <1>5 DEF Board!AssessmentFails, Board!Releases
  <2>2. DOMAIN src' = {} BY <2>1
  <2> QED BY <2>1, <2>2 DEF BoardInv
<1>6. CASE Board!persistPosture
  <2> DEFINE inv == Board!buildPostureInventory
  <2>1. /\ cluster' = cluster /\ src' = <<>> /\ DOMAIN src = Board!Kinds
        /\ stored' = Append(stored, [of |-> inv, made |-> Board!evaluatePosture(inv)])
        BY <1>6 DEF Board!persistPosture, Board!Releases
  <2>2. inv \in Board!Inventories
    <3>1. \A r \in Resources : src[KindOf[r]][r] \in (SUBSET Board!Rules) \cup {Board!Absent}
          BY <2>1 DEF BoardInv, Board!Kinds
    <3> QED BY <3>1 DEF Board!Inventories, Board!buildPostureInventory
  <2>3. stored' \in Seq(Assessments)
    <3>1. [of |-> inv, made |-> Board!evaluatePosture(inv)] \in Assessments BY <2>2 DEF Assessments
    <3> QED BY <2>1, <3>1 DEF BoardInv
  <2>4. DOMAIN src' = {} BY <2>1
  <2> QED BY <2>1, <2>3, <2>4 DEF BoardInv
<1>7. CASE UNCHANGED Board!vars BY <1>1, <1>7 DEF Board!vars
<1> QED BY <1>1, <1>2, <1>3, <1>4, <1>5, <1>6, <1>7
        DEF Board!Next, Board!Asks, Board!TakesLock, Board!FindsOneStored

(* The namespaces with a name, and the counts of those allowed. *)
Named == Board!Namespaces \ {""}
Kept(counts, allowed) ==
    [ns \in Board!Namespaces |-> IF ns \in allowed THEN counts[ns] ELSE <<0, 0>>]
LEMMA AllNamed ==
    ASSUME NEW allowed \in SUBSET Named PROVE \A counts : Board!InScope(counts, allowed) = Kept(counts, allowed)
<1>1. allowed \ {""} = allowed BY Zenon DEF Named
<1> QED BY <1>1, Zenon DEF Board!InScope, Kept

(* A namespace in scope has all its resources in the smaller inventory, any *)
(* other none.                                                             *)
LEMMA InScopeAlone ==
    ASSUME NEW inv, NEW allowed \in SUBSET Named, NEW rule, NEW ns
    PROVE  /\ ns \in allowed =>
                /\ Board!Assessed(Board!Alone(inv, allowed), rule, ns) = Board!Assessed(inv, rule, ns)
                /\ Board!FailedBy(Board!Alone(inv, allowed), rule, ns) = Board!FailedBy(inv, rule, ns)
           /\ ns \notin allowed =>
                /\ Board!Assessed(Board!Alone(inv, allowed), rule, ns) = {}
                /\ Board!FailedBy(Board!Alone(inv, allowed), rule, ns) = {}
<1> DEFINE alone == Board!Alone(inv, allowed)
<1>1. \A r \in Resources : alone[r] = IF NsOf[r] \in allowed THEN inv[r] ELSE Board!Absent
      BY DEF Board!Alone
<1> HIDE DEF alone
<1>2. ns \in allowed => /\ Board!Assessed(alone, rule, ns) = Board!Assessed(inv, rule, ns)
                        /\ Board!FailedBy(alone, rule, ns) = Board!FailedBy(inv, rule, ns)
      BY <1>1 DEF Board!Assessed, Board!FailedBy
<1>3. ns \notin allowed => /\ Board!Assessed(alone, rule, ns) = {}
                           /\ Board!FailedBy(alone, rule, ns) = {}
      BY <1>1 DEF Board!Assessed, Board!FailedBy
<1> QED BY <1>2, <1>3 DEF alone

LEMMA SeenAlone ==
    ASSUME NEW inv, NEW allowed \in SUBSET Named
    PROVE  /\ Board!ResourcesSeen(Board!Alone(inv, allowed)).seen
                = {r \in Board!ResourcesSeen(inv).seen : NsOf[r] \in allowed}
           /\ Board!ResourcesSeen(Board!Alone(inv, allowed)).failed
                = {r \in Board!ResourcesSeen(inv).failed : NsOf[r] \in allowed}
<1> DEFINE alone == Board!Alone(inv, allowed)
<1>1. \A r \in Resources : \A rule :
         /\ r \in Board!Assessed(alone, rule, NsOf[r])
              <=> r \in Board!Assessed(inv, rule, NsOf[r]) /\ NsOf[r] \in allowed
         /\ r \in Board!FailedBy(alone, rule, NsOf[r])
              <=> r \in Board!FailedBy(inv, rule, NsOf[r]) /\ NsOf[r] \in allowed
      BY InScopeAlone
<1> HIDE DEF alone
<1>2. \A i : Board!SeenBy(alone, i) = {r \in Board!SeenBy(inv, i) : NsOf[r] \in allowed}
      BY <1>1 DEF Board!SeenBy
<1>3. Board!ResourcesSeen(alone).seen = {r \in Board!ResourcesSeen(inv).seen : NsOf[r] \in allowed}
      BY <1>2 DEF Board!ResourcesSeen
<1>4. Board!ResourcesSeen(alone).failed = {r \in Board!ResourcesSeen(inv).failed : NsOf[r] \in allowed}
      BY <1>1, <1>2 DEF Board!ResourcesSeen
<1> QED BY <1>3, <1>4 DEF alone

LEMMA BoardCardinality == Board!Cardinality({}) = Cardinality({})
BY Zenon DEF Board!Cardinality, Cardinality, Board!IsFiniteSet, IsFiniteSet

(* The numbers in scope are those of the namespaces in scope. *)
LEMMA ScopedIsAlone ==
    ASSUME NEW inv, NEW allowed \in SUBSET Named
    PROVE  Board!scopePosture(Board!evaluatePosture(inv), allowed)
             = Board!evaluatePosture(Board!Alone(inv, allowed))
<1> DEFINE alone == Board!Alone(inv, allowed)
           a == Board!evaluatePosture(inv)
           b == Board!evaluatePosture(alone)
           InNs(rs, ns) == Board!Cardinality({r \in rs : NsOf[r] = ns})
           Seen(i) == [ns \in Board!Namespaces |->
                         <<InNs(Board!ResourcesSeen(i).failed, ns), InNs(Board!ResourcesSeen(i).seen, ns)>>]
<1>1. \A i : Board!evaluatePosture(i) =
        [rules |-> [rule \in Board!Rules |-> Board!ResultOf(Board!NamespaceCounts(i, rule))],
         resources |-> Seen(i)]
      BY Zenon DEF Board!evaluatePosture
<1>0. Board!Cardinality({}) = 0 BY FS_EmptySet, BoardCardinality
<1>2. ASSUME NEW rule
     PROVE Board!InScope(Board!NamespaceCounts(inv, rule), allowed) = Board!NamespaceCounts(alone, rule)
  <2> DEFINE C(i, ns) == <<Board!Cardinality(Board!FailedBy(i, rule, ns)),
                           Board!Cardinality(Board!Assessed(i, rule, ns) \ Board!FailedBy(i, rule, ns))>>
  <2>1. \A i : Board!NamespaceCounts(i, rule) = [ns \in Board!Namespaces |-> C(i, ns)]
        BY Zenon DEF Board!NamespaceCounts
  <2>2. ASSUME NEW ns \in Board!Namespaces
        PROVE  C(alone, ns) = IF ns \in allowed THEN C(inv, ns) ELSE <<0, 0>>
    <3>1. CASE ns \in allowed BY <3>1, InScopeAlone
    <3>2. CASE ns \notin allowed
      <4>1. Board!Assessed(alone, rule, ns) = {} /\ Board!FailedBy(alone, rule, ns) = {}
            BY <3>2, InScopeAlone
      <4>2. {} \ {} = {} OBVIOUS
      <4> QED BY <1>0, <3>2, <4>1, <4>2
    <3> QED BY <3>1, <3>2
  <2> HIDE DEF C, alone
  <2>3. Kept(Board!NamespaceCounts(inv, rule), allowed) = [ns \in Board!Namespaces |-> C(alone, ns)]
        BY <2>1, <2>2 DEF Kept
  <2> QED BY <2>1, <2>3, AllNamed
<1>3. Board!InScope(Seen(inv), allowed) = Seen(alone)
  <2> DEFINE C(i, ns) == <<InNs(Board!ResourcesSeen(i).failed, ns), InNs(Board!ResourcesSeen(i).seen, ns)>>
  <2>1. ASSUME NEW ns \in Board!Namespaces
        PROVE  C(alone, ns) = IF ns \in allowed THEN C(inv, ns) ELSE <<0, 0>>
    <3> DEFINE Of(S) == {r \in S : NsOf[r] = ns}
    <3>1. /\ ns \in allowed => /\ Of(Board!ResourcesSeen(alone).failed) = Of(Board!ResourcesSeen(inv).failed)
                               /\ Of(Board!ResourcesSeen(alone).seen) = Of(Board!ResourcesSeen(inv).seen)
          /\ ns \notin allowed => /\ Of(Board!ResourcesSeen(alone).failed) = {}
                                  /\ Of(Board!ResourcesSeen(alone).seen) = {}
          BY SeenAlone
    <3> QED BY <1>0, <3>1
  <2>2. \A i : Seen(i) = [ns \in Board!Namespaces |-> C(i, ns)] OBVIOUS
  <2>3. \A i, ns : ns \in Board!Namespaces => Seen(i)[ns] = C(i, ns) OBVIOUS
  <2> HIDE DEF C, Seen, alone
  <2>4. Board!InScope(Seen(inv), allowed) = [ns \in Board!Namespaces |-> C(alone, ns)]
        BY <2>1, <2>3, AllNamed DEF Kept
  <2> QED BY <2>2, <2>4
<1> DEFINE R(i) == [rule \in Board!Rules |-> Board!ResultOf(Board!NamespaceCounts(i, rule))]
<1>4. a = [rules |-> R(inv), resources |-> Seen(inv)] /\ b = [rules |-> R(alone), resources |-> Seen(alone)]
      BY <1>1
<1> HIDE DEF a, b, R, Seen, alone
<1>5. a.resources = Seen(inv) /\ a.rules = R(inv) BY <1>4
<1>6. ASSUME NEW rule \in Board!Rules PROVE a.rules[rule].counts = Board!NamespaceCounts(inv, rule)
  <2>1. a.rules[rule] = Board!ResultOf(Board!NamespaceCounts(inv, rule)) BY <1>5 DEF R
  <2> QED BY <2>1 DEF Board!ResultOf
<1>7. [rule \in Board!Rules |-> Board!ResultOf(Board!InScope(a.rules[rule].counts, allowed))] = R(alone)
      BY <1>2, <1>6 DEF R
<1>8. Board!scopePosture(a, allowed) = [rules |-> R(alone), resources |-> Seen(alone)]
      BY <1>3, <1>5, <1>7 DEF Board!scopePosture
<1> QED BY <1>4, <1>8 DEF a, b, alone

(* posture.go: a reader with a scope gets the headline, the scores and the  *)
(* totals that an assessment of their namespaces alone would have, whatever *)
(* the cluster did while it was listed.                                     *)
THEOREM ScopesAreExact == Board!Spec => []Board!ScopedIsExact
<1>1. BoardInv => Board!ScopedIsExact
  <2> SUFFICES ASSUME BoardInv, NEW i \in DOMAIN stored,
                      NEW allowed \in SUBSET Named
               PROVE  Board!summarizePosture(Board!scopePosture(stored[i].made, allowed))
                        = Board!summarizePosture(Board!evaluatePosture(Board!Alone(stored[i].of, allowed)))
      BY Zenon DEF Board!ScopedIsExact, Named
  <2>1. stored[i] \in Assessments BY DEF BoardInv
  <2>2. PICK inv \in Board!Inventories : stored[i] = [of |-> inv, made |-> Board!evaluatePosture(inv)]
        BY <2>1 DEF Assessments
  <2>3. stored[i].of = inv /\ stored[i].made = Board!evaluatePosture(inv) BY <2>2
  <2> QED BY <2>3, ScopedIsAlone
<1> QED BY <1>1, BoardStart, BoardStep, PTL DEF Board!Spec

(* The types of Posture, and whose the lock is: who assesses has it. *)
BoardKept ==
    /\ deploys \in 0..MaxDeploys /\ Len(stored) <= MaxRuns
    /\ caller \in [Callers -> {"away", "waiting", "assessing"}]
    /\ postureLock \in Callers \cup {Board!Free}
    /\ \A c \in Callers : caller[c] = "assessing" <=> c = postureLock

LEMMA BoardStays == Board!PostureBounds /\ BoardInv /\ BoardKept /\ [Board!Next]_(Board!vars) => BoardKept'
<1> SUFFICES ASSUME Board!PostureBounds, BoardInv, BoardKept, [Board!Next]_(Board!vars)
             PROVE  BoardKept'
    OBVIOUS
<1>0. /\ Len(stored) \in Nat /\ stored \in Seq(Assessments) /\ Len(stored) <= MaxRuns
      /\ MaxRuns \in Nat /\ MaxDeploys \in Nat /\ deploys \in 0..MaxDeploys
      BY DEF BoardInv, BoardKept, Board!PostureBounds
<1>1. CASE UNCHANGED Board!vars BY <1>1 DEF Board!vars, BoardKept
<1>2. ASSUME NEW r, NEW fails, Board!ClusterChanges(r, fails) PROVE BoardKept'
  <2>1. deploys' \in 0..MaxDeploys BY <1>0, <1>2 DEF Board!ClusterChanges
  <2> QED BY <1>2, <2>1 DEF Board!ClusterChanges, BoardKept
\* A caller that does not assess begins to wait, or gives up.
<1>3. ASSUME NEW c, caller[c] # "assessing", NEW state \in {"away", "waiting"},
             caller' = [caller EXCEPT ![c] = state],
             UNCHANGED <<deploys, postureLock>>, Len(stored') <= MaxRuns
      PROVE  BoardKept'
  <2>1. caller' \in [Callers -> {"away", "waiting", "assessing"}] BY <1>3 DEF BoardKept
  <2>2. \A d \in Callers : caller'[d] = "assessing" <=> d = postureLock' BY <1>3 DEF BoardKept
  <2> QED BY <1>3, <2>1, <2>2 DEF BoardKept
<1>4. CASE Board!PollPosture
  <2>1. PICK n \in 0..Len(stored) : stored' = SubSeq(stored, n + 1, Len(stored))
        BY <1>4 DEF Board!PollPosture
  <2>2. Len(stored') <= Len(stored) /\ Len(stored') \in Nat BY <1>0, <2>1
  <2>3. Len(stored') <= MaxRuns BY <1>0, <2>2
  <2>4. /\ caller["poller"] # "assessing" /\ caller' = [caller EXCEPT !["poller"] = "waiting"]
        /\ UNCHANGED <<deploys, postureLock>>
        BY <1>4 DEF Board!PollPosture
  <2> QED BY <1>3, <2>3, <2>4
<1>5. ASSUME NEW c \in Callers, Board!Asks(c) PROVE BoardKept'
      BY <1>0, <1>3, <1>5 DEF Board!Asks
<1>6. ASSUME NEW c \in Callers, Board!TakesLock(c) PROVE BoardKept'
  <2>1. /\ caller' = [caller EXCEPT ![c] = "assessing"] /\ postureLock' = c /\ postureLock = Board!Free
        /\ UNCHANGED <<deploys, stored>>
        BY <1>6 DEF Board!TakesLock
  <2>2. caller' \in [Callers -> {"away", "waiting", "assessing"}] BY <2>1 DEF BoardKept
  <2>3. \A d \in Callers : caller'[d] = "assessing" <=> d = postureLock'
        BY <2>1 DEF BoardKept, Board!PostureBounds
  <2> QED BY <2>1, <2>2, <2>3 DEF BoardKept
<1>7. CASE Board!FindsOneStored BY <1>0, <1>3, <1>7 DEF Board!FindsOneStored
<1>8. ASSUME NEW k, Board!ListKind(k) PROVE BoardKept' BY <1>8 DEF Board!ListKind, BoardKept
<1>9. ASSUME Board!Releases, UNCHANGED deploys, Len(stored') <= MaxRuns PROVE BoardKept'
  <2>1. caller' = [caller EXCEPT ![postureLock] = "away"] /\ postureLock' = Board!Free
        BY <1>9 DEF Board!Releases
  <2>2. caller' \in [Callers -> {"away", "waiting", "assessing"}] BY <2>1 DEF BoardKept
  <2>3. \A d \in Callers : caller'[d] = "assessing" <=> d = postureLock'
        BY <2>1 DEF BoardKept, Board!PostureBounds
  <2> QED BY <1>9, <2>1, <2>2, <2>3 DEF BoardKept
<1>10. CASE Board!AssessmentFails BY <1>0, <1>9, <1>10 DEF Board!AssessmentFails
<1>11. CASE Board!persistPosture
  <2>1. /\ Len(stored) < MaxRuns /\ Board!Releases /\ UNCHANGED deploys
        /\ \E x : stored' = Append(stored, x)
        BY <1>11 DEF Board!persistPosture
  <2>2. Len(stored') = Len(stored) + 1 BY <1>0, <2>1
  <2> QED BY <1>0, <1>9, <2>1, <2>2
<1> QED BY <1>1, <1>2, <1>4, <1>5, <1>6, <1>7, <1>8, <1>10, <1>11 DEF Board!Next

(* posture.go: the assessments are of states the cluster could be listed   *)
(* in, and only who has the lock assesses.                                 *)
THEOREM PostureTyped == ASSUME Board!PostureBounds PROVE Board!Spec => []Board!TypeOK
<1>1. Board!Init => BoardKept
  <2> SUFFICES ASSUME Board!Init PROVE BoardKept OBVIOUS
  <2>1. /\ deploys = 0 /\ postureLock = Board!Free /\ stored = <<>> /\ Len(stored) = 0
        /\ caller = [c \in Callers |-> "away"]
        BY DEF Board!Init
  <2> QED BY <2>1 DEF BoardKept, Board!PostureBounds
<1>2. BoardInv /\ BoardKept => Board!TypeOK
  <2> SUFFICES ASSUME BoardInv, BoardKept PROVE Board!TypeOK OBVIOUS
  <2>1. {c \in Callers : caller[c] = "assessing"} = {postureLock} \ {Board!Free}
        BY DEF BoardKept, Board!PostureBounds
  <2>2. \A i \in DOMAIN stored : stored[i].of \in Board!Inventories
    <3>1. \A i \in DOMAIN stored : stored[i] \in Assessments BY DEF BoardInv
    <3>2. \A a \in Assessments : a.of \in Board!Inventories BY DEF Assessments
    <3> QED BY <3>1, <3>2
  <2> QED BY <2>1, <2>2 DEF BoardInv, BoardKept, Board!TypeOK
<1> QED BY <1>1, <1>2, BoardStart, BoardStep, BoardStays, PTL DEF Board!Spec

-----------------------------------------------------------------------------
(***************************************************************************)
(* What a discovery finds in any cluster (ServiceMap): every edge is       *)
(* declared, and what is declared is an edge.  And the stored map of a     *)
(* cluster (Topology), for any clusters and any number of passes at once:  *)
(* it has a memory, and an edge is stored with its ends.                   *)
(*                                                                         *)
(* While no pass has overtaken another, no row is dated later than a pass  *)
(* under way began, and the passes that have written began no later than   *)
(* any other.  So whatever they write is dated alike, a node is seen as    *)
(* lately as its edges, and what prunes the nodes has pruned their edges.  *)
(***************************************************************************)
CONSTANTS CommonTLDs, MaxPeers, Stages, FirstStage, Listings, Walkers, Retention, MaxRounds,
          MaxHours, MaxStages
VARIABLES stage, moved, hour, nodes, edges, walks, lastError, lapped
Chart == INSTANCE Topology WITH
    Clusters <- Stages, FirstCluster <- FirstStage, Passes <- Walkers, MaxTime <- MaxHours,
    MaxChanges <- MaxStages, k <- stage, changes <- moved, clock <- hour, pass <- walks

(* A row has its dates; what an upsert and a pruning make of a table. *)
DatedRow(r) == {"first", "last"} \subseteq DOMAIN r /\ r.last \in Nat
DatedRows(rows) == \A x \in DOMAIN rows : DatedRow(rows[x]) /\ rows[x].last <= hour
Upserted(rows, next, X, at) ==
    /\ DOMAIN next = DOMAIN rows \cup X
    /\ \A x \in DOMAIN next :
         /\ DatedRow(next[x])
         /\ next[x].last = IF x \in X THEN at ELSE rows[x].last
         /\ x \in DOMAIN rows => next[x].first = rows[x].first
PrunedBy(rows, next, cutoff) ==
    /\ DOMAIN next \subseteq DOMAIN rows
    /\ \A x \in DOMAIN rows : rows[x].last >= cutoff => x \in DOMAIN next
    /\ \A x \in DOMAIN next : next[x] = rows[x]

(* What a pass may find. *)
Findings == {Chart!discoverTopology([Stages[s] EXCEPT !.listed = l]) : s \in DOMAIN Stages, l \in Listings}
Joined(m) == \A e \in m.edges : Chart!EndsOf(Chart!EdgeKey(e)) \subseteq m.nodes
Walk == [step : {"idle", "discovered", "nodes", "edges", "pruned"},
         found : Findings \cup {Chart!IdlePass.found}, at : Nat]
Walking(p) == walks[p].step # "idle"
Written(p) == walks[p].step \in {"nodes", "edges", "pruned"}

ChartTyped ==
    /\ hour \in Nat /\ stage \in DOMAIN Stages /\ lapped \in BOOLEAN
    /\ walks \in [Walkers -> Walk] /\ \A p \in Walkers : walks[p].at <= hour
    /\ DatedRows(nodes) /\ DatedRows(edges)
WalksInOrder ==
    /\ \A p \in Walkers : Walking(p) =>
         /\ \A n \in DOMAIN nodes : nodes[n].last <= walks[p].at
         /\ \A x \in DOMAIN edges : edges[x].last <= walks[p].at
    /\ \A p, q \in Walkers : Written(p) /\ Walking(q) => walks[p].at <= walks[q].at
    /\ \A p \in Walkers : walks[p].step = "nodes" =>
         \A n \in walks[p].found.nodes : n \in DOMAIN nodes /\ nodes[n].last >= walks[p].at
Stale(row) == row.last < hour - Retention
EndsSeen ==
    \A x \in DOMAIN edges : \A n \in Chart!EndsOf(x) :
        Stale(edges[x]) \/ (n \in DOMAIN nodes /\ nodes[n].last >= edges[x].last)
ChartInv == ChartTyped /\ (lapped \/ (WalksInOrder /\ EndsSeen))

(* Where the edges that are found begin and lead. *)
LEMMA EdgeFields ==
    ASSUME NEW a, NEW b, NEW p, NEW o, NEW f
    PROVE  LET e == Chart!Edge(a, b, p, o, f)
           IN  /\ e = [src |-> a, dst |-> b, port |-> p, source |-> o, confidence |-> f]
               /\ e.src = a /\ e.dst = b /\ e.port = p /\ e.source = o /\ e.confidence = f
BY DEF Chart!Edge

(* What an address leads to: what is behind a Service of the name, or a host *)
(* outside.                                                                  *)
LEMMA Resolved ==
    ASSUME NEW c, NEW h, NEW ns, NEW addressed
    PROVE  \A r \in Chart!resolveHost(c, h, ns, addressed) :
             /\ r.confidence \in {"medium", "high"}
             /\ \/ r.to \in (IF h.form = "word" THEN Chart!byBareName(c, h.name, ns) ELSE Chart!byHost(c, h))
                \/ r.to = Chart!External(h.name)
<1> DEFINE inside == IF h.form = "word" THEN Chart!byBareName(c, h.name, ns) ELSE Chart!byHost(c, h)
           outer == {x \in {h} : /\ inside = {} /\ Chart!isPlausibleExternalHost(h)
                                 /\ addressed \/ Chart!LooksReal(h)}
<1>1. Chart!resolveHost(c, h, ns, addressed) =
        {[to |-> n, confidence |-> "high"] : n \in inside}
        \cup {[to |-> Chart!External(h.name), confidence |-> "medium"] : x \in outer}
      BY Zenon DEF Chart!resolveHost
<1> HIDE DEF inside, outer
<1>2. QED BY <1>1 DEF inside

LEMMA FromConfig ==
    ASSUME NEW c, NEW e
    PROVE  e \in Chart!edgesFromConfig(c) <=>
             \E w \in c.workloads : \E v \in Chart!ValuesOf(c, w) : \E g \in Chart!extractCandidates(v) :
             \E r \in Chart!resolveHost(c, g.host, w.node.ns, Chart!Addressed(g)) :
               r.to # w.node /\ e = Chart!Edge(w.node, r.to, g.port, v.source, r.confidence)
<1>1. e \in Chart!edgesFromConfig(c) <=>
        \E w \in c.workloads : \E v \in Chart!ValuesOf(c, w) : e \in Chart!scanValue(c, w.node, v)
      BY DEF Chart!edgesFromConfig
<1>2. \A from, v : e \in Chart!scanValue(c, from, v) <=>
        \E g \in Chart!extractCandidates(v) : \E r \in Chart!resolveHost(c, g.host, from.ns, Chart!Addressed(g)) :
          r.to # from /\ e = Chart!Edge(from, r.to, g.port, v.source, r.confidence)
      BY DEF Chart!scanValue
<1> QED BY <1>1, <1>2

LEMMA FromIngress ==
    ASSUME NEW c, NEW e \in Chart!edgesFromIngress(c)
    PROVE  \E i \in c.ingresses : \E b \in i.backends : \E n \in Chart!byBareName(c, b.service, i.ns) :
             /\ "ingresses" \in c.listed
             /\ e = Chart!Edge(Chart!IngressNode(i), n, b.port, "ingress", "high")
BY DEF Chart!edgesFromIngress

LEMMA FromIstio ==
    ASSUME NEW c, NEW e \in Chart!edgesFromIstio(c)
    PROVE  \E v \in {v \in c.virtualServices : v.gateways # {} /\ "istio" \in c.listed} :
           \E f \in {"medium", "high"} : \E t, p :
             t # Chart!IngressNode(v) /\ e = Chart!Edge(Chart!IngressNode(v), t, p, "istio", f)
<1>1. PICK v \in {v \in c.virtualServices : v.gateways # {} /\ "istio" \in c.listed} :
        e \in UNION {{Chart!Edge(Chart!IngressNode(v), r.to, d.port, "istio", r.confidence) :
                        r \in {r \in Chart!resolveHost(c, d.host, v.ns, TRUE) :
                                r.to # Chart!IngressNode(v)}} : d \in v.routes}
      BY DEF Chart!edgesFromIstio
<1>2. PICK d \in v.routes :
        e \in {Chart!Edge(Chart!IngressNode(v), r.to, d.port, "istio", r.confidence) :
                 r \in {r \in Chart!resolveHost(c, d.host, v.ns, TRUE) : r.to # Chart!IngressNode(v)}}
      BY <1>1, Zenon
<1>3. PICK r :
        /\ r \in Chart!resolveHost(c, d.host, v.ns, TRUE) /\ r.to # Chart!IngressNode(v)
        /\ e = Chart!Edge(Chart!IngressNode(v), r.to, d.port, "istio", r.confidence)
      BY <1>2, Zenon
<1>4. r.confidence \in {"medium", "high"} BY <1>3, Resolved, Zenon
<1>5. r.to # Chart!IngressNode(v) /\ e = Chart!Edge(Chart!IngressNode(v), r.to, d.port, "istio", r.confidence)
      BY <1>3, Zenon
<1> QED BY <1>4, <1>5

LEMMA FromPolicies ==
    ASSUME NEW c, NEW e \in Chart!edgesFromNetworkPolicies(c)
    PROVE  \E u, w \in c.workloads : \E p :
             u.node # w.node /\ e = Chart!Edge(u.node, w.node, p, "networkpolicy", "low")
<1>1. PICK np \in c.policies : \E rule \in np.rules : e \in Chart!edgesOfRule(c, np, rule)
      BY DEF Chart!edgesFromNetworkPolicies
<1>2. PICK rule \in np.rules : e \in Chart!edgesOfRule(c, np, rule) BY <1>1
<1> DEFINE owns == {w.node : w \in c.workloads}
           owners == Chart!matchLabelSelector(c, np.podLabels, {np.ns})
           peers == UNION {Chart!PeersOf(c, np, p) : p \in rule.peers}
           pairs == IF rule.egress THEN owners \X peers ELSE peers \X owners
<1>3. owners \subseteq owns /\ peers \subseteq owns
      BY DEF Chart!PeersOf, Chart!matchLabelSelector
<1>4. PICK t \in pairs \X rule.ports : t[1][1] # t[1][2]
                                     /\ e = Chart!Edge(t[1][1], t[1][2], t[2], "networkpolicy", "low")
      BY <1>2, Zenon DEF Chart!edgesOfRule
<1> HIDE DEF owners, peers
<1>5. t[1] \in pairs BY <1>4
<1>6. t[1][1] \in owns /\ t[1][2] \in owns BY <1>3, <1>5
<1> QED BY <1>4, <1>6

(* What is found is of one of the four, and joined. *)
LEMMA WhatIsFound ==
    ASSUME NEW c
    PROVE  LET m == Chart!discoverTopology(c)
               all == Chart!edgesFromConfig(c) \cup Chart!edgesFromIngress(c)
                        \cup Chart!edgesFromNetworkPolicies(c) \cup Chart!edgesFromIstio(c)
           IN  /\ m.edges = Chart!dedupeEdges(all) /\ m.edges \subseteq all
               /\ \A e \in all : e.src \in m.nodes /\ e.dst \in m.nodes
<1> DEFINE m == Chart!discoverTopology(c)
           all == Chart!edgesFromConfig(c) \cup Chart!edgesFromIngress(c)
                    \cup Chart!edgesFromNetworkPolicies(c) \cup Chart!edgesFromIstio(c)
           ins == {Chart!IngressNode(i) : i \in {i \in c.ingresses : "ingresses" \in c.listed}}
           gates == {Chart!IngressNode(v) : v \in {v \in c.virtualServices :
                                                    v.gateways # {} /\ "istio" \in c.listed}}
           owns == {w.node : w \in c.workloads}
           backs == UNION {Chart!Backing(c, b) : b \in c.services}
           dsts == {f.dst : f \in all}
<1>1. m = [nodes |-> owns \cup backs \cup ins \cup gates \cup dsts, edges |-> Chart!dedupeEdges(all)]
      BY Zenon DEF Chart!discoverTopology
<1>2. Chart!dedupeEdges(all) \subseteq all BY DEF Chart!dedupeEdges
<1>3. \A e \in all : e.src \in owns \cup ins \cup gates
  <2> SUFFICES ASSUME NEW e \in all PROVE e.src \in owns \cup ins \cup gates OBVIOUS
  <2>1. CASE e \in Chart!edgesFromConfig(c) BY <2>1, FromConfig, EdgeFields
  <2>2. CASE e \in Chart!edgesFromIngress(c) BY <2>2, FromIngress, EdgeFields
  <2>3. CASE e \in Chart!edgesFromNetworkPolicies(c) BY <2>3, FromPolicies, EdgeFields
  <2>4. CASE e \in Chart!edgesFromIstio(c) BY <2>4, FromIstio, EdgeFields
  <2> QED BY <2>1, <2>2, <2>3, <2>4
<1> HIDE DEF m, owns, backs, ins, gates
<1>4. m.nodes = owns \cup backs \cup ins \cup gates \cup dsts /\ m.edges = Chart!dedupeEdges(all)
      BY <1>1
<1> HIDE DEF all
<1> QED BY <1>2, <1>3, <1>4 DEF m, all

LEMMA Inside ==
    ASSUME NEW c, NEW h, NEW ns, NEW addressed,
           NEW n \in (IF h.form = "word" THEN Chart!byBareName(c, h.name, ns) ELSE Chart!byHost(c, h))
    PROVE  [to |-> n, confidence |-> "high"] \in Chart!resolveHost(c, h, ns, addressed)
BY Zenon DEF Chart!resolveHost

LEMMA KindsBehind ==
    ASSUME NEW c, Chart!WellFormed(c), NEW s \in c.services, NEW n \in Chart!Backing(c, s)
    PROVE  n.kind # "Ingress"
<1>1. \A ns, kind, name : Chart!Node(ns, kind, name).kind = kind BY DEF Chart!Node
<1>2. \/ n = Chart!External(s.external)
      \/ n \in Chart!matchWorkloads(c, s.selector, s.ns)
      \/ n = Chart!Node(s.ns, "Service", s.name)
      BY Zenon DEF Chart!Backing
<1>3. CASE n = Chart!External(s.external) BY <1>3, Zenon DEF Chart!External, Chart!Node
<1>4. CASE n \in Chart!matchWorkloads(c, s.selector, s.ns)
  <2>1. PICK w \in c.workloads : n = w.node BY <1>4 DEF Chart!matchWorkloads
  <2> QED BY <2>1 DEF Chart!WellFormed, Chart!WorkloadKinds
<1>5. CASE n = Chart!Node(s.ns, "Service", s.name) BY <1>1, <1>5
<1> QED BY <1>2, <1>3, <1>4, <1>5

(* The names of a Service. *)
LEMMA NamesOf ==
    ASSUME NEW c, NEW h, Chart!IsHost(h), NEW w
    PROVE  /\ (IF h.form = "word" THEN Chart!byBareName(c, h.name, w.node.ns) ELSE Chart!byHost(c, h))
                = UNION {Chart!Backing(c, s) : s \in {s \in c.services : Chart!Names(w, h, s)}}
<1>1. \A form, name, ns : LET g == Chart!Host(form, name, ns)
                          IN  g.form = form /\ g.name = name /\ g.ns = ns
      BY DEF Chart!Host
<1>2. \A s : h \in Chart!FullNames(s) => h.form # "word"
  <2> SUFFICES ASSUME NEW s, h \in Chart!FullNames(s) PROVE h.form # "word" OBVIOUS
  <2>1. \E form \in {"qualified", "svc", "ip"} : \E name, ns : h = Chart!Host(form, name, ns)
        BY Zenon DEF Chart!FullNames
  <2> QED BY <1>1, <2>1
<1>3. CASE h.form = "word"
  <2>1. \A s : Chart!Names(w, h, s) <=> s.name = h.name /\ s.ns = w.node.ns
        BY <1>1, <1>2, <1>3 DEF Chart!Names, Chart!IsHost
  <2> QED BY <1>3, <2>1 DEF Chart!byBareName
<1>4. CASE h.form # "word"
  <2>1. \A s : Chart!Names(w, h, s) <=> h \in Chart!FullNames(s)
        BY <1>1, <1>4 DEF Chart!Names
  <2> QED BY <1>4, <2>1 DEF Chart!byHost
<1> QED BY <1>3, <1>4


(* An edge, whatever declares it. *)
LEMMA EdgeOfAnySource ==
    ASSUME NEW c, Chart!WellFormed(c),
           NEW e \in Chart!edgesFromConfig(c) \cup Chart!edgesFromIngress(c)
                       \cup Chart!edgesFromNetworkPolicies(c) \cup Chart!edgesFromIstio(c)
    PROVE  /\ e = Chart!Edge(e.src, e.dst, e.port, e.source, e.confidence)
           /\ e.confidence \in {"low", "medium", "high"} /\ e.src # e.dst
           /\ e.source \in Chart!Configured => e \in Chart!edgesFromConfig(c)
<1> DEFINE Known(a, b, p, o, f) ==
        /\ e = Chart!Edge(a, b, p, o, f) /\ a # b /\ f \in {"low", "medium", "high"}
        /\ o \in Chart!Configured => e \in Chart!edgesFromConfig(c)
<1>1. ASSUME NEW a, NEW b, NEW p, NEW o, NEW f, Known(a, b, p, o, f)
      PROVE  /\ e = Chart!Edge(e.src, e.dst, e.port, e.source, e.confidence)
             /\ e.confidence \in {"low", "medium", "high"} /\ e.src # e.dst
             /\ e.source \in Chart!Configured => e \in Chart!edgesFromConfig(c)
      BY <1>1, EdgeFields
<1>2. CASE e \in Chart!edgesFromConfig(c)
  <2>1. PICK w \in c.workloads : \E v \in Chart!ValuesOf(c, w) : \E g \in Chart!extractCandidates(v) :
             \E r \in Chart!resolveHost(c, g.host, w.node.ns, Chart!Addressed(g)) :
               r.to # w.node /\ e = Chart!Edge(w.node, r.to, g.port, v.source, r.confidence)
        BY <1>2, FromConfig
  <2>2. PICK v \in Chart!ValuesOf(c, w) : \E g \in Chart!extractCandidates(v) :
             \E r \in Chart!resolveHost(c, g.host, w.node.ns, Chart!Addressed(g)) :
               r.to # w.node /\ e = Chart!Edge(w.node, r.to, g.port, v.source, r.confidence)
        BY <2>1
  <2>5. PICK g \in Chart!extractCandidates(v) :
             \E r \in Chart!resolveHost(c, g.host, w.node.ns, Chart!Addressed(g)) :
               r.to # w.node /\ e = Chart!Edge(w.node, r.to, g.port, v.source, r.confidence)
        BY <2>2
  <2>3. PICK r \in Chart!resolveHost(c, g.host, w.node.ns, Chart!Addressed(g)) :
               r.to # w.node /\ e = Chart!Edge(w.node, r.to, g.port, v.source, r.confidence)
        BY <2>5
  <2>4. r.confidence \in {"medium", "high"} BY Resolved
  <2> QED BY <1>1, <1>2, <2>3, <2>4
<1>3. CASE e \in Chart!edgesFromIngress(c)
  <2>7. PICK i \in c.ingresses : \E b \in i.backends : \E n \in Chart!byBareName(c, b.service, i.ns) :
             e = Chart!Edge(Chart!IngressNode(i), n, b.port, "ingress", "high")
        BY <1>3, FromIngress
  <2>1. PICK b \in i.backends : \E n \in Chart!byBareName(c, b.service, i.ns) :
             e = Chart!Edge(Chart!IngressNode(i), n, b.port, "ingress", "high")
        BY <2>7
  <2>2. PICK n \in Chart!byBareName(c, b.service, i.ns) :
             e = Chart!Edge(Chart!IngressNode(i), n, b.port, "ingress", "high")
        BY <2>1
  <2>3. PICK s \in c.services : n \in Chart!Backing(c, s) BY DEF Chart!byBareName
  <2>4. n.kind # "Ingress" BY <2>3, KindsBehind
  <2>5. Chart!IngressNode(i).kind = "Ingress" BY DEF Chart!IngressNode, Chart!Node
  <2>6. "ingress" \notin Chart!Configured BY DEF Chart!Configured
  <2> QED BY <1>1, <2>2, <2>4, <2>5, <2>6
<1>4. CASE e \in Chart!edgesFromNetworkPolicies(c)
  <2>1. "networkpolicy" \notin Chart!Configured BY DEF Chart!Configured
  <2> QED BY <1>1, <1>4, <2>1, FromPolicies
<1>5. CASE e \in Chart!edgesFromIstio(c)
  <2>1. "istio" \notin Chart!Configured BY DEF Chart!Configured
  <2> QED BY <1>1, <1>5, <2>1, FromIstio
<1> QED BY <1>2, <1>3, <1>4, <1>5

(* Of the edges with one key, the strongest is kept, and there is one. *)
LEMMA StrongestKept ==
    ASSUME NEW E, \A e \in E : /\ e = Chart!Edge(e.src, e.dst, e.port, e.source, e.confidence)
                               /\ e.confidence \in {"low", "medium", "high"}
    PROVE  /\ \A e, f \in Chart!dedupeEdges(E) : Chart!EdgeKey(e) = Chart!EdgeKey(f) => e = f
           /\ \A e \in E : e.confidence = "high" => e \in Chart!dedupeEdges(E)
<1> DEFINE rank(e) == Chart!confidenceRank[e.confidence]
<1>1. \A e \in E : \/ e.confidence = "low" /\ rank(e) = 1
                   \/ e.confidence = "medium" /\ rank(e) = 2
                   \/ e.confidence = "high" /\ rank(e) = 3
      BY DEF Chart!confidenceRank
<1>2. \A e : e \in Chart!dedupeEdges(E) <=>
         e \in E /\ \A f \in E : Chart!EdgeKey(f) = Chart!EdgeKey(e) => rank(f) <= rank(e)
      BY DEF Chart!dedupeEdges
<1> HIDE DEF rank
<1>3. \A e, f \in E : Chart!EdgeKey(e) = Chart!EdgeKey(f) /\ e.confidence = f.confidence => e = f
      BY DEF Chart!EdgeKey
<1>4. ASSUME NEW e \in Chart!dedupeEdges(E), NEW f \in Chart!dedupeEdges(E), Chart!EdgeKey(e) = Chart!EdgeKey(f)
      PROVE  e = f
  <2>1. rank(f) <= rank(e) /\ rank(e) <= rank(f) BY <1>2, <1>4
  <2>2. e.confidence = f.confidence BY <1>1, <1>2, <2>1
  <2> QED BY <1>2, <1>3, <1>4, <2>2
<1>5. ASSUME NEW e \in E, e.confidence = "high" PROVE e \in Chart!dedupeEdges(E)
  <2>1. rank(e) = 3 /\ \A f \in E : rank(f) <= 3 BY <1>1, <1>5
  <2> QED BY <1>2, <2>1
<1> QED BY <1>4, <1>5

(* What configures a workload is as well formed as the cluster. *)
LEMMA HostsOf ==
    ASSUME NEW c, Chart!WellFormed(c), NEW w \in c.workloads, NEW v \in Chart!ValuesOf(c, w), NEW g \in v.hosts
    PROVE  Chart!IsHost(g.host)
<1>1. CASE v \in w.values BY <1>1 DEF Chart!WellFormed
<1>2. CASE v \notin w.values
  <2>1. PICK u \in w.values : v \in {[u EXCEPT !.hosts = m.hosts] :
                                     m \in {m \in c.maps : m.ns = w.node.ns /\ m.name = u.map}}
        BY <1>2 DEF Chart!ValuesOf
  <2>2. PICK m \in c.maps : v = [u EXCEPT !.hosts = m.hosts] BY <2>1, Zenon
  <2>3. "hosts" \in DOMAIN u BY DEF Chart!WellFormed
  <2>4. v.hosts = m.hosts BY <2>2, <2>3
  <2> QED BY <2>4 DEF Chart!WellFormed
<1> QED BY <1>1, <1>2

(* topology.go:146: an edge that configuration declares is a Service its     *)
(* source can name, and every such name is an edge, as EdgesAreDeclared says *)
(* in full, of any cluster.                                                  *)
THEOREM EdgesOfAnyCluster ==
    ASSUME NEW c, Chart!WellFormed(c) PROVE Chart!EdgesAreDeclared(c)
<1> DEFINE m == Chart!discoverTopology(c)
           all == Chart!edgesFromConfig(c) \cup Chart!edgesFromIngress(c)
                    \cup Chart!edgesFromNetworkPolicies(c) \cup Chart!edgesFromIstio(c)
<1>1. /\ m.edges = Chart!dedupeEdges(all) /\ m.edges \subseteq all
      /\ \A e \in all : e.src \in m.nodes /\ e.dst \in m.nodes
      BY WhatIsFound
<1>2. \A e \in all : /\ e = Chart!Edge(e.src, e.dst, e.port, e.source, e.confidence)
                     /\ e.confidence \in {"low", "medium", "high"} /\ e.src # e.dst
                     /\ e.source \in Chart!Configured => e \in Chart!edgesFromConfig(c)
      BY EdgeOfAnySource
<1>3. Chart!edgesFromConfig(c) \subseteq all OBVIOUS
<1> HIDE DEF m, all
<1>4. \A e \in m.edges : {e.src, e.dst} \subseteq m.nodes /\ e.src # e.dst BY <1>1, <1>2
<1>5. \A e, f \in m.edges : Chart!EdgeKey(e) = Chart!EdgeKey(f) => e = f
      BY <1>1, <1>2, StrongestKept
<1>6. ASSUME NEW e \in m.edges, e.source \in Chart!Configured, e.dst.kind # "External"
      PROVE  \E w \in c.workloads, s \in c.services :
                 /\ w.node = e.src /\ e.dst \in Chart!Backing(c, s)
                 /\ \E v \in Chart!ValuesOf(c, w) : \E g \in v.hosts : Chart!Names(w, g.host, s)
  <2>1. e \in Chart!edgesFromConfig(c) BY <1>1, <1>2, <1>6
  <2>2. PICK w \in c.workloads : \E v \in Chart!ValuesOf(c, w) : \E g \in Chart!extractCandidates(v) :
             \E r \in Chart!resolveHost(c, g.host, w.node.ns, Chart!Addressed(g)) :
               r.to # w.node /\ e = Chart!Edge(w.node, r.to, g.port, v.source, r.confidence)
        BY <2>1, FromConfig
  <2>3. PICK v \in Chart!ValuesOf(c, w) : \E g \in Chart!extractCandidates(v) :
             \E r \in Chart!resolveHost(c, g.host, w.node.ns, Chart!Addressed(g)) :
               r.to # w.node /\ e = Chart!Edge(w.node, r.to, g.port, v.source, r.confidence)
        BY <2>2
  <2>4. PICK g \in Chart!extractCandidates(v) :
             \E r \in Chart!resolveHost(c, g.host, w.node.ns, Chart!Addressed(g)) :
               r.to # w.node /\ e = Chart!Edge(w.node, r.to, g.port, v.source, r.confidence)
        BY <2>3
  <2>5. PICK r \in Chart!resolveHost(c, g.host, w.node.ns, Chart!Addressed(g)) :
               r.to # w.node /\ e = Chart!Edge(w.node, r.to, g.port, v.source, r.confidence)
        BY <2>4
  <2>6. g \in v.hosts BY DEF Chart!extractCandidates
  <2>7. Chart!IsHost(g.host) BY <2>6, HostsOf
  <2>8. Chart!External(g.host.name).kind = "External" BY Zenon DEF Chart!External, Chart!Node
  <2>9. e.src = w.node /\ e.dst = r.to BY <2>5, EdgeFields
  <2>10. e.dst \in UNION {Chart!Backing(c, s) : s \in {s \in c.services : Chart!Names(w, g.host, s)}}
    <3> DEFINE inside == IF g.host.form = "word" THEN Chart!byBareName(c, g.host.name, w.node.ns)
                         ELSE Chart!byHost(c, g.host)
    <3>1. r.to \in inside \/ r.to = Chart!External(g.host.name) BY Resolved
    <3>2. inside = UNION {Chart!Backing(c, s) : s \in {s \in c.services : Chart!Names(w, g.host, s)}}
          BY <2>7, NamesOf
    <3> HIDE DEF inside
    <3> QED BY <1>6, <2>8, <2>9, <3>1, <3>2
  <2>11. PICK s \in c.services : Chart!Names(w, g.host, s) /\ e.dst \in Chart!Backing(c, s) BY <2>10
  <2> QED BY <2>6, <2>9, <2>11
<1>7. ASSUME NEW w \in c.workloads, NEW s \in c.services, NEW v \in Chart!ValuesOf(c, w),
             NEW g \in Chart!extractCandidates(v), Chart!Names(w, g.host, s),
             NEW n \in Chart!Backing(c, s) \ {w.node}
      PROVE  Chart!Edge(w.node, n, g.port, v.source, "high") \in m.edges
  <2> DEFINE e == Chart!Edge(w.node, n, g.port, v.source, "high")
             r == [to |-> n, confidence |-> "high"]
  <2>1. g \in v.hosts BY DEF Chart!extractCandidates
  <2>2. Chart!IsHost(g.host) BY <2>1, HostsOf
  <2>3. n \in UNION {Chart!Backing(c, t) : t \in {t \in c.services : Chart!Names(w, g.host, t)}}
        BY <1>7
  <2>4. r \in Chart!resolveHost(c, g.host, w.node.ns, Chart!Addressed(g))
        BY <2>2, <2>3, NamesOf, Inside
  <2>5. r.to # w.node /\ e = Chart!Edge(w.node, r.to, g.port, v.source, r.confidence) OBVIOUS
  <2>6. e \in Chart!edgesFromConfig(c) BY <2>4, <2>5, FromConfig
  <2>7. e.confidence = "high" BY EdgeFields
  <2> QED BY <1>1, <1>2, <1>3, <2>6, <2>7, StrongestKept
<1> QED BY <1>4, <1>5, <1>6, <1>7 DEF Chart!EdgesAreDeclared, m

(* What a pass finds joins what it finds. *)
LEMMA FoundIsJoined == \A m \in Findings \cup {Chart!IdlePass.found} : Joined(m)
<1> SUFFICES ASSUME NEW m \in Findings \cup {Chart!IdlePass.found}, NEW e \in m.edges
             PROVE  e.src \in m.nodes /\ e.dst \in m.nodes
    <2>1. \A f : Chart!EndsOf(Chart!EdgeKey(f)) = {f.src, f.dst} BY DEF Chart!EndsOf, Chart!EdgeKey
    <2> QED BY <2>1 DEF Joined
<1>1. Chart!IdlePass.found.edges = {} BY DEF Chart!IdlePass
<1>2. PICK s \in DOMAIN Stages, l \in Listings :
        m = Chart!discoverTopology([Stages[s] EXCEPT !.listed = l])
      BY <1>1 DEF Findings
<1> DEFINE c == [Stages[s] EXCEPT !.listed = l]
<1>3. m = Chart!discoverTopology(c) BY <1>2
<1> HIDE DEF c
<1> DEFINE all == Chart!edgesFromConfig(c) \cup Chart!edgesFromIngress(c)
                    \cup Chart!edgesFromNetworkPolicies(c) \cup Chart!edgesFromIstio(c)
<1>4. m.edges \subseteq all /\ \A f \in all : f.src \in m.nodes /\ f.dst \in m.nodes
      BY <1>3, WhatIsFound
<1> HIDE DEF all
<1> QED BY <1>4

(* The tables' statements. *)
LEMMA NodesUpserted ==
    ASSUME NEW N, NEW at \in Nat, DatedRows(nodes)
    PROVE  Upserted(nodes, Chart!NodeUpsert(nodes, N, at), N, at)
<1> DEFINE next == Chart!NodeUpsert(nodes, N, at)
<1>1. next = [n \in DOMAIN nodes \cup N |->
                IF n \notin N THEN nodes[n]
                ELSE IF n \in DOMAIN nodes THEN [nodes[n] EXCEPT !.last = at]
                ELSE [first |-> at, last |-> at]]
      BY DEF Chart!NodeUpsert, Chart!SeenAgain, Chart!Row
<1> HIDE DEF next
<1>2. DOMAIN next = DOMAIN nodes \cup N BY <1>1
<1>3. ASSUME NEW x \in DOMAIN next
      PROVE  /\ DatedRow(next[x])
             /\ next[x].last = IF x \in N THEN at ELSE nodes[x].last
             /\ x \in DOMAIN nodes => next[x].first = nodes[x].first
  <2>1. CASE x \notin N BY <1>1, <1>2, <2>1 DEF DatedRows
  <2>2. CASE x \in N /\ x \in DOMAIN nodes
    <3>1. next[x] = [nodes[x] EXCEPT !.last = at] BY <1>1, <2>2
    <3>2. {"first", "last"} \subseteq DOMAIN nodes[x] BY <2>2 DEF DatedRows, DatedRow
    <3> QED BY <2>2, <3>1, <3>2 DEF DatedRow
  <2>3. CASE x \in N /\ x \notin DOMAIN nodes
    <3>1. next[x] = [first |-> at, last |-> at] BY <1>1, <2>3
    <3> QED BY <2>3, <3>1 DEF DatedRow
  <2> QED BY <2>1, <2>2, <2>3
<1> QED BY <1>2, <1>3 DEF Upserted, next

LEMMA EdgesUpserted ==
    ASSUME NEW E, NEW at \in Nat, DatedRows(edges)
    PROVE  Upserted(edges, Chart!EdgeUpsert(edges, E, at), {Chart!EdgeKey(e) : e \in E}, at)
<1> DEFINE next == Chart!EdgeUpsert(edges, E, at)
           found == {Chart!EdgeKey(e) : e \in E}
           confidence(x) == (CHOOSE e \in E : Chart!EdgeKey(e) = x).confidence
<1>1. next = [x \in DOMAIN edges \cup found |->
                IF x \notin found THEN edges[x]
                ELSE IF x \in DOMAIN edges
                THEN [[edges[x] EXCEPT !.last = at] EXCEPT !.confidence = confidence(x)]
                ELSE [confidence |-> confidence(x), first |-> at, last |-> at]]
      BY DEF Chart!EdgeUpsert, Chart!SeenAgain
<1> HIDE DEF next, confidence, found
<1>2. DOMAIN next = DOMAIN edges \cup found BY <1>1
<1>3. ASSUME NEW x \in DOMAIN next
      PROVE  /\ DatedRow(next[x])
             /\ next[x].last = IF x \in found THEN at ELSE edges[x].last
             /\ x \in DOMAIN edges => next[x].first = edges[x].first
  <2>1. CASE x \notin found BY <1>1, <1>2, <2>1 DEF DatedRows
  <2>2. CASE x \in found /\ x \in DOMAIN edges
    <3>1. next[x] = [[edges[x] EXCEPT !.last = at] EXCEPT !.confidence = confidence(x)] BY <1>1, <2>2
    <3>2. {"first", "last"} \subseteq DOMAIN edges[x] BY <2>2 DEF DatedRows, DatedRow
    <3> QED BY <2>2, <3>1, <3>2 DEF DatedRow
  <2>3. CASE x \in found /\ x \notin DOMAIN edges
    <3>1. next[x] = [confidence |-> confidence(x), first |-> at, last |-> at] BY <1>1, <2>3
    <3> QED BY <2>3, <3>1 DEF DatedRow
  <2> QED BY <2>1, <2>2, <2>3
<1> QED BY <1>2, <1>3 DEF Upserted, next, found

LEMMA ChartStart == Chart!TopologyBounds /\ Chart!Init => ChartInv
<1> SUFFICES ASSUME Chart!TopologyBounds, Chart!Init PROVE ChartInv OBVIOUS
<1>1. stage \in DOMAIN Stages /\ hour = 0 /\ lapped = FALSE
      BY DEF Chart!Init, Chart!TopologyBounds
<1>2. DOMAIN nodes = {} /\ DOMAIN edges = {} BY DEF Chart!Init, Chart!Empty
<1>3. Chart!IdlePass \in Walk /\ Chart!IdlePass.step = "idle" /\ Chart!IdlePass.at = 0
      BY DEF Chart!IdlePass, Walk
<1>4. walks = [p \in Walkers |-> Chart!IdlePass] BY DEF Chart!Init
<1>5. ChartTyped
  <2>1. walks \in [Walkers -> Walk] /\ \A p \in Walkers : walks[p].at = 0 BY <1>3, <1>4
  <2>2. DatedRows(nodes) /\ DatedRows(edges) BY <1>2 DEF DatedRows
  <2>3. hour \in Nat /\ lapped \in BOOLEAN BY <1>1
  <2> QED BY <1>1, <2>1, <2>2, <2>3 DEF ChartTyped
<1> QED BY <1>2, <1>3, <1>4, <1>5 DEF ChartInv, WalksInOrder, EndsSeen, Walking, Written

(* A pass goes on, or ends. *)
LEMMA WalkSteps ==
    ASSUME walks \in [Walkers -> Walk], NEW p \in Walkers, NEW s \in {"nodes", "edges", "pruned"},
           walks' = Chart!Step(p, s)
    PROVE  /\ walks' \in [Walkers -> Walk] /\ \A q \in Walkers \ {p} : walks'[q] = walks[q]
           /\ walks'[p].step = s /\ walks'[p].at = walks[p].at /\ walks'[p].found = walks[p].found
<1>1. walks' = [walks EXCEPT ![p] = [walks[p] EXCEPT !.step = s]] BY DEF Chart!Step
<1>2. walks[p] \in Walk OBVIOUS
<1>3. [walks[p] EXCEPT !.step = s] \in Walk BY <1>2 DEF Walk
<1>4. walks'[p] = [walks[p] EXCEPT !.step = s] BY <1>1
<1>5. walks' \in [Walkers -> Walk] BY <1>1, <1>3
<1>6. \A q \in Walkers \ {p} : walks'[q] = walks[q] BY <1>1
<1> QED BY <1>2, <1>4, <1>5, <1>6 DEF Walk

LEMMA WalkEnds ==
    ASSUME walks \in [Walkers -> Walk], NEW p \in Walkers, walks' = [walks EXCEPT ![p] = Chart!IdlePass]
    PROVE  /\ walks' \in [Walkers -> Walk] /\ \A q \in Walkers \ {p} : walks'[q] = walks[q]
           /\ walks'[p].step = "idle" /\ walks'[p].at = 0
<1>1. Chart!IdlePass \in Walk /\ Chart!IdlePass.step = "idle" /\ Chart!IdlePass.at = 0
      BY DEF Chart!IdlePass, Walk
<1> QED BY <1>1

(* What is asked of a step follows from its invariant and its tables. *)
LEMMA HoldsIf ==
    ASSUME ChartInv', Chart!Remembers(nodes, nodes'), Chart!Remembers(edges, edges')
    PROVE  Chart!MapHolds
BY DEF ChartInv, EndsSeen, Stale, Chart!MapHolds, Chart!StoredMapIsClosed, Chart!Overdue
LEMMA SameRemembers ==
    ASSUME NEW rows, DatedRows(rows) PROVE Chart!Remembers(rows, rows)
BY DEF DatedRows, DatedRow, Chart!Remembers, Chart!Overdue

(* Of a table that a pass writes to. *)
LEMMA UpsertRemembers ==
    ASSUME NEW rows, NEW next, NEW X, NEW at \in Nat, DatedRows(rows), Upserted(rows, next, X, at),
           lapped' \/ \A x \in DOMAIN rows : rows[x].last <= at
    PROVE  Chart!Remembers(rows, next)
<1> SUFFICES ASSUME NEW x \in DOMAIN rows
             PROVE  /\ x \in DOMAIN next
                    /\ next[x].first = rows[x].first /\ (next[x].last >= rows[x].last \/ lapped')
    BY DEF Chart!Remembers
<1>1. x \in DOMAIN next BY DEF Upserted
<1>2. /\ next[x].last = IF x \in X THEN at ELSE rows[x].last
      /\ next[x].first = rows[x].first
      BY <1>1 DEF Upserted
<1>3. rows[x].last \in Nat BY DEF DatedRows, DatedRow
<1> QED BY <1>1, <1>2, <1>3
LEMMA UpsertDated ==
    ASSUME NEW rows, NEW next, NEW X, NEW at \in Nat, DatedRows(rows), Upserted(rows, next, X, at),
           hour' = hour, at <= hour
    PROVE  \A x \in DOMAIN next : DatedRow(next[x]) /\ next[x].last <= hour'
<1> SUFFICES ASSUME NEW x \in DOMAIN next PROVE DatedRow(next[x]) /\ next[x].last <= hour' OBVIOUS
<1>1. DatedRow(next[x]) /\ next[x].last = IF x \in X THEN at ELSE rows[x].last BY DEF Upserted
<1>2. x \notin X => x \in DOMAIN rows BY DEF Upserted
<1> QED BY <1>1, <1>2 DEF DatedRows

(* Whoever writes without overtaking began no later than any other. *)
LEMMA WritersFirst ==
    ASSUME ChartInv, NEW p \in Walkers, Chart!Overtakes(p), ~lapped'
    PROVE  /\ WalksInOrder /\ EndsSeen
           /\ \A q \in Walkers : Walking(q) => walks[p].at <= walks[q].at
<1>1. \A q \in Walkers : walks[q].at \in Nat BY DEF ChartInv, ChartTyped, Walk
<1>2. ~lapped /\ \A q \in Walkers : ~(Walking(q) /\ walks[q].at < walks[p].at)
      BY Zenon DEF Chart!Overtakes, Walking
<1>3. WalksInOrder /\ EndsSeen BY <1>2 DEF ChartInv
<1> QED BY <1>1, <1>2, <1>3

LEMMA NodesWritten ==
    ASSUME ChartInv, NEW p \in Walkers, walks[p].step = "discovered", NEW N,
           nodes' = Chart!NodeUpsert(nodes, N, walks[p].at), Chart!Overtakes(p),
           \/ walks' = Chart!Step(p, "nodes") /\ N = walks[p].found.nodes
           \/ walks' = [walks EXCEPT ![p] = Chart!IdlePass],
           UNCHANGED <<stage, hour, edges>>
    PROVE  ChartInv' /\ Chart!MapHolds
<1> DEFINE at == walks[p].at
<1>1. /\ walks \in [Walkers -> Walk] /\ DatedRows(nodes) /\ DatedRows(edges) /\ hour \in Nat
      /\ at \in Nat /\ at <= hour /\ \A q \in Walkers : walks[q].at \in Nat /\ walks[q].at <= hour
      BY DEF ChartInv, ChartTyped, Walk
<1>2. Upserted(nodes, nodes', N, at) BY <1>1, NodesUpserted
<1>3. /\ walks' \in [Walkers -> Walk] /\ \A q \in Walkers \ {p} : walks'[q] = walks[q]
      /\ \/ /\ walks'[p].step = "nodes" /\ walks'[p].at = at
            /\ walks'[p].found = walks[p].found /\ N = walks[p].found.nodes
         \/ walks'[p].step = "idle" /\ walks'[p].at = 0
      BY <1>1, WalkSteps, WalkEnds
<1> HIDE DEF at
<1>4. ChartTyped'
  <2>1. \A x \in DOMAIN nodes' : DatedRow(nodes'[x]) /\ nodes'[x].last <= hour'
        BY <1>1, <1>2, UpsertDated
  <2>2. lapped' \in BOOLEAN BY DEF ChartInv, ChartTyped, Chart!Overtakes
  <2> QED BY <1>1, <1>3, <2>1, <2>2 DEF ChartInv, ChartTyped, DatedRows
<1>5. ASSUME ~lapped' PROVE WalksInOrder' /\ EndsSeen'
  <2>1. WalksInOrder /\ EndsSeen /\ \A q \in Walkers : Walking(q) => at <= walks[q].at
        BY <1>5, WritersFirst DEF at
  <2>2. \A n \in DOMAIN nodes : nodes[n].last \in Nat /\ nodes[n].last <= at
        BY <1>1, <2>1 DEF WalksInOrder, Walking, DatedRows, DatedRow, at
  <2>3. \A n \in DOMAIN nodes' : nodes'[n].last <= at /\ nodes'[n].last \in Nat
        BY <1>1, <1>2, <2>2 DEF Upserted
  <2>4. \A n \in DOMAIN nodes : n \in DOMAIN nodes' /\ nodes'[n].last >= nodes[n].last
        BY <1>1, <1>2, <2>2 DEF Upserted
  <2>5. \A q \in Walkers : Walking(q)' => Walking(q) /\ walks'[q].at = walks[q].at
        BY <1>3 DEF Walking, at
  <2>6. \A q \in Walkers : Written(q)' => q = p \/ Written(q)
        BY <1>3 DEF Written
  <2>7. ASSUME NEW q \in Walkers, Walking(q)'
        PROVE  /\ \A n \in DOMAIN nodes' : nodes'[n].last <= walks'[q].at
               /\ \A x \in DOMAIN edges' : edges'[x].last <= walks'[q].at
    <3>1. Walking(q) /\ walks'[q].at = walks[q].at /\ at <= walks[q].at BY <2>1, <2>5, <2>7
    <3>2. \A x \in DOMAIN edges : edges[x].last <= walks[q].at BY <2>1, <3>1 DEF WalksInOrder
    <3> QED BY <1>1, <2>3, <3>1, <3>2
  <2>8. ASSUME NEW q \in Walkers, NEW r \in Walkers, Written(q)', Walking(r)'
        PROVE  walks'[q].at <= walks'[r].at
    <3>1. Walking(r) /\ walks'[r].at = walks[r].at /\ at <= walks[r].at BY <2>1, <2>5, <2>8
    <3>2. Walking(q)' BY <2>8 DEF Written, Walking
    <3>3. walks'[q].at = walks[q].at BY <2>5, <3>2
    <3> QED BY <2>1, <2>6, <2>8, <3>1, <3>3 DEF WalksInOrder, at
  <2>9. ASSUME NEW q \in Walkers, (walks[q].step = "nodes")', NEW n \in walks'[q].found.nodes
        PROVE  n \in DOMAIN nodes' /\ nodes'[n].last >= walks'[q].at
    <3>1. CASE q = p
      <4>1. n \in N /\ walks'[q].at = at BY <1>3, <2>9, <3>1
      <4> QED BY <1>1, <1>2, <4>1 DEF Upserted
    <3>2. CASE q # p
      <4>1. walks'[q] = walks[q] BY <1>3, <3>2
      <4>2. n \in DOMAIN nodes /\ nodes[n].last >= walks[q].at BY <2>1, <2>9, <4>1 DEF WalksInOrder
      <4>3. nodes'[n].last \in Nat /\ nodes[n].last \in Nat BY <2>2, <2>3, <2>4, <4>2
      <4> QED BY <1>1, <2>4, <4>1, <4>2, <4>3
    <3> QED BY <3>1, <3>2
  <2>11. WalksInOrder' BY <2>7, <2>8, <2>9 DEF WalksInOrder
  <2>12. EndsSeen'
    <3> SUFFICES ASSUME NEW x \in DOMAIN edges, NEW n \in Chart!EndsOf(x), ~Stale(edges[x])
                 PROVE  n \in DOMAIN nodes' /\ nodes'[n].last >= edges[x].last
        BY DEF EndsSeen, Stale, Chart!EndsOf
    <3>1. n \in DOMAIN nodes /\ nodes[n].last >= edges[x].last BY <2>1 DEF EndsSeen
    <3>2. edges[x].last \in Nat BY <1>1 DEF DatedRows, DatedRow
    <3> QED BY <2>2, <2>3, <2>4, <3>1, <3>2
  <2> QED BY <2>11, <2>12
<1>6. lapped' \/ \A n \in DOMAIN nodes : nodes[n].last <= at
  <2>1. ~lapped' => WalksInOrder BY WritersFirst
  <2> QED BY <2>1 DEF WalksInOrder, Walking, at
<1>7. Chart!Remembers(nodes, nodes') BY <1>1, <1>2, <1>6, UpsertRemembers
<1>8. Chart!Remembers(edges, edges') BY <1>1, SameRemembers
<1> QED BY <1>4, <1>5, <1>7, <1>8, HoldsIf DEF ChartInv

LEMMA EdgesWritten ==
    ASSUME ChartInv, Retention \in Nat, NEW p \in Walkers, walks[p].step = "nodes",
           NEW E \in SUBSET walks[p].found.edges,
           edges' = Chart!EdgeUpsert(edges, E, walks[p].at), Chart!Overtakes(p),
           walks' = Chart!Step(p, "edges") \/ walks' = [walks EXCEPT ![p] = Chart!IdlePass],
           UNCHANGED <<stage, hour, nodes>>
    PROVE  ChartInv' /\ Chart!MapHolds
<1> DEFINE at == walks[p].at
           X == {Chart!EdgeKey(e) : e \in E}
<1>1. /\ walks \in [Walkers -> Walk] /\ DatedRows(nodes) /\ DatedRows(edges) /\ hour \in Nat
      /\ at \in Nat /\ at <= hour /\ \A q \in Walkers : walks[q].at \in Nat /\ walks[q].at <= hour
      BY DEF ChartInv, ChartTyped, Walk
<1>2. Upserted(edges, edges', X, at) BY <1>1, EdgesUpserted
<1>3. /\ walks' \in [Walkers -> Walk] /\ \A q \in Walkers \ {p} : walks'[q] = walks[q]
      /\ \/ walks'[p].step = "edges" /\ walks'[p].at = at
         \/ walks'[p].step = "idle" /\ walks'[p].at = 0
      BY <1>1, WalkSteps, WalkEnds
<1>4. \A x \in X : Chart!EndsOf(x) \subseteq walks[p].found.nodes
  <2>1. walks[p].found \in Findings \cup {Chart!IdlePass.found} BY <1>1 DEF Walk
  <2> QED BY <2>1, FoundIsJoined DEF Joined
<1> HIDE DEF at, X
<1>5. ChartTyped'
  <2>1. \A x \in DOMAIN edges' : DatedRow(edges'[x]) /\ edges'[x].last <= hour'
        BY <1>1, <1>2, UpsertDated
  <2>2. lapped' \in BOOLEAN BY DEF ChartInv, ChartTyped, Chart!Overtakes
  <2> QED BY <1>1, <1>3, <2>1, <2>2 DEF ChartInv, ChartTyped, DatedRows
<1>6. ASSUME ~lapped' PROVE WalksInOrder' /\ EndsSeen'
  <2>1. WalksInOrder /\ EndsSeen /\ \A q \in Walkers : Walking(q) => at <= walks[q].at
        BY <1>6, WritersFirst DEF at
  <2>2. \A x \in DOMAIN edges : edges[x].last \in Nat /\ edges[x].last <= at
        BY <1>1, <2>1 DEF WalksInOrder, Walking, DatedRows, DatedRow, at
  <2>3. \A x \in DOMAIN edges' : /\ edges'[x].last <= at /\ edges'[x].last \in Nat
                                 /\ \/ x \in X /\ edges'[x].last = at
                                    \/ x \in DOMAIN edges /\ edges'[x].last = edges[x].last
        BY <1>1, <1>2, <2>2 DEF Upserted
  <2>4. \A q \in Walkers : Walking(q)' => Walking(q) /\ walks'[q].at = walks[q].at
        BY <1>3 DEF Walking, at
  <2>5. \A q \in Walkers : Written(q)' => Written(q) /\ walks'[q].at = walks[q].at
        BY <1>3 DEF Written, at
  <2>6. ASSUME NEW q \in Walkers, Walking(q)'
        PROVE  /\ \A n \in DOMAIN nodes' : nodes'[n].last <= walks'[q].at
               /\ \A x \in DOMAIN edges' : edges'[x].last <= walks'[q].at
    <3>1. Walking(q) /\ walks'[q].at = walks[q].at /\ at <= walks[q].at BY <2>1, <2>4, <2>6
    <3>2. \A n \in DOMAIN nodes : nodes[n].last <= walks[q].at BY <2>1, <3>1 DEF WalksInOrder
    <3> QED BY <1>1, <2>3, <3>1, <3>2
  <2>7. ASSUME NEW q \in Walkers, NEW r \in Walkers, Written(q)', Walking(r)'
        PROVE  walks'[q].at <= walks'[r].at
        BY <2>1, <2>4, <2>5, <2>7 DEF WalksInOrder
  <2>8. ASSUME NEW q \in Walkers, (walks[q].step = "nodes")'
        PROVE  \A n \in walks'[q].found.nodes : n \in DOMAIN nodes' /\ nodes'[n].last >= walks'[q].at
    <3>1. q # p /\ walks'[q] = walks[q] BY <1>3, <2>8
    <3> QED BY <2>1, <2>8, <3>1 DEF WalksInOrder
  <2>10. WalksInOrder' BY <2>6, <2>7, <2>8 DEF WalksInOrder
  <2>11. EndsSeen'
    <3> SUFFICES ASSUME NEW x \in DOMAIN edges', NEW n \in Chart!EndsOf(x), ~Stale(edges[x])'
                 PROVE  n \in DOMAIN nodes /\ nodes[n].last >= edges'[x].last
        BY DEF EndsSeen, Chart!EndsOf
    <3>1. CASE x \in X /\ edges'[x].last = at
      <4>1. n \in walks[p].found.nodes BY <1>4, <3>1
      <4> QED BY <2>1, <3>1, <4>1 DEF WalksInOrder, at
    <3>2. CASE x \in DOMAIN edges /\ edges'[x].last = edges[x].last
          BY <1>1, <2>1, <3>2 DEF EndsSeen, Stale
    <3> QED BY <2>3, <3>1, <3>2
  <2> QED BY <2>10, <2>11
<1>7. lapped' \/ \A x \in DOMAIN edges : edges[x].last <= at
  <2>1. ~lapped' => WalksInOrder BY WritersFirst
  <2> QED BY <2>1 DEF WalksInOrder, Walking, at
<1>8. Chart!Remembers(edges, edges') BY <1>1, <1>2, <1>7, UpsertRemembers
<1>9. Chart!Remembers(nodes, nodes') BY <1>1, SameRemembers
<1> QED BY <1>5, <1>6, <1>8, <1>9, HoldsIf DEF ChartInv

(* A pass lets go of what was not seen for long. *)
LEMMA PruningRemembers ==
    ASSUME NEW rows, NEW next, NEW at \in Nat, DatedRows(rows), hour \in Nat, at <= hour, Retention \in Nat,
           \/ next = rows
           \/ next = Chart!Restrict(rows, Chart!SeenSince(rows, at - Retention))
    PROVE  PrunedBy(rows, next, at - Retention) /\ Chart!Remembers(rows, next)
<1>1. \/ DOMAIN next = DOMAIN rows
      \/ DOMAIN next = {x \in DOMAIN rows : rows[x].last >= at - Retention}
      BY DEF Chart!Restrict, Chart!SeenSince
<1>2. \A x \in DOMAIN next : next[x] = rows[x]
      BY DEF Chart!Restrict, Chart!SeenSince
<1>3. \A x \in DOMAIN rows : rows[x].last \in Nat BY DEF DatedRows, DatedRow
<1> QED BY <1>1, <1>2, <1>3 DEF PrunedBy, Chart!Remembers, Chart!Overdue

LEMMA EdgesPruned ==
    ASSUME ChartInv, Retention \in Nat, NEW p \in Walkers, Chart!PruneEdges(p)
    PROVE  ChartInv' /\ Chart!MapHolds
<1> DEFINE at == walks[p].at
<1>1. /\ walks \in [Walkers -> Walk] /\ DatedRows(nodes) /\ DatedRows(edges) /\ hour \in Nat
      /\ at \in Nat /\ at <= hour /\ \A q \in Walkers : walks[q].at \in Nat /\ walks[q].at <= hour
      BY DEF ChartInv, ChartTyped, Walk
<1>2. /\ walks[p].step = "edges" /\ walks' = Chart!Step(p, "pruned") /\ Chart!Overtakes(p)
      /\ \/ edges' = edges
         \/ edges' = Chart!Restrict(edges, Chart!SeenSince(edges, at - Retention))
      /\ UNCHANGED <<stage, hour, nodes>>
      BY DEF Chart!PruneEdges, Chart!Deletes, Chart!Cutoff
<1>3. /\ walks' \in [Walkers -> Walk] /\ \A q \in Walkers \ {p} : walks'[q] = walks[q]
      /\ walks'[p].step = "pruned" /\ walks'[p].at = at
      BY <1>1, <1>2, WalkSteps
<1>4. PrunedBy(edges, edges', at - Retention) /\ Chart!Remembers(edges, edges')
      BY <1>1, <1>2, PruningRemembers
<1> HIDE DEF at
<1>5. \A x \in DOMAIN edges' : x \in DOMAIN edges /\ edges'[x] = edges[x]
      BY <1>4 DEF PrunedBy
<1>6. ChartTyped'
  <2>1. lapped' \in BOOLEAN BY <1>2 DEF ChartInv, ChartTyped, Chart!Overtakes
  <2>2. \A x \in DOMAIN edges' : DatedRow(edges'[x]) /\ edges'[x].last <= hour'
        BY <1>1, <1>2, <1>5 DEF DatedRows
  <2> QED BY <1>1, <1>2, <1>3, <2>1, <2>2 DEF ChartInv, ChartTyped, DatedRows
<1>7. ASSUME ~lapped' PROVE WalksInOrder' /\ EndsSeen'
  <2>1. WalksInOrder /\ EndsSeen BY <1>2, <1>7, WritersFirst
  <2>2. \A q \in Walkers : Walking(q)' => Walking(q) /\ walks'[q].at = walks[q].at
        BY <1>2, <1>3 DEF Walking, at
  <2>3. \A q \in Walkers : Written(q)' => Written(q) /\ walks'[q].at = walks[q].at
    <3>1. Written(p) BY <1>2 DEF Written
    <3> QED BY <1>3, <3>1 DEF Written, at
  <2>4. ASSUME NEW q \in Walkers, Walking(q)'
        PROVE  /\ \A n \in DOMAIN nodes' : nodes'[n].last <= walks'[q].at
               /\ \A x \in DOMAIN edges' : edges'[x].last <= walks'[q].at
        BY <1>2, <1>5, <2>1, <2>2, <2>4 DEF WalksInOrder
  <2>5. ASSUME NEW q \in Walkers, NEW r \in Walkers, Written(q)', Walking(r)'
        PROVE  walks'[q].at <= walks'[r].at
        BY <2>1, <2>2, <2>3, <2>5 DEF WalksInOrder
  <2>6. ASSUME NEW q \in Walkers, (walks[q].step = "nodes")'
        PROVE  \A n \in walks'[q].found.nodes : n \in DOMAIN nodes' /\ nodes'[n].last >= walks'[q].at
    <3>1. q # p /\ walks'[q] = walks[q] BY <1>3, <2>6
    <3> QED BY <1>2, <2>1, <2>6, <3>1 DEF WalksInOrder
  <2>8. WalksInOrder' BY <2>4, <2>5, <2>6 DEF WalksInOrder
  <2>9. EndsSeen' BY <1>2, <1>5, <2>1 DEF EndsSeen, Stale, Chart!EndsOf
  <2> QED BY <2>8, <2>9
<1>8. Chart!Remembers(nodes, nodes') BY <1>1, <1>2, SameRemembers
<1> QED BY <1>4, <1>6, <1>7, <1>8, HoldsIf DEF ChartInv

LEMMA NodesPruned ==
    ASSUME ChartInv, Retention \in Nat, NEW p \in Walkers, Chart!PruneNodes(p)
    PROVE  ChartInv' /\ Chart!MapHolds
<1> DEFINE at == walks[p].at
<1>1. /\ walks \in [Walkers -> Walk] /\ DatedRows(nodes) /\ DatedRows(edges) /\ hour \in Nat
      /\ at \in Nat /\ at <= hour /\ \A q \in Walkers : walks[q].at \in Nat /\ walks[q].at <= hour
      BY DEF ChartInv, ChartTyped, Walk
<1>2. /\ walks[p].step = "pruned" /\ walks' = [walks EXCEPT ![p] = Chart!IdlePass]
      /\ Chart!Overtakes(p)
      /\ \/ nodes' = nodes
         \/ nodes' = Chart!Restrict(nodes, Chart!SeenSince(nodes, at - Retention))
      /\ UNCHANGED <<stage, hour, edges>>
      BY DEF Chart!PruneNodes, Chart!Deletes, Chart!Ends, Chart!Cutoff
<1>3. /\ walks' \in [Walkers -> Walk] /\ \A q \in Walkers \ {p} : walks'[q] = walks[q]
      /\ walks'[p].step = "idle" /\ walks'[p].at = 0
      BY <1>1, <1>2, WalkEnds
<1>4. PrunedBy(nodes, nodes', at - Retention) /\ Chart!Remembers(nodes, nodes')
      BY <1>1, <1>2, PruningRemembers
<1>5. Chart!Cutoff(p) = at - Retention BY DEF Chart!Cutoff
<1> HIDE DEF at
<1>6. /\ \A n \in DOMAIN nodes' : n \in DOMAIN nodes /\ nodes'[n] = nodes[n]
      /\ \A n \in DOMAIN nodes : nodes[n].last >= at - Retention => n \in DOMAIN nodes'
      BY <1>4 DEF PrunedBy
<1>7. ChartTyped'
  <2>1. lapped' \in BOOLEAN BY <1>2 DEF ChartInv, ChartTyped, Chart!Overtakes
  <2>2. \A n \in DOMAIN nodes' : DatedRow(nodes'[n]) /\ nodes'[n].last <= hour'
        BY <1>1, <1>2, <1>6 DEF DatedRows
  <2> QED BY <1>1, <1>2, <1>3, <2>1, <2>2 DEF ChartInv, ChartTyped, DatedRows
<1>8. ASSUME ~lapped' PROVE WalksInOrder' /\ EndsSeen'
  <2>1. WalksInOrder /\ EndsSeen /\ \A q \in Walkers : Walking(q) => at <= walks[q].at
        BY <1>2, <1>8, WritersFirst DEF at
  <2>2. \A q \in Walkers : Walking(q)' => q # p /\ Walking(q) /\ walks'[q] = walks[q]
        BY <1>3 DEF Walking
  <2>3. \A q \in Walkers : Written(q)' => Written(q) /\ walks'[q] = walks[q]
        BY <1>3 DEF Written
  <2>4. ASSUME NEW q \in Walkers, Walking(q)'
        PROVE  /\ \A n \in DOMAIN nodes' : nodes'[n].last <= walks'[q].at
               /\ \A x \in DOMAIN edges' : edges'[x].last <= walks'[q].at
        BY <1>2, <1>6, <2>1, <2>2, <2>4 DEF WalksInOrder
  <2>5. ASSUME NEW q \in Walkers, NEW r \in Walkers, Written(q)', Walking(r)'
        PROVE  walks'[q].at <= walks'[r].at
        BY <2>1, <2>2, <2>3, <2>5 DEF WalksInOrder
  <2>6. ASSUME NEW q \in Walkers, (walks[q].step = "nodes")', NEW n \in walks'[q].found.nodes
        PROVE  n \in DOMAIN nodes' /\ nodes'[n].last >= walks'[q].at
    <3>1. q # p /\ walks'[q] = walks[q] BY <1>3, <2>6
    <3>2. n \in DOMAIN nodes /\ nodes[n].last >= walks[q].at BY <2>1, <2>6, <3>1 DEF WalksInOrder
    <3>3. at <= walks[q].at BY <2>1, <2>6, <3>1 DEF Walking
    <3>4. nodes[n].last \in Nat BY <1>1, <3>2 DEF DatedRows, DatedRow
    <3>5. nodes[n].last >= at - Retention BY <1>1, <3>2, <3>3, <3>4
    <3> QED BY <1>6, <3>1, <3>2, <3>5
  <2>8. WalksInOrder' BY <2>4, <2>5, <2>6 DEF WalksInOrder
  <2>9. EndsSeen'
    <3> SUFFICES ASSUME NEW x \in DOMAIN edges, NEW n \in Chart!EndsOf(x), ~Stale(edges[x])
                 PROVE  n \in DOMAIN nodes' /\ nodes'[n].last >= edges[x].last
        BY <1>2 DEF EndsSeen, Stale, Chart!EndsOf
    <3>1. n \in DOMAIN nodes /\ nodes[n].last >= edges[x].last BY <2>1 DEF EndsSeen
    <3>3. edges[x].last \in Nat /\ nodes[n].last \in Nat BY <1>1, <3>1 DEF DatedRows, DatedRow
    <3>2. edges[x].last >= at - Retention BY <1>1, <3>3 DEF Stale
    <3>4. nodes[n].last >= at - Retention BY <1>1, <3>1, <3>2, <3>3
    <3> QED BY <1>6, <3>1, <3>4
  <2> QED BY <2>8, <2>9
<1>9. Chart!Remembers(edges, edges') BY <1>1, <1>2, SameRemembers
<1> QED BY <1>4, <1>7, <1>8, <1>9, HoldsIf DEF ChartInv

(* A pass begins: nothing is dated later than now. *)
LEMMA Discovers ==
    ASSUME ChartInv, NEW p \in Walkers, Chart!Discover(p)
    PROVE  ChartInv' /\ Chart!MapHolds
<1>1. /\ walks \in [Walkers -> Walk] /\ DatedRows(nodes) /\ DatedRows(edges) /\ hour \in Nat
      /\ \A q \in Walkers : walks[q].at \in Nat /\ walks[q].at <= hour
      BY DEF ChartInv, ChartTyped, Walk
<1>2. UNCHANGED <<stage, hour, nodes, edges, lapped>> /\ walks[p].step = "idle"
      BY DEF Chart!Discover
<1>3. /\ walks' \in [Walkers -> Walk] /\ \A q \in Walkers \ {p} : walks'[q] = walks[q]
      /\ \/ walks'[p].step = "discovered" /\ walks'[p].at = hour
         \/ walks'[p].step = "idle" /\ walks'[p].at = 0
  <2>1. PICK l \in Listings :
          LET seen == [Stages[stage] EXCEPT !.listed = l]
          IN  \/ walks' = [walks EXCEPT ![p] = [step |-> "discovered", at |-> hour,
                                                found |-> Chart!discoverTopology(seen)]]
              \/ walks' = [walks EXCEPT ![p] = Chart!IdlePass]
        BY Zenon DEF Chart!Discover, Chart!Ends
  <2> DEFINE found == Chart!discoverTopology([Stages[stage] EXCEPT !.listed = l])
             w == [step |-> "discovered", at |-> hour, found |-> found]
  <2>2. found \in Findings
    <3>1. stage \in DOMAIN Stages BY DEF ChartInv, ChartTyped
    <3> QED BY <3>1 DEF Findings
  <2>3. walks' = [walks EXCEPT ![p] = w] \/ walks' = [walks EXCEPT ![p] = Chart!IdlePass]
        BY <2>1
  <2> HIDE DEF found
  <2>4. w \in Walk /\ w.step = "discovered" /\ w.at = hour BY <1>1, <2>2 DEF Walk
  <2> HIDE DEF w
  <2>5. CASE walks' = [walks EXCEPT ![p] = w] BY <1>1, <2>4, <2>5
  <2>6. CASE walks' = [walks EXCEPT ![p] = Chart!IdlePass] BY <1>1, <2>6, WalkEnds
  <2> QED BY <2>3, <2>5, <2>6
<1>4. ChartTyped' BY <1>1, <1>2, <1>3 DEF ChartInv, ChartTyped, DatedRows
<1>5. ASSUME ~lapped PROVE WalksInOrder' /\ EndsSeen'
  <2>1. WalksInOrder /\ EndsSeen BY <1>5 DEF ChartInv
  <2>2. \A q \in Walkers : Walking(q)' =>
          walks'[q].at = hour \/ (Walking(q) /\ walks'[q].at = walks[q].at)
        BY <1>3 DEF Walking
  <2>3. \A q \in Walkers : (walks[q].step \in {"nodes", "edges", "pruned"})' => walks'[q] = walks[q]
        BY <1>3
  <2>4. ASSUME NEW q \in Walkers, Walking(q)'
        PROVE  /\ \A n \in DOMAIN nodes' : nodes'[n].last <= walks'[q].at
               /\ \A x \in DOMAIN edges' : edges'[x].last <= walks'[q].at
        BY <1>1, <1>2, <2>1, <2>2, <2>4 DEF WalksInOrder, DatedRows
  <2>5. ASSUME NEW q \in Walkers, NEW r \in Walkers, Written(q)', Walking(r)'
        PROVE  walks'[q].at <= walks'[r].at
    <3>1. Written(q) /\ walks'[q] = walks[q] BY <2>3, <2>5 DEF Written
    <3> QED BY <1>1, <2>1, <2>2, <2>5, <3>1 DEF WalksInOrder
  <2>6. ASSUME NEW q \in Walkers, (walks[q].step = "nodes")'
        PROVE  \A n \in walks'[q].found.nodes : n \in DOMAIN nodes' /\ nodes'[n].last >= walks'[q].at
        BY <1>2, <2>1, <2>3, <2>6 DEF WalksInOrder
  <2>8. WalksInOrder' BY <2>4, <2>5, <2>6 DEF WalksInOrder
  <2>9. EndsSeen' BY <1>2, <2>1 DEF EndsSeen, Stale, Chart!EndsOf
  <2> QED BY <2>8, <2>9
<1>6. Chart!Remembers(nodes, nodes') /\ Chart!Remembers(edges, edges')
      BY <1>1, <1>2, SameRemembers
<1> QED BY <1>2, <1>4, <1>5, <1>6, HoldsIf DEF ChartInv

(* Nothing is written. *)
LEMMA ChartElsewhere ==
    ASSUME ChartInv, Retention \in Nat, Chart!ClusterChanges \/ Chart!Tick \/ Chart!Crash
    PROVE  ChartInv' /\ Chart!MapHolds
<1>1. /\ walks \in [Walkers -> Walk] /\ DatedRows(nodes) /\ DatedRows(edges) /\ hour \in Nat
      /\ \A q \in Walkers : walks[q].at \in Nat /\ walks[q].at <= hour
      BY DEF ChartInv, ChartTyped, Walk
<1>2. UNCHANGED <<nodes, edges, lapped>> BY DEF Chart!ClusterChanges, Chart!Tick, Chart!Crash
<1>3. stage' \in DOMAIN Stages /\ hour' \in Nat /\ hour' >= hour
      BY <1>1 DEF ChartInv, ChartTyped, Chart!ClusterChanges, Chart!Tick, Chart!Crash
<1>4. walks' = walks \/ walks' = [p \in Walkers |-> Chart!IdlePass]
      BY DEF Chart!ClusterChanges, Chart!Tick, Chart!Crash
<1>5. Chart!IdlePass \in Walk /\ Chart!IdlePass.step = "idle" /\ Chart!IdlePass.at = 0
      BY DEF Chart!IdlePass, Walk
<1>6. /\ walks' \in [Walkers -> Walk]
      /\ \A q \in Walkers : walks'[q] = walks[q] \/ (walks'[q].step = "idle" /\ walks'[q].at = 0)
      BY <1>1, <1>4, <1>5
<1>7. ChartTyped'
  <2>1. \A q \in Walkers : walks'[q].at <= hour' BY <1>1, <1>3, <1>6
  <2>2. DatedRows(nodes)' /\ DatedRows(edges)' BY <1>1, <1>2, <1>3 DEF DatedRows, DatedRow
  <2> QED BY <1>2, <1>3, <1>6, <2>1, <2>2 DEF ChartInv, ChartTyped
<1>8. WalksInOrder => WalksInOrder'
      BY <1>2, <1>6 DEF WalksInOrder, Walking, Written
<1>9. EndsSeen => EndsSeen'
  <2>1. \A x \in DOMAIN edges : edges[x].last \in Nat BY <1>1 DEF DatedRows, DatedRow
  <2> QED BY <1>1, <1>2, <1>3, <2>1 DEF EndsSeen, Stale, Chart!EndsOf
<1>10. Chart!Remembers(nodes, nodes') /\ Chart!Remembers(edges, edges')
       BY <1>1, <1>2, SameRemembers
<1> QED BY <1>2, <1>7, <1>8, <1>9, <1>10, HoldsIf DEF ChartInv

LEMMA ChartStep ==
    Chart!TopologyBounds /\ ChartInv /\ [Chart!Next]_(Chart!vars)
      => ChartInv' /\ [Chart!MapHolds]_(Chart!vars)
<1> SUFFICES ASSUME Retention \in Nat, ChartInv, [Chart!Next]_(Chart!vars)
             PROVE  ChartInv' /\ [Chart!MapHolds]_(Chart!vars)
    BY DEF Chart!TopologyBounds
<1>1. CASE UNCHANGED Chart!vars
      BY <1>1 DEF Chart!vars, ChartInv, ChartTyped, WalksInOrder, EndsSeen, DatedRows, DatedRow,
                  Walking, Written, Stale, Chart!EndsOf
<1>2. ASSUME NEW p \in Walkers,
             \/ Chart!Discover(p) \/ Chart!StoreNodes(p) \/ Chart!StoreEdges(p)
             \/ Chart!StoreFails(p) \/ Chart!PruneEdges(p) \/ Chart!PruneNodes(p)
      PROVE  ChartInv' /\ Chart!MapHolds
  <2>1. CASE Chart!StoreNodes(p) BY <2>1, NodesWritten DEF Chart!StoreNodes
  <2>2. CASE Chart!StoreEdges(p) BY <2>2, EdgesWritten DEF Chart!StoreEdges
  <2>3. CASE Chart!StoreFails(p)
        BY <2>3, NodesWritten, EdgesWritten DEF Chart!StoreFails, Chart!Ends
  <2> QED BY <1>2, <2>1, <2>2, <2>3, Discovers, EdgesPruned, NodesPruned
<1>3. CASE Chart!Next BY <1>2, <1>3, ChartElsewhere DEF Chart!Next
<1> QED BY <1>1, <1>3

(* topology.go, "the map has a memory": rows keep when they were first seen *)
(* and leave only when they were not seen for long, and edges are stored    *)
(* with their ends, with what a pass that another overtook leaves behind,   *)
(* for any clusters, passes and failures.                                   *)
THEOREM MapIsRemembered == ASSUME Chart!TopologyBounds PROVE Chart!Spec => Chart!MapRemembers
<1>1. Chart!Init => ChartInv BY ChartStart
<1>2. ChartInv /\ [Chart!Next]_(Chart!vars) => ChartInv' /\ [Chart!MapHolds]_(Chart!vars)
      BY ChartStep
<1> QED BY <1>1, <1>2, PTL DEF Chart!Spec, Chart!MapRemembers

(* The types of Topology: nothing was first seen in the future. *)
FirstSeen(rows) == \A x \in DOMAIN rows : rows[x].first \in 0..hour
ChartKept == hour \in 0..MaxHours /\ FirstSeen(nodes) /\ FirstSeen(edges)
NewRows(rows, next) == \A x \in DOMAIN next \ DOMAIN rows : next[x].first \in 0..hour

LEMMA NewNodes == ASSUME NEW rows, NEW N, NEW at \in 0..hour PROVE NewRows(rows, Chart!NodeUpsert(rows, N, at))
BY DEF NewRows, Chart!NodeUpsert, Chart!Row
LEMMA NewEdges == ASSUME NEW rows, NEW E, NEW at \in 0..hour PROVE NewRows(rows, Chart!EdgeUpsert(rows, E, at))
<1> DEFINE next == Chart!EdgeUpsert(rows, E, at)
           found == {Chart!EdgeKey(e) : e \in E}
           confidence(x) == (CHOOSE e \in E : Chart!EdgeKey(e) = x).confidence
<1>1. next = [x \in DOMAIN rows \cup found |->
                IF x \notin found THEN rows[x]
                ELSE IF x \in DOMAIN rows
                THEN [Chart!SeenAgain(rows[x], at) EXCEPT !.confidence = confidence(x)]
                ELSE [confidence |-> confidence(x), first |-> at, last |-> at]]
      BY Zenon DEF Chart!EdgeUpsert
<1> HIDE DEF confidence, found, next
<1>2. ASSUME NEW x \in DOMAIN next \ DOMAIN rows PROVE next[x].first = at
  <2>1. next[x] = [confidence |-> confidence(x), first |-> at, last |-> at] BY <1>1, <1>2
  <2> QED BY <2>1
<1> QED BY <1>2 DEF NewRows, next
LEMMA PrunedRows == 
    ASSUME NEW rows, NEW time PROVE NewRows(rows, Chart!Restrict(rows, Chart!SeenSince(rows, time)))
BY DEF NewRows, Chart!Restrict, Chart!SeenSince
LEMMA SameRows == ASSUME NEW rows PROVE NewRows(rows, rows)
BY DEF NewRows

LEMMA RowsAreNew ==
    ASSUME ChartTyped, Chart!Next
    PROVE  NewRows(nodes, nodes') /\ NewRows(edges, edges')
<1>1. CASE UNCHANGED <<nodes, edges>> BY <1>1, SameRows
<1>2. ASSUME NEW p \in Walkers PROVE walks[p].at \in 0..hour BY DEF ChartTyped, Walk
<1>3. ASSUME NEW p \in Walkers, Chart!StoreNodes(p) PROVE NewRows(nodes, nodes') /\ edges' = edges
      BY <1>2, <1>3, NewNodes DEF Chart!StoreNodes
<1>4. ASSUME NEW p \in Walkers, Chart!StoreEdges(p) PROVE NewRows(edges, edges') /\ nodes' = nodes
      BY <1>2, <1>4, NewEdges DEF Chart!StoreEdges
<1>5. ASSUME NEW p \in Walkers, Chart!StoreFails(p)
      PROVE  \/ NewRows(nodes, nodes') /\ edges' = edges
             \/ NewRows(edges, edges') /\ nodes' = nodes
      BY <1>2, <1>5, NewNodes, NewEdges DEF Chart!StoreFails
<1>6. ASSUME NEW p \in Walkers, Chart!PruneEdges(p) PROVE NewRows(edges, edges') /\ nodes' = nodes
      BY <1>6, PrunedRows, SameRows DEF Chart!PruneEdges, Chart!Deletes
<1>7. ASSUME NEW p \in Walkers, Chart!PruneNodes(p) PROVE NewRows(nodes, nodes') /\ edges' = edges
      BY <1>7, PrunedRows, SameRows DEF Chart!PruneNodes, Chart!Deletes
<1>8. ASSUME NEW p \in Walkers, Chart!Discover(p) PROVE UNCHANGED <<nodes, edges>>
      BY <1>8, Zenon DEF Chart!Discover
<1>9. CASE Chart!ClusterChanges \/ Chart!Tick \/ Chart!Crash
      BY <1>1, <1>9 DEF Chart!ClusterChanges, Chart!Tick, Chart!Crash
<1> QED BY <1>1, <1>3, <1>4, <1>5, <1>6, <1>7, <1>8, <1>9, SameRows DEF Chart!Next

LEMMA HoursPass ==
    ASSUME ChartTyped, hour \in 0..MaxHours, MaxHours \in Nat, Chart!Next
    PROVE  hour' \in 0..MaxHours /\ hour' >= hour
<1>1. hour' = hour \/ (hour < MaxHours /\ hour' = hour + 1)
  <2>1. CASE Chart!Tick BY <2>1 DEF Chart!Tick
  <2>2. CASE ~Chart!Tick
        BY <2>2, Zenon
        DEF Chart!Next, Chart!ClusterChanges, Chart!Crash, Chart!Discover, Chart!StoreNodes,
            Chart!StoreEdges, Chart!StoreFails, Chart!PruneEdges, Chart!PruneNodes
  <2> QED BY <2>1, <2>2
<1> QED BY <1>1

LEMMA ChartStays ==
    Chart!TopologyBounds /\ ChartInv /\ ChartKept /\ [Chart!Next]_(Chart!vars) => ChartKept'
<1> SUFFICES ASSUME Chart!TopologyBounds, ChartInv, ChartKept, [Chart!Next]_(Chart!vars)
             PROVE  ChartKept'
    OBVIOUS
<1>1. CASE UNCHANGED Chart!vars BY <1>1 DEF Chart!vars, ChartKept, FirstSeen
<1>2. CASE Chart!Next /\ ~UNCHANGED Chart!vars
  <2>1. MaxHours \in Nat /\ hour \in 0..MaxHours /\ ChartTyped
        BY DEF Chart!TopologyBounds, ChartKept, ChartInv
  <2>2. hour' \in 0..MaxHours /\ hour' >= hour /\ hour \in Nat BY <1>2, <2>1, HoursPass
  <2>3. Chart!MapHolds BY <1>2, ChartStep
  <2>4. NewRows(nodes, nodes') /\ NewRows(edges, edges') BY <1>2, <2>1, RowsAreNew
  <2>5. ASSUME NEW rows, NEW next, FirstSeen(rows), Chart!Remembers(rows, next), NewRows(rows, next)
        PROVE  \A x \in DOMAIN next : next[x].first \in 0..hour'
    <3>1. \A x \in DOMAIN next : next[x].first \in 0..hour
          BY <2>5 DEF FirstSeen, Chart!Remembers, NewRows
    <3>2. 0..hour \subseteq 0..hour' BY <2>1, <2>2
    <3> QED BY <3>1, <3>2
  <2>6. \A x \in DOMAIN nodes' : nodes'[x].first \in 0..hour'
        BY <2>3, <2>4, <2>5 DEF ChartKept, Chart!MapHolds
  <2>7. \A x \in DOMAIN edges' : edges'[x].first \in 0..hour'
        BY <2>3, <2>4, <2>5 DEF ChartKept, Chart!MapHolds
  <2> QED BY <2>2, <2>6, <2>7 DEF ChartKept, FirstSeen
<1> QED BY <1>1, <1>2

(* topology.go: the rows and the passes are dated before now. *)
THEOREM MapTyped == ASSUME Chart!TopologyBounds PROVE Chart!Spec => []Chart!TypeOK
<1>1. Chart!Init => ChartInv BY ChartStart
<1>2. Chart!Init => ChartKept
  <2> SUFFICES ASSUME Chart!Init PROVE ChartKept OBVIOUS
  <2>1. hour = 0 /\ DOMAIN nodes = {} /\ DOMAIN edges = {} BY DEF Chart!Init, Chart!Empty
  <2> QED BY <2>1 DEF ChartKept, FirstSeen, Chart!TopologyBounds
<1>3. ChartInv /\ ChartKept => Chart!TypeOK
  <2> SUFFICES ASSUME ChartInv, ChartKept PROVE Chart!TypeOK OBVIOUS
  <2>1. ChartTyped BY DEF ChartInv
  <2>2. \A n \in DOMAIN nodes : nodes[n].first \in 0..hour /\ nodes[n].last \in 0..hour
        BY <2>1 DEF ChartTyped, ChartKept, DatedRows, DatedRow, FirstSeen
  <2>3. \A x \in DOMAIN edges : edges[x].first \in 0..hour /\ edges[x].last \in 0..hour
        BY <2>1 DEF ChartTyped, ChartKept, DatedRows, DatedRow, FirstSeen
  <2>4. \A p \in Walkers : /\ walks[p].step \in {"idle", "discovered", "nodes", "edges", "pruned"}
                           /\ walks[p].at \in 0..hour
        BY <2>1 DEF ChartTyped, Walk
  <2> QED BY <2>1, <2>2, <2>3, <2>4 DEF ChartTyped, ChartKept, Chart!TypeOK
<1>4. ChartInv /\ [Chart!Next]_(Chart!vars) => ChartInv' BY ChartStep
<1> QED BY <1>1, <1>2, <1>3, <1>4, ChartStays, PTL DEF Chart!Spec

-----------------------------------------------------------------------------
(***************************************************************************)
(* How a failing rule is fixed (PostureRules and Remediation), for any     *)
(* objects a cluster stores, any versions of them a rollout puts there and *)
(* any accounts (RemediationBounds asks of them what an API server does).  *)
(*                                                                         *)
(* The pages agree rule by rule: what one page objects to, in a pod or in  *)
(* one of its containers, the other one's rule for it objects to           *)
(* (PodAgrees, ContainerAgrees). A fix of a workload rests on what any     *)
(* patch leaves alone: it only makes the pod and its containers safer      *)
(* (PatchedSafely), but for capabilities, so it fails no rule the workload *)
(* passed (PatchBreaks), and on the copy it was made for it mends the rule *)
(* (PatchMends). A role's narrowed rules are taken apart request by        *)
(* request (NarrowingAllows, NarrowingLoses). The invariant is that the    *)
(* object and those that fixes were made from are of one kind and as a     *)
(* cluster stores them, and that each fix has a command left to run: a     *)
(* rollout and a command leave an object of the same kind that could be    *)
(* stored (CommandKeeps).                                                  *)
(***************************************************************************)
CONSTANTS Things, Releases, Tokens, Wanted, Holders, MaxFixes, MaxRollouts
VARIABLES thing, tokens, advice, asked, rollouts
Mend == INSTANCE Remediation WITH
    Objects <- Things, Versions <- Releases, FirstAccounts <- Tokens,
    Rules <- Wanted, Slots <- Holders,
    object <- thing, accounts <- tokens

(* What a fix sets, and what it leaves. *)
LEMMA SetFields ==
    ASSUME NEW fields, NEW record
    PROVE  /\ DOMAIN Mend!Set(fields, record) = DOMAIN record
           /\ \A f \in DOMAIN record :
                 Mend!Set(fields, record)[f] = IF f \in DOMAIN fields THEN fields[f] ELSE record[f]
BY DEF Mend!Set
LEMMA SetNothing ==
    ASSUME NEW record, NEW fields, Mend!IsRecord(record, fields)
    PROVE  Mend!Set(Mend!Nothing, record) = record
<1>1. DOMAIN Mend!Nothing = {} BY DEF Mend!Nothing
<1> QED BY <1>1 DEF Mend!Set, Mend!IsRecord

(* A container after a fix made for another one, or for itself: safer, field by *)
(* field, but for its capabilities.                                             *)
SaferContainer(d, c) ==
    /\ d.name = c.name /\ d.init = c.init /\ d.image = c.image /\ d.env = c.env
    /\ d.envFrom = c.envFrom /\ d.limits = c.limits /\ d.requests = c.requests
    /\ d.liveness = c.liveness /\ d.readiness = c.readiness /\ d.fetches = c.fetches
    /\ d.privileged \in {c.privileged, "false"} /\ d.escalation \in {c.escalation, "false"}
    /\ d.uid \in {c.uid, "10001"} /\ d.nonRoot \in {c.nonRoot, "true"}
    /\ d.readOnly \in {c.readOnly, "true"} /\ d.seccomp \in {c.seccomp, "RuntimeDefault"}
    /\ d.seLinux \in {c.seLinux, Mend!NoOptions} /\ d.procMount \in {c.procMount, "unset"}
    /\ d.apparmor \in {c.apparmor, "runtime/default"}
    /\ DOMAIN d.ports = DOMAIN c.ports
    /\ \A i \in DOMAIN d.ports : d.ports[i].host => c.ports[i].host

ContainerChanges ==
    {"privileged", "escalation", "add", "drop", "uid", "nonRoot", "readOnly", "seccomp", "seLinux",
     "procMount", "apparmor"}
LEMMA ContainerFixes ==
    ASSUME NEW rule, NEW c
    PROVE  LET fix == Mend!ContainerFix(rule, c)
           IN  /\ DOMAIN fix \subseteq ContainerChanges
               /\ "privileged" \in DOMAIN fix => fix.privileged = "false"
               /\ "escalation" \in DOMAIN fix => fix.escalation = "false"
               /\ "uid" \in DOMAIN fix => fix.uid = "10001"
               /\ "nonRoot" \in DOMAIN fix => fix.nonRoot = "true"
               /\ "readOnly" \in DOMAIN fix => fix.readOnly = "true"
               /\ "seccomp" \in DOMAIN fix => fix.seccomp = "RuntimeDefault"
               /\ "seLinux" \in DOMAIN fix => fix.seLinux = Mend!NoOptions
               /\ "procMount" \in DOMAIN fix => fix.procMount = "unset"
               /\ "apparmor" \in DOMAIN fix => fix.apparmor = "runtime/default"
               /\ "add" \in DOMAIN fix => fix.add \subseteq c.add
               /\ "drop" \in DOMAIN fix => c.drop \subseteq fix.drop
<1> DEFINE fix == Mend!ContainerFix(rule, c)
           raw == Mend!WithoutRaw(c)
           lists == [drop |-> c.drop \cup {"ALL"}, add |-> c.add]
           kept == [drop |-> c.drop, add |-> Mend!KeptCaps(c)]
           less == [privileged |-> "false", drop |-> raw.drop, add |-> raw.add]
<1>1. /\ DOMAIN Mend!NonRootUser(c) \subseteq {"uid", "nonRoot"}
      /\ "uid" \in DOMAIN Mend!NonRootUser(c) => Mend!NonRootUser(c).uid = "10001"
      /\ "nonRoot" \in DOMAIN Mend!NonRootUser(c) => Mend!NonRootUser(c).nonRoot = "true"
      BY DEF Mend!NonRootUser
<1>2. DOMAIN Mend!Nothing = {} BY DEF Mend!Nothing
<1>3. c.drop \subseteq raw.drop /\ raw.add \subseteq c.add /\ DOMAIN raw = {"add", "drop"}
      BY DEF Mend!WithoutRaw
<1>4. Mend!KeptCaps(c) \subseteq c.add BY DEF Mend!KeptCaps
<1>5. ASSUME NEW needed, NEW fields PROVE Mend!When(needed, fields) \in {fields, Mend!Nothing}
      BY DEF Mend!When
<1>6. \/ fix = Mend!Nothing \/ fix = Mend!NonRootUser(c) \/ fix = less
      \/ \E n : fix = Mend!When(n, [privileged |-> "false"])
      \/ \E n : fix = Mend!When(n, [escalation |-> "false"])
      \/ \E n : fix = Mend!When(n, lists)
      \/ \E n : fix = Mend!When(n, kept)
      \/ \E n : fix = Mend!When(n, raw)
      \/ \E n : fix = Mend!When(n, [readOnly |-> "true"])
      \/ \E n : fix = Mend!When(n, [seccomp |-> "RuntimeDefault"])
      \/ \E n : fix = Mend!When(n, [seLinux |-> Mend!NoOptions])
      \/ \E n : fix = Mend!When(n, [apparmor |-> "runtime/default"])
      \/ \E n : fix = Mend!When(n, [procMount |-> "unset"])
      BY Zenon DEF Mend!ContainerFix
<1> HIDE DEF fix, raw, lists, kept, less
<1>7. \/ fix \in {Mend!Nothing, [privileged |-> "false"], [escalation |-> "false"]}
      \/ fix \in {lists, kept, less, raw, Mend!NonRootUser(c)}
      \/ fix \in {[readOnly |-> "true"], [seccomp |-> "RuntimeDefault"], [seLinux |-> Mend!NoOptions]}
      \/ fix \in {[apparmor |-> "runtime/default"], [procMount |-> "unset"]}
      BY <1>5, <1>6
<1> USE DEF ContainerChanges, lists, kept, less
<1>8. CASE fix \in {Mend!Nothing, [privileged |-> "false"], [escalation |-> "false"]}
      BY <1>2, <1>8 DEF fix
<1>9. CASE fix \in {lists, kept, less, raw, Mend!NonRootUser(c)}
      BY <1>1, <1>3, <1>4, <1>9 DEF fix
<1>10. CASE fix \in {[readOnly |-> "true"], [seccomp |-> "RuntimeDefault"],
                     [seLinux |-> Mend!NoOptions]}
      BY <1>10 DEF fix
<1>11. CASE fix \in {[apparmor |-> "runtime/default"], [procMount |-> "unset"]}
      BY <1>11 DEF fix
<1> QED BY <1>7, <1>8, <1>9, <1>10, <1>11

FewerCaps(d, c) == d.add \subseteq c.add /\ c.drop \subseteq d.drop
LEMMA SafeContainers ==
    ASSUME NEW rule, NEW d, NEW c, Mend!IsContainer(c)
    PROVE  LET e == Mend!Set(Mend!ContainerFix(rule, d), c)
           IN  /\ SaferContainer(e, c) /\ DOMAIN e = DOMAIN c /\ e.ports = c.ports
               /\ d = c => FewerCaps(e, c)
<1> DEFINE fix == Mend!ContainerFix(rule, d)
           e == Mend!Set(fix, c)
<1>1. DOMAIN e = DOMAIN c /\ \A f \in DOMAIN c : e[f] = IF f \in DOMAIN fix THEN fix[f] ELSE c[f]
      BY SetFields
<1>2. DOMAIN c = Mend!ContainerFields BY DEF Mend!IsContainer, Mend!IsRecord
<1>3. DOMAIN fix \subseteq ContainerChanges BY ContainerFixes
<1> HIDE DEF e
<1>4. \A f \in Mend!ContainerFields \ ContainerChanges : e[f] = c[f] BY <1>1, <1>2, <1>3
<1>5. /\ e.name = c.name /\ e.init = c.init /\ e.image = c.image /\ e.env = c.env
      /\ e.envFrom = c.envFrom /\ e.limits = c.limits /\ e.requests = c.requests
      /\ e.liveness = c.liveness /\ e.readiness = c.readiness /\ e.fetches = c.fetches
      /\ e.ports = c.ports
      BY <1>4 DEF Mend!ContainerFields, ContainerChanges
<1>6. \A f \in ContainerChanges : e[f] = IF f \in DOMAIN fix THEN fix[f] ELSE c[f]
      BY <1>1, <1>2 DEF Mend!ContainerFields, ContainerChanges
<1>7. /\ "privileged" \in DOMAIN fix => fix.privileged = "false"
      /\ "escalation" \in DOMAIN fix => fix.escalation = "false"
      /\ "uid" \in DOMAIN fix => fix.uid = "10001"
      /\ "nonRoot" \in DOMAIN fix => fix.nonRoot = "true"
      /\ "readOnly" \in DOMAIN fix => fix.readOnly = "true"
      /\ "seccomp" \in DOMAIN fix => fix.seccomp = "RuntimeDefault"
      /\ "seLinux" \in DOMAIN fix => fix.seLinux = Mend!NoOptions
      /\ "procMount" \in DOMAIN fix => fix.procMount = "unset"
      /\ "apparmor" \in DOMAIN fix => fix.apparmor = "runtime/default"
      /\ "add" \in DOMAIN fix => fix.add \subseteq d.add
      /\ "drop" \in DOMAIN fix => d.drop \subseteq fix.drop
      BY ContainerFixes
<1> HIDE DEF fix
<1>8. /\ e.privileged \in {c.privileged, "false"} /\ e.escalation \in {c.escalation, "false"}
      /\ e.uid \in {c.uid, "10001"} /\ e.nonRoot \in {c.nonRoot, "true"}
      /\ e.readOnly \in {c.readOnly, "true"} /\ e.seccomp \in {c.seccomp, "RuntimeDefault"}
      /\ e.seLinux \in {c.seLinux, Mend!NoOptions} /\ e.procMount \in {c.procMount, "unset"}
      /\ e.apparmor \in {c.apparmor, "runtime/default"}
      BY <1>6, <1>7 DEF ContainerChanges
<1>9. d = c => FewerCaps(e, c) BY <1>6, <1>7 DEF ContainerChanges, FewerCaps
<1>10. SaferContainer(e, c) BY <1>5, <1>8 DEF SaferContainer
<1> QED BY <1>1, <1>5, <1>9, <1>10 DEF e, fix

LEMMA SafePorts ==
    ASSUME NEW c, NEW ports, Mend!IsContainer(c)
    PROVE  LET e == [c EXCEPT !.ports = Mend!Cleared(@, ports)]
           IN  SaferContainer(e, c) /\ FewerCaps(e, c) /\ DOMAIN e = DOMAIN c
<1> DEFINE left == Mend!Cleared(c.ports, ports)
           e == [c EXCEPT !.ports = left]
<1>1. DOMAIN c = Mend!ContainerFields BY DEF Mend!IsContainer, Mend!IsRecord
<1>2. /\ DOMAIN left = DOMAIN c.ports
      /\ \A i \in DOMAIN c.ports : left[i].host => c.ports[i].host
      BY DEF Mend!Cleared, Mend!IsContainer
<1> HIDE DEF left
<1>3. DOMAIN e = Mend!ContainerFields /\ e.ports = left
      /\ \A f \in Mend!ContainerFields \ {"ports"} : e[f] = c[f]
      BY <1>1 DEF Mend!ContainerFields
<1> HIDE DEF e
<1>4. SaferContainer(e, c) /\ FewerCaps(e, c)
      BY <1>2, <1>3 DEF SaferContainer, FewerCaps, Mend!ContainerFields
<1> QED BY <1>1, <1>3, <1>4 DEF e, left

SaferWorkload(v, w) ==
    /\ v.kind = w.kind /\ v.ns = w.ns /\ v.name = w.name /\ v.labels = w.labels
    /\ v.longRunning = w.longRunning /\ v.hostPaths = w.hostPaths /\ v.uid = w.uid
    /\ v.hostNetwork \in {w.hostNetwork, FALSE} /\ v.hostPID \in {w.hostPID, FALSE}
    /\ v.hostIPC \in {w.hostIPC, FALSE} /\ v.nonRoot \in {w.nonRoot, "true"}
    /\ v.seccomp \in {w.seccomp, "RuntimeDefault"} /\ v.seLinux \in {w.seLinux, Mend!NoOptions}
    /\ v.automount \in {w.automount, "false"}
    /\ \A d \in v.containers : \E c \in w.containers : SaferContainer(d, c)
PodChanges ==
    {"hostNetwork", "hostPID", "hostIPC", "nonRoot", "seccomp", "automount", "serviceAccount", "seLinux"}
LEMMA PodFixes ==
    ASSUME NEW rule, NEW w
    PROVE  LET fix == Mend!PodFix(rule, w)
           IN  /\ DOMAIN fix \subseteq PodChanges
               /\ "hostNetwork" \in DOMAIN fix => fix.hostNetwork = FALSE
               /\ "hostPID" \in DOMAIN fix => fix.hostPID = FALSE
               /\ "hostIPC" \in DOMAIN fix => fix.hostIPC = FALSE
               /\ "nonRoot" \in DOMAIN fix => fix.nonRoot = "true"
               /\ "seccomp" \in DOMAIN fix => fix.seccomp = "RuntimeDefault"
               /\ "automount" \in DOMAIN fix => fix.automount = "false"
               /\ "seLinux" \in DOMAIN fix => fix.seLinux = Mend!NoOptions
               /\ IF rule = "WL-018"
                  THEN "automount" \notin DOMAIN fix /\ "serviceAccount" \in DOMAIN fix
                       /\ fix.serviceAccount = w.name
                  ELSE "serviceAccount" \notin DOMAIN fix
               /\ rule = "WL-016" => "automount" \in DOMAIN fix
<1> DEFINE fix == Mend!PodFix(rule, w)
<1>1. DOMAIN Mend!Nothing = {} BY DEF Mend!Nothing
<1>2. ASSUME NEW needed, NEW fields PROVE Mend!When(needed, fields) \in {fields, Mend!Nothing}
      BY DEF Mend!When
<1>3. CASE rule = "WL-018"
  <2>1. fix = [serviceAccount |-> w.name] BY <1>3, Zenon DEF Mend!PodFix
  <2> HIDE DEF fix
  <2> QED BY <1>3, <2>1 DEF PodChanges, fix
<1>4. CASE rule = "WL-016"
  <2>1. fix = [automount |-> "false"] BY <1>4, Zenon DEF Mend!PodFix
  <2> HIDE DEF fix
  <2> QED BY <1>4, <2>1 DEF PodChanges, fix
<1>5. CASE rule \notin {"WL-016", "WL-018"}
  <2>1. \/ fix = Mend!Nothing \/ fix = [hostNetwork |-> FALSE] \/ fix = [hostPID |-> FALSE]
        \/ fix = [hostIPC |-> FALSE] \/ fix = [nonRoot |-> "true"] \/ fix = [seccomp |-> "RuntimeDefault"]
        \/ \E n : fix = Mend!When(n, [seLinux |-> Mend!NoOptions])
        BY <1>5, Zenon DEF Mend!PodFix
  <2> HIDE DEF fix
  <2> QED BY <1>1, <1>2, <1>5, <2>1 DEF PodChanges, fix
<1> QED BY <1>3, <1>4, <1>5

LEMMA MergedSafely ==
    ASSUME NEW rule, NEW w, NEW c, Mend!IsContainer(c)
    PROVE  /\ SaferContainer(Mend!Merged(rule, w, c), c) /\ Mend!IsContainer(Mend!Merged(rule, w, c))
           /\ (Mend!IsWorkload(w) /\ c \in w.containers) => FewerCaps(Mend!Merged(rule, w, c), c)
<1> DEFINE of == {d \in Mend!Touched(rule, w) : d.name = c.name}
           d == CHOOSE x \in of : TRUE
           e == Mend!Merged(rule, w, c)
<1>1. DOMAIN c = Mend!ContainerFields BY DEF Mend!IsContainer, Mend!IsRecord
<1>2. CASE of = {}
  <2>1. e = c BY <1>2, Zenon DEF Mend!Merged
  <2> QED BY <2>1 DEF SaferContainer, FewerCaps
<1>3. CASE of # {} /\ rule = "WL-015"
  <2>1. e = [c EXCEPT !.ports = Mend!Cleared(@, d.ports)] BY <1>3, Zenon DEF Mend!Merged
  <2>2. SaferContainer(e, c) /\ FewerCaps(e, c) /\ DOMAIN e = DOMAIN c
        BY ONLY <2>1, SafePorts, Mend!IsContainer(c)
  <2>3. e.ports = Mend!Cleared(c.ports, d.ports) BY <1>1, <2>1 DEF Mend!ContainerFields
  <2>4. /\ DOMAIN e.ports = DOMAIN c.ports
        /\ \A i \in DOMAIN c.ports : DOMAIN e.ports[i] = {"port", "host"} /\ e.ports[i].host \in BOOLEAN
    <3> SUFFICES ASSUME NEW i \in DOMAIN c.ports
                 PROVE  /\ DOMAIN e.ports = DOMAIN c.ports /\ DOMAIN e.ports[i] = {"port", "host"}
                        /\ e.ports[i].host \in BOOLEAN
        BY <2>3 DEF Mend!Cleared
    <3> DEFINE stays == \/ \A j \in DOMAIN d.ports : d.ports[j].host => d.ports[j].port # c.ports[i].port
                        \/ \E j \in 1..(i - 1) : c.ports[j].port = c.ports[i].port
    <3>1. e.ports[i] = [c.ports[i] EXCEPT !.host = @ /\ stays] /\ DOMAIN e.ports = DOMAIN c.ports
          BY <2>3 DEF Mend!Cleared
    <3> HIDE DEF stays
    <3>2. (c.ports[i].host /\ stays) \in BOOLEAN OBVIOUS
    <3> QED BY <3>1, <3>2 DEF Mend!IsContainer
  <2>5. e = [f \in Mend!ContainerFields |-> e[f]] BY <1>1, <2>1
  <2> QED BY <1>1, <2>2, <2>4, <2>5 DEF Mend!IsContainer, Mend!IsRecord
<1>4. CASE of # {} /\ rule # "WL-015"
  <2>1. e = Mend!Set(Mend!ContainerFix(rule, d), c) BY <1>4, Zenon DEF Mend!Merged
  <2>2. /\ SaferContainer(e, c) /\ DOMAIN e = DOMAIN c /\ e.ports = c.ports
        /\ d = c => FewerCaps(e, c)
    <3> HIDE DEF d, e, of
    <3> QED BY <2>1, SafeContainers
  <2>3. e = [f \in Mend!ContainerFields |-> e[f]] BY <1>1, <2>1 DEF Mend!Set
  <2>4. ASSUME Mend!IsWorkload(w), c \in w.containers PROVE d = c
    <3>1. d \in of BY <1>4
    <3>2. d \in w.containers /\ d.name = c.name BY <3>1 DEF Mend!Touched
    <3> QED BY <2>4, <3>2 DEF Mend!IsWorkload
  <2> QED BY <1>1, <2>2, <2>3, <2>4 DEF Mend!IsContainer, Mend!IsRecord
<1> QED BY <1>2, <1>3, <1>4

LEMMA PatchedSafely ==
    ASSUME NEW rule, NEW w, NEW o, Mend!IsWorkload(o)
    PROVE  LET p == Mend!Patched(rule, w, o)
           IN  /\ SaferWorkload(p, o) /\ Mend!IsWorkload(p)
               /\ p.containers = {Mend!Merged(rule, w, c) : c \in o.containers}
               /\ IF rule = "WL-018" THEN p.serviceAccount = w.name /\ p.automount = o.automount
                  ELSE p.serviceAccount = o.serviceAccount
               /\ rule = "WL-016" => p.automount = "false"
<1> DEFINE fix == Mend!PodFix(rule, w)
           set == Mend!Set(fix, o)
           merged == {Mend!Merged(rule, w, c) : c \in o.containers}
           p == Mend!Patched(rule, w, o)
<1>1. DOMAIN o = Mend!WorkloadFields BY DEF Mend!IsWorkload, Mend!IsRecord
<1>2. /\ DOMAIN set = Mend!WorkloadFields
      /\ \A f \in Mend!WorkloadFields : set[f] = IF f \in DOMAIN fix THEN fix[f] ELSE o[f]
      BY <1>1, SetFields
<1>3. /\ DOMAIN fix \subseteq PodChanges
      /\ "hostNetwork" \in DOMAIN fix => fix.hostNetwork = FALSE
      /\ "hostPID" \in DOMAIN fix => fix.hostPID = FALSE
      /\ "hostIPC" \in DOMAIN fix => fix.hostIPC = FALSE
      /\ "nonRoot" \in DOMAIN fix => fix.nonRoot = "true"
      /\ "seccomp" \in DOMAIN fix => fix.seccomp = "RuntimeDefault"
      /\ "automount" \in DOMAIN fix => fix.automount = "false"
      /\ "seLinux" \in DOMAIN fix => fix.seLinux = Mend!NoOptions
      /\ IF rule = "WL-018"
         THEN "automount" \notin DOMAIN fix /\ "serviceAccount" \in DOMAIN fix
              /\ fix.serviceAccount = w.name
         ELSE "serviceAccount" \notin DOMAIN fix
      /\ rule = "WL-016" => "automount" \in DOMAIN fix
      BY PodFixes
<1> HIDE DEF fix
<1>4. set.containers = o.containers BY <1>2, <1>3 DEF Mend!WorkloadFields, PodChanges
<1>5. p = [set EXCEPT !.containers = merged] BY <1>4, Zenon DEF Mend!Patched, fix
<1> HIDE DEF set, merged, p
<1>6. /\ DOMAIN p = Mend!WorkloadFields /\ p.containers = merged
      /\ p = [f \in Mend!WorkloadFields |-> p[f]]
      /\ \A f \in Mend!WorkloadFields \ {"containers"} :
            p[f] = IF f \in DOMAIN fix THEN fix[f] ELSE o[f]
      BY <1>2, <1>5 DEF Mend!WorkloadFields
<1>7. \A c \in o.containers : Mend!IsContainer(c) BY DEF Mend!IsWorkload
<1>8. \A c \in o.containers : /\ SaferContainer(Mend!Merged(rule, w, c), c)
                              /\ Mend!IsContainer(Mend!Merged(rule, w, c))
                              /\ Mend!Merged(rule, w, c).name = c.name
      BY <1>7, MergedSafely DEF SaferContainer
<1>9. \A f \in Mend!WorkloadFields \ (PodChanges \cup {"containers"}) : p[f] = o[f] BY <1>3, <1>6
<1>10. /\ p.kind = o.kind /\ p.ns = o.ns /\ p.name = o.name /\ p.labels = o.labels
       /\ p.longRunning = o.longRunning /\ p.hostPaths = o.hostPaths /\ p.uid = o.uid
       BY <1>9 DEF Mend!WorkloadFields, PodChanges
<1>11. /\ p.hostNetwork \in {o.hostNetwork, FALSE} /\ p.hostPID \in {o.hostPID, FALSE}
       /\ p.hostIPC \in {o.hostIPC, FALSE} /\ p.nonRoot \in {o.nonRoot, "true"}
       /\ p.seccomp \in {o.seccomp, "RuntimeDefault"} /\ p.seLinux \in {o.seLinux, Mend!NoOptions}
       /\ p.automount \in {o.automount, "false"}
       BY <1>3, <1>6 DEF Mend!WorkloadFields
<1>12. /\ IF rule = "WL-018" THEN p.serviceAccount = w.name /\ p.automount = o.automount
          ELSE p.serviceAccount = o.serviceAccount
       /\ rule = "WL-016" => p.automount = "false"
       BY <1>3, <1>6 DEF Mend!WorkloadFields
<1>13. \A d \in p.containers : \E c \in o.containers : SaferContainer(d, c)
       BY <1>6, <1>8 DEF merged
<1>14. SaferWorkload(p, o) BY <1>10, <1>11, <1>13 DEF SaferWorkload
<1>15. /\ \A d \in p.containers : Mend!IsContainer(d)
       /\ \A d, e \in p.containers : d.name = e.name => d = e
  <2>1. \A c, d \in o.containers : c.name = d.name => c = d BY Zenon DEF Mend!IsWorkload
  <2> QED BY <1>6, <1>8, <2>1 DEF merged
<1>16. p.name # "" BY <1>10, Zenon DEF Mend!IsWorkload
<1>17. p.automount \in {"unset", "true", "false"}
  <2>1. o.automount \in {"unset", "true", "false"} BY Zenon DEF Mend!IsWorkload
  <2> QED BY <1>11, <2>1
<1>18. Mend!IsWorkload(p) BY <1>6, <1>15, <1>16, <1>17, Zenon DEF Mend!IsWorkload, Mend!IsRecord
<1> QED BY <1>6, <1>12, <1>14, <1>18 DEF p, merged

(* What is safer fails no rule the workload did not fail, but for those about *)
(* capabilities and about the service account.                                *)
LEMMA SeLinuxDefault == ~Mend!seLinuxViolation(Mend!NoOptions)
BY Zenon DEF Mend!seLinuxViolation, Mend!NoOptions
LEMMA SaferPasses ==
    ASSUME NEW v, NEW w, SaferWorkload(v, w)
    PROVE  /\ Mend!Privileged(v) => Mend!Privileged(w)
           /\ Mend!Escalates(v) => Mend!Escalates(w)
           /\ Mend!SensitivePath(v) => Mend!SensitivePath(w)
           /\ Mend!SecretsInEnv(v) => Mend!SecretsInEnv(w)
           /\ Mend!RunsAsRoot(v) => Mend!RunsAsRoot(w)
           /\ Mend!WritableRoot(v) => Mend!WritableRoot(w)
           /\ Mend!Unlimited(v) => Mend!Unlimited(w)
           /\ Mend!Unfiltered(v) => Mend!Unfiltered(w)
           /\ Mend!MovingTag(v) => Mend!MovingTag(w)
           /\ Mend!HostPorts(v) => Mend!HostPorts(w)
           /\ Mend!Unrequested(v) => Mend!Unrequested(w)
           /\ Mend!Unwatched(v) => Mend!Unwatched(w)
           /\ Mend!Unready(v) => Mend!Unready(w)
           /\ Mend!Relabelled(v) => Mend!Relabelled(w)
           /\ Mend!Unconfined(v) => Mend!Unconfined(w)
           /\ Mend!ProcUnmasked(v) => Mend!ProcUnmasked(w)
<1>1. \A d \in v.containers : \E c \in w.containers : SaferContainer(d, c) BY DEF SaferWorkload
<1> USE DEF Mend!eachContainer, SaferContainer
<1>2. Mend!Privileged(v) => Mend!Privileged(w) BY <1>1 DEF Mend!Privileged
<1>3. Mend!Escalates(v) => Mend!Escalates(w) BY <1>1 DEF Mend!Escalates
<1>4. Mend!SensitivePath(v) => Mend!SensitivePath(w) BY DEF Mend!SensitivePath, SaferWorkload
<1>5. Mend!SecretsInEnv(v) => Mend!SecretsInEnv(w) BY <1>1 DEF Mend!SecretsInEnv
<1>6. Mend!RunsAsRoot(v) => Mend!RunsAsRoot(w)
      BY <1>1 DEF Mend!RunsAsRoot, Mend!Uid, Mend!NonRoot, Mend!Or, SaferWorkload
<1>7. Mend!WritableRoot(v) => Mend!WritableRoot(w) BY <1>1 DEF Mend!WritableRoot
<1>8. Mend!Unlimited(v) => Mend!Unlimited(w) BY <1>1 DEF Mend!Unlimited
<1>9. Mend!Unfiltered(v) => Mend!Unfiltered(w)
      BY <1>1 DEF Mend!Unfiltered, Mend!effectiveSeccomp, Mend!Or, SaferWorkload
<1>10. Mend!MovingTag(v) => Mend!MovingTag(w) BY <1>1 DEF Mend!MovingTag
<1>11. Mend!HostPorts(v) => Mend!HostPorts(w) BY <1>1 DEF Mend!HostPorts
<1>12. Mend!Unrequested(v) => Mend!Unrequested(w) BY <1>1 DEF Mend!Unrequested
<1>13. Mend!Unwatched(v) => Mend!Unwatched(w) BY <1>1 DEF Mend!Unwatched, SaferWorkload
<1>14. Mend!Unready(v) => Mend!Unready(w) BY <1>1 DEF Mend!Unready, SaferWorkload
<1>15. Mend!Relabelled(v) => Mend!Relabelled(w)
       BY <1>1, SeLinuxDefault DEF Mend!Relabelled, SaferWorkload
<1>16. Mend!Unconfined(v) => Mend!Unconfined(w) BY <1>1 DEF Mend!Unconfined
<1>17. Mend!ProcUnmasked(v) => Mend!ProcUnmasked(w) BY <1>1 DEF Mend!ProcUnmasked
<1> QED BY <1>2, <1>3, <1>4, <1>5, <1>6, <1>7, <1>8, <1>9, <1>10, <1>11, <1>12, <1>13, <1>14, <1>15,
           <1>16, <1>17

\* The catalog as disjunctions.
FailsByPod(x, w, as) ==
    \/ x = "WL-002" /\ w.hostNetwork
    \/ x = "WL-004" /\ w.hostPID
    \/ x = "WL-005" /\ w.hostIPC
    \/ x = "WL-006" /\ Mend!SensitivePath(w)
    \/ x = "WL-008" /\ w.hostPaths # {}
    \/ x = "WL-016" /\ Mend!automountsToken(w, as)
    \/ x = "WL-017" /\ w.ns = "default"
    \/ x = "WL-018" /\ Mend!DefaultAccount(w)
FailsByContext(x, w) ==
    \/ x = "WL-001" /\ Mend!Privileged(w)
    \/ x = "WL-003" /\ Mend!Escalates(w)
    \/ x = "WL-007" /\ Mend!DangerousCaps(w)
    \/ x = "WL-009" /\ Mend!KeepsSomeCaps(w)
    \/ x = "WL-010" /\ Mend!RunsAsRoot(w)
    \/ x = "WL-011" /\ Mend!WritableRoot(w)
    \/ x = "WL-013" /\ Mend!Unfiltered(w)
    \/ x = "WL-022" /\ Mend!AddsCaps(w)
    \/ x = "WL-024" /\ Mend!RawSockets(w)
    \/ x = "WL-025" /\ Mend!Relabelled(w)
    \/ x = "WL-026" /\ Mend!Unconfined(w)
    \/ x = "WL-027" /\ Mend!ProcUnmasked(w)
FailsByContainer(x, w) ==
    \/ x = "SEC-001" /\ Mend!SecretsInEnv(w)
    \/ x = "WL-012" /\ Mend!Unlimited(w)
    \/ x = "WL-014" /\ Mend!MovingTag(w)
    \/ x = "WL-015" /\ Mend!HostPorts(w)
    \/ x = "WL-019" /\ Mend!Unrequested(w)
    \/ x = "WL-020" /\ Mend!Unwatched(w)
    \/ x = "WL-021" /\ Mend!Unready(w)
LEMMA RulesFailed ==
    ASSUME NEW w, NEW as, ~Mend!postureNamespaceExcluded(w.ns), NEW x
    PROVE  x \in Mend!WorkloadRules(w, as) <=>
              FailsByPod(x, w, as) \/ FailsByContext(x, w) \/ FailsByContainer(x, w)
<1>1. x \in Mend!PodRules(w, as) <=> FailsByPod(x, w, as) BY DEF Mend!PodRules, Mend!Fail, FailsByPod
<1>2. x \in Mend!ContextRules(w) <=> FailsByContext(x, w)
      BY DEF Mend!ContextRules, Mend!Fail, FailsByContext
<1>3. x \in Mend!ContainerRules(w) <=> FailsByContainer(x, w)
      BY DEF Mend!ContainerRules, Mend!Fail, FailsByContainer
<1> QED BY <1>1, <1>2, <1>3 DEF Mend!WorkloadRules

LEMMA SaferRules ==
    ASSUME NEW v, NEW w, NEW as, SaferWorkload(v, w)
    PROVE  Mend!WorkloadRules(v, as) \ Mend!WorkloadRules(w, as)
              \subseteq Mend!CapabilityRules \cup {"WL-016", "WL-018"}
<1>1. v.ns = w.ns /\ v.labels = w.labels /\ v.hostPaths = w.hostPaths BY DEF SaferWorkload
<1>2. /\ v.hostNetwork => w.hostNetwork
      /\ v.hostPID => w.hostPID
      /\ v.hostIPC => w.hostIPC
      BY DEF SaferWorkload
<1>3. CASE Mend!postureNamespaceExcluded(w.ns) BY <1>1, <1>3 DEF Mend!WorkloadRules
<1>4. CASE ~Mend!postureNamespaceExcluded(w.ns)
  <2> DEFINE fails(x) == x \in Mend!WorkloadRules(w, as) \cup Mend!CapabilityRules \cup {"WL-016", "WL-018"}
  <2>1. ASSUME NEW x, FailsByPod(x, v, as) PROVE fails(x)
    <3>1. FailsByPod(x, w, as) \/ x \in {"WL-016", "WL-018"}
          BY <1>1, <1>2, <2>1, SaferPasses DEF FailsByPod
    <3> QED BY <1>4, <3>1, RulesFailed
  <2>2. ASSUME NEW x, FailsByContext(x, v) PROVE fails(x)
    <3>1. FailsByContext(x, w) \/ x \in Mend!CapabilityRules
          BY <2>2, SaferPasses DEF FailsByContext, Mend!CapabilityRules
    <3> QED BY <1>4, <3>1, RulesFailed
  <2>3. ASSUME NEW x, FailsByContainer(x, v) PROVE fails(x)
    <3>1. FailsByContainer(x, w) BY <2>3, SaferPasses DEF FailsByContainer
    <3> QED BY <1>4, <3>1, RulesFailed
  <2>4. ~Mend!postureNamespaceExcluded(v.ns) BY <1>1, <1>4
  <2> HIDE DEF fails
  <2>5. \A x \in Mend!WorkloadRules(v, as) : fails(x) BY <2>1, <2>2, <2>3, <2>4, RulesFailed
  <2> QED BY <2>5 DEF fails
<1> QED BY <1>3, <1>4

(* Nor those about capabilities, where each container keeps or loses what it had. *)
LEMMA FewerCapsRules ==
    ASSUME NEW v, NEW w, NEW as, SaferWorkload(v, w),
           \A d \in v.containers : \E c \in w.containers : SaferContainer(d, c) /\ FewerCaps(d, c)
    PROVE  Mend!CapabilityRules \cap Mend!WorkloadRules(v, as) \subseteq Mend!WorkloadRules(w, as)
<1>1. Mend!DangerousCaps(v) => Mend!DangerousCaps(w)
      BY DEF Mend!DangerousCaps, Mend!CapNames, Mend!eachContainer, SaferContainer, FewerCaps
<1>2. Mend!KeepsSomeCaps(v) => Mend!KeepsSomeCaps(w)
      BY DEF Mend!KeepsSomeCaps, Mend!eachContainer, SaferContainer, FewerCaps
<1>3. Mend!AddsCaps(v) => Mend!AddsCaps(w)
      BY DEF Mend!AddsCaps, Mend!CapNames, Mend!eachContainer, SaferContainer, FewerCaps
<1>4. Mend!RawSockets(v) => Mend!RawSockets(w)
      BY DEF Mend!RawSockets, Mend!CapNames, Mend!eachContainer, SaferContainer, FewerCaps
<1>5. v.ns = w.ns BY DEF SaferWorkload
<1>6. CASE Mend!postureNamespaceExcluded(w.ns)
      BY <1>5, <1>6 DEF Mend!WorkloadRules, Mend!CapabilityRules
<1>7. CASE ~Mend!postureNamespaceExcluded(w.ns)
  <2> SUFFICES ASSUME NEW x \in Mend!CapabilityRules, x \in Mend!WorkloadRules(v, as)
               PROVE  x \in Mend!WorkloadRules(w, as)
      OBVIOUS
  <2>1. ~Mend!postureNamespaceExcluded(v.ns) BY <1>5, <1>7
  <2>2. FailsByPod(x, v, as) \/ FailsByContext(x, v) \/ FailsByContainer(x, v) BY <2>1, RulesFailed
  <2>3. FailsByContext(x, v)
        BY <2>2 DEF FailsByPod, FailsByContainer, Mend!CapabilityRules
  <2>4. FailsByContext(x, w)
        BY <1>1, <1>2, <1>3, <1>4, <2>3 DEF FailsByContext, Mend!CapabilityRules
  <2> QED BY <1>7, <2>4, RulesFailed
<1> QED BY <1>6, <1>7

(* On the object it was made from, a patch gives the copy the rule was checked on: *)
(* each container its own fix.  Host ports are closed by number.                   *)
LEMMA OwnMerge ==
    ASSUME NEW rule, NEW o, Mend!IsWorkload(o), NEW c \in o.containers
    PROVE  Mend!Merged(rule, o, c) =
              IF c \notin Mend!Touched(rule, o) THEN c
              ELSE IF rule = "WL-015" THEN [c EXCEPT !.ports = Mend!Cleared(@, c.ports)]
              ELSE Mend!Set(Mend!ContainerFix(rule, c), c)
<1> DEFINE of == {d \in Mend!Touched(rule, o) : d.name = c.name}
           d == CHOOSE x \in of : TRUE
<1>1. \A x \in of : x \in o.containers /\ x.name = c.name BY DEF Mend!Touched
<1>2. \A x, y \in o.containers : x.name = y.name => x = y BY Zenon DEF Mend!IsWorkload
<1>3. \A x \in of : x = c BY <1>1, <1>2
<1>4. CASE of = {}
  <2>1. c \notin Mend!Touched(rule, o) BY <1>4
  <2>2. Mend!Merged(rule, o, c) = c BY <1>4, Zenon DEF Mend!Merged
  <2> QED BY <2>1, <2>2
<1>5. CASE of # {}
  <2>1. d \in of BY <1>5
  <2>2. d = c BY <1>3, <2>1
  <2>3. c \in Mend!Touched(rule, o) BY <2>1, <2>2
  <2>4. Mend!Merged(rule, o, c) = IF rule = "WL-015" THEN [c EXCEPT !.ports = Mend!Cleared(@, d.ports)]
                                  ELSE Mend!Set(Mend!ContainerFix(rule, d), c)
        BY <1>5, Zenon DEF Mend!Merged
  <2> HIDE DEF d
  <2> QED BY <2>2, <2>3, <2>4
<1> QED BY <1>4, <1>5

LEMMA OwnPatch ==
    ASSUME NEW rule, rule # "WL-015", NEW o, Mend!IsWorkload(o)
    PROVE  Mend!Patched(rule, o, o) = Mend!FixedCopy(rule, o)
<1>1. ASSUME NEW c \in o.containers PROVE Mend!Merged(rule, o, c) = Mend!Fixed(rule, c)
  <2>1. Mend!Fixed(rule, c) = Mend!Set(Mend!ContainerFix(rule, c), c) BY DEF Mend!Fixed
  <2>2. CASE c \notin Mend!Touched(rule, o)
    <3>1. Mend!ContainerFix(rule, c) = Mend!Nothing BY <2>2 DEF Mend!Touched
    <3>2. Mend!IsContainer(c) BY Zenon DEF Mend!IsWorkload
    <3>3. Mend!Set(Mend!Nothing, c) = c BY <3>2, SetNothing DEF Mend!IsContainer
    <3> QED BY <2>1, <2>2, <3>1, <3>3, OwnMerge
  <2> QED BY <2>1, <2>2, OwnMerge
<1>2. Mend!Set(Mend!PodFix(rule, o), o).containers = o.containers
  <2>1. "containers" \in DOMAIN o BY Zenon DEF Mend!IsWorkload, Mend!IsRecord, Mend!WorkloadFields
  <2>2. "containers" \notin DOMAIN Mend!PodFix(rule, o) BY PodFixes DEF PodChanges
  <2> QED BY <2>1, <2>2, SetFields
<1>3. {Mend!Merged(rule, o, c) : c \in o.containers} = {Mend!Fixed(rule, c) : c \in o.containers}
      BY <1>1
<1> QED BY <1>2, <1>3, Zenon DEF Mend!Patched, Mend!FixedCopy

LEMMA OwnPorts ==
    ASSUME NEW o, Mend!IsWorkload(o), ~Mend!PortTwice(o)
    PROVE  ~Mend!HostPorts(Mend!Patched("WL-015", o, o))
<1> DEFINE p == Mend!Patched("WL-015", o, o)
<1>1. p.containers = {Mend!Merged("WL-015", o, c) : c \in o.containers} BY PatchedSafely
<1>2. ASSUME NEW c \in o.containers, NEW i \in DOMAIN Mend!Merged("WL-015", o, c).ports
      PROVE  ~Mend!Merged("WL-015", o, c).ports[i].host
  <2> DEFINE e == Mend!Merged("WL-015", o, c)
  <2>1. Mend!IsContainer(c) BY Zenon DEF Mend!IsWorkload
  <2>2. CASE c \notin Mend!Touched("WL-015", o)
    <3>1. e = c BY <2>2, OwnMerge
    <3> QED BY <2>2, <3>1, <1>2 DEF Mend!Touched
  <2>3. CASE c \in Mend!Touched("WL-015", o)
    <3>1. e = [c EXCEPT !.ports = Mend!Cleared(@, c.ports)] BY <2>3, OwnMerge
    <3>2. "ports" \in DOMAIN c BY <2>1 DEF Mend!IsContainer, Mend!IsRecord, Mend!ContainerFields
    <3>3. e.ports = Mend!Cleared(c.ports, c.ports) BY <3>1, <3>2
    <3>4. i \in DOMAIN c.ports BY <1>2, <3>3 DEF Mend!Cleared
    <3>5. \A j \in 1..(i - 1) : c.ports[j].port # c.ports[i].port
      <4>1. \A j \in 1..(i - 1) : j \in DOMAIN c.ports /\ j # i
            BY <2>1, <3>4 DEF Mend!IsContainer
      <4> QED BY <3>4, <4>1 DEF Mend!PortTwice
    <3>6. e.ports[i] = [c.ports[i] EXCEPT !.host =
                @ /\ \/ \A j \in DOMAIN c.ports : c.ports[j].host => c.ports[j].port # c.ports[i].port
                     \/ \E j \in 1..(i - 1) : c.ports[j].port = c.ports[i].port]
          BY <3>3, <3>4 DEF Mend!Cleared
    <3>7. DOMAIN c.ports[i] = {"port", "host"} BY <2>1, <3>4 DEF Mend!IsContainer
    <3> QED BY <3>4, <3>5, <3>6, <3>7
  <2> QED BY <2>2, <2>3
<1> QED BY <1>1, <1>2 DEF Mend!HostPorts, Mend!eachContainer

(* A verified fix makes its rule pass; and what a patch makes fail. *)
LEMMA PatchMends ==
    ASSUME NEW rule \in Mend!Fixable, NEW o, NEW as, Mend!IsWorkload(o),
           rule \notin Mend!WorkloadRules(Mend!FixedCopy(rule, o), <<>>),
           rule # "WL-015" \/ ~Mend!PortTwice(o)
    PROVE  rule \notin Mend!WorkloadRules(Mend!Patched(rule, o, o), as)
<1> DEFINE p == Mend!Patched(rule, o, o)
<1> HIDE DEF p
<1>1. CASE Mend!postureNamespaceExcluded(p.ns)
      BY <1>1 DEF Mend!WorkloadRules, Mend!Fixable, p
<1>2. CASE ~Mend!postureNamespaceExcluded(p.ns) /\ rule = "WL-015"
  <2>1. ~Mend!HostPorts(p) BY <1>2, OwnPorts DEF p
  <2>2. ~(\/ FailsByPod(rule, p, as) \/ FailsByContext(rule, p) \/ FailsByContainer(rule, p))
        BY <1>2, <2>1 DEF FailsByPod, FailsByContext, FailsByContainer
  <2> QED BY <1>2, <2>2, RulesFailed DEF p
<1>3. CASE ~Mend!postureNamespaceExcluded(p.ns) /\ rule # "WL-015"
  <2>1. ~(\/ FailsByPod(rule, p, <<>>) \/ FailsByContext(rule, p) \/ FailsByContainer(rule, p))
        BY <1>3, OwnPatch, RulesFailed DEF p
  <2>2. rule = "WL-016" => ~Mend!automountsToken(p, as)
    <3>1. rule = "WL-016" => p.automount = "false" BY PatchedSafely DEF p
    <3> QED BY <3>1, Zenon DEF Mend!automountsToken, Mend!Or
  <2>3. ~FailsByPod(rule, p, as) BY <2>1, <2>2 DEF FailsByPod
  <2> QED BY <1>3, <2>1, <2>3, RulesFailed DEF p
<1> QED BY <1>1, <1>2, <1>3

LEMMA PatchBreaks ==
    ASSUME NEW rule, NEW w, NEW o, NEW as, Mend!IsWorkload(w), Mend!IsWorkload(o)
    PROVE  LET new == Mend!WorkloadRules(Mend!Patched(rule, w, o), as) \ Mend!WorkloadRules(o, as)
           IN  /\ new \subseteq Mend!CapabilityRules \cup {"WL-016", "WL-018"}
               /\ rule # "WL-018" => new \subseteq Mend!CapabilityRules
               /\ w.name # "default" => "WL-018" \notin new
               /\ w = o => new \subseteq {"WL-016", "WL-018"}
               /\ Mend!DefaultAccount(o) => "WL-018" \notin new
<1> DEFINE p == Mend!Patched(rule, w, o)
           new == Mend!WorkloadRules(p, as) \ Mend!WorkloadRules(o, as)
<1>1. /\ SaferWorkload(p, o) /\ p.containers = {Mend!Merged(rule, w, c) : c \in o.containers}
      /\ IF rule = "WL-018" THEN p.serviceAccount = w.name /\ p.automount = o.automount
         ELSE p.serviceAccount = o.serviceAccount
      BY PatchedSafely
<1> HIDE DEF p
<1>2. new \subseteq Mend!CapabilityRules \cup {"WL-016", "WL-018"} BY <1>1, SaferRules
<1>3. p.ns = o.ns /\ p.automount \in {o.automount, "false"} BY <1>1 DEF SaferWorkload
<1>4. CASE Mend!postureNamespaceExcluded(o.ns)
  <2>1. Mend!WorkloadRules(p, as) \subseteq {"WL-023"} BY <1>3, <1>4 DEF Mend!WorkloadRules
  <2>2. new = {} BY <1>2, <2>1 DEF Mend!CapabilityRules
  <2> QED BY <2>2 DEF p
<1>5. CASE ~Mend!postureNamespaceExcluded(o.ns)
  <2>1. ~Mend!postureNamespaceExcluded(p.ns) BY <1>3, <1>5
  <2>2. ASSUME NEW v, ~Mend!postureNamespaceExcluded(v.ns)
        PROVE  /\ "WL-016" \in Mend!WorkloadRules(v, as) <=> Mend!automountsToken(v, as)
               /\ "WL-018" \in Mend!WorkloadRules(v, as) <=> Mend!DefaultAccount(v)
    <3>1. /\ FailsByPod("WL-016", v, as) <=> Mend!automountsToken(v, as)
          /\ FailsByPod("WL-018", v, as) <=> Mend!DefaultAccount(v)
          BY DEF FailsByPod
    <3>2. \A x \in {"WL-016", "WL-018"} : ~FailsByContext(x, v) /\ ~FailsByContainer(x, v)
          BY DEF FailsByContext, FailsByContainer
    <3> QED BY <2>2, <3>1, <3>2, RulesFailed
  <2>3. rule # "WL-018" => new \subseteq Mend!CapabilityRules
    <3> SUFFICES ASSUME rule # "WL-018" PROVE new \subseteq Mend!CapabilityRules OBVIOUS
    <3>1. p.serviceAccount = o.serviceAccount BY <1>1
    <3>2. Mend!automountsToken(p, as) => Mend!automountsToken(o, as)
      <4>1. CASE p.automount = "false" BY <4>1, Zenon DEF Mend!automountsToken, Mend!Or
      <4>2. CASE p.automount = o.automount BY <3>1, <4>2, Zenon DEF Mend!automountsToken
      <4> QED BY <1>3, <4>1, <4>2
    <3>3. Mend!DefaultAccount(p) => Mend!DefaultAccount(o) BY <3>1, Zenon DEF Mend!DefaultAccount
    <3> QED BY <1>2, <1>5, <2>1, <2>2, <3>2, <3>3
  <2>4. w.name # "default" => "WL-018" \notin new
    <3> SUFFICES ASSUME w.name # "default" PROVE "WL-018" \notin new OBVIOUS
    <3>1. CASE rule = "WL-018"
      <4>1. w.name # "" BY Zenon DEF Mend!IsWorkload
      <4>2. ~Mend!DefaultAccount(p) BY <1>1, <3>1, <4>1, Zenon DEF Mend!DefaultAccount
      <4> QED BY <2>1, <2>2, <4>2
    <3>2. CASE rule # "WL-018" BY <2>3, <3>2 DEF Mend!CapabilityRules
    <3> QED BY <3>1, <3>2
  <2>5. w = o => new \subseteq {"WL-016", "WL-018"}
    <3> SUFFICES ASSUME w = o PROVE new \subseteq {"WL-016", "WL-018"} OBVIOUS
    <3>1. ASSUME NEW d \in p.containers
          PROVE  \E c \in o.containers : SaferContainer(d, c) /\ FewerCaps(d, c)
      <4>1. PICK c \in o.containers : d = Mend!Merged(rule, o, c) BY <1>1
      <4>2. Mend!IsContainer(c) BY Zenon DEF Mend!IsWorkload
      <4> QED BY <4>1, <4>2, MergedSafely
    <3>2. Mend!CapabilityRules \cap Mend!WorkloadRules(p, as) \subseteq Mend!WorkloadRules(o, as)
          BY <1>1, <3>1, FewerCapsRules
    <3> QED BY <1>2, <3>2
  <2>6. Mend!DefaultAccount(o) => "WL-018" \notin new BY <1>5, <2>2
  <2> QED BY <1>2, <2>3, <2>4, <2>5, <2>6 DEF p
<1> QED BY <1>4, <1>5

(* What a rule of a role leaves when it is narrowed. *)
NarrowedOf(n, rule, r) ==
    \/ n = r
    \/ /\ r.urls # {} /\ r.resources = {} /\ n.resources = {} /\ n.urls \subseteq r.urls
       /\ n.groups = r.groups /\ n.names = r.names
       /\ \/ n.verbs = r.verbs
          \/ /\ n.verbs = {"get"}
             /\ \A u \in n.urls : /\ ~Mend!passes(rule, {[r EXCEPT !.urls = {u}]})
                                 /\ Mend!passes(rule, {[r EXCEPT !.urls = {u}, !.verbs = {"get"}]})
    \/ /\ r.urls = {} /\ n.urls = {} /\ n.groups = r.groups /\ n.names = r.names
       /\ n.resources \subseteq r.resources /\ n.verbs \subseteq Mend!Verbs(r)
LEMMA RuleNarrowed ==
    ASSUME NEW rule, NEW r, Mend!IsRule(r), NEW n \in Mend!NarrowedRule(rule, r)
    PROVE  Mend!IsRule(n) /\ NarrowedOf(n, rule, r)
<1>1. DOMAIN r = {"groups", "resources", "verbs", "names", "urls"} BY DEF Mend!IsRule, Mend!IsRecord
<1>2. CASE n = r BY <1>2 DEF NarrowedOf
<1>3. CASE n # r /\ r.urls # {}
  <2>1. n \in Mend!NarrowedURLs(rule, r) BY <1>3, Zenon DEF Mend!NarrowedRule
  <2>2. r.resources = {} BY <1>3 DEF Mend!IsRule
  <2>3. \/ \E us \in SUBSET r.urls : n = [r EXCEPT !.urls = us]
        \/ \E us \in SUBSET r.urls :
              /\ n = [r EXCEPT !.urls = us, !.verbs = {"get"}]
              /\ \A u \in us : /\ ~Mend!passes(rule, {[r EXCEPT !.urls = {u}]})
                              /\ Mend!passes(rule, {[r EXCEPT !.urls = {u}, !.verbs = {"get"}]})
    <3> DEFINE kept == {u \in r.urls : Mend!passes(rule, {[r EXCEPT !.urls = {u}]})}
               read == {u \in r.urls \ kept :
                          Mend!passes(rule, {[r EXCEPT !.urls = {u}, !.verbs = {"get"}]})}
    <3>1. n = [r EXCEPT !.urls = kept] \/ n = [r EXCEPT !.urls = read, !.verbs = {"get"}]
          BY <2>1, Zenon DEF Mend!NarrowedURLs
    <3>2. kept \in SUBSET r.urls /\ read \in SUBSET r.urls OBVIOUS
    <3>3. \A u \in read : /\ ~Mend!passes(rule, {[r EXCEPT !.urls = {u}]})
                         /\ Mend!passes(rule, {[r EXCEPT !.urls = {u}, !.verbs = {"get"}]})
          OBVIOUS
    <3> HIDE DEF kept, read
    <3> QED BY <3>1, <3>2, <3>3
  <2>4. CASE \E us \in SUBSET r.urls : n = [r EXCEPT !.urls = us]
        BY <1>1, <1>3, <2>2, <2>4 DEF NarrowedOf, Mend!IsRule, Mend!IsRecord
  <2>5. CASE \E us \in SUBSET r.urls :
              /\ n = [r EXCEPT !.urls = us, !.verbs = {"get"}]
              /\ \A u \in us : /\ ~Mend!passes(rule, {[r EXCEPT !.urls = {u}]})
                              /\ Mend!passes(rule, {[r EXCEPT !.urls = {u}, !.verbs = {"get"}]})
    <3>1. PICK us \in SUBSET r.urls :
              /\ n = [r EXCEPT !.urls = us, !.verbs = {"get"}]
              /\ \A u \in us : /\ ~Mend!passes(rule, {[r EXCEPT !.urls = {u}]})
                              /\ Mend!passes(rule, {[r EXCEPT !.urls = {u}, !.verbs = {"get"}]})
          BY <2>5
    <3>2. /\ n.urls = us /\ n.verbs = {"get"} /\ n.resources = r.resources /\ n.groups = r.groups
          /\ n.names = r.names /\ Mend!IsRecord(n, {"groups", "resources", "verbs", "names", "urls"})
          BY <1>1, <3>1 DEF Mend!IsRecord
    <3> QED BY <1>3, <2>2, <3>1, <3>2 DEF NarrowedOf, Mend!IsRule
  <2> QED BY <2>3, <2>4, <2>5
<1>4. CASE n # r /\ r.urls = {}
  <2>1. n \in Mend!NarrowedVerbs(rule, r) BY <1>4, Zenon DEF Mend!NarrowedRule
  <2>2. PICK res \in r.resources :
              n = [r EXCEPT !.resources = {other \in r.resources :
                                 Mend!KeptVerbs(rule, r, other) = Mend!KeptVerbs(rule, r, res)},
                            !.verbs = Mend!KeptVerbs(rule, r, res)]
        BY <2>1 DEF Mend!NarrowedVerbs
  <2>3. /\ n.urls = r.urls /\ n.groups = r.groups /\ n.names = r.names
        /\ n.resources \subseteq r.resources /\ n.verbs = Mend!KeptVerbs(rule, r, res)
        /\ Mend!IsRecord(n, {"groups", "resources", "verbs", "names", "urls"})
        BY <1>1, <2>2 DEF Mend!IsRecord
  <2>4. Mend!KeptVerbs(rule, r, res) \subseteq Mend!Verbs(r) BY DEF Mend!KeptVerbs
  <2> QED BY <1>4, <2>3, <2>4 DEF NarrowedOf, Mend!IsRule
<1> QED BY <1>2, <1>3, <1>4

LEMMA RoleNarrowed ==
    ASSUME NEW rule, NEW rules, \A r \in rules : Mend!IsRule(r),
           NEW n \in Mend!narrowRoleRules(rule, rules)
    PROVE  Mend!IsRule(n) /\ \E r \in rules : n \in Mend!NarrowedRule(rule, r) /\ NarrowedOf(n, rule, r)
<1>1. PICK r \in rules : n \in Mend!NarrowedRule(rule, r) BY DEF Mend!narrowRoleRules
<1> QED BY <1>1, RuleNarrowed

(* A narrowed role fails no rule the role passed. *)
LEMMA VerbsOf ==
    ASSUME NEW r, NEW v \in Mend!Verbs(r)
    PROVE  "*" \in r.verbs \/ v \in r.verbs
BY DEF Mend!Verbs
LEMMA NarrowedGrants ==
    ASSUME NEW rule, NEW rules, \A r \in rules : Mend!IsRule(r), NEW G, NEW R, NEW V,
           Mend!roleGrants(Mend!narrowRoleRules(rule, rules), G, R, V)
    PROVE  Mend!roleGrants(rules, G, R, V)
<1>1. PICK n \in Mend!narrowRoleRules(rule, rules) : Mend!policyRuleGrants(n, G, R, V) # {}
      BY DEF Mend!roleGrants
<1>2. PICK r \in rules : NarrowedOf(n, rule, r) BY RoleNarrowed
<1>3. /\ n.names = {} /\ n.resources # {} /\ n.groups \cap (G \cup {"*"}) # {}
      /\ n.resources \cap (R \cup {"*"}) # {} /\ ("*" \in n.verbs \/ n.verbs \cap V # {})
      BY <1>1 DEF Mend!policyRuleGrants
<1>4. /\ r.names = {} /\ r.resources # {} /\ r.groups \cap (G \cup {"*"}) # {}
      /\ r.resources \cap (R \cup {"*"}) # {} /\ ("*" \in r.verbs \/ r.verbs \cap V # {})
  <2>1. CASE n = r BY <1>3, <2>1
  <2>2. CASE n # r
    <3>1. /\ n.groups = r.groups /\ n.names = r.names
          /\ n.resources \subseteq r.resources /\ n.verbs \subseteq Mend!Verbs(r)
          BY <1>2, <1>3, <2>2 DEF NarrowedOf
    <3> QED BY <1>3, <3>1, VerbsOf
  <2> QED BY <2>1, <2>2
<1>5. Mend!policyRuleGrants(r, G, R, V) # {} BY <1>4 DEF Mend!policyRuleGrants
<1> QED BY <1>5 DEF Mend!roleGrants

LEMMA NarrowedPasses ==
    ASSUME NEW rule, NEW rules, \A r \in rules : Mend!IsRule(r)
    PROVE  Mend!RoleRules(Mend!narrowRoleRules(rule, rules)) \subseteq Mend!RoleRules(rules)
<1> DEFINE narrow == Mend!narrowRoleRules(rule, rules)
<1> HIDE DEF narrow
<1>1. \A G, R, V : Mend!roleGrants(narrow, G, R, V) => Mend!roleGrants(rules, G, R, V)
      BY NarrowedGrants DEF narrow
<1>2. Mend!ReadsSecrets(narrow) => Mend!ReadsSecrets(rules) BY <1>1, Zenon DEF Mend!ReadsSecrets
<1>3. Mend!Impersonates(narrow) => Mend!Impersonates(rules) BY <1>1, Zenon DEF Mend!Impersonates
<1>4. Mend!ProxiesNodes(narrow) => Mend!ProxiesNodes(rules) BY <1>1, Zenon DEF Mend!ProxiesNodes
<1>5. Mend!ApprovesCertificates(narrow) => Mend!ApprovesCertificates(rules) BY <1>1, Zenon DEF Mend!ApprovesCertificates
<1>6. Mend!EditsWebhooks(narrow) => Mend!EditsWebhooks(rules) BY <1>1, Zenon DEF Mend!EditsWebhooks
<1>7. Mend!CreatesPods(narrow) => Mend!CreatesPods(rules) BY <1>1, Zenon DEF Mend!CreatesPods
<1>8. Mend!CreatesVolumes(narrow) => Mend!CreatesVolumes(rules) BY <1>1, Zenon DEF Mend!CreatesVolumes
<1>9. Mend!MintsTokens(narrow) => Mend!MintsTokens(rules) BY <1>1, Zenon DEF Mend!MintsTokens
<1>10. Mend!Wildcards(narrow) => Mend!Wildcards(rules)
  <2> SUFFICES ASSUME NEW n \in narrow, n.resources # {}, "*" \in n.verbs \cup n.resources
               PROVE  Mend!Wildcards(rules)
      BY DEF Mend!Wildcards
  <2>1. PICK r \in rules : NarrowedOf(n, rule, r) BY RoleNarrowed DEF narrow
  <2>2. CASE n = r BY <2>2 DEF Mend!Wildcards
  <2>3. CASE n # r
    <3>1. n.resources \subseteq r.resources /\ n.verbs \subseteq Mend!Verbs(r)
          BY <2>1, <2>3 DEF NarrowedOf
    <3>2. r.resources # {} /\ "*" \in r.verbs \cup r.resources BY <3>1, VerbsOf
    <3> QED BY <3>2 DEF Mend!Wildcards
  <2> QED BY <2>2, <2>3
<1>11. Mend!OpensURLs(narrow) => Mend!OpensURLs(rules)
  <2> SUFFICES ASSUME NEW n \in narrow, n.urls # {},
                      n.verbs \ {"get", "head"} # {} \/ n.urls \ Mend!discoveryURL # {}
               PROVE  Mend!OpensURLs(rules)
      BY DEF Mend!OpensURLs
  <2>1. PICK r \in rules : NarrowedOf(n, rule, r) BY RoleNarrowed DEF narrow
  <2>2. r.urls # {} /\ (r.verbs \ {"get", "head"} # {} \/ r.urls \ Mend!discoveryURL # {})
        BY <2>1 DEF NarrowedOf
  <2> QED BY <2>2 DEF Mend!OpensURLs
<1> QED BY <1>2, <1>3, <1>4, <1>5, <1>6, <1>7, <1>8, <1>9, <1>10, <1>11
        DEF Mend!RoleRules, Mend!Fail, narrow

(* URLs are one rule's matter: it lets those of discovery be read. *)
LEMMA OnlyURLs ==
    ASSUME NEW rule, NEW r, NEW s, r.resources = {}, s.resources = {}, s.urls # {}, s.verbs = {"get"},
           ~Mend!passes(rule, {r}), Mend!passes(rule, {s})
    PROVE  s.urls \subseteq Mend!discoveryURL
<1>1. \A G, R, V : ~Mend!roleGrants({r}, G, R, V)
      BY DEF Mend!roleGrants, Mend!policyRuleGrants
<1>2. /\ ~Mend!ReadsSecrets({r}) /\ ~Mend!Impersonates({r}) /\ ~Mend!ProxiesNodes({r})
      /\ ~Mend!ApprovesCertificates({r}) /\ ~Mend!EditsWebhooks({r}) /\ ~Mend!CreatesPods({r})
      /\ ~Mend!CreatesVolumes({r}) /\ ~Mend!MintsTokens({r})
      BY <1>1, Zenon DEF Mend!ReadsSecrets, Mend!Impersonates, Mend!ProxiesNodes,
         Mend!ApprovesCertificates, Mend!EditsWebhooks, Mend!CreatesPods, Mend!CreatesVolumes,
         Mend!MintsTokens
<1>3. ~Mend!Wildcards({r}) BY DEF Mend!Wildcards
<1>4. rule = "RBAC-010" BY <1>2, <1>3 DEF Mend!passes, Mend!RoleRules, Mend!Fail
<1>5. ~Mend!OpensURLs({s}) BY <1>4 DEF Mend!passes, Mend!RoleRules, Mend!Fail
<1> QED BY <1>5 DEF Mend!OpensURLs

LEMMA NarrowingAllows ==
    ASSUME NEW rule, NEW rules, \A r \in rules : Mend!IsRule(r), NEW d,
           Mend!Allows(Mend!narrowRoleRules(rule, rules), d), ~Mend!Allows(rules, d)
    PROVE  d.url \in Mend!discoveryURL /\ d.verb = "get"
<1>1. PICK n \in Mend!narrowRoleRules(rule, rules) :
            /\ n.verbs \cap {d.verb, "*"} # {}
            /\ IF Mend!OnURL(d) THEN d.url \in n.urls
               ELSE /\ n.groups \cap {d.group, "*"} # {} /\ n.resources \cap {d.resource, "*"} # {}
                    /\ n.names = {} \/ d.name \in n.names
      BY DEF Mend!Allows
<1>2. PICK r \in rules : NarrowedOf(n, rule, r) BY RoleNarrowed
<1>3. ~(/\ r.verbs \cap {d.verb, "*"} # {}
        /\ IF Mend!OnURL(d) THEN d.url \in r.urls
           ELSE /\ r.groups \cap {d.group, "*"} # {} /\ r.resources \cap {d.resource, "*"} # {}
                /\ r.names = {} \/ d.name \in r.names)
      BY DEF Mend!Allows
<1>4. ~(/\ r.urls = {} /\ n.urls = {} /\ n.groups = r.groups /\ n.names = r.names
        /\ n.resources \subseteq r.resources /\ n.verbs \subseteq Mend!Verbs(r))
      BY <1>1, <1>3, VerbsOf
<1>5. /\ r.urls # {} /\ r.resources = {} /\ n.resources = {} /\ n.urls \subseteq r.urls
      /\ n.verbs = {"get"}
      /\ \A u \in n.urls : /\ ~Mend!passes(rule, {[r EXCEPT !.urls = {u}]})
                          /\ Mend!passes(rule, {[r EXCEPT !.urls = {u}, !.verbs = {"get"}]})
      BY <1>1, <1>2, <1>3, <1>4 DEF NarrowedOf
<1>6. d.url \in n.urls /\ d.verb = "get" BY <1>1, <1>5
<1> DEFINE one == [r EXCEPT !.urls = {d.url}]
           read == [r EXCEPT !.urls = {d.url}, !.verbs = {"get"}]
<1>7. DOMAIN r = {"groups", "resources", "verbs", "names", "urls"} BY DEF Mend!IsRule, Mend!IsRecord
<1>8. one.resources = {} /\ read.resources = {} /\ read.urls = {d.url} /\ read.verbs = {"get"}
      BY <1>5, <1>7
<1>9. ~Mend!passes(rule, {one}) /\ Mend!passes(rule, {read}) BY <1>5, <1>6
<1> HIDE DEF one, read
<1>10. read.urls \subseteq Mend!discoveryURL BY <1>8, <1>9, OnlyURLs
<1> QED BY <1>6, <1>8, <1>10

LEMMA NarrowingLoses ==
    ASSUME NEW rule, NEW rules, \A r \in rules : Mend!IsRule(r), NEW d,
           Mend!Allows(rules, d), ~Mend!Allows(Mend!narrowRoleRules(rule, rules), d),
           d.verb \in Mend!expandableVerbs
    PROVE  Mend!ObjectsTo(rule, rules, d)
<1> DEFINE narrow == Mend!narrowRoleRules(rule, rules)
<1>1. PICK r \in rules :
            /\ r.verbs \cap {d.verb, "*"} # {}
            /\ IF Mend!OnURL(d) THEN d.url \in r.urls
               ELSE /\ r.groups \cap {d.group, "*"} # {} /\ r.resources \cap {d.resource, "*"} # {}
                    /\ r.names = {} \/ d.name \in r.names
      BY DEF Mend!Allows
<1>2. Mend!Allows({r}, d) BY <1>1 DEF Mend!Allows
<1>3. \A n \in narrow :
         ~(/\ n.verbs \cap {d.verb, "*"} # {}
           /\ IF Mend!OnURL(d) THEN d.url \in n.urls
              ELSE /\ n.groups \cap {d.group, "*"} # {} /\ n.resources \cap {d.resource, "*"} # {}
                   /\ n.names = {} \/ d.name \in n.names)
      BY DEF Mend!Allows
<1>4. Mend!NarrowedRule(rule, r) \subseteq narrow BY DEF Mend!narrowRoleRules
<1> HIDE DEF narrow
<1>5. r \notin Mend!NarrowedRule(rule, r) BY <1>1, <1>3, <1>4
<1>6. ~Mend!passes(rule, {r}) /\ ~Mend!ByHand(rule, r) BY <1>5 DEF Mend!NarrowedRule
<1>7. DOMAIN r = {"groups", "resources", "verbs", "names", "urls"} BY DEF Mend!IsRule, Mend!IsRecord
<1>8. CASE r.urls # {}
  <2> DEFINE kept == {u \in r.urls : Mend!passes(rule, {[r EXCEPT !.urls = {u}]})}
             n == [r EXCEPT !.urls = kept]
  <2>1. Mend!OnURL(d) /\ d.url \in r.urls BY <1>1, <1>8 DEF Mend!IsRule
  <2>2. n \in Mend!NarrowedURLs(rule, r) BY Zenon DEF Mend!NarrowedURLs
  <2>3. n.urls = kept /\ n.verbs = r.verbs BY <1>7
  <2>4. d.url \notin kept
    <3> SUFFICES ASSUME d.url \in kept PROVE FALSE OBVIOUS
    <3>1. n.urls # {} BY <2>3
    <3> HIDE DEF n, kept
    <3>2. n \in narrow BY <1>4, <1>6, <1>8, <2>2, <3>1 DEF Mend!NarrowedRule
    <3> QED BY <1>1, <1>3, <2>1, <2>3, <3>2
  <2>5. ~Mend!passes(rule, {[r EXCEPT !.urls = {d.url}]}) BY <2>1, <2>4
  <2> QED BY <1>2, <2>1, <2>5 DEF Mend!ObjectsTo
<1>9. CASE r.urls = {}
  <2> DEFINE kept == Mend!KeptVerbs(rule, r, d.resource)
             n == [r EXCEPT !.resources = {other \in r.resources :
                                              Mend!KeptVerbs(rule, r, other) = kept},
                            !.verbs = kept]
  <2>1. ~Mend!OnURL(d) BY <1>1, <1>9
  <2>2. d.resource \in r.resources BY <1>1, <1>6, <1>9, <2>1 DEF Mend!ByHand
  <2>3. d.verb \in Mend!Verbs(r) BY <1>1 DEF Mend!Verbs
  <2>4. n \in Mend!NarrowedVerbs(rule, r) BY <2>2 DEF Mend!NarrowedVerbs
  <2>5. /\ n.groups = r.groups /\ n.names = r.names /\ n.verbs = kept /\ d.resource \in n.resources
        BY <1>7, <2>2
  <2> HIDE DEF n
  <2>6. d.verb \notin kept
    <3> SUFFICES ASSUME d.verb \in kept PROVE FALSE OBVIOUS
    <3>1. n.verbs # {} BY <2>5
    <3>2. n \in narrow BY <1>4, <1>6, <1>9, <2>4, <3>1 DEF Mend!NarrowedRule
    <3> QED BY <1>1, <1>3, <2>1, <2>5, <3>2
  <2>7. ~Mend!passes(rule, {[r EXCEPT !.resources = {d.resource}, !.verbs = {d.verb}]})
        BY <2>3, <2>6 DEF Mend!KeptVerbs
  <2> QED BY <1>2, <2>1, <2>7 DEF Mend!ObjectsTo
<1> QED BY <1>8, <1>9

LEMMA KindsApart ==
    /\ \A k \in Mend!WorkloadKinds : k \notin Mend!RoleKinds /\ k # "RoleBinding" /\ k # "Namespace"
    /\ \A k \in Mend!RoleKinds : k # "RoleBinding" /\ k # "Namespace"
BY DEF Mend!WorkloadKinds, Mend!RoleKinds

(* The commands of a fix, and what each makes of an object of its kind. *)
LEMMA CommandsOf ==
    ASSUME NEW rule, NEW o
    PROVE  \/ Mend!Commands(rule, o) = <<>>
           \/ o.kind \in Mend!WorkloadKinds /\ rule \in Mend!Fixable /\ Mend!Commands(rule, o) = <<"patch">>
           \/ /\ o.kind \in Mend!WorkloadKinds /\ rule = "WL-018" /\ rule \in Mend!Fixable
              /\ Mend!Commands(rule, o) = <<"account", "patch">>
           \/ o.kind \in Mend!RoleKinds /\ Mend!Commands(rule, o) = <<"role">>
           \/ o.kind = "RoleBinding" /\ Mend!Commands(rule, o) = <<"unbind">>
           \/ o.kind = "Namespace" /\ Mend!Commands(rule, o) = <<"allow", "deny">>
<1>1. CASE o.kind \in Mend!WorkloadKinds \ {"Job", "Pod"} /\ rule \in Mend!Fixable
  <2>1. Mend!Commands(rule, o) = IF rule = "WL-018" THEN <<"account", "patch">> ELSE <<"patch">>
    <3>1. o.kind \notin Mend!RoleKinds /\ o.kind # "RoleBinding" /\ o.kind # "Namespace"
          BY <1>1, KindsApart
    <3> QED BY <1>1, <3>1, Zenon DEF Mend!Commands
  <2> QED BY <1>1, <2>1
<1>2. CASE ~(o.kind \in Mend!WorkloadKinds \ {"Job", "Pod"} /\ rule \in Mend!Fixable)
  <2>1. Mend!Commands(rule, o) =
            CASE o.kind \in Mend!RoleKinds /\ ~o.aggregated -> <<"role">>
              [] o.kind = "RoleBinding" -> <<"unbind">>
              [] o.kind = "Namespace" /\ rule = "NET-001" -> <<"allow", "deny">>
              [] OTHER -> <<>>
        BY <1>2 DEF Mend!Commands
  <2> QED BY <2>1
<1> QED BY <1>1, <1>2
LEMMA Objects ==
    ASSUME NEW o
    PROVE  /\ o.kind \in Mend!WorkloadKinds =>
                 /\ Mend!IsObject(o) <=> Mend!IsWorkload(o)
                 /\ \A as : Mend!FailedRules(o, as) = Mend!WorkloadRules(o, as)
           /\ o.kind \in Mend!RoleKinds =>
                 /\ Mend!IsObject(o) <=> /\ Mend!IsRecord(o, {"kind", "rules", "aggregated"})
                                        /\ \A r \in o.rules : Mend!IsRule(r)
                 /\ \A as : Mend!FailedRules(o, as) = Mend!RoleRules(o.rules)
           /\ o.kind = "RoleBinding" =>
                 /\ Mend!IsObject(o) <=> Mend!IsRecord(o, {"kind", "present", "role", "subjects"})
                 /\ \A as : ~o.present => Mend!FailedRules(o, as) = {}
           /\ o.kind = "Namespace" =>
                 /\ Mend!IsObject(o) <=> Mend!IsRecord(o, {"kind", "policies"})
                 /\ \A as : Mend!FailedRules(o, as) = Mend!NamespaceRules(o.policies)
<1>1. CASE o.kind \in Mend!WorkloadKinds
      BY <1>1, KindsApart, Zenon DEF Mend!IsObject, Mend!FailedRules
<1>2. CASE o.kind \in Mend!RoleKinds
      BY <1>2, KindsApart, Zenon DEF Mend!IsObject, Mend!FailedRules
<1>3. CASE o.kind = "RoleBinding"
      BY <1>3, KindsApart, Zenon DEF Mend!IsObject, Mend!FailedRules
<1>4. CASE o.kind = "Namespace"
      BY <1>4, KindsApart, Zenon DEF Mend!IsObject, Mend!FailedRules
<1> QED BY <1>1, <1>2, <1>3, <1>4

LEMMA CommandResults ==
    ASSUME NEW rule, NEW made, NEW o
    PROVE  /\ Mend!After("patch", rule, made, o) =
                 IF Mend!Accepted(rule, made, o) THEN Mend!Patched(rule, made, o) ELSE o
           /\ Mend!After("account", rule, made, o) = o
           /\ Mend!After("role", rule, made, o) =
                 [o EXCEPT !.rules = Mend!narrowRoleRules(rule, made.rules)]
           /\ Mend!After("unbind", rule, made, o) = [o EXCEPT !.present = FALSE]
           /\ Mend!After("allow", rule, made, o) = [o EXCEPT !.policies = Mend!Applied(@, Mend!SamePods)]
           /\ Mend!After("deny", rule, made, o) = [o EXCEPT !.policies = Mend!Applied(@, Mend!DenyAll)]
BY Zenon DEF Mend!After

LEMMA CommandKeeps ==
    ASSUME NEW rule, NEW made, NEW o, Mend!IsObject(made), Mend!IsObject(o), made.kind = o.kind,
           NEW i \in 1..Len(Mend!Commands(rule, made))
    PROVE  LET p == Mend!After(Mend!Commands(rule, made)[i], rule, made, o)
           IN  Mend!IsObject(p) /\ p.kind = o.kind
<1> DEFINE p == Mend!After(Mend!Commands(rule, made)[i], rule, made, o)
<1>1. Mend!Commands(rule, made) # <<>> OBVIOUS
<1>2. CASE /\ o.kind \in Mend!WorkloadKinds
           /\ Mend!Commands(rule, made) = <<"patch">> \/ Mend!Commands(rule, made) = <<"account", "patch">>
  <2>1. Mend!Commands(rule, made)[i] \in {"account", "patch"} BY <1>2
  <2>2. p \in {o, Mend!Patched(rule, made, o)} BY <2>1, CommandResults
  <2>3. Mend!IsWorkload(o) BY <1>2, Objects
  <2>4. Mend!IsWorkload(Mend!Patched(rule, made, o)) /\ Mend!Patched(rule, made, o).kind = o.kind
    <3> DEFINE q == Mend!Patched(rule, made, o)
    <3>1. SaferWorkload(q, o) /\ Mend!IsWorkload(q) BY <2>3, PatchedSafely
    <3> HIDE DEF q
    <3>2. q.kind = o.kind BY <3>1 DEF SaferWorkload
    <3> QED BY <3>1, <3>2 DEF q
  <2>5. Mend!IsObject(Mend!Patched(rule, made, o)) BY <1>2, <2>4, Objects
  <2> HIDE DEF p
  <2> QED BY <2>2, <2>4, <2>5 DEF p
<1>3. CASE o.kind \in Mend!RoleKinds /\ Mend!Commands(rule, made) = <<"role">>
  <2>1. Mend!Commands(rule, made)[i] = "role" BY <1>3
  <2>2. p = [o EXCEPT !.rules = Mend!narrowRoleRules(rule, made.rules)] BY <2>1, CommandResults
  <2>3. \A r \in made.rules : Mend!IsRule(r) BY <1>3, Objects
  <2>4. \A n \in Mend!narrowRoleRules(rule, made.rules) : Mend!IsRule(n) BY <2>3, RoleNarrowed
  <2>5. Mend!IsRecord(o, {"kind", "rules", "aggregated"}) BY <1>3, Objects
  <2> HIDE DEF p
  <2>6. /\ Mend!IsRecord(p, {"kind", "rules", "aggregated"}) /\ p.kind = o.kind
        /\ p.rules = Mend!narrowRoleRules(rule, made.rules)
        BY <2>2, <2>5 DEF Mend!IsRecord
  <2>7. Mend!IsObject(p) BY <1>3, <2>4, <2>6, Objects
  <2> QED BY <2>6, <2>7 DEF p
<1>4. CASE o.kind = "RoleBinding" /\ Mend!Commands(rule, made) = <<"unbind">>
  <2>1. Mend!Commands(rule, made)[i] = "unbind" BY <1>4
  <2>2. p = [o EXCEPT !.present = FALSE] BY <2>1, CommandResults
  <2>3. Mend!IsRecord(o, {"kind", "present", "role", "subjects"}) BY <1>4, Objects
  <2> HIDE DEF p
  <2>4. Mend!IsRecord(p, {"kind", "present", "role", "subjects"}) /\ p.kind = o.kind
        BY <2>2, <2>3 DEF Mend!IsRecord
  <2> QED BY <1>4, <2>4, Objects DEF p
<1>5. CASE o.kind = "Namespace" /\ Mend!Commands(rule, made) = <<"allow", "deny">>
  <2>1. Mend!Commands(rule, made)[i] \in {"allow", "deny"} BY <1>5
  <2>2. \/ p = [o EXCEPT !.policies = Mend!Applied(@, Mend!SamePods)]
        \/ p = [o EXCEPT !.policies = Mend!Applied(@, Mend!DenyAll)]
        BY <2>1, CommandResults
  <2>3. Mend!IsRecord(o, {"kind", "policies"}) BY <1>5, Objects
  <2> HIDE DEF p
  <2>4. Mend!IsRecord(p, {"kind", "policies"}) /\ p.kind = o.kind
        BY <2>2, <2>3 DEF Mend!IsRecord
  <2> QED BY <1>5, <2>4, Objects DEF p
<1> QED BY <1>1, <1>2, <1>3, <1>4, <1>5, CommandsOf

(* The object, and the one each fix at hand was made from, are what a cluster *)
(* stores, and of one kind; a fix has commands left to run.                   *)
IsFix(a) ==
    /\ a = [rule |-> a.rule, made |-> a.made, next |-> a.next]
    /\ Mend!IsObject(a.made) /\ a.made.kind = thing.kind
    /\ a.next \in 1..Len(Mend!Commands(a.rule, a.made))
MendInv ==
    /\ Mend!IsObject(thing) /\ asked \in 0..MaxFixes /\ rollouts \in 0..MaxRollouts
    /\ DOMAIN advice = Holders
    /\ \A s \in Holders : advice[s] # <<>> => advice[s] = <<advice[s][1]>> /\ IsFix(advice[s][1])

LEMMA CommandsEnd ==
    ASSUME NEW rule, NEW o
    PROVE  /\ Len(Mend!Commands(rule, o)) \in 0..2
           /\ Mend!Commands(rule, o) # <<>> => 1 \in 1..Len(Mend!Commands(rule, o))
<1>1. \/ Mend!Commands(rule, o) \in {<<>>, <<"patch">>, <<"role">>, <<"unbind">>}
      \/ Mend!Commands(rule, o) \in {<<"account", "patch">>, <<"allow", "deny">>}
      BY CommandsOf
<1> QED BY <1>1

LEMMA MendStart == Mend!RemediationBounds /\ Mend!Init => MendInv
BY DEF Mend!RemediationBounds, Mend!Init, MendInv

LEMMA MendStep == Mend!RemediationBounds /\ MendInv /\ [Mend!Next]_(Mend!vars) => MendInv'
<1> SUFFICES ASSUME Mend!RemediationBounds, MendInv, [Mend!Next]_(Mend!vars) PROVE MendInv' OBVIOUS
<1>1. CASE UNCHANGED Mend!vars BY <1>1 DEF Mend!vars, MendInv, IsFix
<1>2. ASSUME NEW s \in Holders, Mend!GetPostureRemediation(s) PROVE MendInv'
  <2>1. PICK rule \in Wanted :
              /\ Mend!Commands(rule, thing) # <<>>
              /\ advice' = [advice EXCEPT ![s] = <<[rule |-> rule, made |-> thing, next |-> 1]>>]
        BY <1>2 DEF Mend!GetPostureRemediation
  <2>2. /\ asked < MaxFixes /\ asked' = asked + 1 /\ thing' = thing /\ rollouts' = rollouts
        BY <1>2 DEF Mend!GetPostureRemediation
  <2>3. asked' \in 0..MaxFixes BY <2>2 DEF MendInv, Mend!RemediationBounds
  <2> DEFINE a == [rule |-> rule, made |-> thing, next |-> 1]
  <2>5. 1 \in 1..Len(Mend!Commands(rule, thing)) BY <2>1, CommandsEnd
  <2>6. IsFix(a) BY <2>5 DEF MendInv, IsFix
  <2>7. \A t \in Holders : t # s => advice'[t] = advice[t] BY <2>1 DEF MendInv
  <2>8. advice'[s] = <<a>> /\ DOMAIN advice' = Holders BY <2>1 DEF MendInv
  <2> HIDE DEF a
  <2>9. \A b : IsFix(b) => IsFix(b)' BY <2>2 DEF IsFix
  <2>10. ASSUME NEW t \in Holders, advice'[t] # <<>>
         PROVE  advice'[t] = <<advice'[t][1]>> /\ IsFix(advice'[t][1])
    <3>1. CASE t = s BY <2>6, <2>8, <3>1
    <3>2. CASE t # s BY <2>7, <2>10, <3>2 DEF MendInv
    <3> QED BY <3>1, <3>2
  <2> QED BY <2>2, <2>3, <2>8, <2>9, <2>10 DEF MendInv
<1>3. ASSUME NEW s \in Holders, Mend!Runs(s) PROVE MendInv'
  <2> DEFINE a == advice[s][1]
             commands == Mend!Commands(a.rule, a.made)
  <2>1. /\ advice[s] # <<>> /\ thing' = Mend!After(commands[a.next], a.rule, a.made, thing)
        /\ advice' = [advice EXCEPT ![s] =
                IF a.next = Len(commands) THEN <<>> ELSE <<[a EXCEPT !.next = @ + 1]>>]
        /\ asked' = asked /\ rollouts' = rollouts
        BY <1>3 DEF Mend!Runs
  <2>2. IsFix(a) BY <2>1 DEF MendInv
  <2>3. Mend!IsObject(thing') /\ thing'.kind = thing.kind
    <3>1. /\ Mend!IsObject(a.made) /\ Mend!IsObject(thing) /\ a.made.kind = thing.kind
          /\ a.next \in 1..Len(commands)
          BY <2>2 DEF MendInv, IsFix
    <3> QED BY <2>1, <3>1, CommandKeeps
  <2>4. \A b : IsFix(b) => IsFix(b)' BY <2>3 DEF IsFix
  <2> DEFINE b == [a EXCEPT !.next = @ + 1]
  <2>5. a.next # Len(commands) => IsFix(b)
    <3> SUFFICES ASSUME a.next # Len(commands) PROVE IsFix(b) OBVIOUS
    <3> HIDE DEF a
    <3>1. b.rule = a.rule /\ b.made = a.made /\ b.next = a.next + 1
          /\ b = [rule |-> b.rule, made |-> b.made, next |-> b.next]
          BY <2>2 DEF IsFix
    <3> HIDE DEF b
    <3>2. a.next + 1 \in 1..Len(Mend!Commands(a.rule, a.made))
          BY <2>2, CommandsEnd DEF IsFix
    <3> QED BY <2>2, <3>1, <3>2 DEF IsFix
  <2>6. \A t \in Holders : t # s => advice'[t] = advice[t] BY <2>1 DEF MendInv
  <2>7. /\ advice'[s] = IF a.next = Len(commands) THEN <<>> ELSE <<b>>
        /\ DOMAIN advice' = Holders
        BY <2>1 DEF MendInv
  <2> HIDE DEF a, b, commands
  <2>8. ASSUME NEW t \in Holders, advice'[t] # <<>>
        PROVE  advice'[t] = <<advice'[t][1]>> /\ IsFix(advice'[t][1])
    <3>1. CASE t = s BY <2>5, <2>7, <2>8, <3>1
    <3>2. CASE t # s BY <2>6, <2>8, <3>2 DEF MendInv
    <3> QED BY <3>1, <3>2
  <2> QED BY <2>1, <2>3, <2>4, <2>7, <2>8 DEF MendInv
<1>4. ASSUME NEW o \in Releases, Mend!RollsOut(o) PROVE MendInv'
  <2>1. /\ rollouts < MaxRollouts /\ o.kind = thing.kind /\ thing' = o /\ rollouts' = rollouts + 1
        /\ advice' = advice /\ asked' = asked
        BY <1>4 DEF Mend!RollsOut
  <2>2. Mend!IsObject(o) /\ rollouts' \in 0..MaxRollouts
        BY <2>1 DEF Mend!RemediationBounds, MendInv
  <2>3. \A b : IsFix(b) => IsFix(b)' BY <2>1 DEF IsFix
  <2> QED BY <2>1, <2>2, <2>3 DEF MendInv
<1> QED BY <1>1, <1>2, <1>3, <1>4 DEF Mend!Next

LEMMA MendInvariant == ASSUME Mend!RemediationBounds PROVE Mend!Spec => []MendInv
<1>1. Mend!Init => MendInv BY MendStart
<1>2. MendInv /\ [Mend!Next]_(Mend!vars) => MendInv' BY MendStep
<1> QED BY <1>1, <1>2, PTL DEF Mend!Spec

(* posture_remediation.go: a fix is of the kind of object it was made from *)
(* and has commands left to run, two at most.                              *)
THEOREM FixesTyped == ASSUME Mend!RemediationBounds PROVE Mend!Spec => []Mend!TypeOK
<1>1. MendInv => Mend!TypeOK
  <2> SUFFICES ASSUME MendInv PROVE Mend!TypeOK OBVIOUS
  <2>1. ASSUME NEW s \in Holders, advice[s] # <<>>
        PROVE  advice[s][1].made.kind = thing.kind /\ advice[s][1].next \in 1..2
    <3>1. IsFix(advice[s][1]) BY <2>1 DEF MendInv
    <3> DEFINE a == advice[s][1]
    <3>2. a.next \in 1..Len(Mend!Commands(a.rule, a.made)) /\ a.made.kind = thing.kind
          BY <3>1 DEF IsFix
    <3>3. Len(Mend!Commands(a.rule, a.made)) \in 0..2 BY CommandsEnd
    <3> DEFINE n == Len(Mend!Commands(a.rule, a.made))
               next == a.next
    <3>4. n \in 0..2 /\ next \in 1..n BY <3>2, <3>3
    <3> HIDE DEF n, next
    <3>5. next \in 1..2 BY <3>4
    <3> USE DEF next
    <3> QED BY <3>2, <3>5
  <2> QED BY <2>1 DEF MendInv, Mend!TypeOK
<1> QED BY <1>1, MendInvariant, PTL

(* The pod security page, finding by finding. *)
LEMMA FindingRules ==
    /\ Mend!RuleOf(<<"host_network", "critical">>) = "WL-002"
    /\ Mend!RuleOf(<<"host_pid", "critical">>) = "WL-004"
    /\ Mend!RuleOf(<<"host_ipc", "critical">>) = "WL-005"
    /\ Mend!RuleOf(<<"host_path", "critical">>) = "WL-006"
    /\ Mend!RuleOf(<<"host_path", "warning">>) = "WL-008"
    /\ Mend!RuleOf(<<"token_mounted", "info">>) = "WL-016"
    /\ Mend!RuleOf(<<"privileged", "critical">>) = "WL-001"
    /\ Mend!RuleOf(<<"run_as_root", "warning">>) = "WL-010"
    /\ Mend!RuleOf(<<"privilege_escalation", "warning">>) = "WL-003"
    /\ Mend!RuleOf(<<"capability", "critical">>) = "WL-007"
    /\ Mend!RuleOf(<<"writable_root", "info">>) = "WL-011"
    /\ Mend!RuleOf(<<"mutable_tag", "warning">>) = "WL-014"
    /\ Mend!RuleOf(<<"secret_in_env", "info">>) = "SEC-001"
<1>1. Mend!RuleOf(<<"host_network", "critical">>) = "WL-002" BY DEF Mend!RuleOf
<1>2. Mend!RuleOf(<<"host_pid", "critical">>) = "WL-004" BY DEF Mend!RuleOf
<1>3. Mend!RuleOf(<<"host_ipc", "critical">>) = "WL-005" BY DEF Mend!RuleOf
<1>4. Mend!RuleOf(<<"host_path", "critical">>) = "WL-006" BY DEF Mend!RuleOf
<1>5. Mend!RuleOf(<<"host_path", "warning">>) = "WL-008" BY DEF Mend!RuleOf
<1>6. Mend!RuleOf(<<"token_mounted", "info">>) = "WL-016" BY DEF Mend!RuleOf
<1>7. Mend!RuleOf(<<"privileged", "critical">>) = "WL-001" BY DEF Mend!RuleOf
<1>8. Mend!RuleOf(<<"run_as_root", "warning">>) = "WL-010" BY DEF Mend!RuleOf
<1>9. Mend!RuleOf(<<"privilege_escalation", "warning">>) = "WL-003" BY DEF Mend!RuleOf
<1>10. Mend!RuleOf(<<"capability", "critical">>) = "WL-007" BY DEF Mend!RuleOf
<1>11. Mend!RuleOf(<<"writable_root", "info">>) = "WL-011" BY DEF Mend!RuleOf
<1>12. Mend!RuleOf(<<"mutable_tag", "warning">>) = "WL-014" BY DEF Mend!RuleOf
<1>13. Mend!RuleOf(<<"secret_in_env", "info">>) = "SEC-001" BY DEF Mend!RuleOf
<1> QED BY <1>1, <1>2, <1>3, <1>4, <1>5, <1>6, <1>7, <1>8, <1>9, <1>10, <1>11, <1>12, <1>13

LEMMA PodAgrees ==
    ASSUME NEW w, NEW as, Mend!IsWorkload(w), NEW f \in Mend!PodFindings(w)
    PROVE  \/ FailsByPod(Mend!RuleOf(f), w, as)
           \/ f[1] = "token_mounted" /\ w.automount = "unset"
<1> USE FindingRules
<1>1. CASE f = <<"host_network", "critical">> /\ w.hostNetwork BY <1>1 DEF FailsByPod
<1>2. CASE f = <<"host_pid", "critical">> /\ w.hostPID BY <1>2 DEF FailsByPod
<1>3. CASE f = <<"host_ipc", "critical">> /\ w.hostIPC BY <1>3 DEF FailsByPod
<1>4. CASE f = <<"host_path", "critical">> /\ Mend!SensitivePath(w) BY <1>4 DEF FailsByPod
<1>5. CASE f = <<"host_path", "warning">> /\ w.hostPaths # {} BY <1>5 DEF FailsByPod
<1>6. CASE f = <<"token_mounted", "info">> /\ w.automount # "false"
  <2>1. w.automount \in {"unset", "true", "false"} BY Zenon DEF Mend!IsWorkload
  <2>2. w.automount = "true" => Mend!automountsToken(w, as) BY Zenon DEF Mend!automountsToken, Mend!Or
  <2> QED BY <1>6, <2>1, <2>2 DEF FailsByPod
<1>7. \/ f = <<"host_network", "critical">> /\ w.hostNetwork
      \/ f = <<"host_pid", "critical">> /\ w.hostPID
      \/ f = <<"host_ipc", "critical">> /\ w.hostIPC
      \/ f = <<"host_path", "critical">> /\ Mend!SensitivePath(w)
      \/ f = <<"host_path", "warning">> /\ w.hostPaths # {}
      \/ f = <<"token_mounted", "info">> /\ w.automount # "false"
  <2>1. CASE f \in {<<"host_path", IF p.tidy /\ p.parts \in Mend!sensitiveHostPaths
                                  THEN "critical" ELSE "warning">> : p \in w.hostPaths}
    <3>1. PICK p \in w.hostPaths : f = <<"host_path", IF p.tidy /\ p.parts \in Mend!sensitiveHostPaths
                                                     THEN "critical" ELSE "warning">>
          BY <2>1
    <3>2. p.parts \in Mend!sensitiveHostPaths => Mend!SensitivePath(w)
          BY Zenon DEF Mend!SensitivePath, Mend!sensitiveHostPath
    <3> QED BY <3>1, <3>2
  <2>2. CASE f \in {g \in {<<"host_network", "critical">>, <<"host_pid", "critical">>,
                          <<"host_ipc", "critical">>} :
                      CASE g[1] = "host_network" -> w.hostNetwork [] g[1] = "host_pid" -> w.hostPID
                        [] OTHER -> w.hostIPC}
        BY <2>2
  <2>3. CASE f \in IF w.automount # "false" THEN {<<"token_mounted", "info">>} ELSE {}
        BY <2>3
  <2> QED BY <2>1, <2>2, <2>3 DEF Mend!PodFindings
<1> QED BY <1>1, <1>2, <1>3, <1>4, <1>5, <1>6, <1>7

LEMMA ContainerAgrees ==
    ASSUME NEW w, NEW c \in w.containers, NEW f \in Mend!ContainerFindings(w, c)
    PROVE  \/ f[1] = "fetches_at_start"
           \/ FailsByContext(Mend!RuleOf(f), w) \/ FailsByContainer(Mend!RuleOf(f), w)
<1> USE FindingRules
<1>1. CASE f = <<"privileged", "critical">> /\ c.privileged = "true"
  <2>1. Mend!Privileged(w) BY <1>1 DEF Mend!Privileged, Mend!eachContainer
  <2> QED BY <1>1, <2>1 DEF FailsByContext
<1>2. CASE f = <<"run_as_root", "warning">> /\ Mend!MayBeRoot(w, c)
  <2>1. Mend!RunsAsRoot(w)
        BY <1>2 DEF Mend!RunsAsRoot, Mend!eachContainer, Mend!MayBeRoot, Mend!Uid, Mend!NonRoot, Mend!Or
  <2> QED BY <1>2, <2>1 DEF FailsByContext
<1>3. CASE f = <<"privilege_escalation", "warning">> /\ c.escalation = "true"
  <2>1. Mend!Escalates(w) BY <1>3 DEF Mend!Escalates, Mend!eachContainer
  <2> QED BY <1>3, <2>1 DEF FailsByContext
<1>4. CASE f = <<"capability", "critical">> /\ c.add \cap Mend!dangerousCapabilities # {}
  <2>1. PICK x \in c.add : x \in Mend!dangerousCapabilities BY <1>4
  <2>2. x \notin {"all", "CAP_ALL", "CAP_SYS_ADMIN", "cap_net_raw"} BY <2>1 DEF Mend!dangerousCapabilities
  <2>3. Mend!CapName(x) = x BY <2>2 DEF Mend!CapName
  <2>4. Mend!CapNames(c.add) \cap (Mend!dangerousCapabilities \cup {"ALL"}) # {}
        BY <2>1, <2>3 DEF Mend!CapNames
  <2>5. Mend!DangerousCaps(w) BY <2>4 DEF Mend!DangerousCaps, Mend!eachContainer
  <2> QED BY <1>4, <2>5 DEF FailsByContext
<1>5. CASE f = <<"writable_root", "info">> /\ c.readOnly # "true"
  <2>1. Mend!WritableRoot(w) BY <1>5 DEF Mend!WritableRoot, Mend!eachContainer
  <2> QED BY <1>5, <2>1 DEF FailsByContext
<1>6. CASE f = <<"mutable_tag", "warning">> /\ Mend!imageUnpinned(c.image)
  <2>1. Mend!MovingTag(w) BY <1>6 DEF Mend!MovingTag, Mend!eachContainer
  <2> QED BY <1>6, <2>1 DEF FailsByContainer
<1>7. CASE f = <<"secret_in_env", "info">> /\ c.env # {}
  <2>1. Mend!SecretsInEnv(w) BY <1>7 DEF Mend!SecretsInEnv, Mend!eachContainer
  <2> QED BY <1>7, <2>1 DEF FailsByContainer
<1>8. CASE f = <<"fetches_at_start", "warning">> BY <1>8
<1>9. Mend!mutableTag(c.image) => Mend!imageUnpinned(c.image)
      BY Zenon DEF Mend!imageUnpinned, Mend!mutableTag
<1>10. \/ f = <<"privileged", "critical">> /\ c.privileged = "true"
       \/ f = <<"run_as_root", "warning">> /\ Mend!MayBeRoot(w, c)
       \/ f = <<"privilege_escalation", "warning">> /\ c.escalation = "true"
       \/ f = <<"capability", "critical">> /\ c.add \cap Mend!dangerousCapabilities # {}
       \/ f = <<"writable_root", "info">> /\ c.readOnly # "true"
       \/ f = <<"mutable_tag", "warning">> /\ Mend!imageUnpinned(c.image)
       \/ f = <<"secret_in_env", "info">> /\ c.env # {}
       \/ f = <<"fetches_at_start", "warning">>
       BY <1>9 DEF Mend!ContainerFindings
<1> QED BY <1>1, <1>2, <1>3, <1>4, <1>5, <1>6, <1>7, <1>8, <1>10

(* pod_security.go and posture.go: the two pages that read a pod spec do not *)
(* contradict each other, about any workload and whatever was done to it.    *)
THEOREM PagesOfAPodAgree == ASSUME Mend!RemediationBounds PROVE Mend!Spec => []Mend!PagesAgree
<1>1. MendInv => Mend!PagesAgree
  <2> SUFFICES ASSUME MendInv, thing.kind \in Mend!WorkloadKinds,
                      ~Mend!postureNamespaceExcluded(thing.ns),
                      NEW f \in Mend!inspectPodSecurity(thing), f[1] # "fetches_at_start",
                      ~(f[1] = "token_mounted" /\ thing.automount = "unset")
               PROVE  Mend!RuleOf(f) \in Mend!WorkloadRules(thing, tokens)
      BY Zenon DEF Mend!PagesAgree, Mend!PagesAgreeOn
  <2>1. Mend!IsWorkload(thing) BY Objects DEF MendInv
  <2>2. \/ FailsByPod(Mend!RuleOf(f), thing, tokens) \/ FailsByContext(Mend!RuleOf(f), thing)
        \/ FailsByContainer(Mend!RuleOf(f), thing)
    <3>1. CASE f \in Mend!PodFindings(thing) BY <2>1, <3>1, PodAgrees
    <3>2. CASE \E c \in thing.containers : f \in Mend!ContainerFindings(thing, c)
          BY <3>2, ContainerAgrees
    <3> QED BY <3>1, <3>2, Zenon DEF Mend!inspectPodSecurity
  <2> QED BY <2>2, RulesFailed
<1> QED BY <1>1, MendInvariant, PTL

(* The last command of a fix, on an object of each kind. *)
LEMMA WorkloadFixed ==
    ASSUME MendInv, NEW s \in Holders, advice[s] # <<>>, Mend!Runs(s), advice'[s] = <<>>,
           thing.kind \in Mend!WorkloadKinds
    PROVE  Mend!FixHolds(s)
<1> DEFINE a == advice[s][1]
           commands == Mend!Commands(a.rule, a.made)
           expected == IF a.next = 1 THEN a.made ELSE Mend!After(commands[1], a.rule, a.made, a.made)
           p == Mend!Patched(a.rule, a.made, thing)
           new == Mend!WorkloadRules(thing', tokens) \ Mend!WorkloadRules(thing, tokens)
<1>1. /\ thing' = Mend!After(commands[a.next], a.rule, a.made, thing)
      /\ tokens' = IF commands[a.next] = "account" /\ a.made.name \notin DOMAIN tokens
                   THEN [n \in DOMAIN tokens \cup {a.made.name} |->
                            IF n = a.made.name THEN "unset" ELSE tokens[n]]
                   ELSE tokens
      /\ advice' = [advice EXCEPT ![s] =
                IF a.next = Len(commands) THEN <<>> ELSE <<[a EXCEPT !.next = @ + 1]>>]
      BY DEF Mend!Runs
<1>2. IsFix(a) /\ DOMAIN advice = Holders /\ Mend!IsObject(thing) BY DEF MendInv
<1>3. a.next = Len(commands) BY <1>1, <1>2
<1>4. /\ a.rule \in Mend!Fixable /\ a.made.kind = thing.kind
      /\ Mend!IsWorkload(a.made) /\ Mend!IsWorkload(thing)
      /\ commands = <<"patch">> \/ commands = <<"account", "patch">>
  <2>1. commands # <<>> BY <1>2 DEF IsFix
  <2> QED BY <1>2, <2>1, CommandsOf, KindsApart, Objects DEF IsFix
<1>6. commands[a.next] = "patch" /\ (a.next = 1 \/ commands[1] = "account")
  <2> HIDE DEF a, commands
  <2>1. CASE commands = <<"patch">> BY <1>3, <2>1
  <2>2. CASE commands = <<"account", "patch">> BY <1>3, <2>2
  <2> QED BY <1>4, <2>1, <2>2
<1>7. tokens' = tokens BY <1>1, <1>6
<1>8. expected = a.made BY <1>6, CommandResults
<1>9. thing' = IF Mend!Accepted(a.rule, a.made, thing) THEN p ELSE thing
      BY <1>1, <1>6, CommandResults
<1>10. thing'.kind = thing.kind
  <2>1. SaferWorkload(p, thing) BY <1>4, PatchedSafely
  <2> HIDE DEF p, a
  <2> QED BY <1>9, <2>1 DEF SaferWorkload
<1>11. /\ Mend!FailedRules(thing, tokens) = Mend!WorkloadRules(thing, tokens)
       /\ Mend!FailedRules(thing', tokens') = Mend!WorkloadRules(thing', tokens)
       BY <1>7, <1>10, Objects
<1> HIDE DEF a, commands
<1>12. /\ new \subseteq Mend!CapabilityRules \cup {"WL-016", "WL-018"}
       /\ a.rule # "WL-018" => new \subseteq Mend!CapabilityRules
       /\ a.made.name # "default" => "WL-018" \notin new
       /\ a.made = thing => new \subseteq {"WL-016", "WL-018"}
       /\ Mend!DefaultAccount(thing) => "WL-018" \notin new
  <2>1. CASE thing' = thing BY <2>1
  <2>2. CASE thing' = p BY <1>4, <2>2, PatchBreaks
  <2> QED BY <1>9, <2>1, <2>2
<1>13. new \subseteq Mend!CapabilityRules \cup Mend!AccountRules(a)
       BY <1>4, <1>12 DEF Mend!AccountRules
<1>14. thing = a.made => new \subseteq Mend!AccountRules(a)
       BY <1>4, <1>12 DEF Mend!AccountRules, Mend!CapabilityRules
<1>15. thing = a.made =>
          \/ ~Mend!Verified(a.rule, a.made) \/ a.rule \notin Mend!WorkloadRules(thing', tokens)
          \/ ~Mend!Accepted(a.rule, a.made, thing)
          \/ a.rule = "WL-015" /\ Mend!PortTwice(thing)
  <2> SUFFICES ASSUME thing = a.made, Mend!Verified(a.rule, a.made), Mend!Accepted(a.rule, a.made, thing),
                      a.rule # "WL-015" \/ ~Mend!PortTwice(thing)
               PROVE  a.rule \notin Mend!WorkloadRules(thing', tokens)
      OBVIOUS
  <2>1. a.rule \notin Mend!WorkloadRules(Mend!FixedCopy(a.rule, thing), <<>>)
        BY KindsApart, Zenon DEF Mend!Verified
  <2> QED BY <1>4, <1>9, <2>1, PatchMends
<1>16. thing.kind \notin Mend!RoleKinds BY KindsApart
<1> HIDE DEF new, p, expected
<1>17. Mend!FixHolds(s) <=>
          IF thing = expected
          THEN /\ \/ ~Mend!Verified(a.rule, a.made) \/ a.rule \notin Mend!FailedRules(thing', tokens')
                  \/ thing.kind \in Mend!WorkloadKinds /\ ~Mend!Accepted(a.rule, a.made, thing)
                  \/ thing.kind \in Mend!WorkloadKinds /\ a.rule = "WL-015" /\ Mend!PortTwice(thing)
               /\ Mend!FailedRules(thing', tokens') \ Mend!FailedRules(thing, tokens)
                     \subseteq Mend!AccountRules(a)
               /\ thing.kind \in Mend!RoleKinds => Mend!NarrowsOnly(a.rule, thing.rules, thing'.rules)
          ELSE \/ thing.kind \in Mend!RoleKinds
               \/ Mend!FailedRules(thing', tokens') \ Mend!FailedRules(thing, tokens)
                     \subseteq Mend!CapabilityRules \cup Mend!AccountRules(a)
       BY Zenon DEF Mend!FixHolds, a, commands, expected
<1> QED BY <1>8, <1>11, <1>13, <1>14, <1>15, <1>16, <1>17 DEF new

LEMMA RoleFixed ==
    ASSUME MendInv, NEW s \in Holders, advice[s] # <<>>, Mend!Runs(s), advice'[s] = <<>>,
           thing.kind \in Mend!RoleKinds
    PROVE  Mend!FixHolds(s)
<1> DEFINE a == advice[s][1]
           commands == Mend!Commands(a.rule, a.made)
           expected == IF a.next = 1 THEN a.made ELSE Mend!After(commands[1], a.rule, a.made, a.made)
           narrow == Mend!narrowRoleRules(a.rule, a.made.rules)
<1>1. thing' = Mend!After(commands[a.next], a.rule, a.made, thing) BY DEF Mend!Runs
<1>2. IsFix(a) /\ Mend!IsObject(thing) BY DEF MendInv
<1>3. commands = <<"role">> /\ a.next = 1 /\ a.made.kind = thing.kind
  <2>1. commands # <<>> BY <1>2 DEF IsFix
  <2>2. commands = <<"role">> BY <1>2, <2>1, CommandsOf, KindsApart DEF IsFix
  <2> QED BY <1>2, <2>2 DEF IsFix
<1>4. expected = a.made BY <1>3
<1>5. \A r \in a.made.rules : Mend!IsRule(r) BY <1>2, <1>3, Objects DEF IsFix
<1>6. thing' = [thing EXCEPT !.rules = narrow] BY <1>1, <1>3, CommandResults
<1>7. Mend!IsRecord(thing, {"kind", "rules", "aggregated"}) BY <1>2, Objects
<1>8. thing'.kind = thing.kind /\ thing'.rules = narrow BY <1>6, <1>7 DEF Mend!IsRecord
<1>9. /\ Mend!FailedRules(thing, tokens) = Mend!RoleRules(thing.rules)
      /\ Mend!FailedRules(thing', tokens') = Mend!RoleRules(narrow)
      BY <1>8, Objects
<1> HIDE DEF a, commands, narrow
<1>10. thing = a.made => Mend!RoleRules(narrow) \subseteq Mend!RoleRules(thing.rules)
       BY <1>5, NarrowedPasses DEF narrow
<1>11. ~Mend!Verified(a.rule, a.made) \/ a.rule \notin Mend!RoleRules(narrow)
  <2>1. a.made.kind \in Mend!RoleKinds /\ a.made.kind \notin Mend!WorkloadKinds BY <1>3, KindsApart
  <2> QED BY <2>1, Zenon DEF Mend!Verified, Mend!passes, narrow
<1>12. thing = a.made => Mend!NarrowsOnly(a.rule, thing.rules, thing'.rules)
  <2> SUFFICES ASSUME thing = a.made, NEW d
               PROVE  /\ Mend!Allows(narrow, d) =>
                            Mend!Allows(thing.rules, d) \/ (d.url \in Mend!discoveryURL /\ d.verb = "get")
                      /\ Mend!Allows(thing.rules, d) /\ ~Mend!Allows(narrow, d) =>
                            Mend!ObjectsTo(a.rule, thing.rules, d) \/ d.verb \notin Mend!expandableVerbs
      BY <1>8, Zenon DEF Mend!NarrowsOnly
  <2> QED BY <1>5, NarrowingAllows, NarrowingLoses DEF narrow
<1> HIDE DEF expected
<1>13. Mend!FixHolds(s) <=>
          IF thing = expected
          THEN /\ \/ ~Mend!Verified(a.rule, a.made) \/ a.rule \notin Mend!FailedRules(thing', tokens')
                  \/ thing.kind \in Mend!WorkloadKinds /\ ~Mend!Accepted(a.rule, a.made, thing)
                  \/ thing.kind \in Mend!WorkloadKinds /\ a.rule = "WL-015" /\ Mend!PortTwice(thing)
               /\ Mend!FailedRules(thing', tokens') \ Mend!FailedRules(thing, tokens)
                     \subseteq Mend!AccountRules(a)
               /\ thing.kind \in Mend!RoleKinds => Mend!NarrowsOnly(a.rule, thing.rules, thing'.rules)
          ELSE \/ thing.kind \in Mend!RoleKinds
               \/ Mend!FailedRules(thing', tokens') \ Mend!FailedRules(thing, tokens)
                     \subseteq Mend!CapabilityRules \cup Mend!AccountRules(a)
       BY Zenon DEF Mend!FixHolds, a, commands, expected
<1> QED BY <1>4, <1>9, <1>10, <1>11, <1>12, <1>13

(* A binding is gone, and a namespace denies what is not allowed. *)
LEMMA OtherFixed ==
    ASSUME MendInv, NEW s \in Holders, advice[s] # <<>>, Mend!Runs(s), advice'[s] = <<>>,
           thing.kind \notin Mend!WorkloadKinds \cup Mend!RoleKinds
    PROVE  Mend!FixHolds(s)
<1> DEFINE a == advice[s][1]
           commands == Mend!Commands(a.rule, a.made)
<1>1. /\ thing' = Mend!After(commands[a.next], a.rule, a.made, thing)
      /\ advice' = [advice EXCEPT ![s] =
                IF a.next = Len(commands) THEN <<>> ELSE <<[a EXCEPT !.next = @ + 1]>>]
      BY DEF Mend!Runs
<1>2. IsFix(a) /\ DOMAIN advice = Holders /\ Mend!IsObject(thing) BY DEF MendInv
<1>3. a.next = Len(commands) BY <1>1, <1>2
<1>4. /\ a.made.kind = thing.kind
      /\ \/ thing.kind = "RoleBinding" /\ commands = <<"unbind">>
         \/ thing.kind = "Namespace" /\ commands = <<"allow", "deny">>
  <2>1. commands # <<>> BY <1>2 DEF IsFix
  <2> QED BY <1>2, <2>1, CommandsOf DEF IsFix
<1> HIDE DEF a, commands
<1>5. Mend!FailedRules(thing', tokens') = {}
  <2>1. CASE thing.kind = "RoleBinding" /\ commands = <<"unbind">>
    <3>1. commands[a.next] = "unbind" BY <1>3, <2>1
    <3>2. thing' = [thing EXCEPT !.present = FALSE]
      <4>1. Mend!After("unbind", a.rule, a.made, thing) = [thing EXCEPT !.present = FALSE]
            BY Zenon DEF Mend!After
      <4> QED BY <1>1, <3>1, <4>1, Zenon
    <3>3. Mend!IsRecord(thing, {"kind", "present", "role", "subjects"}) BY <1>2, <2>1, Objects
    <3>4. thing'.kind = "RoleBinding" /\ ~thing'.present BY <2>1, <3>2, <3>3 DEF Mend!IsRecord
    <3> QED BY <3>4, Objects
  <2>2. CASE thing.kind = "Namespace" /\ commands = <<"allow", "deny">>
    <3>1. commands[a.next] = "deny" BY <1>3, <2>2
    <3>2. thing' = [thing EXCEPT !.policies = Mend!Applied(@, Mend!DenyAll)]
          BY <1>1, <3>1, CommandResults
    <3>3. Mend!IsRecord(thing, {"kind", "policies"}) BY <1>2, <2>2, Objects
    <3>4. thing'.kind = "Namespace" /\ thing'.policies = Mend!Applied(thing.policies, Mend!DenyAll)
          BY <2>2, <3>2, <3>3 DEF Mend!IsRecord
    <3>5. Mend!DenyAll \in thing'.policies BY <3>4 DEF Mend!Applied
    <3>6. Mend!isDefaultDenyIngress(Mend!DenyAll) BY DEF Mend!isDefaultDenyIngress, Mend!DenyAll
    <3>7. Mend!NamespaceRules(thing'.policies) = {}
          BY <3>5, <3>6 DEF Mend!NamespaceRules, Mend!Fail
    <3> QED BY <3>4, <3>7, Objects
  <2> QED BY <1>4, <2>1, <2>2
<1> QED BY <1>5 DEF Mend!FixHolds, a

(* posture_remediation.go: a fix somebody runs, at once or after others and over *)
(* whatever version of the object is there by then, does what FixHolds says, for *)
(* any object a cluster stores.                                                  *)
THEOREM FixesAreFixes == ASSUME Mend!RemediationBounds PROVE Mend!Spec => Mend!FixesStand
<1>1. Mend!Init => MendInv BY MendStart
<1>2. MendInv /\ [Mend!Next]_(Mend!vars) => MendInv' BY MendStep
<1>3. MendInv /\ [Mend!Next]_(Mend!vars) => [Mend!FixesHold]_(Mend!vars)
  <2> SUFFICES ASSUME MendInv, [Mend!Next]_(Mend!vars), NEW s \in Holders,
                      advice[s] # <<>>, advice'[s] = <<>>
               PROVE  Mend!FixHolds(s)
      BY DEF Mend!FixesHold
  <2>1. Mend!Runs(s)
    <3>1. CASE UNCHANGED Mend!vars BY <3>1 DEF Mend!vars
    <3>2. ASSUME NEW t \in Holders, Mend!GetPostureRemediation(t) PROVE FALSE
          BY <3>2 DEF Mend!GetPostureRemediation, MendInv
    <3>3. ASSUME NEW t \in Holders, Mend!Runs(t) PROVE t = s
          BY <3>3 DEF Mend!Runs, MendInv
    <3>4. ASSUME NEW o \in Releases, Mend!RollsOut(o) PROVE FALSE BY <3>4 DEF Mend!RollsOut
    <3> QED BY <3>1, <3>2, <3>3, <3>4 DEF Mend!Next
  <2> QED BY <2>1, WorkloadFixed, RoleFixed, OtherFixed
<1> QED BY <1>1, <1>2, <1>3, PTL DEF Mend!Spec, Mend!FixesStand
=============================================================================
