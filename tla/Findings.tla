------------------------------ MODULE Findings ------------------------------
(***************************************************************************)
(* The findings of one repository: backend/handlers/scan_findings.go, with *)
(* the passes that fill the table (runScan and runImageOnlyScan in scan.go)*)
(* and the points they leave in the history (scan_history.go).             *)
(*                                                                         *)
(* A pass looks at the world, brings the rows in step with what it saw in  *)
(* one transaction per domain, and writes the row that the dashboards      *)
(* read.  People decide that a finding does not count, and the counts are  *)
(* taken again from the rows.  Two workers can scan one repository at once *)
(* (ScanQueue), and none of these operations locks another out.            *)
(*                                                                         *)
(* A count is kept as the set of findings it counts: the code has numbers  *)
(* by severity, and two sets of the same size would look the same to it.   *)
(* Reads that follow each other with no write between are one step.        *)
(***************************************************************************)
EXTENDS Naturals

CONSTANTS
    Code,        \* identities Trivy finds in a checkout: packages, secrets
    Weak,        \* identities that static analysis finds: weaknesses
    Image,       \* identities found in the container image
    Worker,      \* the workers that scan
    Person,      \* the people who decide about findings
    Backfill,    \* the goroutine that runs BackfillScanFindings
    FirstWorlds, \* what a scanner may report at the start
    MaxTime,     \* bound: the clock
    MaxChange,   \* bound: changes of the world, lapses and restarts
    MaxScan      \* bound: passes and decisions begun

Ids == Code \cup Weak \cup Image
\* The domains of the rows.
CodeDomain == Code \cup Weak
Actor == Worker \cup Person \cup {Backfill}

ASSUME FindingsAssumption ==
    /\ Code \cap Weak = {} /\ CodeDomain \cap Image = {}
    /\ Worker \cap Person = {} /\ Backfill \notin Worker \cup Person
    /\ FirstWorlds \subseteq SUBSET Ids
    /\ MaxTime \in Nat \ {0} /\ MaxChange \in Nat /\ MaxScan \in Nat

VARIABLES
    clock,       \* the time
    world,       \* what a scanner would report now
    open,        \* the rows with no resolved_at
    first,       \* first[i]: first_seen of the row of i, 0 if there is none
    decided,     \* decided[i]: how many suppressions of i are in force
    result,      \* the ScanResult row
    history,     \* the newest point of the history
    op,          \* op[a]: the operation of actor a
    gone,        \* open findings that have been absent since they were opened
    countsOff,   \* the counts may disagree with the rows, see below
    historyOff,  \* the history may disagree with the counts, see below
    changes,     \* how much of MaxChange has been used
    begun        \* how much of MaxScan has been used

vars == <<clock, world, open, first, decided, result, history, op, gone, countsOff,
          historyOff, changes, begun>>
rows == <<open, first, gone>>
stored == <<result, history>>
env == <<clock, world, changes>>

\* No row: the repository was never scanned.
NoResult == [scanned |-> FALSE]
NoPoint == [code |-> {}, image |-> {}]

Result == [scanned : {TRUE}, code : SUBSET CodeDomain, image : SUBSET Image,
           hidden : SUBSET Ids, report : SUBSET (Code \cup Image), updated : 1..MaxTime]

\* An actor with nothing to do.
Idle == [pc |-> "idle", pass |-> "none", found |-> {}, looked |-> {}, at |-> 0,
         hide |-> {}, code |-> {}, image |-> {}, hidden |-> {}, copy |-> NoResult,
         lone |-> TRUE]

Operation ==
    [pc : {"idle", "boot", "check", "image", "reconcile", "weak", "reconcileImage", "read",
           "save", "point", "create", "recount", "counted"},
     pass : {"none", "full", "image", "decision", "backfill"},
     found : SUBSET Ids, looked : SUBSET Ids, at : 0..MaxTime, hide : SUBSET Ids,
     code : SUBSET CodeDomain, image : SUBSET Image, hidden : SUBSET Ids,
     copy : Result \cup {NoResult}, lone : BOOLEAN]

\* The suppressions that apply: activeSuppressions.
InForce == {i \in Ids : decided[i] > 0}

Busy(a) == op[a].pc \notin {"idle", "boot"}
Quiet == \A a \in Actor : ~Busy(a)

(* The rows, the counts and the operations are well formed. *)
TypeOK ==
    /\ clock \in 1..MaxTime /\ world \subseteq Ids
    /\ open \subseteq Ids /\ first \in [Ids -> 0..MaxTime]
    /\ decided \in [Ids -> Nat]
    /\ result \in Result \cup {NoResult}
    /\ history \in [code : SUBSET CodeDomain, image : SUBSET Image]
    /\ op \in [Actor -> Operation]
    /\ gone \subseteq open
    /\ countsOff \in BOOLEAN /\ historyOff \in BOOLEAN
    /\ changes \in 0..MaxChange /\ begun \in 0..MaxScan

\* The database when the process starts: of a repository never scanned, or of
\* one scanned by a version that kept the report and had no rows.
Init ==
    /\ clock = 1 /\ world \in FirstWorlds
    /\ open = {} /\ gone = {} /\ first = [i \in Ids |-> 0]
    /\ decided = [i \in Ids |-> 0]
    /\ \/ result = NoResult /\ history = NoPoint
       \/ \E seen \in FirstWorlds :
           LET r == seen \ Weak IN
             /\ result = [scanned |-> TRUE, code |-> r \cap Code, image |-> r \cap Image,
                          hidden |-> {}, report |-> r, updated |-> 1]
             /\ history = [code |-> r \cap Code, image |-> r \cap Image]
    /\ op = [a \in Actor |-> IF a = Backfill THEN [Idle EXCEPT !.pc = "boot"] ELSE Idle]
    /\ countsOff = result.scanned /\ historyOff = FALSE
    /\ changes = 0 /\ begun = 0

-----------------------------------------------------------------------------
(* What the properties need to know of a history.  An operation is lone if *)
(* no other was under way at any moment of it.  countsOff says that the    *)
(* counts may lag behind the rows: operations overlapped, a restart or a   *)
(* failure cut one short, an image could not be scanned or a suppression   *)
(* ran out.  An operation that ran alone and took every count afresh       *)
(* clears it.                                                              *)

\* What is under way is no longer lone.
Disturbed == [a \in Actor |-> IF Busy(a) THEN [op[a] EXCEPT !.lone = FALSE] ELSE op[a]]

\* Actor a begins an operation with the record o.
Begin(a, o) ==
    IF \E b \in Actor \ {a} : Busy(b)
    THEN /\ op' = [Disturbed EXCEPT ![a] = [o EXCEPT !.lone = FALSE]]
         /\ countsOff' = TRUE /\ historyOff' = TRUE
    ELSE /\ op' = [op EXCEPT ![a] = o]
         /\ UNCHANGED <<countsOff, historyOff>>

Finish(a) == op' = [op EXCEPT ![a] = Idle]

Goes(a, pc) == op' = [op EXCEPT ![a].pc = pc]

-----------------------------------------------------------------------------
(* The world around.                                                       *)

Happens == changes < MaxChange /\ changes' = changes + 1
Spends == begun < MaxScan /\ begun' = begun + 1

Tick ==
    /\ clock < MaxTime /\ clock' = clock + 1
    /\ UNCHANGED <<world, rows, decided, stored, op, countsOff, historyOff, changes, begun>>

\* A problem appears, or is fixed.
WorldChanges(i) ==
    /\ Happens
    /\ world' = IF i \in world THEN world \ {i} ELSE world \cup {i}
    /\ gone' = IF i \in world /\ i \in open THEN gone \cup {i} ELSE gone
    /\ UNCHANGED <<clock, open, first, decided, stored, op, countsOff, historyOff, begun>>

\* A suppression reaches its date.  The row stays, and applies no more;
\* nothing takes the counts again until the next scan.
Lapses(i) ==
    /\ Happens
    /\ decided[i] > 0 /\ decided' = [decided EXCEPT ![i] = @ - 1]
    /\ op' = Disturbed /\ countsOff' = TRUE
    /\ UNCHANGED <<clock, world, rows, stored, historyOff, begun>>

\* The process ends, with every operation, and starts again:
\* ReconcileScanHistory gives the history a point where it disagrees with
\* the counts, and the backfill is started.
Restart ==
    /\ Happens
    /\ op' = [a \in Actor |-> IF a = Backfill THEN [Idle EXCEPT !.pc = "boot"] ELSE Idle]
    /\ history' = IF result.scanned THEN [code |-> result.code, image |-> result.image]
                  ELSE history
    /\ countsOff' = (countsOff \/ ~Quiet)
    /\ historyOff' = FALSE
    /\ UNCHANGED <<clock, world, rows, decided, result, begun>>

-----------------------------------------------------------------------------
(* The passes.                                                             *)

\* runScan clones the code and runs Trivy and the static analysis, which may
\* fail.  An image pass of a repository with no result is a full one.
StartFull(w, sast) ==
    /\ op[w].pc = "idle" /\ Spends
    /\ LET kinds == IF sast THEN CodeDomain ELSE Code
       IN  Begin(w, [Idle EXCEPT !.pc = "image", !.pass = "full",
                                 !.found = world \cap kinds, !.looked = kinds])
    /\ UNCHANGED <<env, rows, decided, stored>>

\* runImageOnlyScan reads the row it will write back when it is done.
StartImage(w) ==
    /\ op[w].pc = "idle" /\ Spends
    /\ result.scanned
    /\ Begin(w, [Idle EXCEPT !.pc = "image", !.pass = "image", !.copy = result])
    /\ UNCHANGED <<env, rows, decided, stored>>

\* The image is scanned; then the time and the suppressions are read.
ScanImage(w) ==
    /\ op[w].pc = "image"
    /\ op' = [op EXCEPT ![w].found = @ \cup (world \cap Image),
                        ![w].looked = @ \cup Image,
                        ![w].at = clock, ![w].hide = InForce,
                        ![w].pc = IF op[w].pass = "full" THEN "reconcile"
                                  ELSE "reconcileImage"]
    /\ UNCHANGED <<env, rows, decided, stored, countsOff, historyOff, begun>>

\* The image of a full pass cannot be scanned: the code is recorded alone.
SkipImage(w) ==
    /\ op[w].pc = "image" /\ op[w].pass = "full"
    /\ op' = [op EXCEPT ![w].at = clock, ![w].hide = InForce, ![w].pc = "reconcile"]
    /\ UNCHANGED <<env, rows, decided, stored, countsOff, historyOff, begun>>

\* An image pass that cannot scan stores its error: it saves the row as it
\* was when the pass began.
ImageFails(w) ==
    /\ op[w].pc = "image" /\ op[w].pass = "image"
    /\ result' = [op[w].copy EXCEPT !.updated = clock]
    /\ Finish(w)
    /\ UNCHANGED <<env, rows, decided, history, countsOff, historyOff, begun>>

\* Closes what no pass looked for: a mutation of ReconcileFindings.
ReconcileEverything(o, domain) ==
    LET found == o.found \cap domain
    IN  /\ open' = (open \ domain) \cup found
        /\ first' = [i \in Ids |-> IF i \in found \ open THEN o.at ELSE first[i]]
        /\ gone' = (gone \cap open') \cup ((found \ open) \ world)

\* Dates anew what was open already: a mutation of ReconcileFindings.
ReconcileRedating(o, domain) ==
    LET found == o.found \cap domain
        kept == open \ (domain \cap o.looked)
    IN  /\ open' = kept \cup found
        /\ first' = [i \in Ids |-> IF i \in found THEN o.at ELSE first[i]]
        /\ gone' = (gone \cap open') \cup ((found \ open) \ world)

\* reconcileFindings: one transaction over the rows of a domain.  Rows of a
\* kind the pass did not look for stay as they are.
ReconcileFindings(o, domain) ==
    LET found == o.found \cap domain
        kept == open \ (domain \cap o.looked)
    IN  /\ open' = kept \cup found
        /\ first' = [i \in Ids |-> IF i \in found \ open THEN o.at ELSE first[i]]
        /\ gone' = (gone \cap open') \cup ((found \ open) \ world)

\* The rows of the code, and which of the findings count.  A backfill goes on
\* with the image; a pass whose static analysis failed has weaknesses to add.
ReconcileCode(a) ==
    /\ op[a].pc = "reconcile"
    /\ ReconcileFindings(op[a], CodeDomain)
    /\ op' = [op EXCEPT
          ![a].code = (op[a].found \cap CodeDomain) \ op[a].hide,
          ![a].hidden = op[a].found \cap op[a].hide,
          ![a].pc = IF ~(Weak \subseteq op[a].looked) THEN "weak"
                    ELSE IF Image \subseteq op[a].looked THEN "reconcileImage"
                    ELSE "save"]
    /\ UNCHANGED <<env, decided, stored, countsOff, historyOff, begun>>

\* Counts nothing the pass did not look for: a mutation of AddOpenWeaknesses.
AddNoWeaknesses(w) ==
    /\ op[w].pc = "weak"
    /\ Goes(w, IF Image \subseteq op[w].looked THEN "reconcileImage" ELSE "save")
    /\ UNCHANGED <<env, rows, decided, stored, countsOff, historyOff, begun>>

\* The weaknesses still open are counted though nobody looked for them.
AddOpenWeaknesses(w) ==
    /\ op[w].pc = "weak"
    /\ op' = [op EXCEPT
          ![w].code = @ \cup ((open \cap Weak) \ InForce),
          ![w].hidden = @ \cup (open \cap Weak \cap InForce),
          ![w].pc = IF Image \subseteq op[w].looked THEN "reconcileImage" ELSE "save"]
    /\ UNCHANGED <<env, rows, decided, stored, countsOff, historyOff, begun>>

ReconcileImage(a) ==
    /\ op[a].pc = "reconcileImage"
    /\ ReconcileFindings(op[a], Image)
    /\ op' = [op EXCEPT
          ![a].image = (op[a].found \cap Image) \ op[a].hide,
          ![a].pc = CASE op[a].pass = "full" -> "save"
                      [] op[a].pass = "image" -> "read"
                      [] OTHER -> "recount"]
    /\ UNCHANGED <<env, decided, stored, countsOff, historyOff, begun>>

\* An image pass counts the suppressed findings of the code from the rows.
ReadCode(w) ==
    /\ op[w].pc = "read"
    /\ op' = [op EXCEPT ![w].code = op[w].copy.code,
                        ![w].hidden = (open \cap CodeDomain \cap InForce)
                                      \cup (op[w].found \cap op[w].hide),
                        ![w].pc = "save"]
    /\ UNCHANGED <<env, rows, decided, stored, countsOff, historyOff, begun>>

\* The whole row is saved, and with it what was read before.  An image pass
\* writes back the counts of the code that it found when it began.
SaveResult(w) ==
    /\ op[w].pc = "save"
    /\ LET o == op[w]
       IN  /\ result' = [scanned |-> TRUE, code |-> o.code, image |-> o.image,
                         hidden |-> o.hidden, updated |-> clock,
                         report |-> IF o.pass = "full" THEN o.found \ Weak
                                    ELSE (o.copy.report \cap Code) \cup o.found]
           /\ countsOff' = IF o.lone /\ o.pass = "full" THEN ~(Image \subseteq o.looked)
                           ELSE countsOff
    /\ Goes(w, "point")
    /\ UNCHANGED <<env, rows, decided, history, historyOff, begun>>

\* An image pass leaves no point: a mutation of RecordPoint.
RecordFullOnly(w) ==
    /\ op[w].pc = "point"
    /\ history' = IF op[w].pass = "image" THEN history
                  ELSE [code |-> op[w].code, image |-> op[w].image]
    /\ historyOff' = (historyOff /\ ~op[w].lone)
    /\ Finish(w)
    /\ UNCHANGED <<env, rows, decided, result, countsOff, begun>>

\* recordScanHistory, with the counts of the pass.
RecordPoint(w) ==
    /\ op[w].pc = "point"
    /\ history' = [code |-> op[w].code, image |-> op[w].image]
    /\ historyOff' = (historyOff /\ ~op[w].lone)
    /\ Finish(w)
    /\ UNCHANGED <<env, rows, decided, result, countsOff, begun>>

\* A statement fails and ends the operation, with what it wrote before: the
\* read of a report, a reconciliation, the row of an image pass, a decision.
Fails(a) ==
    /\ \/ op[a].pc \in {"check", "reconcile", "reconcileImage", "create"}
       \/ op[a].pc = "save" /\ op[a].pass = "image"
    /\ countsOff' = (countsOff \/ op[a].pc \notin {"check", "reconcile"})
    /\ Finish(a)
    /\ UNCHANGED <<env, rows, decided, stored, historyOff, begun>>

-----------------------------------------------------------------------------
(* Decisions about findings.                                               *)

\* An earlier decision about i is deleted, unless that fails: nobody looks.
Undecided(i) == decided' \in {decided, [decided EXCEPT ![i] = IF @ > 0 THEN @ - 1 ELSE 0]}

\* CreateScanSuppression: an earlier decision about i is deleted, and the
\* new one created by a later statement.
Decide(p, i) ==
    /\ op[p].pc = "idle" /\ Spends
    /\ Undecided(i)
    /\ Begin(p, [Idle EXCEPT !.pc = "create", !.pass = "decision", !.found = {i}])
    /\ UNCHANGED <<env, rows, stored>>

CreateDecision(p) ==
    /\ op[p].pc = "create"
    /\ decided' = [i \in Ids |-> IF i \in op[p].found THEN decided[i] + 1 ELSE decided[i]]
    /\ Goes(p, "recount")
    /\ UNCHANGED <<env, rows, stored, countsOff, historyOff, begun>>

\* DeleteScanSuppression.
Withdraw(p, i) ==
    /\ op[p].pc = "idle" /\ Spends
    /\ decided[i] > 0 /\ Undecided(i)
    /\ Begin(p, [Idle EXCEPT !.pc = "recount", !.pass = "decision", !.found = {i}])
    /\ UNCHANGED <<env, rows, stored>>

\* recountAffected takes the counts of this repository again, unless the
\* decision is global and the finding is not open here.
NotAffected(p) ==
    /\ op[p].pc = "recount" /\ op[p].pass = "decision"
    /\ op[p].found \cap open = {}
    /\ Finish(p)
    /\ UNCHANGED <<env, rows, decided, stored, countsOff, historyOff, begun>>

\* recountRepo: the counts are taken from the open rows ...
Recount(a) ==
    /\ op[a].pc = "recount"
    /\ IF result.scanned
       THEN op' = [op EXCEPT ![a].pc = "counted", ![a].copy = result,
                             ![a].code = (open \cap CodeDomain) \ InForce,
                             ![a].image = (open \cap Image) \ InForce,
                             ![a].hidden = open \cap InForce]
       ELSE Finish(a)
    /\ UNCHANGED <<env, rows, decided, stored, countsOff, historyOff, begun>>

\* ... and stored, leaving the date of the row alone; the history gets a
\* point if the counts differ from those of the row that was read.
StoreCounts(a) ==
    /\ op[a].pc = "counted"
    /\ LET o == op[a]
       IN  /\ result' = [result EXCEPT !.code = o.code, !.image = o.image,
                                       !.hidden = o.hidden]
           /\ history' = IF o.copy.code = o.code /\ o.copy.image = o.image THEN history
                         ELSE [code |-> o.code, image |-> o.image]
           /\ countsOff' = (countsOff /\ ~o.lone)
    /\ Finish(a)
    /\ UNCHANGED <<env, rows, decided, historyOff, begun>>

-----------------------------------------------------------------------------
(* BackfillScanFindings: a repository with no rows gets them from the      *)
(* reports it stored, dated to that scan.                                  *)

\* The rows are counted first ...
BackfillStart ==
    /\ op[Backfill].pc = "boot"
    /\ IF result.scanned /\ \A i \in Ids : first[i] = 0
       THEN Begin(Backfill, [Idle EXCEPT !.pc = "check", !.pass = "backfill",
                                         !.looked = Ids])
       ELSE Finish(Backfill) /\ UNCHANGED <<countsOff, historyOff>>
    /\ UNCHANGED <<env, rows, decided, stored, begun>>

\* ... and the reports read later, which may be those of a scan since.
BackfillRead ==
    /\ op[Backfill].pc = "check"
    /\ op' = [op EXCEPT ![Backfill].found = result.report,
                        ![Backfill].at = result.updated,
                        ![Backfill].pc = "reconcile"]
    /\ UNCHANGED <<env, rows, decided, stored, countsOff, historyOff, begun>>

-----------------------------------------------------------------------------
Scan(w) ==
    \/ StartImage(w) \/ \E sast \in BOOLEAN : StartFull(w, sast)
    \/ ScanImage(w) \/ SkipImage(w) \/ ImageFails(w)
    \/ AddOpenWeaknesses(w) \/ ReadCode(w) \/ SaveResult(w) \/ RecordPoint(w)

Decisions(p) ==
    \/ CreateDecision(p) \/ NotAffected(p)
    \/ \E i \in Ids : Decide(p, i) \/ Withdraw(p, i)

\* The process waits for requests and for its tickers.
Wait == Quiet /\ UNCHANGED vars

Environment == Wait \/ Tick \/ Restart \/ \E i \in Ids : WorldChanges(i) \/ Lapses(i)

Next ==
    \/ Environment
    \/ BackfillStart \/ BackfillRead
    \/ \E w \in Worker : Scan(w)
    \/ \E p \in Person : Decisions(p)
    \/ \E a \in Actor :
        \/ ReconcileCode(a) \/ ReconcileImage(a) \/ Fails(a)
        \/ Recount(a) \/ StoreCounts(a)

Spec == Init /\ [][Next]_vars

-----------------------------------------------------------------------------
(* Properties.                                                             *)

\* The numbers on the dashboard are the open findings nobody has decided
\* about, and the number of suppressed ones the rest.  It holds whenever
\* nothing is under way and the last to take the counts ran alone: whatever
\* mix of full passes, image passes, decisions and failures went before.
CountsAreTrue ==
    Quiet /\ ~countsOff /\ result.scanned =>
        /\ result.code = (open \cap CodeDomain) \ InForce
        /\ result.image = (open \cap Image) \ InForce
        /\ result.hidden = open \cap InForce

\* "Every pass that changes the stored counts has to call it"
\* (scan_history.go): the newest point of the history shows the numbers of
\* the dashboard, unless operations overlapped since a pass that ran alone.
HistoryInStep ==
    Quiet /\ ~historyOff /\ result.scanned =>
        history = [code |-> result.code, image |-> result.image]

\* A finding is closed by a pass that ran alone only if the problem was gone
\* at some time since the finding was opened: what a pass did not look for,
\* or could not, is never reported as fixed (reconcileFindings, notScanned).
OnlyTheAbsentAreClosed ==
    [][\A i \in open \ open' : i \in gone \/ \E a \in Actor : Busy(a) /\ ~op[a].lone]_vars

\* The rows change by whole reports and keep their dates.
Ledger == INSTANCE FindingLedger WITH Kinds <- {Code, Weak, Image}, Dates <- 1..MaxTime
RowsAreALedger == Ledger!Spec
=============================================================================
