--------------------------- MODULE FindingsProofs ---------------------------
(***************************************************************************)
(* Proofs about Findings, for any sets of findings, workers and people and *)
(* any bounds: its types, that only what was absent is closed by a pass    *)
(* that ran alone, that the rows implement FindingLedger, and that the     *)
(* counts and the history show what the rows say.                          *)
(*                                                                         *)
(* The argument is one inductive invariant (IInv).  An open finding that   *)
(* the world lacks is known to be gone; a pass has found only what it      *)
(* looked for, and looks for whole kinds; two operations under way at once *)
(* are neither of them lone; and so whatever a lone pass looked for and    *)
(* did not find is gone, up to the moment it closes it.                    *)
(*                                                                         *)
(* Two more stand beside it.  CountInv says of a lone operation, at each   *)
(* of its steps, which numbers it holds already and which it is about to   *)
(* put right; HistoryInv, that it knows the counts it began with.          *)
(***************************************************************************)
EXTENDS Findings, TLAPS

Looking == {"image", "reconcile", "weak", "reconcileImage"}

(* Open findings have a date, and those absent from the world are gone. *)
RowsMarked ==
    /\ \A i \in open : first[i] # 0
    /\ \A i \in open : i \notin world => i \in gone

(* A pass looks for whole kinds, and has found nothing else. *)
Whole(o) ==
    /\ \A kind \in {Code, Weak, Image} : kind \subseteq o.looked \/ kind \cap o.looked = {}
    /\ o.found \subseteq o.looked
    /\ o.pc # "image" => o.at # 0

PassesWhole == \A a \in Actor : op[a].pc \in Looking => Whole(op[a])

(* What an image pass has read of the row is a row; counts are stored in one. *)
CopyScanned(o) ==
    /\ o.pass = "image" => o.copy \in Result /\ o.found \subseteq Image
    /\ o.pc = "read" => o.pass = "image"
    /\ o.pc \in {"save", "image", "weak"} => o.pass \in {"full", "image"}
    /\ o.pc \in Looking => o.pass \in {"full", "image"} \/ Ids \subseteq o.looked
    /\ o.pc = "counted" => result.scanned
    /\ o.pc = "check" => o.pass = "backfill" /\ o.looked = Ids /\ result.scanned /\ (o.lone => open = {})
CopiesScanned == \A a \in Actor : CopyScanned(op[a])

(* A lone operation is the only one. *)
LoneAlone == \A a, b \in Actor : a # b /\ Busy(a) /\ Busy(b) => ~op[a].lone

(* What a lone pass looked for and did not find is gone. *)
LoneKnows ==
    \A a \in Actor : op[a].pc \in Looking /\ op[a].lone =>
        \A i \in (op[a].looked \ op[a].found) \cap open : i \in gone

IInv == TypeOK /\ RowsMarked /\ PassesWhole /\ CopiesScanned /\ LoneAlone /\ LoneKnows

-----------------------------------------------------------------------------
LEMMA IdleTyped == Idle \in Operation
BY FindingsAssumption DEF Idle, Operation, NoResult

(* Begin keeps the types of what it writes. *)
LEMMA BeginTyped ==
    ASSUME TypeOK, NEW a \in Actor, NEW o \in Operation, Begin(a, o)
    PROVE  op' \in [Actor -> Operation] /\ countsOff' \in BOOLEAN /\ historyOff' \in BOOLEAN
<1>1. Disturbed \in [Actor -> Operation]
  <2>1. \A b \in Actor : [op[b] EXCEPT !.lone = FALSE] \in Operation
        BY DEF TypeOK, Operation
  <2> QED BY <2>1 DEF Disturbed, TypeOK
<1>2. [o EXCEPT !.lone = FALSE] \in Operation BY DEF Operation
<1> QED BY <1>1, <1>2 DEF Begin, TypeOK

(* A row is a row when it says so. *)
LEMMA RowScanned ==
    \A r \in Result \cup {NoResult} : r.scanned \in BOOLEAN /\ (r.scanned <=> r \in Result)
<1>1. \A r \in Result : r.scanned = TRUE BY DEF Result
<1>2. NoResult.scanned = FALSE BY DEF NoResult
<1> QED BY <1>1, <1>2

(* Operations stay typed when typed fields are written. *)
LEMMA SeenTyped ==
    ASSUME NEW o \in Operation, NEW found \in SUBSET Ids, NEW looked \in SUBSET Ids,
           NEW at \in 0..MaxTime, NEW hide \in SUBSET Ids, NEW pc \in {"reconcile", "reconcileImage"}
    PROVE  [o EXCEPT !.found = found, !.looked = looked, !.at = at, !.hide = hide, !.pc = pc]
              \in Operation
BY DEF Operation

LEMMA CountedTyped ==
    ASSUME NEW o \in Operation, NEW code \in SUBSET CodeDomain, NEW hidden \in SUBSET Ids,
           NEW pc \in {"weak", "reconcileImage", "save"}
    PROVE  [o EXCEPT !.code = code, !.hidden = hidden, !.pc = pc] \in Operation
BY DEF Operation

LEMMA InitTyped == Init => TypeOK
<1> SUFFICES ASSUME Init PROVE TypeOK OBVIOUS
<1>1. /\ result \in Result \cup {NoResult}
      /\ history \in [code : SUBSET CodeDomain, image : SUBSET Image]
  <2>1. CASE result = NoResult /\ history = NoPoint
        BY <2>1 DEF NoPoint
  <2>2. ASSUME NEW seen \in FirstWorlds,
               LET r == seen \ Weak IN
                 /\ result = [scanned |-> TRUE, code |-> r \cap Code, image |-> r \cap Image,
                              hidden |-> {}, report |-> r, updated |-> 1]
                 /\ history = [code |-> r \cap Code, image |-> r \cap Image]
        PROVE  /\ result \in Result
               /\ history \in [code : SUBSET CodeDomain, image : SUBSET Image]
    <3>1. seen \ Weak \subseteq Code \cup Image BY FindingsAssumption DEF Ids, CodeDomain
    <3>2. 1 \in 1..MaxTime BY FindingsAssumption
    <3> QED BY <2>2, <3>1, <3>2 DEF Result, CodeDomain
  <2> QED BY <2>1, <2>2 DEF Init
<1>2. op \in [Actor -> Operation]
  <2>1. [Idle EXCEPT !.pc = "boot"] \in Operation BY IdleTyped DEF Operation
  <2> QED BY IdleTyped, <2>1 DEF Init
<1>3. result.scanned \in BOOLEAN BY <1>1, RowScanned
<1>4. countsOff \in BOOLEAN BY <1>3 DEF Init
<1>5. /\ clock \in 1..MaxTime /\ world \subseteq Ids
      /\ open \subseteq Ids /\ gone \subseteq open
      /\ changes \in 0..MaxChange /\ begun \in 0..MaxScan
      BY FindingsAssumption DEF Init
<1>6. first \in [Ids -> 0..MaxTime] /\ decided \in [Ids -> Nat]
      BY FindingsAssumption DEF Init
<1>7. historyOff \in BOOLEAN BY DEF Init
<1> QED BY <1>1, <1>2, <1>4, <1>5, <1>6, <1>7 DEF TypeOK

(* Reading the world and the rows: the typed pieces the steps are made of. *)
LEMMA Pieces == InForce \subseteq Ids /\ Code \subseteq Ids /\ Weak \subseteq Ids
                /\ Image \subseteq Ids /\ CodeDomain \subseteq Ids
                /\ MaxTime \in Nat \ {0} /\ MaxChange \in Nat /\ MaxScan \in Nat
BY FindingsAssumption DEF InForce, Ids, CodeDomain

(* One report changes the rows, and leaves them typed. *)
LEMMA ReconcileTyped ==
    ASSUME TypeOK, NEW a \in Actor, op[a].at # 0, NEW domain \in SUBSET Ids,
           ReconcileFindings(op[a], domain)
    PROVE  open' \subseteq Ids /\ first' \in [Ids -> 0..MaxTime] /\ gone' \subseteq open'
<1>1. op[a] \in Operation BY DEF TypeOK
<1>2. op[a].at \in 0..MaxTime /\ op[a].found \subseteq Ids BY <1>1 DEF Operation
<1> QED BY <1>2 DEF ReconcileFindings, TypeOK

LEMMA StepTyped == TypeOK /\ PassesWhole /\ CopiesScanned /\ [Next]_vars => TypeOK'
<1> SUFFICES ASSUME TypeOK, PassesWhole, CopiesScanned, [Next]_vars PROVE TypeOK'
    OBVIOUS
<1> USE Pieces
<1>0. \A a \in Actor : op[a] \in Operation BY DEF TypeOK
<1>0a. Worker \subseteq Actor /\ Person \subseteq Actor /\ Backfill \in Actor BY DEF Actor
<1>1. CASE UNCHANGED vars
  BY <1>1 DEF vars, TypeOK
<1>2. CASE Tick
  BY <1>2 DEF Tick, TypeOK, rows, stored
<1>3. ASSUME NEW i \in Ids, WorldChanges(i) PROVE TypeOK'
  BY <1>3 DEF WorldChanges, Happens, TypeOK, stored
<1>4. ASSUME NEW i \in Ids, Lapses(i) PROVE TypeOK'
  <2>1. Disturbed \in [Actor -> Operation]
    <3>1. \A b \in Actor : [op[b] EXCEPT !.lone = FALSE] \in Operation BY <1>0 DEF Operation
    <3> QED BY <3>1, <1>0 DEF Disturbed
  <2>2. decided' \in [Ids -> Nat] BY <1>4 DEF Lapses, TypeOK
  <2> QED BY <1>4, <2>1, <2>2 DEF Lapses, Happens, TypeOK, rows, stored
<1>5. CASE Restart
  <2>1. op' \in [Actor -> Operation]
    <3>1. [Idle EXCEPT !.pc = "boot"] \in Operation BY IdleTyped DEF Operation
    <3> QED BY <1>5, <3>1, IdleTyped DEF Restart
  <2>2. history' \in [code : SUBSET CodeDomain, image : SUBSET Image]
    <3>1. CASE result.scanned
      <4>1. result \in Result BY <3>1, RowScanned DEF TypeOK
      <4> QED BY <1>5, <3>1, <4>1 DEF Restart, Result
    <3>2. CASE ~result.scanned BY <1>5, <3>2 DEF Restart, TypeOK
    <3> QED BY <3>1, <3>2
  <2>3. countsOff' \in BOOLEAN BY <1>5 DEF Restart, TypeOK
  <2>4. UNCHANGED <<open, first, gone>> BY <1>5 DEF Restart, rows
  <2>5. changes' \in 0..MaxChange BY <1>5 DEF Restart, Happens, TypeOK
  <2>6. historyOff' = FALSE /\ UNCHANGED <<clock, world, decided, result, begun>> BY <1>5 DEF Restart
  <2> QED BY <2>1, <2>2, <2>3, <2>4, <2>5, <2>6 DEF TypeOK
<1>6. ASSUME NEW w \in Worker, NEW sast \in BOOLEAN, StartFull(w, sast) PROVE TypeOK'
  <2> DEFINE kinds == IF sast THEN CodeDomain ELSE Code
             o == [Idle EXCEPT !.pc = "image", !.pass = "full",
                               !.found = world \cap kinds, !.looked = kinds]
  <2>1. o \in Operation BY IdleTyped DEF Operation, TypeOK
  <2>2. Begin(w, o) BY <1>6 DEF StartFull
  <2>3. op' \in [Actor -> Operation] /\ countsOff' \in BOOLEAN /\ historyOff' \in BOOLEAN
        BY <2>1, <2>2, <1>0a, BeginTyped
  <2> HIDE DEF o
  <2> QED BY <1>6, <2>3 DEF StartFull, Spends, TypeOK, env, rows, stored
<1>7. ASSUME NEW w \in Worker, StartImage(w) PROVE TypeOK'
  <2> DEFINE o == [Idle EXCEPT !.pc = "image", !.pass = "image", !.copy = result]
  <2>1. o \in Operation BY IdleTyped DEF Operation, TypeOK
  <2>2. Begin(w, o) BY <1>7 DEF StartImage
  <2>3. op' \in [Actor -> Operation] /\ countsOff' \in BOOLEAN /\ historyOff' \in BOOLEAN
        BY <2>1, <2>2, <1>0a, BeginTyped
  <2> HIDE DEF o
  <2> QED BY <1>7, <2>3 DEF StartImage, Spends, TypeOK, env, rows, stored
<1>8. ASSUME NEW w \in Worker, ScanImage(w) PROVE TypeOK'
  <2> DEFINE seen == op[w].found \cup (world \cap Image)
             looked == op[w].looked \cup Image
             pc == IF op[w].pass = "full" THEN "reconcile" ELSE "reconcileImage"
             o == [op[w] EXCEPT !.found = seen, !.looked = looked, !.at = clock,
                                !.hide = InForce, !.pc = pc]
  <2>1. o \in Operation
    <3>1. /\ seen \in SUBSET Ids /\ looked \in SUBSET Ids
          /\ clock \in 0..MaxTime /\ InForce \in SUBSET Ids
          /\ pc \in {"reconcile", "reconcileImage"}
          BY <1>0, <1>0a DEF Operation, TypeOK
    <3> HIDE DEF seen, looked, pc
    <3> QED BY <1>0, <1>0a, <3>1, SeenTyped
  <2>2. op' = [op EXCEPT ![w] = o] BY <1>8, <1>0a DEF ScanImage, TypeOK, Operation
  <2> HIDE DEF o
  <2>3. op' \in [Actor -> Operation] BY <2>1, <2>2 DEF TypeOK
  <2> QED BY <1>8, <2>3 DEF ScanImage, TypeOK, env, rows, stored
<1>9. ASSUME NEW w \in Worker, SkipImage(w) PROVE TypeOK'
  <2>1. op' \in [Actor -> Operation]
    <3>1. clock \in 0..MaxTime /\ InForce \in SUBSET Ids BY DEF TypeOK
    <3> QED BY <1>9, <1>0, <1>0a, <3>1, SMTT(60) DEF SkipImage, TypeOK, Operation
  <2> QED BY <1>9, <2>1 DEF SkipImage, TypeOK, env, rows, stored
<1>10. ASSUME NEW w \in Worker, ImageFails(w) PROVE TypeOK'
  <2>1. op' \in [Actor -> Operation] BY <1>10, IdleTyped, <1>0a DEF ImageFails, Finish, TypeOK
  <2>2. op[w].copy \in Result \cup {NoResult} BY <1>0, <1>0a DEF Operation
  <2>3. result' \in Result \cup {NoResult}
        BY <1>10, <2>2 DEF ImageFails, Result, NoResult, TypeOK
  <2> QED BY <1>10, <2>1, <2>3 DEF ImageFails, TypeOK, env, rows
<1>11. ASSUME NEW a \in Actor, ReconcileCode(a) PROVE TypeOK'
  <2>1. op' \in [Actor -> Operation]
    <3> DEFINE code == (op[a].found \cap CodeDomain) \ op[a].hide
               hidden == op[a].found \cap op[a].hide
               pc == IF ~(Weak \subseteq op[a].looked) THEN "weak"
                     ELSE IF Image \subseteq op[a].looked THEN "reconcileImage" ELSE "save"
    <3>1. /\ code \in SUBSET CodeDomain /\ hidden \in SUBSET Ids
          /\ pc \in {"weak", "reconcileImage", "save"}
          BY <1>0 DEF Operation
    <3>2. op' = [op EXCEPT ![a] = [@ EXCEPT !.code = code, !.hidden = hidden, !.pc = pc]]
          BY <1>11 DEF ReconcileCode, TypeOK, Operation
    <3> HIDE DEF code, hidden, pc
    <3>3. [op[a] EXCEPT !.code = code, !.hidden = hidden, !.pc = pc] \in Operation
          BY <1>0, <3>1, CountedTyped
    <3> QED BY <3>2, <3>3 DEF TypeOK
  <2>2. op[a].at # 0 BY <1>11 DEF ReconcileCode, PassesWhole, Whole, Looking
  <2>3. open' \subseteq Ids /\ first' \in [Ids -> 0..MaxTime] /\ gone' \subseteq open'
        BY <1>11, <2>2, ReconcileTyped DEF ReconcileCode
  <2> QED BY <1>11, <2>1, <2>3 DEF ReconcileCode, TypeOK, env, stored
<1>12. ASSUME NEW w \in Worker, AddOpenWeaknesses(w) PROVE TypeOK'
  <2>1. op' \in [Actor -> Operation]
    <3>1. /\ op[w].code \cup ((open \cap Weak) \ InForce) \in SUBSET CodeDomain
          /\ op[w].hidden \cup (open \cap Weak \cap InForce) \in SUBSET Ids
          BY <1>0, <1>0a DEF Operation, CodeDomain, TypeOK
    <3> QED BY <1>12, <1>0, <1>0a, <3>1, SMTT(60) DEF AddOpenWeaknesses, TypeOK, Operation
  <2> QED BY <1>12, <2>1 DEF AddOpenWeaknesses, TypeOK, env, rows, stored
<1>13. ASSUME NEW a \in Actor, ReconcileImage(a) PROVE TypeOK'
  <2>1. op' \in [Actor -> Operation] BY <1>13, <1>0 DEF ReconcileImage, TypeOK, Operation
  <2>2. op[a].at # 0 BY <1>13 DEF ReconcileImage, PassesWhole, Whole, Looking
  <2>3. open' \subseteq Ids /\ first' \in [Ids -> 0..MaxTime] /\ gone' \subseteq open'
        BY <1>13, <2>2, ReconcileTyped DEF ReconcileImage
  <2> QED BY <1>13, <2>1, <2>3 DEF ReconcileImage, TypeOK, env, stored
<1>14. ASSUME NEW w \in Worker, ReadCode(w) PROVE TypeOK'
  <2>1. op' \in [Actor -> Operation]
    <3>1. op[w].copy.code \in SUBSET CodeDomain
          BY <1>14, <1>0a DEF ReadCode, CopiesScanned, CopyScanned, Result
    <3>2. (open \cap CodeDomain \cap InForce) \cup (op[w].found \cap op[w].hide) \in SUBSET Ids
          BY <1>0, <1>0a DEF Operation, TypeOK
    <3> QED BY <1>14, <1>0, <1>0a, <3>1, <3>2, SMTT(60) DEF ReadCode, TypeOK, Operation
  <2> QED BY <1>14, <2>1 DEF ReadCode, TypeOK, env, rows, stored
<1>15. ASSUME NEW w \in Worker, SaveResult(w) PROVE TypeOK'
  <2>1. op' \in [Actor -> Operation]
    <3>1. [op[w] EXCEPT !.pc = "point"] \in Operation BY <1>0, <1>0a DEF Operation
    <3> QED BY <1>15, <1>0a, <3>1 DEF SaveResult, Goes, TypeOK
  <2>2. /\ op[w].code \in SUBSET CodeDomain /\ op[w].image \in SUBSET Image
        /\ op[w].hidden \in SUBSET Ids /\ op[w].found \in SUBSET Ids /\ op[w].lone \in BOOLEAN
        BY <1>0, <1>0a DEF Operation
  <2>3. op[w].found \ Weak \in SUBSET (Code \cup Image) BY <2>2 DEF Ids
  <2>4. result' \in Result
    <3>1. CASE op[w].pass = "full"
          BY <1>15, <2>2, <2>3, <3>1 DEF SaveResult, Result, TypeOK
    <3>2. CASE op[w].pass # "full"
      <4>1. op[w].pass = "image" BY <1>15, <1>0a, <3>2 DEF SaveResult, CopiesScanned, CopyScanned
      <4>2. op[w].found \subseteq Image BY <1>15, <1>0a, <4>1 DEF SaveResult, CopiesScanned, CopyScanned
      <4> QED BY <1>15, <2>2, <3>2, <4>2 DEF SaveResult, Result, TypeOK
    <3> QED BY <3>1, <3>2
  <2>5. countsOff' \in BOOLEAN BY <1>15, <2>2 DEF SaveResult, TypeOK
  <2> QED BY <1>15, <2>1, <2>4, <2>5 DEF SaveResult, TypeOK, env, rows
<1>16. ASSUME NEW w \in Worker, RecordPoint(w) PROVE TypeOK'
  <2>1. op' \in [Actor -> Operation] BY <1>16, IdleTyped, <1>0a DEF RecordPoint, Finish, TypeOK
  <2>2. history' \in [code : SUBSET CodeDomain, image : SUBSET Image]
        BY <1>16, <1>0, <1>0a DEF RecordPoint, Operation
  <2>3. historyOff' \in BOOLEAN BY <1>16 DEF RecordPoint, TypeOK
  <2> QED BY <1>16, <2>1, <2>2, <2>3 DEF RecordPoint, TypeOK, env, rows
<1>17. ASSUME NEW p \in Person, NEW i \in Ids, Decide(p, i) PROVE TypeOK'
  <2> DEFINE o == [Idle EXCEPT !.pc = "create", !.pass = "decision", !.found = {i}]
  <2>1. o \in Operation BY IdleTyped DEF Operation
  <2>2. Begin(p, o) BY <1>17 DEF Decide
  <2>3. op' \in [Actor -> Operation] /\ countsOff' \in BOOLEAN /\ historyOff' \in BOOLEAN
        BY <2>1, <2>2, <1>0a, BeginTyped
  <2>4. decided' \in [Ids -> Nat] BY <1>17 DEF Decide, Undecided, TypeOK
  <2> HIDE DEF o
  <2> QED BY <1>17, <2>3, <2>4 DEF Decide, Spends, TypeOK, env, rows, stored
<1>18. ASSUME NEW p \in Person, CreateDecision(p) PROVE TypeOK'
  <2>1. op' \in [Actor -> Operation] BY <1>18, <1>0, <1>0a DEF CreateDecision, Goes, TypeOK, Operation
  <2>2. decided' \in [Ids -> Nat] BY <1>18 DEF CreateDecision, TypeOK
  <2> QED BY <1>18, <2>1, <2>2 DEF CreateDecision, TypeOK, env, rows, stored
<1>19. ASSUME NEW p \in Person, NEW i \in Ids, Withdraw(p, i) PROVE TypeOK'
  <2> DEFINE o == [Idle EXCEPT !.pc = "recount", !.pass = "decision", !.found = {i}]
  <2>1. o \in Operation BY IdleTyped DEF Operation
  <2>2. Begin(p, o) BY <1>19 DEF Withdraw
  <2>3. op' \in [Actor -> Operation] /\ countsOff' \in BOOLEAN /\ historyOff' \in BOOLEAN
        BY <2>1, <2>2, <1>0a, BeginTyped
  <2>4. decided' \in [Ids -> Nat] BY <1>19 DEF Withdraw, Undecided, TypeOK
  <2> HIDE DEF o
  <2> QED BY <1>19, <2>3, <2>4 DEF Withdraw, Spends, TypeOK, env, rows, stored
<1>20. ASSUME NEW p \in Person, NotAffected(p) PROVE TypeOK'
  <2>1. op' \in [Actor -> Operation] BY <1>20, IdleTyped, <1>0a DEF NotAffected, Finish, TypeOK
  <2> QED BY <1>20, <2>1 DEF NotAffected, TypeOK, env, rows, stored
<1>21. ASSUME NEW a \in Actor, Recount(a) PROVE TypeOK'
  <2>1. op' \in [Actor -> Operation]
    <3>1. CASE result.scanned
      <4>1. /\ (open \cap CodeDomain) \ InForce \in SUBSET CodeDomain
            /\ (open \cap Image) \ InForce \in SUBSET Image
            /\ open \cap InForce \in SUBSET Ids
            BY DEF TypeOK
      <4> QED BY <1>21, <3>1, <1>0, <4>1 DEF Recount, TypeOK, Operation
    <3>2. CASE ~result.scanned
      BY <1>21, <3>2, IdleTyped DEF Recount, Finish, TypeOK
    <3> QED BY <3>1, <3>2
  <2> QED BY <1>21, <2>1 DEF Recount, TypeOK, env, rows, stored
<1>22. ASSUME NEW a \in Actor, StoreCounts(a) PROVE TypeOK'
  <2>1. op' \in [Actor -> Operation] BY <1>22, IdleTyped DEF StoreCounts, Finish, TypeOK
  <2>2. /\ op[a].code \in SUBSET CodeDomain /\ op[a].image \in SUBSET Image
        /\ op[a].hidden \in SUBSET Ids /\ op[a].lone \in BOOLEAN
        BY <1>0 DEF Operation
  <2>3. result \in Result
        BY <1>22, RowScanned DEF StoreCounts, CopiesScanned, CopyScanned, TypeOK
  <2>4. result' \in Result BY <1>22, <2>2, <2>3 DEF StoreCounts, Result
  <2>5. history' \in [code : SUBSET CodeDomain, image : SUBSET Image]
        BY <1>22, <2>2 DEF StoreCounts, TypeOK
  <2>6. countsOff' \in BOOLEAN BY <1>22, <2>2 DEF StoreCounts, TypeOK
  <2> QED BY <1>22, <2>1, <2>4, <2>5, <2>6 DEF StoreCounts, TypeOK, env, rows
<1>23. CASE BackfillStart
  <2>1. op' \in [Actor -> Operation] /\ countsOff' \in BOOLEAN /\ historyOff' \in BOOLEAN
    <3>1. CASE result.scanned /\ \A i \in Ids : first[i] = 0
      <4> DEFINE o == [Idle EXCEPT !.pc = "check", !.pass = "backfill", !.looked = Ids]
      <4>1. o \in Operation BY IdleTyped DEF Operation
      <4>2. Begin(Backfill, o) BY <1>23, <3>1 DEF BackfillStart
      <4> QED BY <4>1, <4>2, <1>0a, BeginTyped
    <3>2. CASE ~(result.scanned /\ \A i \in Ids : first[i] = 0)
      BY <1>23, <3>2, IdleTyped, <1>0a DEF BackfillStart, Finish, TypeOK
    <3> QED BY <3>1, <3>2
  <2> QED BY <1>23, <2>1 DEF BackfillStart, TypeOK, env, rows, stored
<1>24. CASE Wait
  BY <1>1, <1>24 DEF Wait
<1>25. CASE BackfillRead
  <2>1. result \in Result
        BY <1>25, <1>0a, RowScanned DEF BackfillRead, CopiesScanned, CopyScanned, TypeOK
  <2>2. result.report \in SUBSET Ids /\ result.updated \in 0..MaxTime
        BY <2>1 DEF Result, Ids
  <2>3. op' \in [Actor -> Operation]
        BY <1>25, <1>0, <1>0a, <2>2 DEF BackfillRead, TypeOK, Operation
  <2> QED BY <1>25, <2>3 DEF BackfillRead, TypeOK, env, rows, stored
<1>26. ASSUME NEW a \in Actor, Fails(a) PROVE TypeOK'
  <2>1. op' \in [Actor -> Operation] BY <1>26, IdleTyped DEF Fails, Finish, TypeOK
  <2>2. countsOff' \in BOOLEAN BY <1>26 DEF Fails
  <2> QED BY <1>26, <2>1, <2>2 DEF Fails, TypeOK, env, rows, stored
<1> QED
  BY <1>1, <1>2, <1>3, <1>4, <1>5, <1>6, <1>7, <1>8, <1>9, <1>10, <1>11, <1>12, <1>13, <1>14,
     <1>15, <1>16, <1>17, <1>18, <1>19, <1>20, <1>21, <1>22, <1>23, <1>24, <1>25, <1>26
     DEF Next, Environment, Scan, Decisions
-----------------------------------------------------------------------------
(* What an operation keeps when another moves. *)
Same(o, q) ==
    /\ q.pc = o.pc /\ q.pass = o.pass /\ q.found = o.found /\ q.looked = o.looked
    /\ q.at = o.at /\ q.copy = o.copy /\ (q.lone => o.lone)
OthersSame(a) == \A b \in Actor \ {a} : Same(op[b], op'[b])

(* What a lone pass must know of the rows it looked for. *)
Knows(o) == o.pc \in Looking /\ o.lone => \A i \in (o.looked \ o.found) \cap open : i \in gone

OpInv == RowsMarked /\ PassesWhole /\ CopiesScanned /\ LoneAlone /\ LoneKnows

LEMMA IdleFields == Idle.pc = "idle" /\ Idle.pass = "none" /\ Idle.lone = TRUE
                    /\ Idle.looked = {} /\ Idle.found = {}
BY DEF Idle

LEMMA BeginSame ==
    ASSUME TypeOK, NEW a \in Actor, NEW o \in Operation, Begin(a, o)
    PROVE  /\ OthersSame(a) /\ Same(o, op'[a])
           /\ \A b \in Actor \ {a} : Busy(b) => op'[a].lone = FALSE /\ op'[b].lone = FALSE
<1>0. \A b \in Actor : op[b] \in Operation BY DEF TypeOK
<1>1. \A q \in Operation : /\ Same(q, [q EXCEPT !.lone = FALSE]) /\ Same(q, q)
                           /\ [q EXCEPT !.lone = FALSE].lone = FALSE
      BY DEF Same, Operation
<1>2. CASE \E b \in Actor \ {a} : Busy(b)
  <2>1. op' = [Disturbed EXCEPT ![a] = [o EXCEPT !.lone = FALSE]] BY <1>2 DEF Begin
  <2>2. op'[a] = [o EXCEPT !.lone = FALSE] BY <2>1 DEF Disturbed
  <2>3. \A b \in Actor \ {a} :
          op'[b] = IF Busy(b) THEN [op[b] EXCEPT !.lone = FALSE] ELSE op[b]
        BY <2>1 DEF Disturbed
  <2> QED BY <1>0, <1>1, <2>2, <2>3 DEF OthersSame
<1>3. CASE ~\E b \in Actor \ {a} : Busy(b)
  <2>1. op' = [op EXCEPT ![a] = o] BY <1>3 DEF Begin
  <2>2. op'[a] = o /\ \A b \in Actor \ {a} : op'[b] = op[b] BY <2>1 DEF TypeOK
  <2> QED BY <1>0, <1>1, <1>3, <2>2 DEF OthersSame
<1> QED BY <1>2, <1>3

(* An operation begins: it finds the others, if there are any, disturbed. *)
LEMMA Begins ==
    ASSUME TypeOK, OpInv, NEW a \in Actor, NEW o \in Operation, Begin(a, o),
           UNCHANGED <<open, first, gone, world, result>>,
           o.pc \in Looking => Whole(o), CopyScanned(o), Knows(o)
    PROVE  OpInv'
<1>1. /\ OthersSame(a) /\ Same(o, op'[a])
      /\ \A b \in Actor \ {a} : Busy(b) => op'[a].lone = FALSE /\ op'[b].lone = FALSE
      BY BeginSame
<1>2. RowsMarked' BY DEF OpInv, RowsMarked
<1>3. PassesWhole' BY <1>1 DEF OpInv, PassesWhole, OthersSame, Same, Whole
<1>4. CopiesScanned' BY <1>1 DEF OpInv, CopiesScanned, CopyScanned, OthersSame, Same
<1>5. LoneAlone' BY <1>1 DEF OpInv, LoneAlone, OthersSame, Same, Busy
<1>6. LoneKnows' BY <1>1 DEF OpInv, LoneKnows, Knows, OthersSame, Same
<1> QED BY <1>2, <1>3, <1>4, <1>5, <1>6 DEF OpInv

(* An operation under way goes on, or ends, and leaves the rows alone. *)
LEMMA GoesOn ==
    ASSUME TypeOK, OpInv, NEW a \in Actor, OthersSame(a),
           UNCHANGED <<open, first, gone, world>>, result.scanned => result'.scanned,
           op'[a].pc \in {"idle", "boot"} \/ (Busy(a) /\ (op'[a].lone => op[a].lone)),
           op'[a].pc \in Looking => Whole(op'[a]), CopyScanned(op[a])', Knows(op'[a])
    PROVE  OpInv'
<1>2. RowsMarked' BY DEF OpInv, RowsMarked
<1>3. PassesWhole' BY DEF OpInv, PassesWhole, OthersSame, Same, Whole
<1>4. CopiesScanned' BY DEF OpInv, CopiesScanned, CopyScanned, OthersSame, Same
<1>5. LoneAlone' BY DEF OpInv, LoneAlone, OthersSame, Same, Busy
<1>6. LoneKnows' BY DEF OpInv, LoneKnows, Knows, OthersSame, Same
<1> QED BY <1>2, <1>3, <1>4, <1>5, <1>6 DEF OpInv

LEMMA Finishes ==
    ASSUME TypeOK, OpInv, NEW a \in Actor, Finish(a),
           UNCHANGED <<open, first, gone, world>>, result.scanned => result'.scanned
    PROVE  OpInv'
<1>1. op'[a] = Idle /\ \A b \in Actor \ {a} : op'[b] = op[b] BY DEF Finish, TypeOK
<1>2. OthersSame(a) BY <1>1 DEF OthersSame, Same
<1>3. CopyScanned(op[a])' BY <1>1, IdleFields DEF CopyScanned, Looking
<1>4. op'[a].pc = "idle" /\ Knows(op'[a]) BY <1>1, IdleFields DEF Knows, Looking
<1> QED BY <1>2, <1>3, <1>4, GoesOn DEF Looking

(* A lone pass brings the rows of a domain in step and goes on. *)
LEMMA Reconciles ==
    ASSUME TypeOK, OpInv, NEW a \in Actor, NEW domain \in SUBSET Ids,
           op[a].pc \in Looking \ {"image"}, ReconcileFindings(op[a], domain),
           UNCHANGED <<world, result>>, \A b \in Actor \ {a} : op'[b] = op[b],
           op'[a].found = op[a].found, op'[a].looked = op[a].looked,
           op'[a].lone = op[a].lone, op'[a].pass = op[a].pass, op'[a].at = op[a].at,
           op'[a].copy = op[a].copy,
           op'[a].pc \notin {"image", "idle", "boot", "check", "counted"},
           op'[a].pc = "read" => op[a].pass = "image",
           op'[a].pc \in {"save", "weak"} => op[a].pass \in {"full", "image"}
    PROVE  OpInv'
<1>1. OthersSame(a) BY DEF OthersSame, Same
<1>2. Whole(op[a]) /\ op[a].at # 0 BY DEF OpInv, PassesWhole, Whole
<1>3. RowsMarked' BY <1>2 DEF OpInv, RowsMarked, ReconcileFindings, TypeOK
<1>4. PassesWhole' BY <1>1, <1>2 DEF OpInv, PassesWhole, OthersSame, Same, Whole
<1>6. Busy(a) BY DEF Busy, Looking
<1>5. CopiesScanned'
  <2>1. \A b \in Actor \ {a} : op[b].pc = "check" => ~op'[b].lone
        BY <1>1, <1>6 DEF OpInv, LoneAlone, OthersSame, Same, Busy
  <2> QED BY <1>1, <2>1 DEF OpInv, CopiesScanned, CopyScanned, OthersSame, Same
<1>7. LoneAlone' BY <1>1, <1>6 DEF OpInv, LoneAlone, OthersSame, Same, Busy
<1>8. LoneKnows'
  <2> SUFFICES ASSUME NEW b \in Actor, op'[b].pc \in Looking, op'[b].lone,
                      NEW i \in (op'[b].looked \ op'[b].found) \cap open'
               PROVE  i \in gone'
      BY DEF LoneKnows
  <2>1. CASE b = a
    <3>1. i \in open BY <2>1 DEF ReconcileFindings
    <3>2. i \in gone BY <2>1, <3>1 DEF OpInv, LoneKnows, Looking
    <3> QED BY <3>2 DEF ReconcileFindings
  <2>2. CASE b # a
    BY <2>2, <1>6 DEF OpInv, LoneAlone, Busy, Looking
  <2> QED BY <2>1, <2>2
<1> QED BY <1>3, <1>4, <1>5, <1>7, <1>8 DEF OpInv

LEMMA InitInv == Init => OpInv
<1> SUFFICES ASSUME Init PROVE OpInv OBVIOUS
<1>1. \A a \in Actor : op[a].pc \in {"idle", "boot"} /\ op[a].pass = "none"
      BY IdleFields DEF Init, Idle
<1> QED BY <1>1 DEF Init, OpInv, RowsMarked, PassesWhole, CopiesScanned, CopyScanned, LoneAlone,
                    LoneKnows, Looking, Busy

(* Every step preserves what the operations know. *)
LEMMA StepInv == TypeOK /\ OpInv /\ [Next]_vars => OpInv'
<1> SUFFICES ASSUME TypeOK, OpInv, [Next]_vars PROVE OpInv' OBVIOUS
<1> USE Pieces
<1>0. \A a \in Actor : op[a] \in Operation BY DEF TypeOK
<1>0a. Worker \subseteq Actor /\ Person \subseteq Actor /\ Backfill \in Actor BY DEF Actor
<1>0b. /\ \A a \in Actor : op[a].pc \in Looking => Whole(op[a])
       /\ \A a \in Actor : CopyScanned(op[a]) /\ Knows(op[a])
       BY DEF OpInv, PassesWhole, CopiesScanned, LoneKnows, Knows
<1>0c. Code \cap Weak = {} /\ CodeDomain \cap Image = {} BY FindingsAssumption
<1>1. CASE UNCHANGED vars
  BY <1>1 DEF vars, OpInv, RowsMarked, PassesWhole, Whole, CopiesScanned, CopyScanned, LoneAlone,
              LoneKnows, Busy
<1>2. CASE Tick
  BY <1>2 DEF Tick, rows, stored, OpInv, RowsMarked, PassesWhole, Whole, CopiesScanned, CopyScanned,
              LoneAlone, LoneKnows, Busy
<1>3. ASSUME NEW i \in Ids, WorldChanges(i) PROVE OpInv'
  <2>1. RowsMarked' BY <1>3 DEF WorldChanges, OpInv, RowsMarked
  <2>2. gone \subseteq gone' BY <1>3 DEF WorldChanges
  <2> QED BY <1>3, <2>1, <2>2 DEF WorldChanges, stored, OpInv, PassesWhole, Whole, CopiesScanned,
                                  CopyScanned, LoneAlone, LoneKnows, Busy
<1>4. ASSUME NEW i \in Ids, Lapses(i) PROVE OpInv'
  <2>1. \A a \in Actor : Same(op[a], op'[a])
    <3>1. \A q \in Operation : Same(q, [q EXCEPT !.lone = FALSE]) /\ Same(q, q)
          BY DEF Same, Operation
    <3> QED BY <1>4, <1>0, <3>1 DEF Lapses, Disturbed
  <2>2. UNCHANGED <<open, first, gone, world, result>> BY <1>4 DEF Lapses, env, rows, stored
  <2> QED BY <2>1, <2>2 DEF OpInv, RowsMarked, PassesWhole, Whole, CopiesScanned, CopyScanned,
                            LoneAlone, LoneKnows, Busy, Same
<1>5. CASE Restart
  <2>1. \A a \in Actor : op'[a].pc \in {"idle", "boot"} /\ op'[a].pass = "none"
        BY <1>5, IdleFields DEF Restart, Idle
  <2>2. UNCHANGED <<open, first, gone, world>> BY <1>5 DEF Restart, rows
  <2> QED BY <2>1, <2>2 DEF OpInv, RowsMarked, PassesWhole, CopiesScanned, CopyScanned, LoneAlone,
                            LoneKnows, Looking, Busy
<1>6. ASSUME NEW w \in Worker, NEW sast \in BOOLEAN, StartFull(w, sast) PROVE OpInv'
  <2> DEFINE kinds == IF sast THEN CodeDomain ELSE Code
             o == [Idle EXCEPT !.pc = "image", !.pass = "full",
                               !.found = world \cap kinds, !.looked = kinds]
  <2>1. o \in Operation BY IdleTyped DEF Operation, TypeOK
  <2>2. /\ o.pc = "image" /\ o.pass = "full" /\ o.found = world \cap kinds /\ o.looked = kinds
        BY DEF Idle
  <2>3. Begin(w, o) BY <1>6 DEF StartFull
  <2>4. UNCHANGED <<open, first, gone, world, result>> BY <1>6 DEF StartFull, env, rows, stored
  <2> HIDE DEF o
  <2>5. Whole(o)
    <3>1. \A kind \in {Code, Weak, Image} : kind \subseteq kinds \/ kind \cap kinds = {}
          BY <1>0c DEF CodeDomain
    <3> QED BY <2>2, <3>1 DEF Whole
  <2>6. CopyScanned(o) BY <2>2 DEF CopyScanned
  <2>7. Knows(o) BY <2>2 DEF Knows, OpInv, RowsMarked
  <2> QED BY <2>1, <2>3, <2>4, <2>5, <2>6, <2>7, <1>0a, Begins
<1>7. ASSUME NEW w \in Worker, StartImage(w) PROVE OpInv'
  <2> DEFINE o == [Idle EXCEPT !.pc = "image", !.pass = "image", !.copy = result]
  <2>1. o \in Operation BY IdleTyped DEF Operation, TypeOK
  <2>2. /\ o.pc = "image" /\ o.pass = "image" /\ o.found = {} /\ o.looked = {} /\ o.copy = result
        BY DEF Idle
  <2>3. Begin(w, o) BY <1>7 DEF StartImage
  <2>4. UNCHANGED <<open, first, gone, world, result>> BY <1>7 DEF StartImage, env, rows, stored
  <2>5. result \in Result BY <1>7, RowScanned DEF StartImage, TypeOK
  <2> HIDE DEF o
  <2>6. Whole(o) /\ CopyScanned(o) /\ Knows(o) BY <2>2, <2>5 DEF Whole, CopyScanned, Knows
  <2> QED BY <2>1, <2>3, <2>4, <2>6, <1>0a, Begins
<1>8. ASSUME NEW w \in Worker, ScanImage(w) PROVE OpInv'
  <2>1. /\ op[w].pc = "image" /\ \A b \in Actor \ {w} : op'[b] = op[b]
        /\ op'[w].pc \in {"reconcile", "reconcileImage"}
        /\ op'[w].found = op[w].found \cup (world \cap Image)
        /\ op'[w].looked = op[w].looked \cup Image
        /\ op'[w].at = clock /\ op'[w].lone = op[w].lone
        /\ op'[w].pass = op[w].pass /\ op'[w].copy = op[w].copy
        BY <1>8, <1>0, <1>0a DEF ScanImage, TypeOK, Operation
  <2>2. UNCHANGED <<open, first, gone, world, result>> BY <1>8 DEF ScanImage, env, rows, stored
  <2>3. Whole(op[w]) /\ CopyScanned(op[w]) /\ Knows(op[w]) /\ w \in Actor
        BY <1>0a, <1>0b, <2>1 DEF Looking
  <2>4. Whole(op'[w])
    <3>1. \A kind \in {Code, Weak, Image} : kind \subseteq op'[w].looked \/ kind \cap op'[w].looked = {}
          BY <1>0c, <2>1, <2>3 DEF Whole, CodeDomain
    <3>2. op'[w].found \subseteq op'[w].looked BY <2>1, <2>3 DEF Whole
    <3>3. op'[w].at # 0 BY <2>1 DEF TypeOK
    <3> QED BY <3>1, <3>2, <3>3 DEF Whole
  <2>5. CopyScanned(op[w])'
    <3>1. op'[w].pass = "image" => op'[w].found \subseteq Image BY <2>1, <2>3 DEF CopyScanned
    <3> QED BY <2>1, <2>3, <3>1 DEF CopyScanned
  <2>6. Knows(op'[w]) BY <2>1, <2>3 DEF Knows, OpInv, RowsMarked, Looking
  <2>7. OthersSame(w) BY <2>1 DEF OthersSame, Same
  <2>8. Busy(w) BY <2>1 DEF Busy
  <2> QED BY <2>1, <2>2, <2>3, <2>4, <2>5, <2>6, <2>7, <2>8, GoesOn
<1>9. ASSUME NEW w \in Worker, SkipImage(w) PROVE OpInv'
  <2>1. /\ op[w].pc = "image" /\ \A b \in Actor \ {w} : op'[b] = op[b]
        /\ op'[w].pc = "reconcile" /\ op'[w].found = op[w].found /\ op'[w].looked = op[w].looked
        /\ op'[w].at = clock /\ op'[w].lone = op[w].lone
        /\ op'[w].pass = op[w].pass /\ op'[w].copy = op[w].copy
        BY <1>9, <1>0, <1>0a DEF SkipImage, TypeOK, Operation
  <2>2. UNCHANGED <<open, first, gone, world, result>> BY <1>9 DEF SkipImage, env, rows, stored
  <2>3. Whole(op[w]) /\ CopyScanned(op[w]) /\ Knows(op[w]) /\ w \in Actor
        BY <1>0a, <1>0b, <2>1 DEF Looking
  <2>4. Whole(op'[w]) BY <2>1, <2>3 DEF Whole, TypeOK
  <2>5. CopyScanned(op[w])' BY <2>1, <2>3 DEF CopyScanned
  <2>6. Knows(op'[w]) BY <2>1, <2>3 DEF Knows, Looking
  <2>7. OthersSame(w) /\ Busy(w) BY <2>1 DEF OthersSame, Same, Busy
  <2> QED BY <2>1, <2>2, <2>3, <2>4, <2>5, <2>6, <2>7, GoesOn
<1>10. ASSUME NEW w \in Worker, ImageFails(w) PROVE OpInv'
  <2>1. UNCHANGED <<open, first, gone, world>> /\ Finish(w) BY <1>10 DEF ImageFails, env, rows
  <2>2. result'.scanned
    <3>1. op[w].copy \in Result BY <1>10, <1>0a, <1>0b DEF ImageFails, CopyScanned
    <3>2. result'.scanned = op[w].copy.scanned BY <1>10, <3>1 DEF ImageFails, Result
    <3> QED BY <3>1, <3>2, RowScanned
  <2> QED BY <2>1, <2>2, <1>0a, Finishes
<1>11. ASSUME NEW a \in Actor, ReconcileCode(a) PROVE OpInv'
  <2>1. /\ op[a].pc = "reconcile" /\ \A b \in Actor \ {a} : op'[b] = op[b]
        /\ op'[a].found = op[a].found /\ op'[a].looked = op[a].looked
        /\ op'[a].lone = op[a].lone /\ op'[a].pass = op[a].pass /\ op'[a].at = op[a].at
        /\ op'[a].copy = op[a].copy /\ op'[a].pc \in {"weak", "reconcileImage", "save"}
        BY <1>11, <1>0 DEF ReconcileCode, TypeOK, Operation
  <2>2. UNCHANGED <<world, result>> /\ ReconcileFindings(op[a], CodeDomain)
        BY <1>11 DEF ReconcileCode, env, stored
  <2>3. op'[a].pc \in {"save", "weak"} => op[a].pass \in {"full", "image"}
    <3>1. op[a].pass \in {"full", "image"} \/ Ids \subseteq op[a].looked
          BY <1>0b, <2>1 DEF CopyScanned, Looking
    <3>2. Ids \subseteq op[a].looked => op'[a].pc = "reconcileImage"
      <4>1. Ids \subseteq op[a].looked => Weak \subseteq op[a].looked /\ Image \subseteq op[a].looked
            OBVIOUS
      <4> QED BY <1>11, <1>0, <4>1 DEF ReconcileCode, TypeOK, Operation
    <3> QED BY <3>1, <3>2
  <2> QED BY <2>1, <2>2, <2>3, Reconciles DEF Looking
<1>12. ASSUME NEW w \in Worker, AddOpenWeaknesses(w) PROVE OpInv'
  <2>1. /\ op[w].pc = "weak" /\ \A b \in Actor \ {w} : op'[b] = op[b]
        /\ op'[w].found = op[w].found /\ op'[w].looked = op[w].looked
        /\ op'[w].at = op[w].at /\ op'[w].lone = op[w].lone
        /\ op'[w].pass = op[w].pass /\ op'[w].copy = op[w].copy
        /\ op'[w].pc \in {"reconcileImage", "save"}
        BY <1>12, <1>0, <1>0a DEF AddOpenWeaknesses, TypeOK, Operation
  <2>2. UNCHANGED <<open, first, gone, world, result>>
        BY <1>12 DEF AddOpenWeaknesses, env, rows, stored
  <2>3. Whole(op[w]) /\ CopyScanned(op[w]) /\ Knows(op[w]) /\ w \in Actor
        BY <1>0a, <1>0b, <2>1 DEF Looking
  <2>4. Whole(op'[w]) BY <2>1, <2>3 DEF Whole
  <2>5. CopyScanned(op[w])' BY <2>1, <2>3 DEF CopyScanned
  <2>6. Knows(op'[w]) BY <2>1, <2>3 DEF Knows, Looking
  <2>7. OthersSame(w) /\ Busy(w) BY <2>1 DEF OthersSame, Same, Busy
  <2> QED BY <2>1, <2>2, <2>3, <2>4, <2>5, <2>6, <2>7, GoesOn
<1>13. ASSUME NEW a \in Actor, ReconcileImage(a) PROVE OpInv'
  <2>1. /\ op[a].pc = "reconcileImage" /\ \A b \in Actor \ {a} : op'[b] = op[b]
        /\ op'[a].found = op[a].found /\ op'[a].looked = op[a].looked
        /\ op'[a].lone = op[a].lone /\ op'[a].pass = op[a].pass /\ op'[a].at = op[a].at
        /\ op'[a].copy = op[a].copy
        /\ op'[a].pc = CASE op[a].pass = "full" -> "save"
                         [] op[a].pass = "image" -> "read"
                         [] OTHER -> "recount"
        BY <1>13, <1>0 DEF ReconcileImage, TypeOK, Operation
  <2>2. UNCHANGED <<world, result>> /\ ReconcileFindings(op[a], Image)
        BY <1>13 DEF ReconcileImage, env, stored
  <2> QED BY <2>1, <2>2, Reconciles DEF Looking
<1>14. ASSUME NEW w \in Worker, ReadCode(w) PROVE OpInv'
  <2>1. /\ op[w].pc = "read" /\ \A b \in Actor \ {w} : op'[b] = op[b]
        /\ op'[w].found = op[w].found /\ op'[w].lone = op[w].lone
        /\ op'[w].pass = op[w].pass /\ op'[w].copy = op[w].copy /\ op'[w].pc = "save"
        BY <1>14, <1>0, <1>0a DEF ReadCode, TypeOK, Operation
  <2>2. UNCHANGED <<open, first, gone, world, result>> BY <1>14 DEF ReadCode, env, rows, stored
  <2>3. CopyScanned(op[w]) BY <1>0a, <1>0b
  <2>4. CopyScanned(op[w])' BY <2>1, <2>3 DEF CopyScanned
  <2>5. op'[w].pc \notin Looking /\ Knows(op'[w]) BY <2>1 DEF Knows, Looking
  <2>6. OthersSame(w) /\ Busy(w) BY <2>1 DEF OthersSame, Same, Busy
  <2> QED BY <2>1, <2>2, <2>4, <2>5, <2>6, <1>0a, GoesOn
<1>15. ASSUME NEW w \in Worker, SaveResult(w) PROVE OpInv'
  <2>1. /\ op[w].pc = "save" /\ \A b \in Actor \ {w} : op'[b] = op[b]
        /\ op'[w].found = op[w].found /\ op'[w].lone = op[w].lone
        /\ op'[w].pass = op[w].pass /\ op'[w].copy = op[w].copy /\ op'[w].pc = "point"
        BY <1>15, <1>0, <1>0a DEF SaveResult, Goes, TypeOK, Operation
  <2>2. UNCHANGED <<open, first, gone, world>> /\ result'.scanned
        BY <1>15 DEF SaveResult, env, rows
  <2>3. CopyScanned(op[w]) BY <1>0a, <1>0b
  <2>4. CopyScanned(op[w])' BY <2>1, <2>3 DEF CopyScanned
  <2>5. op'[w].pc \notin Looking /\ Knows(op'[w]) BY <2>1 DEF Knows, Looking
  <2>6. OthersSame(w) /\ Busy(w) BY <2>1 DEF OthersSame, Same, Busy
  <2> QED BY <2>1, <2>2, <2>4, <2>5, <2>6, <1>0a, GoesOn
<1>16. ASSUME NEW w \in Worker, RecordPoint(w) PROVE OpInv'
  <2>1. UNCHANGED <<open, first, gone, world, result>> /\ Finish(w)
        BY <1>16 DEF RecordPoint, env, rows
  <2> QED BY <2>1, <1>0a, Finishes
<1>17. ASSUME NEW p \in Person, NEW i \in Ids, Decide(p, i) PROVE OpInv'
  <2> DEFINE o == [Idle EXCEPT !.pc = "create", !.pass = "decision", !.found = {i}]
  <2>1. o \in Operation /\ o.pc = "create" /\ o.pass = "decision" BY IdleTyped DEF Operation, Idle
  <2>2. Begin(p, o) BY <1>17 DEF Decide
  <2>3. UNCHANGED <<open, first, gone, world, result>> BY <1>17 DEF Decide, env, rows, stored
  <2> HIDE DEF o
  <2>4. o.pc \notin Looking /\ CopyScanned(o) /\ Knows(o) BY <2>1 DEF CopyScanned, Knows, Looking
  <2> QED BY <2>1, <2>2, <2>3, <2>4, <1>0a, Begins
<1>18. ASSUME NEW p \in Person, CreateDecision(p) PROVE OpInv'
  <2>1. /\ op[p].pc = "create" /\ \A b \in Actor \ {p} : op'[b] = op[b]
        /\ op'[p].found = op[p].found /\ op'[p].lone = op[p].lone
        /\ op'[p].pass = op[p].pass /\ op'[p].copy = op[p].copy /\ op'[p].pc = "recount"
        BY <1>18, <1>0, <1>0a DEF CreateDecision, Goes, TypeOK, Operation
  <2>2. UNCHANGED <<open, first, gone, world, result>> BY <1>18 DEF CreateDecision, env, rows, stored
  <2>3. CopyScanned(op[p]) BY <1>0a, <1>0b
  <2>4. CopyScanned(op[p])' BY <2>1, <2>3 DEF CopyScanned, Looking
  <2>5. op'[p].pc \notin Looking /\ Knows(op'[p]) BY <2>1 DEF Knows, Looking
  <2>6. OthersSame(p) /\ Busy(p) BY <2>1 DEF OthersSame, Same, Busy
  <2> QED BY <2>1, <2>2, <2>4, <2>5, <2>6, <1>0a, GoesOn
<1>19. ASSUME NEW p \in Person, NEW i \in Ids, Withdraw(p, i) PROVE OpInv'
  <2> DEFINE o == [Idle EXCEPT !.pc = "recount", !.pass = "decision", !.found = {i}]
  <2>1. o \in Operation /\ o.pc = "recount" /\ o.pass = "decision" BY IdleTyped DEF Operation, Idle
  <2>2. Begin(p, o) BY <1>19 DEF Withdraw
  <2>3. UNCHANGED <<open, first, gone, world, result>> BY <1>19 DEF Withdraw, env, rows, stored
  <2> HIDE DEF o
  <2>4. o.pc \notin Looking /\ CopyScanned(o) /\ Knows(o) BY <2>1 DEF CopyScanned, Knows, Looking
  <2> QED BY <2>1, <2>2, <2>3, <2>4, <1>0a, Begins
<1>20. ASSUME NEW p \in Person, NotAffected(p) PROVE OpInv'
  <2>1. UNCHANGED <<open, first, gone, world, result>> /\ Finish(p)
        BY <1>20 DEF NotAffected, env, rows, stored
  <2> QED BY <2>1, <1>0a, Finishes
<1>21. ASSUME NEW a \in Actor, Recount(a) PROVE OpInv'
  <2>2. UNCHANGED <<open, first, gone, world, result>> BY <1>21 DEF Recount, env, rows, stored
  <2>3. CASE result.scanned
    <3>1. /\ op[a].pc = "recount" /\ \A b \in Actor \ {a} : op'[b] = op[b]
          /\ op'[a].found = op[a].found /\ op'[a].lone = op[a].lone
          /\ op'[a].pass = op[a].pass /\ op'[a].copy = result /\ op'[a].pc = "counted"
          BY <1>21, <1>0, <2>3 DEF Recount, TypeOK, Operation
    <3>2. CopyScanned(op[a])' 
      <4>1. result \in Result BY <2>3, RowScanned DEF TypeOK
      <4>2. op[a].pass = "image" => op[a].found \subseteq Image BY <1>0b DEF CopyScanned
      <4> QED BY <2>2, <2>3, <3>1, <4>1, <4>2 DEF CopyScanned, Looking
    <3>3. op'[a].pc \notin Looking /\ Knows(op'[a]) BY <3>1 DEF Knows, Looking
    <3>4. OthersSame(a) /\ Busy(a) BY <3>1 DEF OthersSame, Same, Busy
    <3> QED BY <2>2, <3>1, <3>2, <3>3, <3>4, GoesOn
  <2>4. CASE ~result.scanned
    BY <1>21, <2>2, <2>4, Finishes DEF Recount
  <2> QED BY <2>3, <2>4
<1>22. ASSUME NEW a \in Actor, StoreCounts(a) PROVE OpInv'
  <2>1. UNCHANGED <<open, first, gone, world>> /\ Finish(a) BY <1>22 DEF StoreCounts, env, rows
  <2>2. result.scanned => result'.scanned
    <3>1. result.scanned => result \in Result BY RowScanned DEF TypeOK
    <3>2. result \in Result => result'.scanned = result.scanned BY <1>22 DEF StoreCounts, Result
    <3> QED BY <3>1, <3>2
  <2> QED BY <2>1, <2>2, Finishes
<1>23. CASE BackfillStart
  <2>1. UNCHANGED <<open, first, gone, world, result>> BY <1>23 DEF BackfillStart, env, rows, stored
  <2>2. CASE result.scanned /\ \A i \in Ids : first[i] = 0
    <3> DEFINE o == [Idle EXCEPT !.pc = "check", !.pass = "backfill", !.looked = Ids]
    <3>1. o \in Operation BY IdleTyped DEF Operation
    <3>2. o.pc = "check" /\ o.pass = "backfill" /\ o.looked = Ids BY DEF Idle
    <3>3. Begin(Backfill, o) BY <1>23, <2>2 DEF BackfillStart
    <3> HIDE DEF o
    <3>4. open = {} BY <2>2 DEF OpInv, RowsMarked, TypeOK
    <3>5. o.pc \notin Looking /\ CopyScanned(o) /\ Knows(o)
          BY <2>2, <3>2, <3>4 DEF CopyScanned, Knows, Looking
    <3> QED BY <2>1, <3>1, <3>3, <3>5, <1>0a, Begins
  <2>3. CASE ~(result.scanned /\ \A i \in Ids : first[i] = 0)
    BY <1>23, <2>1, <2>3, <1>0a, Finishes DEF BackfillStart
  <2> QED BY <2>2, <2>3
<1>24. CASE Wait
  BY <1>1, <1>24 DEF Wait
<1>25. CASE BackfillRead
  <2> DEFINE a == Backfill
  <2>1. /\ op[a].pc = "check" /\ \A b \in Actor \ {a} : op'[b] = op[b]
        /\ op'[a].found = result.report /\ op'[a].looked = op[a].looked
        /\ op'[a].lone = op[a].lone /\ op'[a].pass = op[a].pass
        /\ op'[a].at = result.updated /\ op'[a].copy = op[a].copy
        /\ op'[a].pc = "reconcile"
        BY <1>25, <1>0, <1>0a DEF BackfillRead, TypeOK, Operation
  <2>2. UNCHANGED <<open, first, gone, world, result>>
        BY <1>25 DEF BackfillRead, env, rows, stored
  <2>3. CopyScanned(op[a]) /\ op[a].looked = Ids /\ (op[a].lone => open = {})
        BY <1>0a, <1>0b, <2>1 DEF CopyScanned
  <2>4. result \in Result BY <1>0a, <1>0b, <2>1, RowScanned DEF CopyScanned, TypeOK
  <2>5. result.report \in SUBSET Ids /\ result.updated # 0
        BY <2>4 DEF Result, Ids, CodeDomain
  <2>6. Whole(op'[a]) BY <2>1, <2>3, <2>5 DEF Whole
  <2>7. op[a].pass # "image"
        BY <1>0a, <1>0b, <2>1 DEF CopyScanned
  <2>8. CopyScanned(op[a])' BY <2>1, <2>2, <2>3, <2>7 DEF CopyScanned, Looking
  <2>9. Knows(op'[a]) BY <2>1, <2>2, <2>3 DEF Knows
  <2>10. OthersSame(a) /\ Busy(a) BY <2>1 DEF OthersSame, Same, Busy
  <2> QED BY <1>0a, <2>1, <2>2, <2>6, <2>8, <2>9, <2>10, GoesOn
<1>26. ASSUME NEW a \in Actor, Fails(a) PROVE OpInv'
  <2>1. UNCHANGED <<open, first, gone, world, result>> /\ Finish(a)
        BY <1>26 DEF Fails, env, rows, stored
  <2> QED BY <2>1, Finishes
<1> QED
  BY <1>1, <1>2, <1>3, <1>4, <1>5, <1>6, <1>7, <1>8, <1>9, <1>10, <1>11, <1>12, <1>13, <1>14,
     <1>15, <1>16, <1>17, <1>18, <1>19, <1>20, <1>21, <1>22, <1>23, <1>24, <1>25, <1>26
     DEF Next, Environment, Scan, Decisions

LEMMA Inductive == Spec => []IInv
<1>1. Init => IInv BY InitTyped, InitInv DEF IInv, OpInv
<1>2. IInv /\ [Next]_vars => IInv'
  <2> SUFFICES ASSUME IInv, [Next]_vars PROVE IInv' OBVIOUS
  <2>1. TypeOK' BY StepTyped DEF IInv
  <2>2. OpInv' BY StepInv DEF IInv, OpInv
  <2> QED BY <2>1, <2>2 DEF IInv, OpInv
<1> QED BY <1>1, <1>2, PTL DEF Spec

-----------------------------------------------------------------------------
(* The rows, the counts and the operations of scan_findings.go and of the  *)
(* passes in scan.go are well formed: no negative number of decisions, no  *)
(* count of a finding outside its domain.                                  *)
THEOREM TypeCorrect == Spec => []TypeOK
BY Inductive, PTL DEF IInv

(* reconcileFindings is the only one that writes the rows: any other step  *)
(* leaves them, and the dates, as they are.                                *)
LEMMA OnlyReconcileWrites ==
    ASSUME [Next]_vars,
           ~\E a \in Actor : ReconcileCode(a) \/ ReconcileImage(a)
    PROVE  UNCHANGED <<open, first>>
BY DEF Next, Environment, Scan, Decisions, vars, rows, Wait, Tick, Restart, WorldChanges, Lapses,
       BackfillStart, BackfillRead, Fails, StartImage, StartFull, ScanImage, SkipImage, ImageFails, AddOpenWeaknesses,
       ReadCode, SaveResult, RecordPoint, CreateDecision, NotAffected, Decide, Withdraw, Recount,
       StoreCounts

(* A pass that runs alone closes a finding only if the problem was gone at *)
(* some time since the finding was opened: never for want of looking.      *)
THEOREM OnlyAbsentClosed == Spec => OnlyTheAbsentAreClosed
<1>1. IInv /\ [Next]_vars =>
        [\A i \in open \ open' : i \in gone \/ \E a \in Actor : Busy(a) /\ ~op[a].lone]_vars
  <2> SUFFICES ASSUME IInv, [Next]_vars, NEW i \in open, i \notin open'
               PROVE  i \in gone \/ \E a \in Actor : Busy(a) /\ ~op[a].lone
      OBVIOUS
  <2>1. PICK a \in Actor : ReconcileCode(a) \/ ReconcileImage(a) BY OnlyReconcileWrites
  <2>2. PICK domain \in {CodeDomain, Image} :
           ReconcileFindings(op[a], domain) /\ op[a].pc \in Looking \ {"image"}
        BY <2>1 DEF ReconcileCode, ReconcileImage, Looking
  <2>3. i \in (op[a].looked \ op[a].found) \cap open BY <2>2 DEF ReconcileFindings
  <2>4. CASE op[a].lone BY <2>2, <2>3, <2>4 DEF IInv, LoneKnows
  <2>5. CASE ~op[a].lone BY <2>2, <2>5 DEF Busy, Looking
  <2> QED BY <2>4, <2>5
<1> QED BY <1>1, Inductive, PTL DEF Spec, OnlyTheAbsentAreClosed

(* Every pass, the backfill too, changes the rows by whole reports of the  *)
(* kinds it looked for, and no row that stays open is dated anew: Findings *)
(* implements FindingLedger.                                               *)
THEOREM Refines == Spec => RowsAreALedger
<1> USE Pieces
<1>0. Ledger!Ids = Ids BY DEF Ledger!Ids, Ids
<1>1. Init => Ledger!Init BY <1>0 DEF Init, Ledger!Init
<1>2. IInv /\ [Next]_vars => [Ledger!Next]_(Ledger!vars)
  <2> SUFFICES ASSUME IInv, [Next]_vars, ~UNCHANGED <<open, first>> PROVE Ledger!Next
      BY DEF Ledger!vars
  <2>1. PICK a \in Actor : ReconcileCode(a) \/ ReconcileImage(a) BY OnlyReconcileWrites
  <2>2. PICK domain \in {CodeDomain, Image} :
           ReconcileFindings(op[a], domain) /\ op[a].pc \in Looking \ {"image"}
        BY <2>1 DEF ReconcileCode, ReconcileImage, Looking
  <2>3. Whole(op[a]) /\ op[a].at \in 1..MaxTime
    <3>1. Whole(op[a]) BY <2>2 DEF IInv, PassesWhole
    <3>2. op[a].at \in 0..MaxTime BY DEF IInv, TypeOK, Operation
    <3> QED BY <2>2, <3>1, <3>2 DEF Whole
  <2> DEFINE kinds == {k \in {Code, Weak, Image} : k \subseteq domain \cap op[a].looked}
             found == op[a].found \cap domain
  <2>4. UNION kinds = domain \cap op[a].looked
    <3>1. UNION kinds \subseteq domain \cap op[a].looked OBVIOUS
    <3>2. ASSUME NEW i \in domain \cap op[a].looked PROVE i \in UNION kinds
      <4>1. PICK k \in {Code, Weak, Image} : i \in k /\ k \subseteq domain
        <5>1. CASE domain = Image BY <3>2, <5>1
        <5>2. CASE domain = CodeDomain BY <3>2, <5>2 DEF CodeDomain
        <5> QED BY <5>1, <5>2
      <4>2. k \subseteq op[a].looked BY <2>3, <3>2, <4>1 DEF Whole
      <4>3. k \in kinds BY <4>1, <4>2
      <4> QED BY <4>1, <4>3
    <3> QED BY <3>1, <3>2
  <2>5. found \subseteq UNION kinds BY <2>3, <2>4 DEF Whole
  <2>6. Ledger!Report(kinds, found, op[a].at)
    <3>1. open' = (open \ UNION kinds) \cup found BY <2>2, <2>4 DEF ReconcileFindings
    <3>2. first' = [i \in Ledger!Ids |-> IF i \in found \ open THEN op[a].at ELSE first[i]]
          BY <1>0, <2>2 DEF ReconcileFindings
    <3> HIDE DEF kinds, found
    <3> QED BY <3>1, <3>2 DEF Ledger!Report
  <2>7. kinds \in SUBSET {Code, Weak, Image} /\ found \in SUBSET UNION kinds BY <2>5
  <2> HIDE DEF kinds, found
  <2> QED BY <2>3, <2>6, <2>7 DEF Ledger!Next
<1> QED BY <1>1, <1>2, Inductive, PTL DEF Spec, RowsAreALedger, Ledger!Spec

-----------------------------------------------------------------------------
(* The counts.  They follow the rows while nothing is under way; what an   *)
(* operation that runs alone adds is a set of facts for each of its steps, *)
(* which say how far it has come with the counts it will store.            *)

\* Between these steps the rows or the decisions are ahead of the counts.
Ahead == {"weak", "reconcileImage", "read", "save", "create", "recount", "counted"}

\* r counts the open findings: those that are suppressed apart from the rest.
Shows(r, now, sup) ==
    /\ r.code = (now \cap CodeDomain) \ sup
    /\ r.image = (now \cap Image) \ sup
    /\ r.hidden = now \cap sup

\* r counts only open findings, and counts them all as it should but for one
\* about which a decision is being recorded.
ShowsBut(r, now, sup, but) ==
    /\ r.code \subseteq now \cap CodeDomain /\ r.image \subseteq now \cap Image
    /\ r.hidden \subseteq now
    /\ r.code \ but = ((now \cap CodeDomain) \ sup) \ but
    /\ r.image \ but = ((now \cap Image) \ sup) \ but
    /\ r.hidden \ but = (now \cap sup) \ but

\* What a lone pass has to count with, and what it has counted so far.
Prepared(o, sup) ==
    /\ o.pass = "full" => Code \subseteq o.looked
    /\ o.pc = "reconcile" => o.pass # "image"
    /\ o.pc \in {"reconcile", "reconcileImage"} => o.pass # "decision"
    /\ o.pc \in {"reconcile", "weak", "reconcileImage", "read"} /\ o.pass # "backfill" =>
         o.hide = sup
    /\ o.pc = "reconcileImage" => Image \subseteq o.looked

CountedCode(o, now, sup, off) ==
    /\ o.pc = "weak" =>
         /\ o.pass = "full" /\ ~(Weak \subseteq o.looked)
         /\ now \cap Code = o.found \cap Code
         /\ o.code = (o.found \cap Code) \ sup /\ o.hidden = o.found \cap sup
    /\ o.pc = "reconcileImage" /\ o.pass = "full" =>
         /\ o.code = (now \cap CodeDomain) \ sup
         /\ o.hidden = (now \cap CodeDomain \cap sup) \cup (o.found \cap Image \cap sup)
    /\ o.pc = "read" =>
         /\ o.found = now \cap Image /\ o.image = (now \cap Image) \ sup
         /\ ~off => o.copy.code = (now \cap CodeDomain) \ sup

Exact(o, r, now, sup, off) ==
    /\ Prepared(o, sup)
    /\ CountedCode(o, now, sup, off)
    /\ o.pc \in {"image", "reconcileImage"} /\ o.pass = "image" /\ ~off => Shows(o.copy, now, sup)
    /\ o.pc = "save" /\ (IF o.pass = "full" THEN Image \subseteq o.looked ELSE ~off) =>
         Shows(o, now, sup)
    /\ o.pc = "counted" => Shows(o, now, sup)
    /\ o.pc \in {"create", "recount"} /\ o.pass = "decision" /\ ~off /\ r.scanned =>
         ShowsBut(r, now, sup, o.found)

Settled(r, now, sup, off) == ~off /\ r.scanned => Shows(r, now, sup)

CountInv ==
    /\ \A a \in Actor : Busy(a) /\ ~op[a].lone => countsOff
    /\ (\A a \in Actor : op[a].pc \notin Ahead) => Settled(result, open, InForce, countsOff)
    /\ \A a \in Actor : Busy(a) /\ op[a].lone => Exact(op[a], result, open, InForce, countsOff)

\* The history follows the counts while at most one operation is under way,
\* and the one that is knows the counts it began with.
Follows(o, r) ==
    /\ o.pc = "image" /\ o.pass = "image" =>
         r.scanned /\ o.copy.code = r.code /\ o.copy.image = r.image
    /\ o.pc = "counted" => o.copy.code = r.code /\ o.copy.image = r.image
    /\ o.pc = "point" => o.code = r.code /\ o.image = r.image

Filed(h, r) == r.scanned => h = [code |-> r.code, image |-> r.image]

HistoryInv ==
    /\ \A a, b \in Actor : a # b /\ Busy(a) /\ Busy(b) => historyOff
    /\ ~historyOff /\ (\A a \in Actor : op[a].pc # "point") => Filed(history, result)
    /\ \A a \in Actor : ~historyOff \/ op[a].lone => Follows(op[a], result)

\* Nothing is asked of an actor with nothing to do.
LEMMA IdleExact ==
    \A r, now, sup, off :
        Exact(Idle, r, now, sup, off) /\ Follows(Idle, r) /\ Idle.pc \notin Ahead
BY IdleFields DEF Exact, Prepared, CountedCode, Follows, Ahead

\* While a lone operation is between reading and writing, the rest is quiet.
LEMMA LoneOnly ==
    ASSUME OpInv, CountInv, NEW a \in Actor, Busy(a), op[a].lone
    PROVE  /\ \A b \in Actor \ {a} : op[b].pc \in {"idle", "boot"}
           /\ Exact(op[a], result, open, InForce, countsOff)
           /\ op[a].pc \notin Ahead => Settled(result, open, InForce, countsOff)
<1>1. \A b \in Actor \ {a} : op[b].pc \in {"idle", "boot"} BY DEF OpInv, LoneAlone, Busy
<1>2. \A b \in Actor \ {a} : op[b].pc \notin Ahead BY <1>1 DEF Ahead
<1> QED BY <1>1, <1>2 DEF CountInv

\* It is enough to look at the operation that moves, and only if it is lone.
LEMMA OneCounts ==
    ASSUME TypeOK, OpInv, CountInv, NEW a \in Actor, Busy(a),
           \A b \in Actor \ {a} : op'[b] = op[b],
           op'[a].lone = op[a].lone \/ op'[a] = Idle,
           ~op[a].lone => countsOff' = countsOff,
           op[a].lone => Exact(op'[a], result', open', InForce', countsOff'),
           op[a].lone /\ op'[a].pc \notin Ahead => Settled(result', open', InForce', countsOff')
    PROVE  CountInv'
<1>1. CASE op[a].lone
  <2>1. \A b \in Actor \ {a} : op'[b].pc \in {"idle", "boot"} BY <1>1, LoneOnly
  <2>2. \A b \in Actor : Busy(b)' => b = a /\ op'[a].lone
        BY <1>1, <2>1, IdleFields DEF Busy
  <2> QED BY <1>1, <2>2 DEF CountInv
<1>2. CASE ~op[a].lone
  <2>1. countsOff /\ countsOff' BY <1>2 DEF CountInv
  <2>2. \A b \in Actor : Busy(b)' => ~op'[b].lone
    <3>1. \A b \in Actor \ {a} : Busy(b) => ~op[b].lone
          BY DEF OpInv, LoneAlone
    <3> QED BY <1>2, <3>1, IdleFields DEF Busy
  <2> QED BY <2>1, <2>2 DEF CountInv, Settled
<1> QED BY <1>1, <1>2

LEMMA FinishCounts ==
    ASSUME TypeOK, OpInv, CountInv, NEW a \in Actor, Busy(a), Finish(a),
           ~op[a].lone => countsOff' = countsOff,
           op[a].lone => Settled(result', open', InForce', countsOff')
    PROVE  CountInv'
<1>1. op'[a] = Idle /\ \A b \in Actor \ {a} : op'[b] = op[b] BY DEF Finish, TypeOK
<1> QED BY <1>1, IdleExact, OneCounts

\* An operation that begins alone finds the counts settled.
LEMMA BeginCounts ==
    ASSUME TypeOK, OpInv, CountInv, NEW a \in Actor, NEW o \in Operation, Begin(a, o), ~Busy(a),
           UNCHANGED <<open, result>>, o.lone,
           Settled(result, open, InForce, countsOff) =>
              /\ Exact(o, result, open, InForce', countsOff)
              /\ o.pc \notin Ahead => Settled(result, open, InForce', countsOff)
    PROVE  CountInv'
<1>0. \A b \in Actor : op[b] \in Operation BY DEF TypeOK
<1>1. CASE \E b \in Actor \ {a} : Busy(b)
  <2>1. op' = [Disturbed EXCEPT ![a] = [o EXCEPT !.lone = FALSE]] /\ countsOff'
        BY <1>1 DEF Begin
  <2>2. \A b \in Actor : Busy(b)' => ~op'[b].lone
    <3>1. \A q \in Operation : [q EXCEPT !.lone = FALSE].lone = FALSE BY DEF Operation
    <3>2. op'[a].lone = FALSE BY <2>1, <3>1 DEF Disturbed
    <3>3. \A b \in Actor \ {a} :
            op'[b] = IF Busy(b) THEN [op[b] EXCEPT !.lone = FALSE] ELSE op[b]
          BY <2>1 DEF Disturbed
    <3> QED BY <1>0, <3>1, <3>2, <3>3 DEF Busy
  <2> QED BY <2>1, <2>2 DEF CountInv, Settled
<1>2. CASE ~\E b \in Actor \ {a} : Busy(b)
  <2>1. op' = [op EXCEPT ![a] = o] /\ countsOff' = countsOff BY <1>2 DEF Begin
  <2>2. op'[a] = o /\ \A b \in Actor \ {a} : op'[b] = op[b] BY <2>1 DEF TypeOK
  <2>3. Settled(result, open, InForce, countsOff)
        BY <1>2 DEF CountInv, Busy, Ahead
  <2>4. \A b \in Actor : Busy(b)' => b = a BY <1>2, <2>2 DEF Busy
  <2> QED BY <2>1, <2>2, <2>3, <2>4 DEF CountInv
<1> QED BY <1>1, <1>2

LEMMA InitCounts == Init => CountInv
<1> SUFFICES ASSUME Init PROVE CountInv OBVIOUS
<1>1. \A a \in Actor : ~Busy(a) BY IdleFields DEF Init, Idle, Busy
<1>2. countsOff = result.scanned BY DEF Init
<1> QED BY <1>1, <1>2 DEF CountInv, Settled

\* What a report does to the open rows of its domain, and of the others.
LEMMA Reported ==
    ASSUME TypeOK, NEW o \in Operation, NEW domain \in {CodeDomain, Image},
           ReconcileFindings(o, domain)
    PROVE  /\ open' \cap domain = (open \cap (domain \ o.looked)) \cup (o.found \cap domain)
           /\ open' \ domain = open \ domain
BY DEF ReconcileFindings

\* The steps of a pass keep the counts.
LEMMA PassCounts ==
    ASSUME TypeOK, OpInv, CountInv, NEW a \in Actor,
           \/ ScanImage(a) \/ SkipImage(a) \/ ImageFails(a)
           \/ ReconcileCode(a) \/ AddOpenWeaknesses(a) \/ ReconcileImage(a)
           \/ ReadCode(a) \/ SaveResult(a) \/ RecordPoint(a)
    PROVE  CountInv'
<1> USE Pieces
<1>0. op[a] \in Operation /\ open \subseteq Ids BY DEF TypeOK
<1>0a. Code \cap Weak = {} /\ CodeDomain \cap Image = {} /\ CodeDomain = Code \cup Weak
       /\ Ids = CodeDomain \cup Image
       BY FindingsAssumption DEF CodeDomain, Ids
<1>0b. CopyScanned(op[a]) /\ (op[a].pc \in Looking => Whole(op[a]))
       BY DEF OpInv, CopiesScanned, PassesWhole
<1>0c. InForce' = InForce
  <2>1. decided' = decided
        BY Zenon DEF ScanImage, SkipImage, ImageFails, ReconcileCode, AddOpenWeaknesses,
                     ReconcileImage, ReadCode, SaveResult, RecordPoint
  <2> QED BY <2>1 DEF InForce
<1>0d. Busy(a) BY DEF Busy, ScanImage, SkipImage, ImageFails, ReconcileCode, AddOpenWeaknesses,
                      ReconcileImage, ReadCode, SaveResult, RecordPoint
<1>0e. op[a].lone => /\ Exact(op[a], result, open, InForce, countsOff)
                     /\ op[a].pc \notin Ahead => Settled(result, open, InForce, countsOff)
       BY <1>0d, LoneOnly
<1>1. CASE ScanImage(a)
  <2>1. /\ op[a].pc = "image" /\ \A b \in Actor \ {a} : op'[b] = op[b]
        /\ op'[a].pc = IF op[a].pass = "full" THEN "reconcile" ELSE "reconcileImage"
        /\ op'[a].looked = op[a].looked \cup Image /\ op'[a].hide = InForce
        /\ op'[a].lone = op[a].lone /\ op'[a].pass = op[a].pass /\ op'[a].copy = op[a].copy
        BY <1>1, <1>0 DEF ScanImage, TypeOK, Operation
  <2>2. UNCHANGED <<open, result, countsOff>> BY <1>1 DEF ScanImage, rows, stored
  <2>3. op[a].pass \in {"full", "image"} BY <2>1, <1>0b DEF CopyScanned
  <2>4. op[a].lone => Exact(op'[a], result', open', InForce', countsOff')
        BY <2>1, <2>2, <2>3, <1>0c, <1>0e DEF Exact, Prepared, CountedCode
  <2>5. op[a].lone => Settled(result', open', InForce', countsOff')
        BY <2>1, <2>2, <1>0c, <1>0e DEF Ahead
  <2> QED BY <2>1, <2>2, <2>4, <2>5, <1>0d, OneCounts
<1>2. CASE SkipImage(a)
  <2>1. /\ op[a].pc = "image" /\ \A b \in Actor \ {a} : op'[b] = op[b]
        /\ op'[a].pc = "reconcile" /\ op[a].pass = "full"
        /\ op'[a].looked = op[a].looked /\ op'[a].hide = InForce
        /\ op'[a].lone = op[a].lone /\ op'[a].pass = op[a].pass
        BY <1>2, <1>0 DEF SkipImage, TypeOK, Operation
  <2>2. UNCHANGED <<open, result, countsOff>> BY <1>2 DEF SkipImage, rows, stored
  <2>4. op[a].lone => Exact(op'[a], result', open', InForce', countsOff')
        BY <2>1, <2>2, <1>0c, <1>0e DEF Exact, Prepared, CountedCode
  <2>5. op[a].lone => Settled(result', open', InForce', countsOff')
        BY <2>1, <2>2, <1>0c, <1>0e DEF Ahead
  <2> QED BY <2>1, <2>2, <2>4, <2>5, <1>0d, OneCounts
<1>3. CASE ImageFails(a)
  <2>1. op[a].pc = "image" /\ op[a].pass = "image" /\ Finish(a) BY <1>3 DEF ImageFails
  <2>2. UNCHANGED <<open, countsOff>> BY <1>3 DEF ImageFails, rows
  <2>3. /\ result'.code = op[a].copy.code /\ result'.image = op[a].copy.image
        /\ result'.hidden = op[a].copy.hidden
    <3>1. op[a].copy \in Result BY <2>1, <1>0b DEF CopyScanned
    <3> QED BY <1>3, <3>1 DEF ImageFails, Result
  <2>4. op[a].lone => Settled(result', open', InForce', countsOff')
        BY <2>1, <2>2, <2>3, <1>0c, <1>0e DEF Exact, Settled, Shows
  <2> QED BY <2>1, <2>2, <2>4, <1>0d, FinishCounts
<1>4. CASE ReconcileCode(a)
  <2>1. /\ op[a].pc = "reconcile" /\ \A b \in Actor \ {a} : op'[b] = op[b]
        /\ op'[a].code = (op[a].found \cap CodeDomain) \ op[a].hide
        /\ op'[a].hidden = op[a].found \cap op[a].hide
        /\ op'[a].pc = IF ~(Weak \subseteq op[a].looked) THEN "weak"
                       ELSE IF Image \subseteq op[a].looked THEN "reconcileImage" ELSE "save"
        /\ op'[a].found = op[a].found /\ op'[a].looked = op[a].looked
        /\ op'[a].lone = op[a].lone /\ op'[a].pass = op[a].pass /\ op'[a].hide = op[a].hide
        BY <1>4, <1>0 DEF ReconcileCode, TypeOK, Operation
  <2>2. UNCHANGED <<result, countsOff>> /\ ReconcileFindings(op[a], CodeDomain)
        BY <1>4 DEF ReconcileCode, stored
  <2>3. op'[a].pc \in Ahead BY <2>1 DEF Ahead
  <2>4. ASSUME op[a].lone PROVE Exact(op'[a], result', open', InForce', countsOff')
    <3>1. /\ op[a].pass = "full" => Code \subseteq op[a].looked
          /\ op[a].pass \notin {"image", "decision"}
          /\ op[a].pass # "backfill" => op[a].hide = InForce
          BY <1>0e, <2>1, <2>4 DEF Exact, Prepared
    <3>2. op[a].found \subseteq op[a].looked /\ (Weak \subseteq op[a].looked \/ Weak \cap op[a].looked = {})
          BY <1>0b, <2>1 DEF Whole, Looking
    <3>3. op[a].pass \in {"full", "image"} \/ Ids \subseteq op[a].looked
          BY <1>0b, <2>1 DEF CopyScanned, Looking
    <3>4. open' \cap CodeDomain
            = (open \cap (CodeDomain \ op[a].looked)) \cup (op[a].found \cap CodeDomain)
          BY <1>0, <2>2, Reported
    <3>5. Prepared(op'[a], InForce') BY <2>1, <3>1, <1>0c DEF Prepared
    <3>6. CASE op'[a].pc = "weak"
      <4>1. op[a].pass = "full" /\ ~(Weak \subseteq op[a].looked)
            BY <2>1, <3>1, <3>3, <3>6
      <4>2. op[a].found \cap Weak = {} BY <3>2, <4>1
      <4>3. open' \cap Code = op[a].found \cap Code
        <5>1. open' \cap Code = (open' \cap CodeDomain) \cap Code BY <1>0a
        <5>2. (open \cap (CodeDomain \ op[a].looked)) \cap Code = {} BY <3>1, <4>1
        <5>3. (op[a].found \cap CodeDomain) \cap Code = op[a].found \cap Code BY <1>0a
        <5> QED BY <3>4, <5>1, <5>2, <5>3
      <4>4. op'[a].code = (op[a].found \cap Code) \ InForce
        <5>1. op[a].found \cap CodeDomain = op[a].found \cap Code BY <1>0a, <4>2
        <5> QED BY <2>1, <3>1, <4>1, <5>1
      <4>5. op'[a].hidden = op[a].found \cap InForce BY <2>1, <3>1, <4>1
      <4> QED BY <2>1, <3>5, <3>6, <4>1, <4>3, <4>4, <4>5, <1>0c DEF Exact, CountedCode
    <3>7. CASE op'[a].pc = "reconcileImage"
      <4>1. Weak \subseteq op[a].looked /\ Image \subseteq op[a].looked BY <2>1, <3>7
      <4>2. ASSUME op[a].pass = "full"
            PROVE  /\ op'[a].code = (open' \cap CodeDomain) \ InForce
                   /\ op'[a].hidden = (open' \cap CodeDomain \cap InForce)
                                        \cup (op[a].found \cap Image \cap InForce)
        <5>1. CodeDomain \subseteq op[a].looked BY <1>0a, <3>1, <4>1, <4>2
        <5>2. open' \cap CodeDomain = op[a].found \cap CodeDomain BY <3>4, <5>1
        <5>3. op[a].hide = InForce BY <3>1, <4>2
        <5>4. op[a].found = (op[a].found \cap CodeDomain) \cup (op[a].found \cap Image)
              BY <1>0, <1>0a DEF Operation
        <5> QED BY <2>1, <5>2, <5>3, <5>4
      <4> QED BY <2>1, <3>1, <3>5, <3>7, <4>1, <4>2, <1>0c DEF Exact, CountedCode
    <3>8. CASE op'[a].pc = "save"
      <4>1. ~(Image \subseteq op[a].looked) BY <2>1, <3>8
      <4>2. op[a].pass = "full" BY <3>1, <3>3, <4>1
      <4> QED BY <2>1, <3>5, <3>8, <4>1, <4>2 DEF Exact, CountedCode
    <3> QED BY <2>1, <3>6, <3>7, <3>8
  <2> QED BY <2>1, <2>2, <2>3, <2>4, <1>0d, OneCounts
<1>5. CASE AddOpenWeaknesses(a)
  <2>1. /\ op[a].pc = "weak" /\ \A b \in Actor \ {a} : op'[b] = op[b]
        /\ op'[a].code = op[a].code \cup ((open \cap Weak) \ InForce)
        /\ op'[a].hidden = op[a].hidden \cup (open \cap Weak \cap InForce)
        /\ op'[a].pc = IF Image \subseteq op[a].looked THEN "reconcileImage" ELSE "save"
        /\ op'[a].found = op[a].found /\ op'[a].looked = op[a].looked
        /\ op'[a].lone = op[a].lone /\ op'[a].pass = op[a].pass /\ op'[a].hide = op[a].hide
        BY <1>5, <1>0 DEF AddOpenWeaknesses, TypeOK, Operation
  <2>2. UNCHANGED <<open, result, countsOff>> BY <1>5 DEF AddOpenWeaknesses, rows, stored
  <2>3. op'[a].pc \in Ahead BY <2>1 DEF Ahead
  <2>4. ASSUME op[a].lone PROVE Exact(op'[a], result', open', InForce', countsOff')
    <3>1. /\ op[a].pass = "full" /\ Code \subseteq op[a].looked /\ ~(Weak \subseteq op[a].looked)
          /\ op[a].hide = InForce /\ open \cap Code = op[a].found \cap Code
          /\ op[a].code = (op[a].found \cap Code) \ InForce
          /\ op[a].hidden = op[a].found \cap InForce
          BY <1>0e, <2>1, <2>4 DEF Exact, Prepared, CountedCode
    <3>2. op[a].found \cap Weak = {} BY <1>0b, <2>1, <3>1 DEF Whole, Looking
    <3>3. op'[a].code = (open \cap CodeDomain) \ InForce BY <1>0a, <2>1, <3>1
    <3>4. op'[a].hidden = (open \cap CodeDomain \cap InForce)
                            \cup (op[a].found \cap Image \cap InForce)
      <4>1. op[a].found = (op[a].found \cap Code) \cup (op[a].found \cap Image)
            BY <1>0, <1>0a, <3>2 DEF Operation
      <4>2. op[a].hidden = (open \cap Code \cap InForce) \cup (op[a].found \cap Image \cap InForce)
            BY <3>1, <4>1
      <4>3. open \cap CodeDomain = (open \cap Code) \cup (open \cap Weak) BY <1>0a
      <4> QED BY <2>1, <4>2, <4>3
    <3> QED BY <2>1, <2>2, <3>1, <3>3, <3>4, <1>0c DEF Exact, Prepared, CountedCode
  <2> QED BY <2>1, <2>2, <2>3, <2>4, <1>0d, OneCounts
<1>6. CASE ReconcileImage(a)
  <2>1. /\ op[a].pc = "reconcileImage" /\ \A b \in Actor \ {a} : op'[b] = op[b]
        /\ op'[a].image = (op[a].found \cap Image) \ op[a].hide
        /\ op'[a].pc = CASE op[a].pass = "full" -> "save"
                         [] op[a].pass = "image" -> "read"
                         [] OTHER -> "recount"
        /\ op'[a].found = op[a].found /\ op'[a].looked = op[a].looked
        /\ op'[a].code = op[a].code /\ op'[a].hidden = op[a].hidden /\ op'[a].copy = op[a].copy
        /\ op'[a].lone = op[a].lone /\ op'[a].pass = op[a].pass /\ op'[a].hide = op[a].hide
        BY <1>6, <1>0 DEF ReconcileImage, TypeOK, Operation
  <2>2. UNCHANGED <<result, countsOff>> /\ ReconcileFindings(op[a], Image)
        BY <1>6 DEF ReconcileImage, stored
  <2>3. op'[a].pc \in Ahead BY <2>1 DEF Ahead
  <2>4. ASSUME op[a].lone PROVE Exact(op'[a], result', open', InForce', countsOff')
    <3>1. /\ op[a].pass = "full" => Code \subseteq op[a].looked
          /\ Image \subseteq op[a].looked /\ op[a].pass # "decision"
          /\ op[a].pass # "backfill" => op[a].hide = InForce
          BY <1>0e, <2>1, <2>4 DEF Exact, Prepared
    <3>2. Prepared(op'[a], InForce') BY <2>1, <3>1, <1>0c DEF Prepared
    <3>3. open' \cap Image = op[a].found \cap Image
      <4>1. open' \cap Image = (open \cap (Image \ op[a].looked)) \cup (op[a].found \cap Image)
            BY <1>0, <2>2, Reported
      <4>2. Image \ op[a].looked = {} BY <3>1
      <4> QED BY <4>1, <4>2
    <3>4. open' \cap CodeDomain = open \cap CodeDomain
      <4>1. open' \ Image = open \ Image BY <1>0, <2>2, Reported
      <4>2. open' \cap CodeDomain = (open' \ Image) \cap CodeDomain
            /\ open \cap CodeDomain = (open \ Image) \cap CodeDomain
            BY <1>0a
      <4> QED BY <4>1, <4>2
    <3>5. CASE op[a].pass = "full"
      <4>1. /\ op[a].code = (open \cap CodeDomain) \ InForce
            /\ op[a].hidden = (open \cap CodeDomain \cap InForce)
                                \cup (op[a].found \cap Image \cap InForce)
            BY <1>0e, <2>1, <2>4, <3>5 DEF Exact, CountedCode
      <4>2. open' = (open' \cap CodeDomain) \cup (open' \cap Image)
        <5>1. open' \subseteq Ids BY <1>0, <2>2 DEF ReconcileFindings, Operation
        <5> QED BY <5>1, <1>0a
      <4>3. op[a].hidden = open' \cap InForce BY <3>3, <3>4, <4>1, <4>2
      <4>4. Shows(op'[a], open', InForce') BY <2>1, <3>1, <3>3, <3>4, <3>5, <4>1, <4>3, <1>0c DEF Shows
      <4> QED BY <2>1, <3>2, <3>5, <4>4 DEF Exact, CountedCode
    <3>6. CASE op[a].pass = "image"
      <4>1. op[a].found \subseteq Image BY <1>0b, <3>6 DEF CopyScanned
      <4>2. op'[a].found = open' \cap Image /\ op'[a].image = (open' \cap Image) \ InForce
            BY <2>1, <3>1, <3>3, <3>6, <4>1
      <4>3. ~countsOff => op'[a].copy.code = (open' \cap CodeDomain) \ InForce
            BY <1>0e, <2>1, <2>4, <3>4, <3>6 DEF Exact, Shows
      <4> QED BY <2>1, <2>2, <3>2, <3>6, <4>2, <4>3, <1>0c DEF Exact, CountedCode
    <3>7. CASE op[a].pass \notin {"full", "image"}
      <4>1. op'[a].pc = "recount" BY <2>1, <3>7
      <4>2. op[a].pass # "decision" BY <1>0e, <2>1, <2>4 DEF Exact, Prepared
      <4> QED BY <2>1, <3>2, <3>7, <4>1, <4>2 DEF Exact, CountedCode
    <3> QED BY <3>5, <3>6, <3>7
  <2> QED BY <2>1, <2>2, <2>3, <2>4, <1>0d, OneCounts
<1>7. CASE ReadCode(a)
  <2>1. /\ op[a].pc = "read" /\ \A b \in Actor \ {a} : op'[b] = op[b]
        /\ op'[a].code = op[a].copy.code
        /\ op'[a].hidden = (open \cap CodeDomain \cap InForce) \cup (op[a].found \cap op[a].hide)
        /\ op'[a].pc = "save" /\ op'[a].image = op[a].image
        /\ op'[a].looked = op[a].looked
        /\ op'[a].lone = op[a].lone /\ op'[a].pass = op[a].pass /\ op'[a].hide = op[a].hide
        BY <1>7, <1>0 DEF ReadCode, TypeOK, Operation
  <2>2. UNCHANGED <<open, result, countsOff>> BY <1>7 DEF ReadCode, rows, stored
  <2>3. op'[a].pc \in Ahead BY <2>1 DEF Ahead
  <2>4. ASSUME op[a].lone PROVE Exact(op'[a], result', open', InForce', countsOff')
    <3>1. op[a].pass = "image" BY <1>0b, <2>1 DEF CopyScanned
    <3>2. /\ op[a].found = open \cap Image /\ op[a].image = (open \cap Image) \ InForce
          /\ ~countsOff => op[a].copy.code = (open \cap CodeDomain) \ InForce
          /\ op[a].hide = InForce
          BY <1>0e, <2>1, <2>4, <3>1 DEF Exact, Prepared, CountedCode
    <3>3. op'[a].hidden = open \cap InForce BY <1>0, <1>0a, <2>1, <3>2
    <3>4. ~countsOff => Shows(op'[a], open, InForce) BY <2>1, <3>2, <3>3 DEF Shows
    <3> QED BY <2>1, <2>2, <3>1, <3>4, <1>0c DEF Exact, Prepared, CountedCode
  <2> QED BY <2>1, <2>2, <2>3, <2>4, <1>0d, OneCounts
<1>8. CASE SaveResult(a)
  <2>1. /\ op[a].pc = "save" /\ \A b \in Actor \ {a} : op'[b] = op[b]
        /\ op'[a].pc = "point" /\ op'[a].looked = op[a].looked
        /\ op'[a].lone = op[a].lone /\ op'[a].pass = op[a].pass
        BY <1>8, <1>0 DEF SaveResult, Goes, TypeOK, Operation
  <2>2. /\ open' = open
        /\ result'.code = op[a].code /\ result'.image = op[a].image /\ result'.hidden = op[a].hidden
        /\ countsOff' = IF op[a].lone /\ op[a].pass = "full" THEN ~(Image \subseteq op[a].looked)
                        ELSE countsOff
        BY <1>8 DEF SaveResult, rows
  <2>3. op[a].lone => Exact(op'[a], result', open', InForce', countsOff')
        BY <2>1, <1>0c, <1>0e DEF Exact, Prepared, CountedCode
  <2>4. op[a].lone => Settled(result', open', InForce', countsOff')
    <3> SUFFICES ASSUME op[a].lone, ~countsOff' PROVE Shows(result', open', InForce')
        BY DEF Settled
    <3>1. IF op[a].pass = "full" THEN Image \subseteq op[a].looked ELSE ~countsOff
          BY <2>2
    <3>2. Shows(op[a], open, InForce) BY <1>0e, <2>1, <3>1 DEF Exact
    <3> QED BY <2>2, <3>2, <1>0c DEF Shows
  <2> QED BY <2>1, <2>2, <2>3, <2>4, <1>0d, OneCounts
<1>9. CASE RecordPoint(a)
  <2>1. op[a].pc = "point" /\ Finish(a) BY <1>9 DEF RecordPoint
  <2>2. UNCHANGED <<open, result, countsOff>> BY <1>9 DEF RecordPoint, rows
  <2>3. op[a].lone => Settled(result', open', InForce', countsOff')
        BY <2>1, <2>2, <1>0c, <1>0e DEF Ahead
  <2> QED BY <2>1, <2>2, <2>3, <1>0d, FinishCounts
<1> QED BY <1>1, <1>2, <1>3, <1>4, <1>5, <1>6, <1>7, <1>8, <1>9

\* The operation that a decision about i begins.
Deciding(pc, i) == [Idle EXCEPT !.pc = pc, !.pass = "decision", !.found = {i}]

\* The steps of a decision, and of the recount that follows it.
LEMMA DecisionCounts ==
    ASSUME TypeOK, OpInv, CountInv, NEW a \in Actor,
           \/ \E i \in Ids : Decide(a, i) \/ Withdraw(a, i)
           \/ CreateDecision(a) \/ NotAffected(a) \/ Recount(a) \/ StoreCounts(a)
    PROVE  CountInv'
<1> USE Pieces
<1>0. op[a] \in Operation /\ open \subseteq Ids BY DEF TypeOK
<1>0a. \A r, now, sup, other, but :
         /\ Shows(r, now, sup) /\ sup \ but = other \ but => ShowsBut(r, now, other, but)
         /\ ShowsBut(r, now, sup, but) /\ sup \ but = other \ but => ShowsBut(r, now, other, but)
         /\ ShowsBut(r, now, sup, but) /\ but \cap now = {} => Shows(r, now, sup)
  <2> SUFFICES ASSUME NEW r, NEW now, NEW sup, NEW other, NEW but
               PROVE  /\ Shows(r, now, sup) /\ sup \ but = other \ but => ShowsBut(r, now, other, but)
                      /\ ShowsBut(r, now, sup, but) /\ sup \ but = other \ but
                           => ShowsBut(r, now, other, but)
                      /\ ShowsBut(r, now, sup, but) /\ but \cap now = {} => Shows(r, now, sup)
      OBVIOUS
  <2>1. ASSUME NEW s, sup \ but = other \ but PROVE (s \ sup) \ but = (s \ other) \ but
        BY <2>1
  <2>2. ASSUME sup \ but = other \ but PROVE (now \cap sup) \ but = (now \cap other) \ but
        BY <2>2
  <2>3. ASSUME Shows(r, now, sup), sup \ but = other \ but PROVE ShowsBut(r, now, other, but)
    <3>1. /\ r.code \subseteq now \cap CodeDomain /\ r.image \subseteq now \cap Image
          /\ r.hidden \subseteq now
          BY <2>3 DEF Shows
    <3> QED BY <2>1, <2>2, <2>3, <3>1 DEF Shows, ShowsBut
  <2>4. ASSUME ShowsBut(r, now, sup, but), sup \ but = other \ but
        PROVE  ShowsBut(r, now, other, but)
        BY <2>1, <2>2, <2>4 DEF ShowsBut
  <2>5. ASSUME ShowsBut(r, now, sup, but), but \cap now = {} PROVE Shows(r, now, sup)
    <3>1. ASSUME NEW s, s \subseteq now PROVE s \ but = s BY <2>5, <3>1
    <3>2. /\ (now \cap CodeDomain) \ sup \subseteq now /\ (now \cap Image) \ sup \subseteq now
          /\ now \cap sup \subseteq now
          OBVIOUS
    <3> QED BY <2>5, <3>1, <3>2 DEF Shows, ShowsBut
  <2> QED BY <2>3, <2>4, <2>5
<1>0b. Busy(a) /\ op[a].lone =>
         /\ Exact(op[a], result, open, InForce, countsOff)
         /\ op[a].pc \notin Ahead => Settled(result, open, InForce, countsOff)
       BY LoneOnly
<1>1. ASSUME NEW i \in Ids, Decide(a, i) \/ Withdraw(a, i) PROVE CountInv'
  <2>1. PICK pc \in {"create", "recount"} : Begin(a, Deciding(pc, i))
    <3>1. Decide(a, i) => Begin(a, Deciding("create", i)) BY Zenon DEF Decide, Deciding
    <3>2. Withdraw(a, i) => Begin(a, Deciding("recount", i)) BY Zenon DEF Withdraw, Deciding
    <3> QED BY <1>1, <3>1, <3>2
  <2> DEFINE o == Deciding(pc, i)
  <2>1a. /\ o \in Operation /\ o.lone
         /\ o.pc \in {"create", "recount"} /\ o.pass = "decision" /\ o.found = {i}
         BY IdleTyped DEF Operation, Idle, Deciding
  <2> HIDE DEF o
  <2>2. UNCHANGED <<open, result>> /\ op[a].pc = "idle"
        BY <1>1, Zenon DEF Decide, Withdraw, rows, stored
  <2>2a. ~Busy(a) BY <2>2 DEF Busy
  <2>3. InForce' \ {i} = InForce \ {i}
    <3>1. PICK n : decided' = [decided EXCEPT ![i] = n]
      <4>1. Undecided(i) BY <1>1, Zenon DEF Decide, Withdraw
      <4>2. decided = [decided EXCEPT ![i] = decided[i]] BY DEF TypeOK
      <4> QED BY <4>1, <4>2 DEF Undecided
    <3>2. \A j \in Ids \ {i} : decided'[j] = decided[j] BY <3>1 DEF TypeOK
    <3> QED BY <3>2 DEF InForce
  <2>4. Settled(result, open, InForce, countsOff) =>
          Exact(o, result, open, InForce', countsOff) /\ o.pc \in Ahead
    <3> SUFFICES ASSUME Settled(result, open, InForce, countsOff)
                 PROVE  Exact(o, result, open, InForce', countsOff) /\ o.pc \in Ahead
        OBVIOUS
    <3>1. ~countsOff /\ result.scanned => ShowsBut(result, open, InForce', {i})
          BY <1>0a, <2>3 DEF Settled
    <3> QED BY <2>1a, <3>1 DEF Exact, Prepared, CountedCode, Ahead
  <2>5. Begin(a, o) BY <2>1 DEF o
  <2> QED BY <2>1a, <2>2, <2>2a, <2>4, <2>5, BeginCounts
<1>2. CASE CreateDecision(a)
  <2>1. /\ op[a].pc = "create" /\ \A b \in Actor \ {a} : op'[b] = op[b]
        /\ op'[a].found = op[a].found /\ op'[a].lone = op[a].lone /\ op'[a].looked = op[a].looked
        /\ op'[a].pass = op[a].pass /\ op'[a].pc = "recount"
        BY <1>2, <1>0 DEF CreateDecision, Goes, TypeOK, Operation
  <2>2. UNCHANGED <<open, result, countsOff>> BY <1>2 DEF CreateDecision, rows, stored
  <2>3. InForce' \ op[a].found = InForce \ op[a].found
    <3>1. \A j \in Ids \ op[a].found : decided'[j] = decided[j] BY <1>2 DEF CreateDecision, TypeOK
    <3> QED BY <3>1 DEF InForce
  <2>4. Busy(a) BY <2>1 DEF Busy
  <2>5. op'[a].pc \in Ahead BY <2>1 DEF Ahead
  <2>6. ASSUME op[a].lone PROVE Exact(op'[a], result', open', InForce', countsOff')
    <3>1. op[a].pass = "full" => Code \subseteq op[a].looked
          BY <1>0b, <2>4, <2>6 DEF Exact, Prepared
    <3>2. op[a].pass = "decision" /\ ~countsOff /\ result.scanned =>
            ShowsBut(result, open, InForce', op[a].found)
      <4>1. op[a].pass = "decision" /\ ~countsOff /\ result.scanned =>
              ShowsBut(result, open, InForce, op[a].found)
            BY <1>0b, <2>1, <2>4, <2>6 DEF Exact
      <4> QED BY <1>0a, <2>3, <4>1
    <3> QED BY <2>1, <2>2, <3>1, <3>2 DEF Exact, Prepared, CountedCode
  <2> QED BY <2>1, <2>2, <2>4, <2>5, <2>6, OneCounts
<1>3. CASE NotAffected(a)
  <2>1. /\ op[a].pc = "recount" /\ op[a].pass = "decision" /\ op[a].found \cap open = {}
        /\ Finish(a) /\ UNCHANGED <<open, result, countsOff, decided>>
        BY <1>3 DEF NotAffected, rows, stored
  <2>2. Busy(a) /\ InForce' = InForce BY <2>1 DEF Busy, InForce
  <2>3. ASSUME op[a].lone PROVE Settled(result', open', InForce', countsOff')
    <3>1. ~countsOff /\ result.scanned => ShowsBut(result, open, InForce, op[a].found)
          BY <1>0b, <2>1, <2>2, <2>3 DEF Exact
    <3> QED BY <1>0a, <2>1, <2>2, <3>1 DEF Settled
  <2> QED BY <2>1, <2>2, <2>3, FinishCounts
<1>4. CASE Recount(a)
  <2>1. op[a].pc = "recount" /\ UNCHANGED <<open, result, countsOff, decided>>
        BY <1>4 DEF Recount, rows, stored
  <2>2. Busy(a) /\ InForce' = InForce BY <2>1 DEF Busy, InForce
  <2>3. CASE result.scanned
    <3>1. /\ \A b \in Actor \ {a} : op'[b] = op[b]
          /\ op'[a].pc = "counted" /\ op'[a].lone = op[a].lone /\ op'[a].pass = op[a].pass
          /\ op'[a].looked = op[a].looked
          /\ op'[a].code = (open \cap CodeDomain) \ InForce
          /\ op'[a].image = (open \cap Image) \ InForce
          /\ op'[a].hidden = open \cap InForce
          BY <1>4, <1>0, <2>3 DEF Recount, TypeOK, Operation
    <3>2. Shows(op'[a], open', InForce') BY <2>1, <2>2, <3>1 DEF Shows
    <3>3. op[a].lone => Exact(op'[a], result', open', InForce', countsOff')
          BY <1>0b, <2>2, <3>1, <3>2 DEF Exact, Prepared, CountedCode
    <3>4. op'[a].pc \in Ahead BY <3>1 DEF Ahead
    <3> QED BY <2>1, <2>2, <3>1, <3>3, <3>4, OneCounts
  <2>4. CASE ~result.scanned
    <3>1. Finish(a) BY <1>4, <2>4 DEF Recount
    <3> QED BY <2>1, <2>2, <2>4, <3>1, FinishCounts DEF Settled
  <2> QED BY <2>3, <2>4
<1>5. CASE StoreCounts(a)
  <2>1. /\ op[a].pc = "counted" /\ Finish(a) /\ UNCHANGED <<open, decided>>
        /\ countsOff' = (countsOff /\ ~op[a].lone)
        BY <1>5 DEF StoreCounts, rows
  <2>2. Busy(a) /\ InForce' = InForce BY <2>1 DEF Busy, InForce
  <2>3. result \in Result
        BY <2>1, RowScanned DEF OpInv, CopiesScanned, CopyScanned, TypeOK
  <2>4. /\ result'.code = op[a].code /\ result'.image = op[a].image
        /\ result'.hidden = op[a].hidden
        BY <1>5, <2>3 DEF StoreCounts, Result
  <2>5. op[a].lone => Settled(result', open', InForce', countsOff')
        BY <1>0b, <2>1, <2>2, <2>4 DEF Exact, Shows, Settled
  <2>6. ~op[a].lone => countsOff' = countsOff BY <2>1 DEF TypeOK
  <2> QED BY <2>1, <2>2, <2>5, <2>6, FinishCounts
<1> QED BY <1>1, <1>2, <1>3, <1>4, <1>5

LEMMA StepCounts ==
    TypeOK /\ OpInv /\ CountInv /\ [Next]_vars => CountInv'
<1> SUFFICES ASSUME TypeOK, OpInv, CountInv, [Next]_vars PROVE CountInv' OBVIOUS
<1>0. Worker \subseteq Actor /\ Person \subseteq Actor /\ Backfill \in Actor BY DEF Actor
<1>1. CASE UNCHANGED vars \/ Tick \/ \E i \in Ids : WorldChanges(i)
  <2>1. UNCHANGED <<open, decided, result, op, countsOff>>
        BY <1>1 DEF vars, Tick, WorldChanges, rows, stored
  <2>2. InForce' = InForce BY <2>1 DEF InForce
  <2> QED BY <2>1, <2>2 DEF CountInv, Busy
<1>2. ASSUME NEW i \in Ids, Lapses(i) PROVE CountInv'
  <2>1. op' = Disturbed /\ countsOff' BY <1>2 DEF Lapses
  <2>2. \A b \in Actor : Busy(b)' => ~op'[b].lone
    <3>1. \A q \in Operation : [q EXCEPT !.lone = FALSE].lone = FALSE BY DEF Operation
    <3>2. \A b \in Actor : op[b] \in Operation BY DEF TypeOK
    <3> QED BY <2>1, <3>1, <3>2 DEF Disturbed, Busy
  <2> QED BY <2>1, <2>2 DEF CountInv, Settled
<1>3. CASE Restart
  <2>1. \A b \in Actor : op'[b].pc \in {"idle", "boot"} BY <1>3, IdleFields DEF Restart, Idle
  <2>2. UNCHANGED <<open, decided, result>> /\ countsOff' = (countsOff \/ ~Quiet)
        BY <1>3 DEF Restart, rows
  <2>3. InForce' = InForce BY <2>2 DEF InForce
  <2>4. Quiet => \A b \in Actor : op[b].pc \notin Ahead BY DEF Quiet, Busy, Ahead
  <2> QED BY <2>1, <2>2, <2>3, <2>4 DEF CountInv, Settled, Busy
<1>4. ASSUME NEW w \in Worker, NEW sast \in BOOLEAN, StartFull(w, sast) PROVE CountInv'
  <2> DEFINE kinds == IF sast THEN CodeDomain ELSE Code
             o == [Idle EXCEPT !.pc = "image", !.pass = "full",
                               !.found = world \cap kinds, !.looked = kinds]
  <2>1. o \in Operation
    <3>1. kinds \in SUBSET Ids BY Pieces
    <3> QED BY <3>1, IdleTyped DEF Operation, TypeOK
  <2>2. o.pc = "image" /\ o.pass = "full" /\ o.looked = kinds /\ o.lone BY DEF Idle
  <2>3. Begin(w, o) BY <1>4 DEF StartFull
  <2>4. UNCHANGED <<open, result, decided>> /\ ~Busy(w) BY <1>4 DEF StartFull, rows, stored, Busy
  <2>5. InForce' = InForce BY <2>4 DEF InForce
  <2>6. Code \subseteq kinds BY DEF CodeDomain
  <2> HIDE DEF o
  <2>7. Exact(o, result, open, InForce', countsOff)
        BY <2>2, <2>6 DEF Exact, Prepared, CountedCode
  <2> QED BY <2>1, <2>2, <2>3, <2>4, <2>5, <2>7, <1>0, BeginCounts
<1>5. ASSUME NEW w \in Worker, StartImage(w) PROVE CountInv'
  <2> DEFINE o == [Idle EXCEPT !.pc = "image", !.pass = "image", !.copy = result]
  <2>1. o \in Operation BY IdleTyped DEF Operation, TypeOK
  <2>2. o.pc = "image" /\ o.pass = "image" /\ o.copy = result /\ o.lone BY DEF Idle
  <2>3. Begin(w, o) /\ result.scanned BY <1>5 DEF StartImage
  <2>4. UNCHANGED <<open, result, decided>> /\ ~Busy(w) BY <1>5 DEF StartImage, rows, stored, Busy
  <2>5. InForce' = InForce BY <2>4 DEF InForce
  <2> HIDE DEF o
  <2>7. Settled(result, open, InForce, countsOff) => Exact(o, result, open, InForce', countsOff)
        BY <2>2, <2>3, <2>5 DEF Exact, Prepared, CountedCode, Settled
  <2> QED BY <2>1, <2>2, <2>3, <2>4, <2>5, <2>7, <1>0, BeginCounts
<1>6. CASE BackfillStart
  <2>1. UNCHANGED <<open, result, decided>> /\ op[Backfill].pc = "boot"
        BY <1>6 DEF BackfillStart, env, rows, stored
  <2>2. InForce' = InForce BY <2>1 DEF InForce
  <2>3. CASE result.scanned /\ \A i \in Ids : first[i] = 0
    <3> DEFINE o == [Idle EXCEPT !.pc = "check", !.pass = "backfill", !.looked = Ids]
    <3>1. o \in Operation BY IdleTyped DEF Operation
    <3>2. o.pc = "check" /\ o.pass = "backfill" /\ o.lone BY DEF Idle
    <3>3. Begin(Backfill, o) BY <1>6, <2>3 DEF BackfillStart
    <3> HIDE DEF o
    <3>4. Exact(o, result, open, InForce', countsOff)
          BY <3>2 DEF Exact, Prepared, CountedCode
    <3>5. ~Busy(Backfill) BY <2>1 DEF Busy
    <3> QED BY <2>1, <2>2, <3>1, <3>2, <3>3, <3>4, <3>5, <1>0, BeginCounts
  <2>4. CASE ~(result.scanned /\ \A i \in Ids : first[i] = 0)
    <3>1. Finish(Backfill) /\ UNCHANGED countsOff BY <1>6, <2>4 DEF BackfillStart
    <3>2. op'[Backfill] = Idle /\ \A b \in Actor \ {Backfill} : op'[b] = op[b]
          BY <1>0, <3>1 DEF Finish, TypeOK
    <3>3. /\ op[Backfill].pc \notin Ahead /\ ~Busy(Backfill)
          /\ ~Busy(Backfill)' /\ \A b \in Actor \ {Backfill} : Busy(b)' <=> Busy(b)
          BY <2>1, <3>2, IdleFields DEF Ahead, Busy
    <3> QED BY <2>1, <2>2, <3>1, <3>2, <3>3, IdleExact DEF CountInv
  <2> QED BY <2>3, <2>4
<1>7. ASSUME NEW w \in Worker, Scan(w) PROVE CountInv'
  BY <1>0, <1>4, <1>5, <1>7, PassCounts DEF Scan
<1>8. ASSUME NEW p \in Person, Decisions(p) PROVE CountInv'
  BY <1>0, <1>8, DecisionCounts DEF Decisions
<1>9. ASSUME NEW a \in Actor,
             ReconcileCode(a) \/ ReconcileImage(a) \/ Recount(a) \/ StoreCounts(a)
      PROVE  CountInv'
  BY <1>9, PassCounts, DecisionCounts
<1>11. CASE BackfillRead
  <2> DEFINE a == Backfill
  <2>1. /\ op[a].pc = "check" /\ \A b \in Actor \ {a} : op'[b] = op[b]
        /\ op'[a].lone = op[a].lone /\ op'[a].pass = op[a].pass
        /\ op'[a].looked = op[a].looked /\ op'[a].pc = "reconcile"
        BY <1>0, <1>11 DEF BackfillRead, TypeOK, Operation
  <2>2. UNCHANGED <<open, decided, result, countsOff>>
        BY <1>11 DEF BackfillRead, rows, stored
  <2>3. Busy(a) /\ InForce' = InForce BY <2>1, <2>2 DEF Busy, InForce
  <2>4. op[a].pass = "backfill"
        BY <1>0, <2>1 DEF OpInv, CopiesScanned, CopyScanned
  <2>5. Exact(op'[a], result', open', InForce', countsOff')
        BY <2>1, <2>4 DEF Exact, Prepared, CountedCode
  <2>6. op[a].lone => Settled(result, open, InForce, countsOff)
        BY <1>0, <2>1, <2>3, LoneOnly DEF Ahead
  <2> QED BY <1>0, <2>1, <2>2, <2>3, <2>5, <2>6, OneCounts
<1>12. ASSUME NEW a \in Actor, Fails(a) PROVE CountInv'
  <2>1. /\ Finish(a) /\ Busy(a) /\ UNCHANGED <<open, decided, result>>
        /\ countsOff' = (countsOff \/ op[a].pc \notin {"check", "reconcile"})
        BY <1>12 DEF Fails, Busy, rows, stored
  <2>2. InForce' = InForce BY <2>1 DEF InForce
  <2>3. ~op[a].lone => countsOff' = countsOff
        BY <2>1 DEF CountInv, TypeOK
  <2>4. op[a].lone => Settled(result', open', InForce', countsOff')
    <3>1. CASE op[a].pc \in {"check", "reconcile"}
      BY <2>1, <2>2, <3>1, LoneOnly DEF Ahead, Settled
    <3>2. CASE op[a].pc \notin {"check", "reconcile"}
      BY <2>1, <3>2 DEF Settled
    <3> QED BY <3>1, <3>2
  <2> QED BY <2>1, <2>3, <2>4, FinishCounts
<1>10. CASE Environment
  BY <1>1, <1>2, <1>3, <1>10 DEF Environment, Wait
<1> QED BY <1>1, <1>6, <1>7, <1>8, <1>9, <1>10, <1>11, <1>12 DEF Next

(* Whatever passes, image passes, decisions and failures went before: once *)
(* nothing is under way, and the last to take the counts ran alone, the    *)
(* dashboard shows the open findings that nobody has decided about.        *)
THEOREM CountsTrue == Spec => []CountsAreTrue
<1>1. Init => IInv /\ CountInv BY InitTyped, InitInv, InitCounts DEF IInv, OpInv
<1>2. IInv /\ CountInv /\ [Next]_vars => (IInv /\ CountInv)'
  <2> SUFFICES ASSUME IInv, CountInv, [Next]_vars PROVE IInv' /\ CountInv' OBVIOUS
  <2>1. TypeOK /\ OpInv BY DEF IInv, OpInv
  <2>2. TypeOK' BY StepTyped DEF IInv
  <2>3. OpInv' BY <2>1, StepInv
  <2>4. CountInv' BY <2>1, StepCounts
  <2> QED BY <2>2, <2>3, <2>4 DEF IInv, OpInv
<1>3. CountInv => CountsAreTrue
  <2>1. Quiet => \A a \in Actor : op[a].pc \notin Ahead BY DEF Quiet, Busy, Ahead
  <2> QED BY <2>1 DEF CountInv, CountsAreTrue, Settled, Shows
<1> QED BY <1>1, <1>2, <1>3, PTL DEF Spec

-----------------------------------------------------------------------------
(* The history.  While at most one operation has been under way since one  *)
(* ran alone, it follows the counts: only that operation writes either.    *)

Sole(a) == ~historyOff \/ op[a].lone

\* The sole operation is the only one.
LEMMA SoleOnly ==
    ASSUME OpInv, HistoryInv, NEW a \in Actor, Busy(a), Sole(a)
    PROVE  /\ \A b \in Actor \ {a} : op[b].pc \in {"idle", "boot"}
           /\ Follows(op[a], result)
           /\ ~historyOff /\ op[a].pc # "point" => Filed(history, result)
<1>1. \A b \in Actor \ {a} : op[b].pc \in {"idle", "boot"}
      BY DEF OpInv, LoneAlone, HistoryInv, Busy, Sole
<1>2. ~historyOff /\ op[a].pc # "point" => Filed(history, result)
      BY <1>1 DEF HistoryInv
<1> QED BY <1>1, <1>2 DEF HistoryInv, Sole

\* It is enough to look at the operation that moves, and only if it is sole.
LEMMA OneFiles ==
    ASSUME TypeOK, OpInv, HistoryInv, NEW a \in Actor, Busy(a),
           \A b \in Actor \ {a} : op'[b] = op[b],
           \/ op'[a].lone = op[a].lone /\ historyOff' = historyOff
           \/ op'[a] = Idle /\ historyOff' \in {historyOff, historyOff /\ ~op[a].lone},
           Sole(a) => Follows(op'[a], result'),
           Sole(a) /\ ~historyOff' /\ op'[a].pc # "point" => Filed(history', result')
    PROVE  HistoryInv'
<1>0. historyOff \in BOOLEAN BY DEF TypeOK
<1>1. CASE Sole(a)
  <2>1. \A b \in Actor \ {a} : op'[b].pc \in {"idle", "boot"} BY <1>1, SoleOnly
  <2>2. \A b \in Actor \ {a} : Follows(op'[b], result') BY <2>1 DEF Follows
  <2> QED BY <1>1, <2>1, <2>2 DEF HistoryInv, Busy
<1>2. CASE ~Sole(a)
  <2>1. historyOff /\ ~op[a].lone /\ historyOff' BY <1>0, <1>2 DEF Sole
  <2>2. \A b \in Actor \ {a} : op[b].lone => op[b].pc \in {"idle", "boot"}
        BY DEF OpInv, LoneAlone, Busy
  <2>3. \A b \in Actor : op'[b].lone => op'[b].pc \in {"idle", "boot"}
        BY <2>1, <2>2, IdleFields
  <2>4. \A b \in Actor : op'[b].lone => Follows(op'[b], result') BY <2>3 DEF Follows
  <2> QED BY <2>1, <2>4 DEF HistoryInv
<1> QED BY <1>1, <1>2

LEMMA FinishFiles ==
    ASSUME TypeOK, OpInv, HistoryInv, NEW a \in Actor, Busy(a), Finish(a),
           historyOff' \in {historyOff, historyOff /\ ~op[a].lone},
           Sole(a) /\ ~historyOff' => Filed(history', result')
    PROVE  HistoryInv'
<1>1. op'[a] = Idle /\ \A b \in Actor \ {a} : op'[b] = op[b] BY DEF Finish, TypeOK
<1> QED BY <1>1, IdleExact, OneFiles

LEMMA BeginFiles ==
    ASSUME TypeOK, OpInv, HistoryInv, NEW a \in Actor, NEW o \in Operation, Begin(a, o), ~Busy(a),
           UNCHANGED <<result, history>>, o.pc # "point", Follows(o, result)
    PROVE  HistoryInv'
<1>0. \A b \in Actor : op[b] \in Operation BY DEF TypeOK
<1>1. CASE \E b \in Actor \ {a} : Busy(b)
  <2>1. op' = [Disturbed EXCEPT ![a] = [o EXCEPT !.lone = FALSE]] /\ historyOff'
        BY <1>1 DEF Begin
  <2>2. \A b \in Actor : op'[b].lone => ~Busy(b)'
    <3>1. \A q \in Operation : [q EXCEPT !.lone = FALSE].lone = FALSE BY DEF Operation
    <3>2. op'[a].lone = FALSE BY <2>1, <3>1 DEF Disturbed
    <3>3. \A b \in Actor \ {a} :
            op'[b] = IF Busy(b) THEN [op[b] EXCEPT !.lone = FALSE] ELSE op[b]
          BY <2>1 DEF Disturbed
    <3> QED BY <1>0, <3>1, <3>2, <3>3 DEF Busy
  <2>3. \A b \in Actor : op'[b].lone => Follows(op'[b], result') BY <2>2 DEF Follows, Busy
  <2> QED BY <2>1, <2>3 DEF HistoryInv
<1>2. CASE ~\E b \in Actor \ {a} : Busy(b)
  <2>1. op' = [op EXCEPT ![a] = o] /\ historyOff' = historyOff BY <1>2 DEF Begin
  <2>2. op'[a] = o /\ \A b \in Actor \ {a} : op'[b] = op[b] BY <2>1 DEF TypeOK
  <2>3. \A b \in Actor : op[b].pc \in {"idle", "boot"} BY <1>2 DEF Busy
  <2>4. \A b \in Actor : Follows(op'[b], result') BY <2>2, <2>3 DEF Follows
  <2> QED BY <2>1, <2>2, <2>3, <2>4 DEF HistoryInv, Busy
<1> QED BY <1>1, <1>2

LEMMA InitFiles == Init => HistoryInv
<1> SUFFICES ASSUME Init PROVE HistoryInv OBVIOUS
<1>1. \A a \in Actor : op[a].pc \in {"idle", "boot"} BY IdleFields DEF Init, Idle
<1>2. Filed(history, result)
  <2>1. CASE result = NoResult BY <2>1 DEF Filed, NoResult
  <2>2. ASSUME NEW seen \in FirstWorlds,
               LET r == seen \ Weak IN
                 /\ result = [scanned |-> TRUE, code |-> r \cap Code, image |-> r \cap Image,
                              hidden |-> {}, report |-> r, updated |-> 1]
                 /\ history = [code |-> r \cap Code, image |-> r \cap Image]
        PROVE  Filed(history, result)
        BY <2>2 DEF Filed
  <2> QED BY <2>1, <2>2 DEF Init
<1> QED BY <1>1, <1>2 DEF HistoryInv, Busy, Follows

\* A step of an operation that writes neither the counts nor the history.
LEMMA QuietFiles ==
    ASSUME TypeOK, OpInv, HistoryInv, NEW a \in Actor, Busy(a), op[a].pc # "point",
           \A b \in Actor \ {a} : op'[b] = op[b], UNCHANGED <<result, history, historyOff>>,
           op'[a].lone = op[a].lone, op'[a].pc \notin {"image", "counted", "point"}
    PROVE  HistoryInv'
<1>1. Follows(op'[a], result') BY DEF Follows
<1>2. Sole(a) /\ ~historyOff' => Filed(history', result') BY SoleOnly
<1> QED BY <1>1, <1>2, OneFiles

LEMMA PassFiles ==
    ASSUME TypeOK, OpInv, HistoryInv, NEW a \in Actor,
           \/ ScanImage(a) \/ SkipImage(a) \/ ImageFails(a)
           \/ ReconcileCode(a) \/ AddOpenWeaknesses(a) \/ ReconcileImage(a)
           \/ ReadCode(a) \/ SaveResult(a) \/ RecordPoint(a)
    PROVE  HistoryInv'
<1>0. op[a] \in Operation BY DEF TypeOK
<1>0a. CopyScanned(op[a]) BY DEF OpInv, CopiesScanned
<1>0b. Busy(a) BY DEF Busy, ScanImage, SkipImage, ImageFails, ReconcileCode, AddOpenWeaknesses,
                      ReconcileImage, ReadCode, SaveResult, RecordPoint
<1>1. CASE ScanImage(a)
  <2>1. /\ \A b \in Actor \ {a} : op'[b] = op[b]
        /\ op[a].pc = "image" /\ op'[a].pc \in {"reconcile", "reconcileImage"}
        /\ op'[a].lone = op[a].lone
        BY <1>1, <1>0 DEF ScanImage, TypeOK, Operation
  <2>2. UNCHANGED <<result, history, historyOff>> BY <1>1 DEF ScanImage, stored
  <2> QED BY <2>1, <2>2, <1>0b, QuietFiles
<1>2. CASE SkipImage(a)
  <2>1. /\ \A b \in Actor \ {a} : op'[b] = op[b]
        /\ op[a].pc = "image" /\ op'[a].pc = "reconcile" /\ op'[a].lone = op[a].lone
        BY <1>2, <1>0 DEF SkipImage, TypeOK, Operation
  <2>2. UNCHANGED <<result, history, historyOff>> BY <1>2 DEF SkipImage, stored
  <2> QED BY <2>1, <2>2, <1>0b, QuietFiles
<1>3. CASE ImageFails(a)
  <2>1. /\ op[a].pc = "image" /\ op[a].pass = "image" /\ Finish(a)
        /\ UNCHANGED <<history, historyOff>>
        BY <1>3 DEF ImageFails
  <2>2. /\ op[a].copy \in Result
        /\ result'.code = op[a].copy.code /\ result'.image = op[a].copy.image
    <3>1. op[a].copy \in Result BY <2>1, <1>0a DEF CopyScanned
    <3> QED BY <1>3, <3>1 DEF ImageFails, Result
  <2>3. ASSUME Sole(a), ~historyOff PROVE Filed(history', result')
    <3>1. result.scanned /\ op[a].copy.code = result.code /\ op[a].copy.image = result.image
          BY <2>1, <2>3, <1>0b, SoleOnly DEF Follows
    <3>2. Filed(history, result) BY <2>1, <2>3, <1>0b, SoleOnly
    <3> QED BY <2>1, <2>2, <3>1, <3>2 DEF Filed
  <2> QED BY <2>1, <2>3, <1>0b, FinishFiles
<1>4. CASE ReconcileCode(a)
  <2>1. /\ \A b \in Actor \ {a} : op'[b] = op[b]
        /\ op[a].pc = "reconcile" /\ op'[a].pc \in {"weak", "reconcileImage", "save"}
        /\ op'[a].lone = op[a].lone
        BY <1>4, <1>0 DEF ReconcileCode, TypeOK, Operation
  <2>2. UNCHANGED <<result, history, historyOff>> BY <1>4 DEF ReconcileCode, stored
  <2> QED BY <2>1, <2>2, <1>0b, QuietFiles
<1>5. CASE AddOpenWeaknesses(a)
  <2>1. /\ \A b \in Actor \ {a} : op'[b] = op[b]
        /\ op[a].pc = "weak" /\ op'[a].pc \in {"reconcileImage", "save"}
        /\ op'[a].lone = op[a].lone
        BY <1>5, <1>0 DEF AddOpenWeaknesses, TypeOK, Operation
  <2>2. UNCHANGED <<result, history, historyOff>> BY <1>5 DEF AddOpenWeaknesses, stored
  <2> QED BY <2>1, <2>2, <1>0b, QuietFiles
<1>6. CASE ReconcileImage(a)
  <2>1. /\ \A b \in Actor \ {a} : op'[b] = op[b]
        /\ op[a].pc = "reconcileImage" /\ op'[a].pc \in {"save", "read", "recount"}
        /\ op'[a].lone = op[a].lone
        BY <1>6, <1>0 DEF ReconcileImage, TypeOK, Operation
  <2>2. UNCHANGED <<result, history, historyOff>> BY <1>6 DEF ReconcileImage, stored
  <2> QED BY <2>1, <2>2, <1>0b, QuietFiles
<1>7. CASE ReadCode(a)
  <2>1. /\ \A b \in Actor \ {a} : op'[b] = op[b]
        /\ op[a].pc = "read" /\ op'[a].pc = "save" /\ op'[a].lone = op[a].lone
        BY <1>7, <1>0 DEF ReadCode, TypeOK, Operation
  <2>2. UNCHANGED <<result, history, historyOff>> BY <1>7 DEF ReadCode, stored
  <2> QED BY <2>1, <2>2, <1>0b, QuietFiles
<1>8. CASE SaveResult(a)
  <2>1. /\ \A b \in Actor \ {a} : op'[b] = op[b]
        /\ op'[a].pc = "point" /\ op'[a].lone = op[a].lone
        /\ op'[a].code = op[a].code /\ op'[a].image = op[a].image
        BY <1>8, <1>0 DEF SaveResult, Goes, TypeOK, Operation
  <2>2. /\ result'.code = op[a].code /\ result'.image = op[a].image
        /\ historyOff' = historyOff
        BY <1>8 DEF SaveResult
  <2>3. Follows(op'[a], result') BY <2>1, <2>2 DEF Follows
  <2> QED BY <2>1, <2>2, <2>3, <1>0b, OneFiles
<1>9. CASE RecordPoint(a)
  <2>1. /\ op[a].pc = "point" /\ Finish(a)
        /\ history' = [code |-> op[a].code, image |-> op[a].image]
        /\ historyOff' = (historyOff /\ ~op[a].lone) /\ result' = result
        BY <1>9 DEF RecordPoint
  <2>2. Sole(a) => Filed(history', result')
        BY <2>1, <1>0b, SoleOnly DEF Follows, Filed
  <2> QED BY <2>1, <2>2, <1>0b, FinishFiles
<1> QED BY <1>1, <1>2, <1>3, <1>4, <1>5, <1>6, <1>7, <1>8, <1>9

LEMMA DecisionFiles ==
    ASSUME TypeOK, OpInv, HistoryInv, NEW a \in Actor,
           \/ \E i \in Ids : Decide(a, i) \/ Withdraw(a, i)
           \/ CreateDecision(a) \/ NotAffected(a) \/ Recount(a) \/ StoreCounts(a)
    PROVE  HistoryInv'
<1> USE Pieces
<1>0. op[a] \in Operation BY DEF TypeOK
<1>1. ASSUME NEW i \in Ids, Decide(a, i) \/ Withdraw(a, i) PROVE HistoryInv'
  <2>1. PICK pc \in {"create", "recount"} : Begin(a, Deciding(pc, i))
    <3>1. Decide(a, i) => Begin(a, Deciding("create", i)) BY Zenon DEF Decide, Deciding
    <3>2. Withdraw(a, i) => Begin(a, Deciding("recount", i)) BY Zenon DEF Withdraw, Deciding
    <3> QED BY <1>1, <3>1, <3>2
  <2>2. Deciding(pc, i) \in Operation /\ Deciding(pc, i).pc \in {"create", "recount"}
        BY IdleTyped DEF Operation, Idle, Deciding
  <2>3. UNCHANGED <<result, history>> /\ op[a].pc = "idle"
        BY <1>1, Zenon DEF Decide, Withdraw, rows, stored
  <2>4. ~Busy(a) BY <2>3 DEF Busy
  <2>5. Follows(Deciding(pc, i), result) BY <2>2 DEF Follows
  <2> QED BY <2>1, <2>2, <2>3, <2>4, <2>5, BeginFiles
<1>2. CASE CreateDecision(a)
  <2>1. /\ op[a].pc = "create" /\ \A b \in Actor \ {a} : op'[b] = op[b]
        /\ op'[a].lone = op[a].lone /\ op'[a].pc = "recount"
        BY <1>2, <1>0 DEF CreateDecision, Goes, TypeOK, Operation
  <2>2. UNCHANGED <<result, history, historyOff>> BY <1>2 DEF CreateDecision, stored
  <2>3. Busy(a) BY <2>1 DEF Busy
  <2> QED BY <2>1, <2>2, <2>3, QuietFiles
<1>3. CASE NotAffected(a)
  <2>1. /\ op[a].pc = "recount" /\ Finish(a) /\ UNCHANGED <<result, history, historyOff>>
        BY <1>3 DEF NotAffected, stored
  <2>2. Busy(a) BY <2>1 DEF Busy
  <2>3. Sole(a) /\ ~historyOff => Filed(history', result') BY <2>1, <2>2, SoleOnly
  <2> QED BY <2>1, <2>2, <2>3, FinishFiles
<1>4. CASE Recount(a)
  <2>1. op[a].pc = "recount" /\ UNCHANGED <<result, history, historyOff>>
        BY <1>4 DEF Recount, stored
  <2>2. Busy(a) BY <2>1 DEF Busy
  <2>3. Sole(a) /\ ~historyOff => Filed(history', result') BY <2>1, <2>2, SoleOnly
  <2>4. CASE result.scanned
    <3>1. /\ \A b \in Actor \ {a} : op'[b] = op[b]
          /\ op'[a].pc = "counted" /\ op'[a].lone = op[a].lone /\ op'[a].copy = result
          BY <1>4, <1>0, <2>4 DEF Recount, TypeOK, Operation
    <3>2. Follows(op'[a], result') BY <2>1, <3>1 DEF Follows
    <3> QED BY <2>1, <2>2, <2>3, <3>1, <3>2, OneFiles
  <2>5. CASE ~result.scanned
    <3>1. Finish(a) BY <1>4, <2>5 DEF Recount
    <3> QED BY <2>1, <2>2, <2>3, <3>1, FinishFiles
  <2> QED BY <2>4, <2>5
<1>5. CASE StoreCounts(a)
  <2>1. /\ op[a].pc = "counted" /\ Finish(a) /\ UNCHANGED historyOff
        /\ history' = IF op[a].copy.code = op[a].code /\ op[a].copy.image = op[a].image
                      THEN history ELSE [code |-> op[a].code, image |-> op[a].image]
        BY <1>5 DEF StoreCounts
  <2>2. Busy(a) BY <2>1 DEF Busy
  <2>3. result \in Result /\ result.scanned
        BY <2>1, RowScanned DEF OpInv, CopiesScanned, CopyScanned, TypeOK
  <2>4. result'.code = op[a].code /\ result'.image = op[a].image
        BY <1>5, <2>3 DEF StoreCounts, Result
  <2>5. ASSUME Sole(a), ~historyOff PROVE Filed(history', result')
    <3>1. op[a].copy.code = result.code /\ op[a].copy.image = result.image
          BY <2>1, <2>2, <2>5, SoleOnly DEF Follows
    <3>2. history = [code |-> result.code, image |-> result.image]
          BY <2>1, <2>2, <2>3, <2>5, SoleOnly DEF Filed
    <3>3. history' = [code |-> op[a].code, image |-> op[a].image]
          BY <2>1, <3>1, <3>2
    <3> QED BY <2>4, <3>3 DEF Filed
  <2> QED BY <2>1, <2>2, <2>5, FinishFiles
<1> QED BY <1>1, <1>2, <1>3, <1>4, <1>5

LEMMA StepFiles ==
    TypeOK /\ OpInv /\ HistoryInv /\ [Next]_vars => HistoryInv'
<1> SUFFICES ASSUME TypeOK, OpInv, HistoryInv, [Next]_vars PROVE HistoryInv' OBVIOUS
<1>0. Worker \subseteq Actor /\ Person \subseteq Actor /\ Backfill \in Actor BY DEF Actor
<1>1. CASE UNCHANGED vars \/ Tick \/ \E i \in Ids : WorldChanges(i)
  <2>1. UNCHANGED <<result, history, op, historyOff>>
        BY <1>1 DEF vars, Tick, WorldChanges, stored
  <2> QED BY <2>1 DEF HistoryInv, Busy
<1>2. ASSUME NEW i \in Ids, Lapses(i) PROVE HistoryInv'
  <2>1. op' = Disturbed /\ UNCHANGED <<result, history, historyOff>>
        BY <1>2 DEF Lapses, stored
  <2>2. \A b \in Actor : /\ Busy(b)' <=> Busy(b)
                         /\ op'[b].pc = op[b].pc /\ (op'[b].lone => op[b].lone)
                         /\ Follows(op[b], result) => Follows(op'[b], result)
    <3>1. \A q \in Operation : /\ [q EXCEPT !.lone = FALSE].lone = FALSE
                               /\ [q EXCEPT !.lone = FALSE].pc = q.pc
                               /\ Follows(q, result) => Follows([q EXCEPT !.lone = FALSE], result)
          BY DEF Operation, Follows
    <3>2. \A b \in Actor : op[b] \in Operation BY DEF TypeOK
    <3>3. \A b \in Actor : op'[b] \in {op[b], [op[b] EXCEPT !.lone = FALSE]}
          BY <2>1 DEF Disturbed
    <3> QED BY <3>1, <3>2, <3>3 DEF Busy
  <2> QED BY <2>1, <2>2 DEF HistoryInv
<1>3. CASE Restart
  <2>1. \A b \in Actor : op'[b].pc \in {"idle", "boot"} BY <1>3, IdleFields DEF Restart, Idle
  <2>2. Filed(history', result') BY <1>3 DEF Restart, Filed
  <2> QED BY <2>1, <2>2 DEF HistoryInv, Busy, Follows
<1>4. ASSUME NEW w \in Worker, NEW sast \in BOOLEAN, StartFull(w, sast) PROVE HistoryInv'
  <2> DEFINE kinds == IF sast THEN CodeDomain ELSE Code
             o == [Idle EXCEPT !.pc = "image", !.pass = "full",
                               !.found = world \cap kinds, !.looked = kinds]
  <2>1. o \in Operation
    <3>1. kinds \in SUBSET Ids BY Pieces
    <3> QED BY <3>1, IdleTyped DEF Operation, TypeOK
  <2>2. o.pc = "image" /\ o.pass = "full" BY DEF Idle
  <2>3. Begin(w, o) BY <1>4 DEF StartFull
  <2>4. UNCHANGED <<result, history>> /\ ~Busy(w) BY <1>4 DEF StartFull, stored, Busy
  <2> HIDE DEF o
  <2>5. Follows(o, result) BY <2>2 DEF Follows
  <2> QED BY <2>1, <2>2, <2>3, <2>4, <2>5, <1>0, BeginFiles
<1>5. ASSUME NEW w \in Worker, StartImage(w) PROVE HistoryInv'
  <2> DEFINE o == [Idle EXCEPT !.pc = "image", !.pass = "image", !.copy = result]
  <2>1. o \in Operation BY IdleTyped DEF Operation, TypeOK
  <2>2. o.pc = "image" /\ o.copy = result BY DEF Idle
  <2>3. Begin(w, o) /\ result.scanned BY <1>5 DEF StartImage
  <2>4. UNCHANGED <<result, history>> /\ ~Busy(w) BY <1>5 DEF StartImage, stored, Busy
  <2> HIDE DEF o
  <2>5. Follows(o, result) BY <2>2, <2>3 DEF Follows
  <2> QED BY <2>1, <2>2, <2>3, <2>4, <2>5, <1>0, BeginFiles
<1>6. CASE BackfillStart
  <2>1. UNCHANGED <<result, history>> /\ op[Backfill].pc = "boot"
        BY <1>6 DEF BackfillStart, env, stored
  <2>2. CASE result.scanned /\ \A i \in Ids : first[i] = 0
    <3> DEFINE o == [Idle EXCEPT !.pc = "check", !.pass = "backfill", !.looked = Ids]
    <3>1. o \in Operation BY IdleTyped DEF Operation
    <3>2. o.pc = "check" BY DEF Idle
    <3>3. Begin(Backfill, o) BY <1>6, <2>2 DEF BackfillStart
    <3> HIDE DEF o
    <3>4. Follows(o, result) /\ ~Busy(Backfill) BY <2>1, <3>2 DEF Follows, Busy
    <3> QED BY <2>1, <3>1, <3>2, <3>3, <3>4, <1>0, BeginFiles
  <2>3. CASE ~(result.scanned /\ \A i \in Ids : first[i] = 0)
    <3>1. Finish(Backfill) /\ UNCHANGED historyOff BY <1>6, <2>3 DEF BackfillStart
    <3>2. op'[Backfill] = Idle /\ \A b \in Actor \ {Backfill} : op'[b] = op[b]
          BY <1>0, <3>1 DEF Finish, TypeOK
    <3>3. \A b \in Actor : (Busy(b)' <=> Busy(b)) /\ (op'[b].pc = "point" <=> op[b].pc = "point")
          BY <2>1, <3>2, IdleFields DEF Busy
    <3>4. Follows(op'[Backfill], result) BY <3>2, IdleExact
    <3> QED BY <2>1, <3>1, <3>2, <3>3, <3>4 DEF HistoryInv
  <2> QED BY <2>2, <2>3
<1>7. ASSUME NEW w \in Worker, Scan(w) PROVE HistoryInv'
  BY <1>0, <1>4, <1>5, <1>7, PassFiles DEF Scan
<1>8. ASSUME NEW p \in Person, Decisions(p) PROVE HistoryInv'
  BY <1>0, <1>8, DecisionFiles DEF Decisions
<1>9. ASSUME NEW a \in Actor,
             ReconcileCode(a) \/ ReconcileImage(a) \/ Recount(a) \/ StoreCounts(a)
      PROVE  HistoryInv'
  BY <1>9, PassFiles, DecisionFiles
<1>11. CASE BackfillRead
  <2>1. /\ op[Backfill].pc = "check" /\ \A b \in Actor \ {Backfill} : op'[b] = op[b]
        /\ op'[Backfill].lone = op[Backfill].lone /\ op'[Backfill].pc = "reconcile"
        BY <1>0, <1>11 DEF BackfillRead, TypeOK, Operation
  <2>2. UNCHANGED <<result, history, historyOff>> BY <1>11 DEF BackfillRead, stored
  <2>3. Busy(Backfill) BY <2>1 DEF Busy
  <2> QED BY <1>0, <2>1, <2>2, <2>3, QuietFiles
<1>12. ASSUME NEW a \in Actor, Fails(a) PROVE HistoryInv'
  <2>1. Finish(a) /\ Busy(a) /\ op[a].pc # "point" /\ UNCHANGED <<result, history, historyOff>>
        BY <1>12 DEF Fails, Busy, stored
  <2>2. Sole(a) /\ ~historyOff => Filed(history', result') BY <2>1, SoleOnly
  <2> QED BY <2>1, <2>2, FinishFiles
<1>10. CASE Environment
  BY <1>1, <1>2, <1>3, <1>10 DEF Environment, Wait
<1> QED BY <1>1, <1>6, <1>7, <1>8, <1>9, <1>10, <1>11, <1>12 DEF Next

(* Every pass that changes the stored counts calls recordScanHistory: the  *)
(* newest point of the history shows the numbers of the dashboard, unless  *)
(* operations overlapped since one that ran alone.                         *)
THEOREM HistoryFollows == Spec => []HistoryInStep
<1>1. Init => IInv /\ HistoryInv BY InitTyped, InitInv, InitFiles DEF IInv, OpInv
<1>2. IInv /\ HistoryInv /\ [Next]_vars => (IInv /\ HistoryInv)'
  <2> SUFFICES ASSUME IInv, HistoryInv, [Next]_vars PROVE IInv' /\ HistoryInv' OBVIOUS
  <2>1. TypeOK /\ OpInv BY DEF IInv, OpInv
  <2>2. TypeOK' BY StepTyped DEF IInv
  <2>3. OpInv' BY <2>1, StepInv
  <2>4. HistoryInv' BY <2>1, StepFiles
  <2> QED BY <2>2, <2>3, <2>4 DEF IInv, OpInv
<1>3. HistoryInv => HistoryInStep
  <2>1. Quiet => \A a \in Actor : op[a].pc # "point" BY DEF Quiet, Busy
  <2> QED BY <2>1 DEF HistoryInv, HistoryInStep, Filed
<1> QED BY <1>1, <1>2, <1>3, PTL DEF Spec
=============================================================================
