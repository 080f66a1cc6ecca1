---------------------------- MODULE EdgeHistory -----------------------------
(***************************************************************************)
(* How the alerts Cloudflare itself sent for one account are copied under  *)
(* the zones of it that are watched (syncCloudflareHistory and what calls  *)
(* it in cloudflare_poller.go and cloudflare.go).  A pass over all zones   *)
(* and one over a single zone run under the same lock; each reads from     *)
(* where the zones it loaded were last synced, less an overlap, stamps     *)
(* them, and files what it read.                                           *)
(*                                                                         *)
(* A unit of time is half the overlap of ten minutes, and an alert can be  *)
(* read at most one unit after it was sent.  One alert is looked at: those *)
(* of one reading are filed independently of each other, but that a reading*)
(* gets one page of them, of two hundred at most.                          *)
(***************************************************************************)
EXTENDS Integers, FiniteSets, FiniteSetsExt
CONSTANTS
    Zones,   \* zones of the account, enabled once they are registered
    Week,    \* the seven days beyond which no reading looks back
    MaxTime  \* bound: the clock

Never == -1
Overlap == 2
(* What the constants may be. *)
HistoryBounds == MaxTime \in Nat /\ Week \in Nat /\ Week >= Overlap

VARIABLES
    clock,
    alert,   \* when it was sent, the zones it names, and whether it can be read
    synced,  \* history_synced_at of each registered zone
    filed,   \* the zones the alert is filed under
    pass,    \* the pass under way
    missed   \* history: where the alert was given up, by a step that says so below
vars == <<clock, alert, synced, filed, pass, missed>>

Registered == DOMAIN synced
Unsent == [sent |-> Never, names |-> {}, listed |-> FALSE]
NoPass == [at |-> "idle", zones |-> {}, since |-> 0, todo |-> {}, left |-> FALSE,
           began |-> 0]

Init ==
    /\ clock = 0 /\ alert = Unsent
    /\ \E z \in Zones : synced = [x \in {z} |-> Never]
    /\ filed = {} /\ pass = NoPass /\ missed = {}

-----------------------------------------------------------------------------
\* A mutation of Since: an alert that appears late is not waited for.
SinceExactly(zones) == Max({0, clock - Week} \cup {synced[z] : z \in zones})
\* The last sync of any of them, less the overlap, but no more than a week back.  (No
\* alert that is looked at was sent before the clock began, at 0.)
Since(zones) == Max({0, clock - Week} \cup {synced[z] - Overlap : z \in zones})

\* The zones of a pass, and what the row of each says, are loaded under the lock.
Begins(zones) ==
    /\ pass.at = "idle" /\ zones # {}
    /\ pass' = [NoPass EXCEPT !.at = "fetch", !.zones = zones, !.since = Since(zones)]
    /\ UNCHANGED <<clock, alert, synced, filed, missed>>
PollCloudflare == Begins(Registered)
\* Check now, or the first pass over a zone that was added.
pollCloudflareZone(z) == z \in Registered /\ Begins({z})

\* An alert that names none of the zones of the pass is filed under all of them.
cloudflareAlertTargets(zones) ==
    IF alert.names \cap zones = {} THEN zones ELSE alert.names \cap zones

\* AlertHistory, with the token of whichever zone may read it; or none may.  It asks for
\* one page, and how many there are is not looked at: an alert that is not on the page,
\* there being too many others, is left out.
AskedFor == alert.listed /\ alert.sent >= pass.since
Fetch ==
    /\ pass.at = "fetch"
    /\ \/ pass' = NoPass
       \/ \E onPage \in BOOLEAN :
            pass' = [pass EXCEPT !.at = "stamp", !.since = 0, !.began = clock,
                       !.todo = IF AskedFor /\ onPage THEN cloudflareAlertTargets(pass.zones)
                                ELSE {},
                       !.left = AskedFor /\ ~onPage]
    /\ UNCHANGED <<clock, alert, synced, filed, missed>>

\* The zones of the pass are said to be synced before anything is filed.  One that was
\* sent, and that no pass can read any more, is missed by the zones that this pass was not
\* over, and by all of them if this reading left it out.
Stamp ==
    /\ pass.at = "stamp"
    /\ synced' = [z \in Registered |-> IF z \in pass.zones THEN clock ELSE synced[z]]
    /\ pass' = [pass EXCEPT !.at = "file", !.left = FALSE, !.began = 0]
    /\ missed' = missed \cup
         {z \in Registered : /\ z \notin pass.zones \/ pass.left
                            /\ alert.sent # Never /\ alert.sent < clock - Overlap}
    /\ UNCHANGED <<clock, alert, filed>>

\* storeCloudflareHistoryItem: once per zone.  A Create that fails says nothing.
File(z) ==
    /\ pass.at = "file" /\ z \in pass.todo
    /\ \/ filed' = filed \cup {z} /\ UNCHANGED missed
       \/ z \notin filed /\ UNCHANGED filed /\ missed' = missed \cup {z}
    /\ pass' = [pass EXCEPT !.todo = @ \ {z}]
    /\ UNCHANGED <<clock, alert, synced>>
Filed ==
    /\ pass.at = "file" /\ pass.todo = {}
    /\ pass' = NoPass
    /\ UNCHANGED <<clock, alert, synced, filed, missed>>

-----------------------------------------------------------------------------
\* CreateCloudflareZone.  What was sent before is read by the zone's own first pass,
\* unless one over all zones comes before it and moves on.
CreateCloudflareZone(z) ==
    /\ z \notin Registered
    /\ synced' = [x \in Registered \cup {z} |-> IF x = z THEN Never ELSE synced[x]]
    /\ missed' = IF alert.sent = Never THEN missed ELSE missed \cup {z}
    /\ UNCHANGED <<clock, alert, filed, pass>>

\* UpdateCloudflareZone saves the whole row it loaded, and with it when the zone was
\* synced then, which is any time before.
UpdateCloudflareZone(z, then) ==
    /\ z \in Registered /\ then < synced[z]
    /\ synced' = [synced EXCEPT ![z] = then]
    /\ UNCHANGED <<clock, alert, filed, pass, missed>>

\* The process stops: what was read and stamped, and not filed, is missed.
Crash ==
    /\ pass.at # "idle"
    /\ missed' = IF pass.at = "file" THEN missed \cup (pass.todo \ filed) ELSE missed
    /\ pass' = NoPass
    /\ UNCHANGED <<clock, alert, synced, filed>>

\* Cloudflare sends the alert, and lists it then or later.
Send(names, listed) ==
    /\ alert = Unsent
    /\ alert' = [sent |-> clock, names |-> names, listed |-> listed]
    /\ UNCHANGED <<clock, synced, filed, pass, missed>>
List ==
    /\ alert.sent # Never /\ ~alert.listed
    /\ alert' = [alert EXCEPT !.listed = TRUE]
    /\ UNCHANGED <<clock, synced, filed, pass, missed>>
\* From the reading to the stamp it is at most the time of the calls.  An alert is missed
\* when it gets a week old before any reading later than it was stamped.
MovedOn == \E z \in Registered : synced[z] - Overlap > alert.sent
Tick ==
    /\ clock < MaxTime
    /\ alert.sent # Never /\ ~alert.listed => clock = alert.sent
    /\ pass.at = "stamp" => clock = pass.began
    /\ clock' = clock + 1
    /\ missed' = IF alert.sent # Never /\ alert.sent = clock - Week /\ ~MovedOn
                 THEN Registered ELSE missed
    /\ UNCHANGED <<alert, synced, filed, pass>>

Next ==
    \/ PollCloudflare \/ Fetch \/ Stamp \/ Filed
    \/ \E z \in Zones :
         pollCloudflareZone(z) \/ File(z) \/ CreateCloudflareZone(z)
         \/ \E then \in Never..MaxTime : UpdateCloudflareZone(z, then)
    \/ Crash \/ Tick
    \/ \E names \in SUBSET Zones, listed \in BOOLEAN : Send(names, listed)
    \/ List
Spec == Init /\ [][Next]_vars

-----------------------------------------------------------------------------
\* Where the alert belongs: under the zones it names, or under all.
Belongs == IF alert.names \cap Registered = {} THEN Registered
           ELSE alert.names \cap Registered
\* The next pass over all zones does not read it, nor has the one under way.
OutOfReach(z) == alert.sent < Since(Registered) /\ z \notin pass.todo

(* cloudflare_poller.go:276, it "reads each account's notification history  *)
(* once, [...] and files every alert under the zones it names".  The code   *)
(* does not keep this: one page is all it reads.  What it does keep: however*)
(* late it appeared and whatever edit put back an older sync, an alert that *)
(* belongs to a zone is filed under it before it is out of the reach of the *)
(* passes, unless it was given up: because a reading that was full left it  *)
(* out and the next ones look further on, because it was a week old before a*)
(* reading succeeded, by a Create that failed, by a stop of the process,    *)
(* because the zone was added later, or because a pass over another zone    *)
(* alone moved on.                                                          *)
HistoryIsFiled ==
    alert.sent # Never =>
        \A z \in Belongs : OutOfReach(z) => z \in filed \cup missed

TypeOK ==
    /\ clock \in 0..MaxTime /\ Registered \subseteq Zones
    /\ \A z \in Registered : synced[z] \in Never..clock
    /\ filed \subseteq Registered /\ missed \subseteq Registered
    /\ pass.zones \subseteq Registered /\ pass.todo \subseteq pass.zones
=============================================================================
