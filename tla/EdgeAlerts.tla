----------------------------- MODULE EdgeAlerts -----------------------------
(***************************************************************************)
(* The alert log of one Cloudflare zone (cloudflare_poller.go, the checks  *)
(* of cloudflare_exposure.go, the zone's handlers in cloudflare.go).  Two  *)
(* passes, each under a lock of its own, write it: one measures traffic    *)
(* and judges the threshold rules, the other reads the zone's records,     *)
(* asks what answers behind them and reconciles the findings.  Meanwhile   *)
(* the zone is edited and deleted, statement by statement.                 *)
(*                                                                         *)
(* What an alert is about is a rule or a finding, and present holds those  *)
(* that whoever looks would find: a measure at its threshold, a port that  *)
(* is listed and answers, a target that does not exist.  A finding is of   *)
(* the record that has its name.  An alert that was resolved is not kept.  *)
(***************************************************************************)
EXTENDS Naturals, Sequences, SequencesExt
CONSTANTS
    SecurityRules, TrafficRules, \* sequences, in the order they are judged
    Ports, Names,                \* findings: of an address, of a CNAME
    MaxChanges,                  \* bound: changes of the world
    MaxRequests                  \* bound: requests

Rules == ToSet(SecurityRules \o TrafficRules)
Findings == Ports \cup Names
Things == Rules \cup Findings
Requests == 1..MaxRequests

(* What the constants may be: alerts of rules and of findings are told apart, *)
(* and a finding is of an address or of a name.                               *)
EdgeAssumption ==
    /\ SecurityRules \in Seq(Rules) /\ TrafficRules \in Seq(Rules)
    /\ Rules \cap Findings = {} /\ Ports \cap Names = {}
    /\ MaxChanges \in Nat /\ MaxRequests \in Nat

VARIABLES
    present,   \* the world: see above
    records,   \* the world: the zone's DNS records
    changes,
    zone,      \* the row: <<>>, or whether it is enabled and which rules are on
    open,      \* what there is an open alert of
    poll,      \* the pass over the rules
    scan,      \* the pass over the findings
    requests,
    quiet      \* history: what was absent at some time since it was last read as present
vars == <<present, records, changes, zone, open, poll, scan, requests, quiet>>

NoPoll == [at |-> "idle", rules |-> {}, judge |-> <<>>, loud |-> {}, saw |-> FALSE]
NoScan == [at |-> "idle", records |-> {}, found |-> {}, unanswered |-> {}, checked |-> FALSE,
           saw |-> {}, todo |-> {}]
Unborn == [at |-> "unborn", zone |-> <<>>]

Init ==
    /\ present \in SUBSET Things /\ records = Findings /\ changes = 0
    /\ zone = <<[enabled |-> TRUE, rules |-> Rules]>> /\ open = {}
    /\ poll = NoPoll /\ scan = NoScan
    /\ requests = [s \in Requests |-> Unborn]
    /\ quiet = Things

\* What a reading says of things: what it found is no longer known to be quiet,
\* what was not there is.
Reads(found, absent) == quiet' = (quiet \ found) \cup absent

-----------------------------------------------------------------------------
(* The pass over the rules, under cfPollMu. *)

\* PollCloudflare, for a zone that is enabled; the row is loaded under the lock.
PollBegins ==
    poll' = IF Rules = {} THEN poll ELSE [NoPoll EXCEPT !.at = "measure", !.rules = zone[1].rules]
PollCloudflare ==
    /\ poll.at = "idle" /\ zone # <<>> /\ zone[1].enabled
    /\ PollBegins
    /\ UNCHANGED <<present, records, changes, zone, open, scan, requests, quiet>>

\* A mutation of Judged: what failed is taken for a measure of nothing.
JudgedAnyway(read) == IF read = "nothing" THEN <<>> ELSE SecurityRules \o TrafficRules
\* Which rules are judged when nothing, the traffic half or all could be read.
Judged(read) ==
    CASE read = "nothing" -> <<>>
      [] read = "traffic" -> TrafficRules
      [] read = "all" -> SecurityRules \o TrafficRules

\* A rule that is off is never breached.
measureCloudflareWindow ==
    /\ poll.at = "measure"
    /\ \E read \in {"nothing", "traffic", "all"} :
         LET half == CASE read = "nothing" -> {}
                       [] read = "traffic" -> ToSet(TrafficRules)
                       [] read = "all" -> Rules
             loud == present \cap half \cap poll.rules
         IN  /\ poll' = [poll EXCEPT !.at = "judge", !.judge = Judged(read), !.loud = loud]
             /\ Reads(loud, half \ loud)
    /\ UNCHANGED <<present, records, changes, zone, open, scan, requests>>

\* evaluateCloudflareRule: the open alert is looked for, then written.  A row that
\* was deleted in between is inserted again by its Save; a Create may fail.
JudgeLooks ==
    /\ poll.at = "judge"
    /\ poll' = IF poll.judge = <<>> THEN NoPoll
               ELSE [poll EXCEPT !.at = "write", !.saw = Head(poll.judge) \in open]
    /\ UNCHANGED <<present, records, changes, zone, open, scan, requests, quiet>>
JudgeWrites ==
    /\ poll.at = "write"
    /\ LET rule == Head(poll.judge) IN
         \/ rule \in poll.loud /\ open' = open \cup {rule}
         \/ rule \in poll.loud /\ ~poll.saw /\ UNCHANGED open
         \/ rule \notin poll.loud /\ open' = IF poll.saw THEN open \ {rule} ELSE open
    /\ poll' = [poll EXCEPT !.at = "judge", !.judge = Tail(@), !.saw = FALSE]
    /\ UNCHANGED <<present, records, changes, zone, scan, requests, quiet>>

-----------------------------------------------------------------------------
(* The pass over the findings, under cfExposureMu. *)

ScanBegins == scan' = IF Findings = {} THEN scan ELSE [NoScan EXCEPT !.at = "records"]
PollCloudflareExposure ==
    /\ scan.at = "idle" /\ zone # <<>> /\ zone[1].enabled
    /\ ScanBegins
    /\ UNCHANGED <<present, records, changes, zone, open, poll, requests, quiet>>

\* Without the zone's records nothing is known; the last result stays.
ListRecords ==
    /\ scan.at = "records"
    /\ \/ /\ scan' = [scan EXCEPT !.at = "addresses", !.records = records]
          /\ Reads({}, Findings \ records)
       \/ scan' = NoScan /\ UNCHANGED quiet
    /\ UNCHANGED <<present, records, changes, zone, open, poll, requests>>

\* The list is asked what is open at each address, or does not answer.
LookUpAddresses ==
    /\ scan.at = "addresses"
    /\ LET listed == Ports \cap scan.records \cap present IN
         \/ scan' = [scan EXCEPT !.at = "probe"] /\ UNCHANGED quiet
         \/ /\ scan' = [scan EXCEPT !.at = "probe", !.checked = TRUE, !.found = listed]
            /\ Reads({}, Ports \ present)
    /\ UNCHANGED <<present, records, changes, zone, open, poll, requests>>

\* What is listed at an address and not closed is a finding.
Exposed(listed, closed) == listed \ closed

\* What is listed is dialled: a port that cannot be reached is closed, also if that is
\* because the time of the check was up.
probeExposedPorts ==
    /\ scan.at = "probe"
    /\ \E cutOff \in SUBSET scan.found :
         LET reached == Exposed(scan.found, cutOff \cup (Ports \ present)) IN
           /\ scan' = [scan EXCEPT !.at = "names", !.found = reached, !.unanswered = cutOff]
           /\ Reads(reached, (scan.found \ cutOff) \ present)
    /\ UNCHANGED <<present, records, changes, zone, open, poll, requests>>

\* Only the answer that a name does not exist makes it dangling.
LookUpNames ==
    /\ scan.at = "names"
    /\ LET asked == Names \cap scan.records IN
         \E silent \in SUBSET asked :
           LET dangling == (asked \ silent) \cap present IN
             /\ scan' = [scan EXCEPT !.at = "look", !.found = @ \cup dangling,
                                     !.unanswered = @ \cup silent]
             /\ Reads(dangling, (asked \ silent) \ present)
    /\ UNCHANGED <<present, records, changes, zone, open, poll, requests>>

\* reconcileExposureAlerts reads the open alerts, then writes one after the other.
ReconcileLooks ==
    /\ scan.at = "look"
    /\ scan' = [scan EXCEPT !.at = "reconcile", !.saw = open \cap Findings, !.todo = Findings]
    /\ UNCHANGED <<present, records, changes, zone, open, poll, requests, quiet>>

\* Gone is what was looked up and not found, or has no record any more.
Gone(f) == f \in Names \/ scan.checked \/ f \notin scan.records
Reconciles(f) ==
    /\ scan.at = "reconcile" /\ f \in scan.todo
    /\ \/ /\ f \in scan.found \ scan.saw
          /\ open' = open \cup {f}
       \/ /\ f \in scan.saw \ scan.found /\ Gone(f)
          /\ open' = open \ {f}
       \/ /\ f \in scan.found => f \in scan.saw
          /\ f \in scan.saw \ scan.found => ~Gone(f)
          /\ UNCHANGED open
    /\ scan' = [scan EXCEPT !.todo = @ \ {f}]
    /\ UNCHANGED <<present, records, changes, zone, poll, requests, quiet>>
ScanEnds ==
    /\ scan.at = "reconcile" /\ scan.todo = {}
    /\ scan' = NoScan
    /\ UNCHANGED <<present, records, changes, zone, open, poll, requests, quiet>>

-----------------------------------------------------------------------------
(* The handlers.  Each loads the row and goes on with its copy. *)

Loads(s, what) ==
    /\ requests[s].at = "unborn" /\ \A t \in 1..(s - 1) : requests[t].at # "unborn"
    /\ zone # <<>>
    /\ requests' = [requests EXCEPT ![s] = [at |-> what, zone |-> IF what = "update" THEN zone ELSE <<>>]]
    /\ UNCHANGED <<present, records, changes, zone, open, poll, scan, quiet>>
Moves(s, step) == requests' = [requests EXCEPT ![s].at = step]
Ends(s) == requests' = [requests EXCEPT ![s] = [Unborn EXCEPT !.at = "done"]]

\* UpdateCloudflareZone saves the whole row, which inserts it if it is gone.
UpdateCloudflareZone(s, enabled, on) ==
    /\ requests[s].at = "update"
    /\ zone' = <<[enabled |-> enabled, rules |-> on]>>
    /\ Ends(s)
    /\ UNCHANGED <<present, records, changes, open, poll, scan, quiet>>

\* DeleteCloudflareZone: the alerts first.
DeleteAlerts(s) ==
    /\ requests[s].at = "delete"
    /\ open' = {}
    /\ Moves(s, "deleting")
    /\ UNCHANGED <<present, records, changes, zone, poll, scan, quiet>>
DeleteZone(s) ==
    /\ requests[s].at = "deleting"
    /\ zone' = <<>>
    /\ Ends(s)
    /\ UNCHANGED <<present, records, changes, open, poll, scan, quiet>>

\* PollCloudflareZoneNow: the rules if the zone is still there, then the findings
\* whether it is or not.  Each waits for its lock and for its end.
NowPolls(s) ==
    /\ requests[s].at = "now" /\ poll.at = "idle"
    /\ IF zone = <<>> THEN UNCHANGED poll ELSE PollBegins
    /\ Moves(s, "polled")
    /\ UNCHANGED <<present, records, changes, zone, open, scan, quiet>>
NowScans(s) ==
    /\ requests[s].at = "polled" /\ poll.at = "idle" /\ scan.at = "idle"
    /\ ScanBegins
    /\ Ends(s)
    /\ UNCHANGED <<present, records, changes, zone, open, poll, quiet>>

\* The world: traffic, what answers, and the records.
Changes(t) ==
    /\ changes < MaxChanges /\ changes' = changes + 1
    /\ \/ /\ present' = (present \ {t}) \cup ({t} \ present)
          /\ UNCHANGED records
       \/ /\ t \in Findings
          /\ records' = (records \ {t}) \cup ({t} \ records)
          /\ UNCHANGED present
    /\ Reads({}, {t} \ (present' \cap (records' \cup Rules)))
    /\ UNCHANGED <<zone, open, poll, scan, requests>>

Passes ==
    \/ PollCloudflare \/ measureCloudflareWindow \/ JudgeLooks \/ JudgeWrites
    \/ PollCloudflareExposure \/ ListRecords \/ LookUpAddresses \/ probeExposedPorts
    \/ LookUpNames \/ ReconcileLooks \/ (\E f \in Findings : Reconciles(f)) \/ ScanEnds
Handles(s) ==
    \/ \E what \in {"update", "delete", "now"} : Loads(s, what)
    \/ \E enabled \in BOOLEAN, on \in SUBSET Rules : UpdateCloudflareZone(s, enabled, on)
    \/ DeleteAlerts(s) \/ DeleteZone(s) \/ NowPolls(s) \/ NowScans(s)
Next ==
    \/ Passes
    \/ \E s \in Requests : Handles(s)
    \/ \E t \in Things : Changes(t)
Spec == Init /\ [][Next]_vars

-----------------------------------------------------------------------------
(* An alert is resolved only if, since what it is about was last read as    *)
(* present, it was absent, its record was gone or its rule was off, whatever *)
(* could not be measured or looked up meanwhile; or its zone is being       *)
(* deleted; or, of a finding, because a dial was cut off or a name could    *)
(* not be asked for, which the code takes for an answer.                    *)
ClosesOnlyQuiet ==
    \A t \in open \ open' :
        \/ t \in quiet \cup scan.unanswered
        \/ \E s \in Requests : requests[s].at = "delete" /\ requests'[s].at # "delete"
AlertsStand == [][ClosesOnlyQuiet]_vars

TypeOK ==
    /\ present \subseteq Things /\ records \subseteq Findings /\ open \subseteq Things
    /\ quiet \subseteq Things /\ changes \in 0..MaxChanges
    /\ scan.found \subseteq scan.records /\ scan.found \cap scan.unanswered = {}
    /\ poll.loud \subseteq poll.rules
=============================================================================
