---------------------------- MODULE MCSideBySide ----------------------------
(***************************************************************************)
(* Small modules that share no state, each on an instance of its own, in   *)
(* one run: a behaviour is one of a single module, the one part names.     *)
(* VaultMembers has variables of its own; those of the others are all laid *)
(* over the ten variables below, of which the part that runs uses as many  *)
(* as it has.                                                              *)
(***************************************************************************)
EXTENDS VaultMembers

\* The constants of the modules, where they are explained; two modules that have one
\* of the same name share its value here, or have one of these each.
CONSTANTS
    Editor, MaxText,                                      \* VaultItems
    MaxFailures, LockSteps, MaxStep, MaxSeeds, MaxResets, \* VaultCode
    LastStep,                                             \* SignIn: its MaxStep
    People, FirstRoot, MaxRootUsers,                      \* Accounts: its Users
    Containers, Bucket, Lookback, MaxTime, MaxLines, MaxRestarts, \* ErrorWindows
    Teams, FirstScopes, Permissions, RoleHolds, Spaces,   \* Access: its Groups and
    MaxChanges,                                           \* Namespaces
    Hosts, Published, HostKeys, FirstKey, Edits, MaxEdits, MaxRekeys, \* HostKeys
    SecurityRules, TrafficRules, Ports, Aliases,          \* EdgeAlerts: its Names,
    MaxMoves, MaxAsked,                                   \* MaxChanges, MaxRequests
    Zones, Week, LastTime,                                \* EdgeHistory: its MaxTime
    Requesters, Admins, MaxJobs, MaxOpen, MaxCrashes,     \* Provisioning: its Users and
    Resources, NsOf, KindOf, Catalog, Applies, Essential, \* MaxRequests; and Posture
    Callers, MaxRuns, MaxDeploys,                         \* its MaxChanges
    CommonTLDs, MaxPeers, Stages, FirstStage, Listings,   \* Topology: its Clusters and
    Walkers, Retention, MaxRounds, MaxHours, MaxStages    \* FirstCluster, Passes, MaxTime,
                                                          \* MaxChanges

VARIABLES part, x1, x2, x3, x4, x5, x6, x7, x8, x9, x10

Items == INSTANCE VaultItems WITH
    item <- x1, list <- x2, form <- x3, requests <- x4, written <- x5
Code == INSTANCE VaultCode WITH
    factor <- x1, now <- x2, requests <- x3, sessions <- x4, seeds <- x5, resets <- x6,
    landed <- x7, spent <- x8, rolledBack <- x9
Account == INSTANCE SignIn WITH
    MaxStep <- LastStep,
    user <- x1, now <- x2, ticket <- x3, requests <- x4, seeds <- x5, usedStep <- x6, taken <- x7,
    shown <- x8, crossed <- x9
Roots == INSTANCE Accounts WITH
    Users <- People, role <- x1, requests <- x2
Windows == INSTANCE ErrorWindows WITH
    clock <- x1, log <- x2, restarts <- x3, said <- x4, pass <- x5, window <- x6

Assessment == INSTANCE Posture WITH
    MaxChanges <- MaxDeploys,
    cluster <- x1, changes <- x2, postureLock <- x3, caller <- x4, src <- x5, stored <- x6

\* What a discovery makes of any of the clusters (x1, in the part "clusters"), and
\* passes over one of which everything or nothing can be listed.
Discovery == INSTANCE MCServiceMap
Map == INSTANCE Topology WITH
    Clusters <- Stages, FirstCluster <- FirstStage, Passes <- Walkers, MaxTime <- MaxHours,
    MaxChanges <- MaxStages,
    k <- x1, changes <- x2, clock <- x3, nodes <- x4, edges <- x5, pass <- x6, lastError <- x7,
    lapped <- x8
Allowed == INSTANCE Access WITH
    Groups <- Teams, Namespaces <- Spaces,
    groups <- x1, members <- x2, grants <- x3, scopes <- x4, adding <- x5, deletion <- x6,
    request <- x7, changes <- x8, meanwhile <- x9
Connection == INSTANCE HostKeys WITH
    row <- x1, made <- x2, apps <- x3, presents <- x4, known <- x5, requests <- x6, edits <- x7,
    rekeys <- x8, served <- x9, crossed <- x10

\* Two fixes at hand for one object, of which a new version may come meanwhile.
Samples == INSTANCE MCRemediation
Fixes == INSTANCE Remediation WITH
    Objects <- Samples!AllObjects, Versions <- Samples!Later,
    FirstAccounts <- {<<>>, [name \in {"default"} |-> "false"]},
    Slots <- {1, 2}, MaxFixes <- 2, MaxRollouts <- 1, Rules <- Samples!AskedRules,
    object <- x1, accounts <- x2, advice <- x3, asked <- x4, rollouts <- x5

Repositories == INSTANCE Provisioning WITH
    Users <- Requesters, MaxRequests <- MaxJobs,
    row <- x1, scm <- x2, argo <- x3, job <- x4, gone <- x5, crashes <- x6

\* A zone's rules alone, and its findings alone; and its account's alerts.
EdgeRules == INSTANCE EdgeAlerts WITH
    Ports <- {}, Names <- {}, MaxChanges <- MaxMoves,
    present <- x1, records <- x2, changes <- x3, zone <- x4, open <- x5, poll <- x6, scan <- x7,
    requests <- x8, quiet <- x9
EdgeFindings == INSTANCE EdgeAlerts WITH
    SecurityRules <- <<>>, TrafficRules <- <<>>, Names <- Aliases,
    MaxChanges <- MaxMoves, MaxRequests <- MaxAsked,
    present <- x1, records <- x2, changes <- x3, zone <- x4, open <- x5, poll <- x6, scan <- x7,
    requests <- x8, quiet <- x9
History == INSTANCE EdgeHistory WITH
    MaxTime <- LastTime,
    clock <- x1, alert <- x2, synced <- x3, filed <- x4, pass <- x5, missed <- x6

\* Values of constants that are not sets or numbers: what two groups may see, the keys
\* of two servers, and a rule of each half; and the workloads of two namespaces with a role
\* of the whole cluster, and a best practice between two essential rules; and two
\* clusters of which everything or nothing can be listed.
OneScopeEach == {<<"dev", "shop">>, <<"sre", "pay">>}
OldKeys == [host \in Hosts |-> "old"]
Threats == <<"threat_spike">>
Errors == <<"origin_errors">>
Placed == [web |-> "shop", db |-> "pay", admin |-> ""]
Kinded == [web |-> "workload", db |-> "workload", admin |-> "role"]
ThreeRules == <<"privileged", "probes", "wildcard">>
RulesOfKinds == [privileged |-> {"workload"}, probes |-> {"workload"}, wildcard |-> {"role"}]
TwoStages == [before |-> Discovery!Small, after |-> Discovery!Smaller]
AllOrNothing == {Discovery!Everything, {}}

ASSUME PartsAssumption ==
    /\ Items!ItemBounds /\ Code!CodeBounds /\ Account!SignInBounds /\ Roots!AccountsAssumption
    /\ Windows!WindowBounds /\ Allowed!AccessAssumption /\ Connection!HostAssumption
    /\ EdgeRules!EdgeAssumption /\ EdgeFindings!EdgeAssumption /\ History!HistoryBounds
    /\ Repositories!ProvisioningBounds /\ Map!TopologyBounds /\ Fixes!RemediationBounds
    /\ Assessment!PostureBounds
    /\ \A c \in Discovery!AllClusters : Discovery!WellFormed(c)

(* The depths the page computes are those of the longest ways, in every     *)
(* graph of four nodes without loops of one edge.                           *)
ASSUME DepthAssumption ==
    \A E \in SUBSET {x \in (1..4) \X (1..4) : x[1] # x[2]} : Map!DepthIsLongestPath(E, 1..4)

-----------------------------------------------------------------------------
\* The variables from the one of a number on are not used, and stay as they are.
idle == "idle"
Free10 == x10 = idle
Free9 == x9 = idle /\ Free10
Free7 == x7 = idle /\ x8 = idle /\ Free9
Free6 == x6 = idle /\ Free7
Free3 == x3 = idle /\ x4 = idle /\ x5 = idle /\ Free6
Free2 == x2 = idle /\ Free3
Free1 == x1 = idle /\ Free2

Keeps9 == UNCHANGED <<x9, x10>>
Keeps7 == UNCHANGED <<x7, x8>> /\ Keeps9
Keeps6 == UNCHANGED x6 /\ Keeps7
Keeps3 == UNCHANGED <<x3, x4, x5>> /\ Keeps6
Keeps1 == UNCHANGED <<x1, x2>> /\ Keeps3

PartsInit ==
    /\ Init
    /\ \/ part = "members" /\ Free1
       \/ part = "items" /\ Items!Init /\ Free6
       \/ part = "code" /\ Code!Init /\ Free10
       \/ part = "signin" /\ Account!Init /\ Free10
       \/ part = "roots" /\ Roots!Init /\ Free3
       \/ part = "windows" /\ Windows!Init /\ Free7
       \/ part = "posture" /\ Assessment!Init /\ Free7
       \/ part = "clusters" /\ x1 \in Discovery!AllClusters /\ Free2
       \/ part = "map" /\ Map!Init /\ Free9
       \/ part = "access" /\ Allowed!Init /\ Free10
       \/ part = "connection" /\ Connection!Init
       \/ part = "fixes" /\ Fixes!Init /\ Free6
       \/ part = "provisioning" /\ Repositories!Init /\ Free7
       \/ part = "rules" /\ EdgeRules!Init /\ Free10
       \/ part = "findings" /\ EdgeFindings!Init /\ Free10
       \/ part = "history" /\ History!Init /\ Free7

\* The clusters of that part are looked at, each on its own.
PartsNext ==
    /\ UNCHANGED part
    /\ \/ part = "members" /\ Next /\ Keeps1
       \/ /\ UNCHANGED vars
          /\ \/ part = "items" /\ Items!Next /\ Keeps6
             \/ part = "code" /\ Code!Next /\ UNCHANGED x10
             \/ part = "signin" /\ Account!Next /\ UNCHANGED x10
             \/ part = "roots" /\ Roots!Next /\ Keeps3
             \/ part = "windows" /\ Windows!Next /\ Keeps7
             \/ part = "posture" /\ Assessment!Next /\ Keeps7
             \/ part = "map" /\ Map!Next /\ Keeps9
             \/ part = "access" /\ Allowed!Next /\ UNCHANGED x10
             \/ part = "connection" /\ Connection!Next
             \/ part = "fixes" /\ Fixes!Next /\ Keeps6
             \/ part = "provisioning" /\ Repositories!Next /\ Keeps7
             \/ part = "rules" /\ EdgeRules!Next /\ UNCHANGED x10
             \/ part = "findings" /\ EdgeFindings!Next /\ UNCHANGED x10
             \/ part = "history" /\ History!Next /\ Keeps7

allVars == <<part, vars, x1, x2, x3, x4, x5, x6, x7, x8, x9, x10>>
PartsSpec == PartsInit /\ [][PartsNext]_allVars

-----------------------------------------------------------------------------
(* The state of the module that runs is well formed. *)
PartsTypeOK ==
    /\ part = "members" => TypeOK
    /\ part = "items" => Items!TypeOK
    /\ part = "code" => Code!TypeOK
    /\ part = "signin" => Account!TypeOK
    /\ part = "roots" => Roots!TypeOK
    /\ part = "windows" => Windows!TypeOK
    /\ part = "posture" => Assessment!TypeOK
    /\ part = "map" => Map!TypeOK
    /\ part = "access" => Allowed!TypeOK
    /\ part = "connection" => Connection!TypeOK
    /\ part = "fixes" => Fixes!TypeOK
    /\ part = "provisioning" => Repositories!TypeOK
    /\ part = "rules" => EdgeRules!TypeOK
    /\ part = "findings" => EdgeFindings!TypeOK
    /\ part = "history" => History!TypeOK

(* The properties of the modules, where they are stated and explained. *)
NoEditIsLost == [][part = "items" => Items!EditsKept]_allVars
SecondFactorStands ==
    [][/\ part = "code" => Code!LetsInOnce /\ Code!ResetEndsSessions'
       /\ part = "signin" => Account!CodesUnlockOnce /\ Account!SetupIsWhole']_allVars
RootsStayWithinBounds == [][part = "roots" => Roots!LeavesBoundsOnlyMiscounted]_allVars
NeverInflated == part = "windows" => Windows!NeverInflated
ScopedIsExact == part = "posture" => Assessment!ScopedIsExact
EdgesAreDeclared == part = "clusters" => Discovery!EdgesAreDeclared(x1)
MapRemembers == [][part = "map" => Map!MapHolds]_allVars
AllowedAsDecided == part = "access" => Allowed!AllowedAsDecided
PinsStand == [][part = "connection" => Connection!PinHolds]_allVars
FixesStand == [][part = "fixes" => Fixes!FixesHold]_allVars
PagesAgree == part = "fixes" => Fixes!PagesAgree
RepositoryStands ==
    [][part = "provisioning" => Repositories!RowsGoKnowingly /\ Repositories!KeysOpen']_allVars
AlertsStand ==
    [][/\ part = "rules" => EdgeRules!ClosesOnlyQuiet
       /\ part = "findings" => EdgeFindings!ClosesOnlyQuiet]_allVars
HistoryIsFiled == part = "history" => History!HistoryIsFiled
=============================================================================
