\* One vault, an owner, another person and a group, and the small instances of the
\* other parts; those of clusters and fixes are in modules.  Most
\* parts come to an end, their requests, rows or clock being bounded.
SPECIFICATION PartsSpec
CONSTANTS
    Users = {"olga", "ann"}
    Owner = "olga"
    Groups = {"ops"}
    NoGroup = "-"
    MaxId = 3
    MaxRequests = 2
    Editor = {"ann", "bob"}
    MaxText = 4
    MaxFailures = 2
    LockSteps = 1
    MaxStep = 2
    MaxSeeds = 2
    MaxResets = 1
    LastStep = 1
    People = {"r", "s", "t"}
    FirstRoot = "r"
    MaxRootUsers = 2
    Containers = {"a", "b"}
    Bucket = 2
    Lookback = 1
    MaxTime = 2
    MaxLines = 2
    MaxRestarts = 1
    Teams = {"dev", "sre"}
    FirstScopes <- OneScopeEach
    Permissions = {"cluster.manage"}
    RoleHolds = {}
    Spaces = {"shop", "pay"}
    MaxChanges = 3
    Hosts = {"git", "hub"}
    Published = {"hub"}
    HostKeys = {"old", "new"}
    FirstKey <- OldKeys
    Edits = {{"url"}, {"pin"}, {"secret"}}
    MaxEdits = 1
    MaxRekeys = 1
    SecurityRules <- Threats
    TrafficRules <- Errors
    Ports = {"exposed_port"}
    Aliases = {"dangling_cname"}
    MaxMoves = 2
    MaxAsked = 1
    Zones = {"a", "b"}
    Week = 2
    LastTime = 3
    Requesters = {"ann", "bob"}
    Admins = {"ann"}
    MaxJobs = 2
    MaxOpen = 2
    MaxCrashes = 1
    Resources = {"web", "db", "admin"}
    NsOf <- Placed
    KindOf <- Kinded
    Catalog <- ThreeRules
    Applies <- RulesOfKinds
    Essential = {"privileged", "wildcard"}
    Callers = {"poller", "page"}
    MaxRuns = 1
    MaxDeploys = 2
    CommonTLDs = {"dev"}
    MaxPeers = 3
    Stages <- TwoStages
    FirstStage = "before"
    Listings <- AllOrNothing
    Walkers = {"poll", "refresh"}
    Retention = 1
    MaxRounds = 4
    MaxHours = 2
    MaxStages = 1
INVARIANTS PartsTypeOK NamedStay NeverInflated ScopedIsExact EdgesAreDeclared AllowedAsDecided PagesAgree 
PROPERTIES NoEditIsLost SecondFactorStands RootsStayWithinBounds MapRemembers PinsStand FixesStand RepositoryStands AlertsStand
CHECK_DEADLOCK FALSE
