\* Three scenes of one workload and its namesake: see MCDelivery.
SPECIFICATION SceneSpec
CONSTANTS
    Images = {"v1", "v2"}
    Replicas = {0, 1}
    Conditions <- Several
    NeedsMetrics = {"overprovisioned", "no_limits"}
    MetricsDerived = {"overprovisioned"}
    Info = {"overprovisioned", "no_limits"}
    Namesakes = {"Deployment", "StatefulSet"}
    Sights <- MCSights
    FirstClusters <- Starts
    MaxTime = 3
    MaxChange = 2
    Parts <- Tags
    Connected = {"v1", "v2"}
    Commits = {"abc1234"}
    Window = 1
    GiveUp = 0
    LinkBatch = 1
INVARIANTS DeploymentsChain OpensNothingTwice AnnouncedIsRecorded
PROPERTIES ClosedAsRead VerdictStands EveryDeploymentIsJudged EveryLinkIsDecided
