\* A commit drops a cluster-scoped object of an application with cluster scope.
SPECIFICATION Spec
CONSTANTS
    Object = {"ns"}
    Crd = {}
    Custom = {}
    KindOrder <- OneOrder
    Ns <- OneNs
    Home = "shop"
    Content = {"v1"}
    Unserved = Unserved
    Undeclared = Undeclared
    Revision = {1, 2}
    Tree <- DroppedTree
    Edited = Edited
    Stranger = Stranger
    None = None
    Settings <- AllSettings
    Worker = {poller, handler}
    Poller = poller
    Events = {"sync", "push"}
    MaxDisturb = 1
PROPERTIES
    PruneLeavesNothing
