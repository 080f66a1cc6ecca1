\* A commit bumps the API version of an object to one that is not served, and
\* someone syncs by hand.
SPECIFICATION Spec
CONSTANTS
    Object = {"app"}
    Crd = {}
    Custom = {}
    KindOrder <- OneOrder
    Ns <- OneNs
    Home = "shop"
    Content = {"v1"}
    Unserved = Unserved
    Undeclared = Undeclared
    Revision = {1, 2}
    Tree <- BumpTree
    Edited = Edited
    Stranger = Stranger
    None = None
    Settings <- AllSettings
    Worker = {poller, handler}
    Poller = poller
    Events = {"sync", "push"}
    MaxDisturb = 1
PROPERTIES
    PrunesOnlyUndeclared
