\* A definition and a resource of its kind come in one commit; nothing else happens.
SPECIFICATION FairSpec
CONSTANTS
    Object = {"crd", "cr"}
    Crd = {"crd"}
    Custom = {"cr"}
    KindOrder <- CrdOrder
    Ns <- CrdNs
    Home = "shop"
    Content = {"v1"}
    Unserved = Unserved
    Undeclared = Undeclared
    Revision = {1, 2}
    Tree <- CrdTree
    Edited = Edited
    Stranger = Stranger
    None = None
    Settings <- AllSettings
    Worker = {poller, handler}
    Poller = poller
    Events = {}
    MaxDisturb = 0
PROPERTIES
    AutoSyncConverges
