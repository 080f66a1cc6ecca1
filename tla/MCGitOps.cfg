\* One application with a definition, its custom resource and two commits; the
\* poll and one other operation; two pushes, hand edits, changed settings or failures.
SPECIFICATION Spec
CONSTANTS
    Object = {"crd", "cr"}
    Crd = {"crd"}
    Custom = {"cr"}
    KindOrder <- CrdOrder
    Ns <- CrdNs
    Home = "shop"
    Content = {"v1"}
    Unserved = Unserved
    Undeclared = Undeclared
    Revision = {1, 2}
    Tree <- CrdTree
    Edited = Edited
    Stranger = Stranger
    None = None
    Settings <- AutoSettings
    Worker = {poller, handler}
    Poller = poller
    Events = {"refresh", "sync", "webhook", "edit", "push", "hand", "open", "apply", "prune"}
    MaxDisturb = 2
INVARIANTS
    NothingOrphaned
PROPERTIES
    PrunesOnlyItsOwn
    PruneLeavesNothing
