\* One application with two objects, self-heal on; the poll and one other
\* operation; two pushes, hand edits, deletions, failures or crashes.
SPECIFICATION FairSpec
CONSTANTS
    Object = {"cm", "app"}
    Crd = {}
    Custom = {}
    KindOrder <- PlainOrder
    Ns <- PlainNs
    Home = "shop"
    Content = {"v1", "v2"}
    Unserved = Unserved
    Undeclared = Undeclared
    Revision = {1, 2}
    Tree <- PlainTree
    Edited = Edited
    Stranger = Stranger
    None = None
    Settings <- HealSettings
    Worker = {poller, handler}
    Poller = poller
    Events = {"webhook", "delete", "cascade", "push", "hand", "open", "get", "apply", "crash"}
    MaxDisturb = 2
PROPERTIES
    AutoSyncConverges
CHECK_DEADLOCK FALSE
