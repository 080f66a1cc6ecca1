\* Two repositories, one of which cannot be cloned, two workers, a channel of
\* two places and a batch of one; one commit, failed scan or restart.
SPECIFICATION FairSpec
CONSTANTS
    Repos = 2
    Broken = {1}
    Worker = {w1, w2}
    Caller = {poller, handler}
    Poller = poller
    Depth = 2
    Batch = 1
    ImageAge = 2
    FullAge = 3
    MaxDisturb = 1
INVARIANTS FlagMeansOneWaiting NoCommitForgotten
PROPERTIES CodeIsRescanned
