\* Three repositories, none broken, and room for two of them in the batches of a
\* window; nothing else happens.
SPECIFICATION FairSpec
CONSTANTS
    Repos = 3
    Broken = {}
    Worker = {w1, w2}
    Caller = {poller}
    Poller = poller
    Depth = 6
    Batch = 1
    ImageAge = 2
    FullAge = 3
    MaxDisturb = 0
PROPERTIES CodeIsRescanned
