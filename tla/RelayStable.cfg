\* A stable leaf beside one that may restart, leave or lose packets; queues of one
\* packet, which fill up.
CONSTANTS
    l1 = l1
    l2 = l2
    Leaves = {l1, l2}
    root = root
    Root = root
    NoAddr = NoAddr
    NoMsg = NoMsg
    MAX_CONNECTIONS = 4
    QSize = 1
    Unstable = {l2}
    MaxTrack = 3
SPECIFICATION FairSpec
PROPERTIES StableLeafAnswers BroadcastEndsUnlessRootFull
CHECK_DEADLOCK FALSE
