\* No faults, queues of one packet, and as many messages as it takes to fill every
\* place between the broadcast loop and the root's receive task.
CONSTANTS
    l1 = l1
    l2 = l2
    Leaves = {l1}
    root = root
    Root = root
    NoAddr = NoAddr
    NoMsg = NoMsg
    MAX_CONNECTIONS = 4
    QSize = 1
    Unstable = {}
    MaxTrack = 4
SPECIFICATION FairSpec
PROPERTIES ForwardedToLeaves
CHECK_DEADLOCK FALSE
