\* Every node may restart, every link may lose packets, queues hold two.
CONSTANTS
    l1 = l1
    l2 = l2
    Leaves = {l1, l2}
    root = root
    Root = root
    NoAddr = NoAddr
    NoMsg = NoMsg
    MAX_CONNECTIONS = 4
    QSize = 2
    Unstable = {l1, l2, root}
    MaxTrack = 2
SPECIFICATION Spec
INVARIANTS TypeOK PipelineInv
PROPERTIES ImplementsTrackReply
