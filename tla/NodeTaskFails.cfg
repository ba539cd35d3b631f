\* A node whose receive task may not get the memory it needs.
CONSTANTS
    TaskFails = TRUE
    QueueSize = 3
    MaxLinks = 3
    MaxCrashes = 2
SPECIFICATION FairSpec
PROPERTIES ListensToMesh
CHECK_DEADLOCK FALSE
