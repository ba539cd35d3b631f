\* A root or a leaf, with its LED: three connections, two crashes, an event queue of
\* three, three returns of esp_mesh_recv, with a packet or without.
CONSTANTS
    TaskFails = FALSE
    QueueSize = 3
    MaxLinks = 3
    MaxCrashes = 2
    MaxReturns = 3
SPECIFICATION LedSpec
INVARIANTS TypeOK OneTaskEach ReceiverFindsAllReady SettledFlagIsTrue OnlyRootRunsMqtt OneFlashPerReturn
PROPERTIES BootsUp ListensToMesh ListensToBroker EveryPacketShown LedGoesDark
CHECK_DEADLOCK FALSE
