\* Messages on /track no longer than a reply; addresses of six octets.
CONSTANTS
    RX_SIZE = 6
    MPS = 5
    ReplySize = 4
    EchoSize = 4
    Macs <- SomeMacs
SPECIFICATION Spec
INVARIANTS Terminated PublishesTheReply TopicsTellKartsApart
