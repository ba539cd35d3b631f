\* A message on /track longer than a reply.
CONSTANTS
    RX_SIZE = 6
    MPS = 5
    ReplySize = 4
    EchoSize = 5
    Macs <- SomeMacs
SPECIFICATION Spec
INVARIANTS PublishesTheReply
