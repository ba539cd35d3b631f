\* No byte, any byte, and any thirteen bytes, decoded by a node.
CONSTANTS
    Lens = {0, 1, 13}
    VarintSizes = {1}
    Values = {0, 1}
SPECIFICATION Spec
INVARIANTS TypeOK BytesSharedOut IteratorTrue
PROPERTIES ImplementsProtoMessage
CHECK_DEADLOCK FALSE
