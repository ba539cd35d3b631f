\* Messages encoded into buffers of various sizes, sent and decoded.
CONSTANTS
    Sources <- SomeSources
    BufSizes = {0, 1, 3, 4, 5, 9, 17, 30, 45, 49, 72, 73}
    Lens = {}
    VarintSizes = {}
    Values = {0}
SPECIFICATION RoundTripSpec
INVARIANTS EncodeTypeOK WithinBuffer SentIsWritten SizeIsEnough ComesBack NeverInPart
CHECK_DEADLOCK FALSE
