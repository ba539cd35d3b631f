\* A broker that refuses one subscription, and no other fault.
CONSTANTS
    MaxFails = 0
    MaxLosses = 0
    MaxOutages = 0
    MaxRefusals = 1
SPECIFICATION FairSpec
PROPERTIES ListensToBroker
