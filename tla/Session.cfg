\* Two failing subscribes, two broken connections, two outages, two refusals.
CONSTANTS
    MaxFails = 2
    MaxLosses = 2
    MaxOutages = 2
    MaxRefusals = 2
SPECIFICATION FairSpec
INVARIANTS TypeOK SettledFlagIsTrue
PROPERTIES EndsUpSubscribed OnlyFaultsEndASession
