SPECIFICATION FairSpec
CONSTANTS
    Party = {a, b}
    Speakers = {a}
    Content = {m1, m2}
    Docs = {m2}
    MaxCopies = 1
    MaxFaults = 0
    MaxCrashes = 0
    MaxTroubles = 0
PROPERTY Delivered
CHECK_DEADLOCK FALSE
