SPECIFICATION Spec
CONSTANTS
    Party = {a, b}
    Speakers = {a}
    Content = {m1}
    Docs = {}
    MaxCopies = 2
    MaxFaults = 0
    MaxCrashes = 0
    MaxTroubles = 0
INVARIANT ReadyMeansComplete
CHECK_DEADLOCK FALSE
