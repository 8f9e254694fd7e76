SPECIFICATION FairSpec
CONSTANTS
    MaxCloses = 2
    Answerer = auto
    MaxLeaves = 2
    MaxTries = 3
    MaxNodes = 2
    MaxEvents = 2
INVARIANTS TypeOK OneClosingLeaf LocksHaveOwners WaiterKept NoStrayNode
PROPERTIES FinalUnlessStale ClosesEnd KeepsPromise
CHECK_DEADLOCK FALSE
