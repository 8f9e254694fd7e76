SPECIFICATION FairSpec
CONSTANTS
    Inbound = {i1, i2}
    Outbound = {o1, o2}
    Other = Other
    None = None
    Tries = 1
    MaxNodes = 3
    MaxEvents = 3
    MaxWaiters = 1
INVARIANTS TypeOK SharedOnlyByRace NodesAccounted OfflineIsOff AnnouncedOnce
CHECK_DEADLOCK FALSE
PROPERTIES WantedGetsReceiver ChainMoves
