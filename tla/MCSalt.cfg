SPECIFICATION FairSpec
CONSTANTS
    A = a
    B = b
    MaxMsgs = 2
    MaxEvents = 3
INVARIANTS TypeOK OneRule LeafSaltKept SaltIsShared FrozenOnlyIfEvicted
CHECK_DEADLOCK FALSE
PROPERTIES QuietUnlessEchoed
