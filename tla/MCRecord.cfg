SPECIFICATION Spec
CONSTANTS
    Party = {a, b}
    Speakers = {a, b}
    Content = {m1, m2}
    Docs = {}
    MaxCopies = 1
    MaxFaults = 1
    MaxCrashes = 1
    MaxTroubles = 1
SYMMETRY Sym
INVARIANTS TypeOK AckedIsDurable NothingLost ReadyUnlessRepeated QueuedKeepsPosition HeldOnlyBehindOwn
PROPERTIES FollowsOrder
CHECK_DEADLOCK FALSE
