SPECIFICATION FairSpec
CONSTANTS
    s1 = s1
    s2 = s2
    l3 = l3
    Session = {s1, s2}
    Leaf = {l1, l2}
    SessionOf <- MCSessionOf
    NoLeaf = NoLeaf
    MaxTries = 2
    MaxThrottles = 2
    MaxStreams = 2
    MaxFaults = 2
INVARIANTS TypeOK OkIsOrdered GhostOnlyIfCrossed AlignedUnlessCrossed AnswersAreTrue
PROPERTY Settles
CHECK_DEADLOCK FALSE
