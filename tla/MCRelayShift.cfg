SPECIFICATION Spec
CONSTANTS
    s1 = s1
    s2 = s2
    l3 = l3
    Session = {s1, s2}
    Leaf = {l1, l2, l3}
    SessionOf <- MCSessionOf
    NoLeaf = NoLeaf
    MaxTries = 2
    MaxThrottles = 2
    MaxStreams = 2
    MaxFaults = 0
INVARIANT NoForeignAck
CHECK_DEADLOCK FALSE
