SPECIFICATION Spec
CONSTANTS
    Hash = {h1, h2}
    Nonce = {n1, n2}
    Flusher = {all, agent}
    Cap = 1
    MaxCopies = 2
    MaxFaults = 1
    MaxCrashes = 1
SYMMETRY Sym
INVARIANTS TypeOK ParkedInOrder DurableUnlessRobbed RerunHonoured FlushableUnlessDropped
CHECK_DEADLOCK FALSE
