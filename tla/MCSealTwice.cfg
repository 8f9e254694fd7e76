SPECIFICATION Spec
CONSTANTS
    MaxCloses = 2
    Answerer = auto
    MaxLeaves = 2
    MaxTries = 4
    MaxNodes = 2
    MaxEvents = 2
INVARIANT OneSubmitter
CHECK_DEADLOCK FALSE
