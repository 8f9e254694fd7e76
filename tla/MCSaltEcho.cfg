SPECIFICATION FairSpec
CONSTANTS
    A = a
    B = b
    MaxMsgs = 0
    MaxEvents = 2
PROPERTIES Quiesces
CHECK_DEADLOCK FALSE
