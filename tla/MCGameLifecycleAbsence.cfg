CONSTANTS
    Human <- MCBoth
    Timed = FALSE
    Beginnings = {"fresh"}
    Commands = {}
    MaxConnections = 2
    MaxFaults = 0
SPECIFICATION FairSpec
CHECK_DEADLOCK FALSE
PROPERTIES
    AbsenceEndsTheGame
