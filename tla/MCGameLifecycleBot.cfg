CONSTANTS
    Human <- MCRed
    Timed = TRUE
    Beginnings = {"fresh", "restored"}
    Commands = {"acknowledge", "play", "ready"}
    MaxConnections = 2
    MaxFaults = 1
SPECIFICATION FairSpec
CHECK_DEADLOCK FALSE
INVARIANTS
    NothingIsLeftWaiting
PROPERTIES
    PausedGameStandsStill
    EveryWaitEnds
