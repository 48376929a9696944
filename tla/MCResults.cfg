CONSTANTS
    a = a
    b = b
    s = s
    Nobody = Nobody
    Player = {a, b}
    Restless = {a}
    Spectator = {s}
    Early = {s}
    MaxRematches = 1
    MaxConnections = 1
    MaxQueue = 1
    MaxResultFaults = 2
SPECIFICATION FairSpec
CHECK_DEADLOCK FALSE
INVARIANTS
    PlacesAreOnesOwn
PROPERTIES
    NobodyIsSeatedInAbsence
    ResultsEnd
