CONSTANTS
    a = a
    b = b
    s = s
    Nobody = Nobody
    Player = {a, b}
    Restless = {}
    Spectator = {s}
    Early = {s}
    MaxRematches = 1
    MaxConnections = 1
    MaxQueue = 1
    MaxResultFaults = 2
SPECIFICATION ResultSpec
CHECK_DEADLOCK FALSE
INVARIANTS
    ReservedRematchesCanBeUndone
