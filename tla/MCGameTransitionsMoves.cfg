CONSTANTS
    p1 = p1
    p2 = p2
    k1 = k1
    k2 = k2
    NoKey = NoKey
    Process = {p1, p2}
    Key = {k1, k2}
    Request <- MCMoves
    MaxRevision = 3
    MaxFaults = 2
SPECIFICATION MCFairSpec
CHECK_DEADLOCK FALSE
INVARIANTS
    InstalledIsCommitted
    MovesOnce
    RepliesHold
PROPERTIES
    ImplementsLedger
    OwnerCatchesUp
