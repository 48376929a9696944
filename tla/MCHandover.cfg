CONSTANTS
    p1 = p1
    p2 = p2
    p3 = p3
    k1 = k1
    f1 = f1
    f2 = f2
    NoPhantom = NoPhantom
    Phantom = {f1, f2}
    Talker = {f1, f2}
    ActiveCount = 2
    Plans <- MCPlans
    Evenings <- MCEvenings
    NoKey = NoKey
    Process = {p1, p2, p3}
    Key = {k1}
    Request <- MCReturn
    MaxRevision = 3
    MaxFaults = 1
SPECIFICATION MCSpec
VIEW PartAtWork
SYMMETRY MCSymmetry
CHECK_DEADLOCK FALSE
INVARIANTS
    HandoverPausesTheGame
    PhantomsAreSound
    OneReacts
PROPERTIES
    OutcomeIsFinal
