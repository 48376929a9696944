CONSTANTS
    a = a
    b = b
    c = c
    r1 = r1
    r2 = r2
    NoRoom = NoRoom
    Player = {a, b}
    Room = {r1, r2}
    Stake = 1
    Fund = 2
    WinReward = 1
    Consolation = 1
    Bounty = 2
    TaxPercent = 5
    MaxAttempts = 2
    MaxStarts = 2
    MaxFaults = 4
SPECIFICATION MCFairSpec
CHECK_DEADLOCK FALSE
INVARIANTS
    CoinsAreConserved
    ClaimsAgree
PROPERTIES
    StakesAreNotForgotten
    GamesAreNotCancelled
