CONSTANTS
    a = a
    b = b
    u1 = u1
    u2 = u2
    w1 = w1
    w2 = w2
    t1 = t1
    t2 = t2
    j1 = j1
    j2 = j2
    Nobody = Nobody
    Openings <- MCOpenings
    RepetitionLimit = 3
    QuietLimit = 3
    Depth = 2
    GapWindow = 20
    MinLegal = 3
    MinPieces = 4
    MinPly = 1
    PrescanDepth = 1
    ScanDepth = 2
    MinVerifyDepth = 3
    MaxLinePlies = 3
    CommentaryDepth = 2
    Publisher = {w1, w2}
    Found <- MCFound
    TargetBuffer = 1
    ReverifyDays = 1
    MaxVerifyDepth = 2
    MaxBatch = 1
    LastTime = 2
    Searcher = {a, b}
    MaxSockets = 2
    MaxOrders = 2
    MaxOutages = 1
    Account = {u1, u2}
    Admin = u1
    Price = 2
    VaultShare = 1
    Tip = 1
    Grant = 2
    Reward = 1
    InitialCoins = 2
    MaxIntents = 2
    MaxCalls = 2
    MaxIdentities = 2
    Size = 1
    MaxQueue = 1
    MaxJobs = 4
    MaxThreads = 3
    Wait = 1
    Allowances <- MCAllowances
    Task = {t1, t2}
    Job = {j1, j2}
    BatchSize = 1
    LastTick = 1
    MaxTries = 1
    Extents <- MCExtents
SYMMETRY MCSymmetry
SPECIFICATION MCSpec
VIEW ServiceAtWork
CHECK_DEADLOCK FALSE
INVARIANTS
    SearchIsExact
    PuzzlesAreSound
    CalendarIsSound
    EverySearchEndsOnce
    ActionsHappenOnce
    PoolIsSound
    SessionIsSound
    RuntimeIsSound
