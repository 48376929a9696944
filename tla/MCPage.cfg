CONSTANTS
    newcomer = newcomer
    regular = regular
    r1 = r1
    r2 = r2
    i1 = i1
    m1 = m1
    m2 = m2
    Player = {newcomer, regular}
    Guest = {newcomer}
    NoOne = NoOne
    Lifetime = 6
    Renewal = 3
    EventDay = {0, 2, 7}
    MaxSent = 2
    MaxScopes = 2
    Tab = {"lobby", "shop"}
    Lobby = "lobby"
    Replay = {r1, r2}
    Code = {i1}
    Nil = Nil
    MaxVisits = 3
    MaxSessions = 3
    Member = {m1, m2}
    Visitor = Visitor
    MaxReports = 2
    MaxPosts = 2
    MaxLogins = 2
    PageSize = 1
    Overlapping = TRUE
    Budgets <- MCBudgets
    Human <- MCBoth
    Timed = FALSE
    Beginnings = {"restored"}
    Commands = {"ready", "offer", "accept"}
    MaxConnections = 2
    MaxFaults = 0
SPECIFICATION MCSpec
VIEW PartAtWork
CHECK_DEADLOCK FALSE
INVARIANTS
    AccountsAreSound
    NavigationIsSound
    ProgressIsKept
    ChatIsSound
    OneEndingAtATime
PROPERTIES
    EndingsAreFair
