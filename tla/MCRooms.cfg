\* Three commands or disconnections of two people, in every kind of room, one fault; two changes and
\* three reads of one view, one break.
SPECIFICATION FairRooms
CONSTANTS
    Host = h
    Guest = {u}
    NoOne = NoOne
    Kind = {"open", "auto", "challenge"}
    MaxOrders = 3
    MaxTerms = 2
    MaxRoomQueue = 2
    MaxRoomFaults = 1
    MaxChanges = 2
    MaxReads = 3
    MaxBreaks = 1
CHECK_DEADLOCK FALSE
INVARIANTS
    ScreensFollowMembership
    ReadsAreCurrent
PROPERTIES
    ConsentIsToTheTerms
    NotedAbsencesEnd
