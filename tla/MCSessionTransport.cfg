CONSTANTS
 c1=c1
 c2=c2
 Nothing=Nothing
 Command={c1}
 MaxServers=2
 MaxLinks=2
 MaxGames=1
 MaxTime=3
 MaxReceipts=1
 MaxFlight=2
SPECIFICATION FairSpec
CHECK_DEADLOCK FALSE
INVARIANTS CommandsCountOnce
PROPERTIES TheTabCatchesUp SnapshotsNeverGoBack
