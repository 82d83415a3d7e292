SPECIFICATION FairSpec
CONSTANTS
    Features = {"lens", "action"}
    MaxId = 3
    MaxTick = 1
    MaxRefresh = 1
    MaxRunning = 2
CHECK_DEADLOCK FALSE
INVARIANTS TypeOK LensOnItsText CommandFromShownReply NoCommandAfterRefresh
PROPERTY EveryRunSettles
