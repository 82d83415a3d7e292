SPECIFICATION FairSpec
CONSTANTS
  MaxLines = 3
  Capacity = 1
INVARIANTS TypeOK BarrierIsFinal NothingLost
PROPERTIES EveryRequestEnds DaemonEnds
CHECK_DEADLOCK FALSE
