SPECIFICATION FairSpec
CONSTANTS
  MaxTicks = 2
  MaxAsks = 2
  None = None
PROPERTY ChangeAsksForTokens
CHECK_DEADLOCK FALSE
