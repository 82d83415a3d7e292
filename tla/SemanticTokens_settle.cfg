SPECIFICATION FairSpec
CONSTANTS
  MaxTicks = 2
  MaxAsks = 2
  None = None
INVARIANTS TokenTypeOK CacheAgrees
PROPERTIES ShowsOnlyItsText TokensSettle
CHECK_DEADLOCK FALSE
