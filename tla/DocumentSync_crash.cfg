SPECIFICATION FairSpec
CONSTANTS
    Docs = {1, 2}
    Kinds = {"incremental"}
    MaxRestarts = 1
    MaxUses = 4
    MaxDeaths = 2
    MaxInput = 2
CHECK_DEADLOCK FALSE
INVARIANTS TypeOK TextsAgree
PROPERTIES ServedOnItsText ServerComesBack
