SPECIFICATION Spec
CONSTANTS
    Docs = {1}
    Kinds = {"full"}
    MaxRestarts = 1
    MaxUses = 4
    MaxDeaths = 0
    MaxInput = 2
CHECK_DEADLOCK FALSE
INVARIANT TextsAgree
