SPECIFICATION FairSpec
CONSTANTS
    Commands = {"start", "stop", "restart", "install"}
    AutoRestart = TRUE
    MaxRestarts = 1
    MaxCommands = 3
    MaxCrashes = 3
CHECK_DEADLOCK FALSE
INVARIANTS TypeOK SessionIsCurrent ShutdownFirst
PROPERTIES StopStays CrashRecovers
