SPECIFICATION FairSpec
CONSTANTS
    ConfigFiles = {"plain", "symlink"}
    MaxEdits = 1
    MaxServers = 2
PROPERTIES
    Converges
    DeadServerReaped
    CancelStopsStart
CHECK_DEADLOCK FALSE
