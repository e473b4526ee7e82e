SPECIFICATION Spec
CONSTANTS
    ConfigFiles = {"none", "plain", "symlink"}
    MaxEdits = 2
    MaxServers = 3
INVARIANTS
    ReplacedServersKilled
    IdleRunsInstalled
    OneRestartPerEdit
    StartOutlivesServer
    
PROPERTIES
    LostOnlyInKnownWindows
    ImplementsRollout
CHECK_DEADLOCK FALSE
