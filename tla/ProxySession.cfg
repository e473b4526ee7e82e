CONSTANTS
    MaxMessages = 3
    MaxReplies = 2
SPECIFICATION FairSpec
INVARIANTS SocketsClosed ForwardsInOrder PanicsOnlyWhenLeft
PROPERTIES LeavingEndsSession GoroutinesEnd
\* A session ends.
CHECK_DEADLOCK FALSE
