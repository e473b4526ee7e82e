SPECIFICATION ServerFairSpec
INVARIANTS StuckOnlyIfBroken
PROPERTIES FailureEndsServe ShutdownEnds
\* Serve ends.
CHECK_DEADLOCK FALSE
