SPECIFICATION FairSpec
CONSTANTS
    Names = {t}
    Servers = {a, b}
    None = None
    Absent = Absent
    MaxOps = 5
    MaxFaults = 1
INVARIANTS NothingForgotten
PROPERTIES UsedByConverges FallsSilent
\* The controller may fall silent.
CHECK_DEADLOCK FALSE
