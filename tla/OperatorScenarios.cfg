SPECIFICATION MCSpec
CONSTANTS
    None = None
    a = a
    b = b
    c1 = c1
    t1 = t1
    t2 = t2
    Names = {a, b}
    Configs = {c1}
    Templates = {t1, t2}
    Counts = {0}
    Specs <- AllSpecs
    Kinds <- WithRoute
    MaxOps = 3
    MaxFaults = 1
INVARIANTS
    NothingForgotten
    ReconciledServerExists
    PlayerGaugeHasServer
PROPERTIES
    ChildrenGetLiveOwners
    Converges
CHECK_DEADLOCK FALSE
