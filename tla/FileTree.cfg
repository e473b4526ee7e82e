SPECIFICATION Spec
CONSTANTS
    Name = {x, y, h}
    Hidden = {h}
    MaxNodes = 4
INVARIANTS
    TreeIsFound
    OnlyReplacedLinger
    LoopsAreHidden
CHECK_DEADLOCK FALSE
