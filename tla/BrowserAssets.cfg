SPECIFICATION Spec
CONSTANTS
    Tab = {t1, t2}
    Seeds <- MCSeeds
    Uploads = {"map", "point"}
    MaxStarts = 3
    MaxEvents = 1
INVARIANTS
    PlaysWhatWasListed
PROPERTIES
    RemovesOnlyOthers
    StartEnds
CHECK_DEADLOCK FALSE
