SPECIFICATION Spec
CONSTANTS
    Subs <- Two
    Tiers = {"pro", "plus", "ltd"}
    MaxNow = 2
    MaxEvents = 4
    MaxFaults = 1
    MaxOverlap = 1
INVARIANTS
    RowBacked
PROPERTIES
    LtdNotReplaced
CONSTRAINT FirstPeriod
CHECK_DEADLOCK FALSE
