SPECIFICATION FairSpec
CONSTANTS
    Calls = {c1, c2}
    Cap = 3
    Estimates = {1, 2}
    Costs = {1, 2}
    MaxDay = 1
INVARIANTS
    TypeOK
    CapUpToOverrun
    PendingLedger
    NeverOvercharged
    EarlyAnswerChargedWhole
PROPERTIES
    CallsFinish
CHECK_DEADLOCK FALSE
