SPECIFICATION FairSpec
CONSTANTS
    Workers = {w1, w2}
    Contents = {1, 2}
    Threshold = 2
    MaxTriggers = 3
    MaxFaults = 1
INVARIANTS
    TypeOK
    ClaimSerialises
    LatestChangeIsCarried
    NoticeHasChange
    StaleIsExplained
PROPERTIES ClaimEnds ChangeIsAnnounced
CHECK_DEADLOCK FALSE
