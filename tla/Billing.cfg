SPECIFICATION FairSpec
CONSTANTS
    Subs <- One
    Tiers = {"pro"}
    MaxNow = 3
    MaxEvents = 4
    MaxFaults = 1
    MaxOverlap = 0
INVARIANTS
    TypeOK
    PlanBacked
    RowBacked
    CancelBacked
PROPERTIES
    WebhooksRespectOver
    PeriodKept
    CancelEventuallyDowngrades
CONSTRAINT FewRareCases
CHECK_DEADLOCK FALSE
