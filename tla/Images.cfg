SPECIFICATION FairSpec
CONSTANTS
    MaxSlots = 2
    MaxPolls = 2
    MaxTries = 2
    MaxUploads = 2
    MaxFaults = 1
    MaxLoads = 1
INVARIANTS
    VerdictOfOwnBytes
    PendingIsCarried
    PendingIsPolled
PROPERTIES
    PrecheckSettles
CHECK_DEADLOCK FALSE
