SPECIFICATION Spec
CONSTANTS
    Tabs = {t1, t2}
    MaxLogins = 2
    MaxTokens = 3
    Slots = {s1, s2}
    MaxFaults = 1
    MaxLoads = 1
SYMMETRY Symmetry
INVARIANTS
    LiveIsHeld
    SessionFollowsTab
    LogoutSticks
    KeepsRenewing
PROPERTIES
    KeepsPromise
CONSTRAINT OneMishap
CHECK_DEADLOCK FALSE
