SPECIFICATION Spec
CONSTANTS
    Subs <- One
    Tiers = {"pro"}
    MaxNow = 2
    MaxEvents = 4
    MaxFaults = 0
    MaxOverlap = 0
PROPERTIES
    ReconcileNeverReactivates
CHECK_DEADLOCK FALSE
