SPECIFICATION Spec
CONSTANTS
    Calls = {c1, c2}
    Cap = 3
    Estimates = {1, 2}
    Costs = {1}
    MaxDay = 0
INVARIANT PendingSelfHeals
CHECK_DEADLOCK FALSE
