SPECIFICATION Spec
CONSTANTS
    Fields = {f1, f2}
    Compulsory = {f1}
    Tabs = {t1, t2}
    Slots = {s1, s2}
    MaxEdits = 2
    MaxPatches = 1
    MaxFaults = 1
    MaxLoads = 2
SYMMETRY Symmetry
INVARIANTS
    ReadyIsComplete
    DraftFollowsProduct
    SavedIsStored
CHECK_DEADLOCK FALSE
