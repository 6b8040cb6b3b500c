SPECIFICATION FairSpec
CONSTANTS
    Exports = {e1, e2}
    Workers = {w1, w2}
    MaxEdition = 2
    MaxFaults = 2
INVARIANTS
    TypeOK
    ReadyHasSheet
    SheetHasRow
    PendingIsCarried
PROPERTIES KeepsPromise ExportSettles
CHECK_DEADLOCK FALSE
