SPECIFICATION Spec
CONSTANTS
    MaxSlots = 2
    MaxPolls = 2
    MaxTries = 2
    MaxUploads = 2
    MaxFaults = 0
    MaxLoads = 1
PROPERTY ReuploadRestartsPolling
CHECK_DEADLOCK FALSE
