SPECIFICATION FairSpec
CONSTANTS
    Subs <- Two
    Tiers = {"pro"}
    MaxNow = 2
    MaxEvents = 3
    MaxFaults = 0
    MaxOverlap = 0
PROPERTIES
    SweepEventuallyDowngrades
CONSTRAINT NoRareCase
CHECK_DEADLOCK FALSE
