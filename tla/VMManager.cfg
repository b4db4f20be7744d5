SPECIFICATION FairSpec
CONSTANTS
    Ids = {s1, s2}
    BootIds = {s1}
    MaxFaults = 1
    MaxCrashes = 1
CHECK_DEADLOCK FALSE
INVARIANTS TypeOK LiveVMKeepsItsResources ResidueInHand BootsOnlyUnpacked WaitersHaveAJob
PROPERTIES DeadVMReclaimed
