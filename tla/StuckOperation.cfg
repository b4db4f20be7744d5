SPECIFICATION FairSpec
CONSTANTS
    s1 = s1
    s2 = s2
    s3 = s3
    u1 = u1
    Users = {u1}
    Owner <- MCOwner
    NoId = NoId
    NoPort = NoPort
    Reconciler = Reconciler
    Ids = {s1}
    Legacy = {}
    Ports = {}
    Deleters = {d1}
    Purgers = {}
    Attachers = {}
    DeleteInFlight = FALSE
    RollbackFails = FALSE
    MaxFaults = 0
    MaxCrashes = 1
PROPERTIES StuckOperationCleanedUp
