SPECIFICATION Spec
CONSTANTS
    s1 = s1
    s2 = s2
    s3 = s3
    u1 = u1
    Users = {u1}
    Owner <- MCOwner
    NoId = NoId
    NoPort = NoPort
    Reconciler = Reconciler
    Ids = {s1, s2}
    Legacy = {}
    Ports = {}
    Deleters = {d1}
    Purgers = {}
    Attachers = {}
    DeleteInFlight = TRUE
    RollbackFails = FALSE
    MaxFaults = 0
    MaxCrashes = 0
SYMMETRY Symmetry
INVARIANTS OneLiveVMPerUser
