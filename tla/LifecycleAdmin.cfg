SPECIFICATION Spec
CONSTANTS
    s1 = s1
    s2 = s2
    s3 = s3
    u1 = u1
    Users = {u1}
    Owner <- MCOwner
    NoId = NoId
    NoPort = NoPort
    Reconciler = Reconciler
    Ids = {s1}
    Legacy = {}
    Ports = {}
    Deleters = {}
    Purgers = {p1}
    Attachers = {a1}
    DeleteInFlight = TRUE
    RollbackFails = TRUE
    MaxFaults = 1
    MaxCrashes = 0
SYMMETRY Symmetry
INVARIANTS TypeOK IndexesMatchRecords
PROPERTIES StoreSpec
