SPECIFICATION Spec
CONSTANTS
    c1 = c1
    c2 = c2
    c3 = c3
    c4 = c4
    Calls = {c1, c2, c3, c4}
    MaxVMs = 2
    MiB <- MCMiB
    VMMemoryMiB = 2
    ReserveMiB = 1
    Available = {6, 9}
    NoCall = NoCall
SYMMETRY Symmetry
INVARIANTS TypeOK CapacityRespected PendingExact PendingMiBExact
