SPECIFICATION FairSpec
CONSTANTS
    Sandboxes = {a, b}
    Targets = {t1, t2}
    Ports = {1, 2}
    Listeners = {l1, l2}
    Conns = {k1, k2}
    MaxSessions = 1
    None = None
INVARIANTS TypeOK SessionCap ClosedMeansCut LinkedListenersServe
PROPERTIES ClosedListenerDrains TableSpec
