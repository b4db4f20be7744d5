SPECIFICATION FairSpec
CONSTANTS
    Ids = {s1}
    Addrs = {a1}
    Ports = {1, 2}
    None = None
    Preps = {p1, p2}
    Teardowns = {d1}
    Reconciler = rc
    MaxFaults = 1
    MaxCrashes = 1
INVARIANTS TypeOK ListenerLeadsHome OverlapOnlyAbandoned
PROPERTIES StrayListenerClosed RememberedPortServed
