SPECIFICATION Spec
CONSTANTS
    Ids = {s1, s2}
    Addrs = {a1}
    Ports = {1, 2}
    None = None
    Preps = {p1}
    Teardowns = {d1}
    Reconciler = rc
    MaxFaults = 0
    MaxCrashes = 0
INVARIANTS NoListenerAtReleasedAddress
