SPECIFICATION Spec
CONSTANTS
    Sizes = {2, 4, 5}
    MaxFaults = 2
    MaxCrashes = 1
INVARIANTS TypeOK FilesystemFitsImage ReadyHomeFits WholeBetweenCalls
PROPERTIES FilesKept
