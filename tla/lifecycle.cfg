SPECIFICATION FairSpec
CONSTANTS
    Hosts = {h1, h2}
    Readers = {l1, l2}
    Leases <- MCLeases
    Threshold = 2
    Limit = 1
    MaxTime = 4
    MaxEvents = 3
    LastEvent = 2
    MaxFaults = 1
INVARIANTS TypeOK DeletedIsDoomed
PROPERTIES StaleConverges CulledRemoved
CHECK_DEADLOCK FALSE
