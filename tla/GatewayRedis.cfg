\* Concurrent calls, probes and the subscriber, with every kind of fault.
SPECIFICATION LiveSpec
CONSTANTS
    c1 = c1
    c2 = c2
    p1 = p1
    p2 = p2
    Calls = {c1, c2}
    Probes = {p1, p2}
    MaxFailures = 3
    Faults = {"redis", "link"}
INVARIANTS
    TypeOK
    Budget
PROPERTIES
    HeldBackOnlyIfInactive
