\* Concurrent operations of both adapters, with every kind of fault.
SPECIFICATION LiveSpec
CONSTANTS
    o1 = o1
    o2 = o2
    Ops = {o1, o2}
    Streams = 1
    MaxFailures = 2
    MaxAttempts = 3
    Faults = {"redis", "link"}
INVARIANTS
    TypeOK
    InactiveIsDeserved
PROPERTY BreakersClose
