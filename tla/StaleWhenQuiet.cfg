\* No fault at all, one request: is the snapshot fresh once everything is quiet?
SPECIFICATION SubscribedSpec
CONSTANTS
    r1 = r1
    k1 = k1
    Requests = {r1}
    Tasks = {k1}
    Startup = Startup
    MaxRetries = 5
    OpNames = {"SavePolicy"}
    Faults = {}
    MaxVersion = 2
    MaxInbox = 2
INVARIANT FreshWhenQuiet
CHECK_DEADLOCK FALSE
