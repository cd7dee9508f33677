\* The propagation of a change, with every kind of fault: safety, the
\* refinement of SnapshotCache and liveness.
SPECIFICATION LiveSpec
CONSTANTS
    r1 = r1
    r2 = r2
    k1 = k1
    k2 = k2
    Requests = {r1, r2}
    Tasks = {k1, k2}
    Startup = Startup
    MaxRetries = 2
    OpNames = {"DeleteRoute"}
    Faults = {"redis", "link", "postgres", "gateway"}
    MaxVersion = 2
    MaxInbox = 1
INVARIANTS
    TypeOK
    HandledIsServed
    SingleSubscriber
    OkMeansSubscribed
PROPERTIES
    CacheSpec
    SubscriberRecovers
    DeliveredIsServed
