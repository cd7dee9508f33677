\* Two routes and a domain, every operation, two transactions.
SPECIFICATION Spec
CONSTANTS
    h1 = h1
    Hosts = {h1}
    NRoutes = 2
    OpNames = {"CreateRoute", "DeleteRoute", "SavePolicy", "DeletePolicy", "CreateDomain", "DeleteDomain", "SaveDomainPolicy", "DeleteDomainPolicy"}
    MaxChanges = 2
INVARIANTS
    TypeOK
    AtomicUnlessTorn
    TearHitsOnlyTheDeleted
CHECK_DEADLOCK FALSE
