\* A request in flight while configurations are loaded, a tenant is
\* deleted, PostgreSQL comes and goes, and the process stops.
CONSTANTS
    r1 = r1
    A = A
    B = B
    Elsewhere = Elsewhere
    None = None
    Requests = {r1}
    Tenants = {A, B}
    Statuses = {200, 504}
    Inputs <- SomeInputs
    Snapshots <- SomeSnapshots
SPECIFICATION LiveSpec
INVARIANTS
    TypeOK
    OneConfigurationDecides
    TenantsKeepApart
    CutAtSlash
    EventsTellTheCourse
    RejectedForACause
PROPERTY RequestsSettle
