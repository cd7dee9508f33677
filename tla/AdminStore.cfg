\* Two overlapping requests of any kind by any caller.
SPECIFICATION Spec
CONSTANTS
    r1 = r1
    r2 = r2
    A = A
    B = B
    N = N
    Requests = {r1, r2}
    Seeds = {A, B}
    NewKeys = {N}
    Absent = Absent
    Nobody = Nobody
    Callers <- SomeCallers
    OpNames <- Operations
    Seeded <- Seedings
SYMMETRY Symmetric
INVARIANTS
    TypeOK
    UniqueAndReferenced
PROPERTIES
    OwnTenantOnly
    OnlyOverlapResurrects
    OnlyOverlapReverts
    OnlyOverlapFails
    AuditTellsTheChange
    DeletedUserIsForgotten
