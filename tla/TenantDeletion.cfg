\* One request: the superuser deletes a tenant that nothing references.
SPECIFICATION Spec
CONSTANTS
    r1 = r1
    A = A
    B = B
    Requests = {r1}
    Seeds = {A, B}
    NewKeys = {}
    Absent = Absent
    Nobody = Nobody
    Callers <- SomeCallers
    OpNames = {"DeleteTenant"}
    Seeded <- Bare
INVARIANT TenantIsDeleted
