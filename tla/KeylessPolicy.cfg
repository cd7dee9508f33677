\* One route with a signed policy: two requests change the policy.
SPECIFICATION Spec
CONSTANTS
    r1 = r1
    r2 = r2
    A = A
    B = B
    Requests = {r1, r2}
    Seeds = {A, B}
    NewKeys = {}
    Absent = Absent
    Nobody = Nobody
    Callers <- SomeCallers
    OpNames = {"UpsertPolicy"}
    Seeded <- Seedings
INVARIANT SignedPolicyHasKey
