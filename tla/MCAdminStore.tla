---------------------------- MODULE MCAdminStore ----------------------------
(***************************************************************************)
(* Instances of AdminStore for TLC: tenant A with a domain, a route, their *)
(* policies and a member; tenant B with nothing but its admin.             *)
(***************************************************************************)
EXTENDS AdminStore, TLC

CONSTANTS A, B

Super   == [role |-> "superuser", tenant |-> Nobody, sub |-> Nobody, permissions |-> {}]
AdminA  == [role |-> "admin", tenant |-> A, sub |-> Nobody, permissions |-> {}]
AdminB  == [role |-> "admin", tenant |-> B, sub |-> B, permissions |-> {}]
MemberA == [role |-> "member", tenant |-> A, sub |-> A, permissions |-> {"routes"}]
SomeCallers == {Super, AdminA, AdminB, MemberA}

SeedPolicy == {[parent |-> A, key |-> A, cols |-> [mode |-> "none", signing |-> Nobody]],
               [parent |-> A, key |-> A, cols |-> [mode |-> "signed", signing |-> A]],
               Absent}

Seed(policy, domain_policy) ==
    [i \in Ids |->
        CASE i = <<"tenant", A>> -> [parent |-> Nobody, key |-> A, cols |-> [content |-> A]]
          [] i = <<"tenant", B>> -> [parent |-> Nobody, key |-> B, cols |-> [content |-> B]]
          [] i = <<"domain", A>> -> [parent |-> A, key |-> A, cols |-> [content |-> A]]
          [] i = <<"route", A>>  -> [parent |-> A, key |-> A, cols |-> [content |-> A]]
          [] i = <<"user", A>>   -> [parent |-> A, key |-> A,
                 cols |-> [role |-> "member", password |-> A, permissions |-> A]]
          [] i = <<"user", B>>   -> [parent |-> B, key |-> B,
                 cols |-> [role |-> "admin", password |-> B, permissions |-> B]]
          [] i = <<"policy", A>> -> policy
          [] i = <<"domain_policy", A>> -> domain_policy
          [] OTHER -> Absent]
Seedings == {Seed(p, p) : p \in SeedPolicy}

\* A tenant with nothing that references it.
Bare == {[i \in Ids |-> IF i = <<"tenant", A>>
                        THEN [parent |-> Nobody, key |-> A, cols |-> [content |-> A]]
                        ELSE Absent]}

Symmetric == Permutations(Requests)
=============================================================================
