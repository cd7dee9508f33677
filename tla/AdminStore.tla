----------------------------- MODULE AdminStore -----------------------------
(***************************************************************************)
(* The administrative use cases on their PostgreSQL rows.                  *)
(*                                                                         *)
(* Every HTTP request runs one use case in one transaction (READ           *)
(* COMMITTED): it SELECTs what it needs, decides in memory on the entities *)
(* it has read, and then executes the statements of its repositories; the  *)
(* transaction commits when the request's dependency is closed.  Several   *)
(* requests run at once, so everything may change between two statements.  *)
(*                                                                         *)
(* A row is [parent, key, cols]: what its foreign key references, its      *)
(* value in the unique column (a policy's is its parent, a route has none  *)
(* besides its id) and the other columns the properties tell apart.  Row   *)
(* ids are <<kind, name>>; a row that request r creates is named r, as the *)
(* uuid it draws.  A value a request writes is the request's name too.     *)
(* Bodies that the entities refuse leave no trace and are not modelled;    *)
(* of a body that they accept the model leaves open whether the database   *)
(* can store its values, and whether a secret to encrypt keys with is set. *)
(***************************************************************************)
EXTENDS Naturals, Sequences, FiniteSets

CONSTANTS
    Requests,   \* HTTP requests; each is issued at most once
    Seeds,      \* names of the rows there at the beginning
    NewKeys,    \* unique values (alias, host, e-mail) not taken at first
    Callers,    \* the claims of the tokens requests are issued with
    OpNames,    \* the operations a run explores
    Absent,     \* no such row
    Nobody,     \* no name: no tenant, no signing key
    Seeded      \* what the tables may hold at the beginning

Names == Seeds \cup Requests
Keys  == Names \cup NewKeys
Kinds == {"tenant", "domain", "route", "user", "policy", "domain_policy"}
Ids   == Kinds \X Names

\* What a foreign key references, and whether its ON DELETE is CASCADE.
ParentKind == [domain |-> "tenant", route |-> "tenant", user |-> "tenant",
               policy |-> "route", domain_policy |-> "domain"]
Cascading == {"domain", "policy", "domain_policy"}

Claims == [role : {"superuser", "admin", "member"}, tenant : Names \cup {Nobody},
           sub : Names \cup {Nobody}, permissions : SUBSET {"routes", "domains"}]

Content == [content : Names]
PolicyColumns == [mode : {"none", "signed"}, signing : Names \cup {Nobody}]
UserColumns == [role : {"superuser", "admin", "member"}, password : Names,
                permissions : Names]
Columns == Content \cup PolicyColumns \cup UserColumns
Row == [parent : Names \cup {Nobody}, key : Keys, cols : Columns]

\* The columns of a table.
ColumnsOf(k) ==
    IF k = "user" THEN UserColumns
    ELSE IF k \in {"policy", "domain_policy"} THEN PolicyColumns ELSE Content

Operations ==
    {"CreateTenant", "UpdateTenant", "DeleteTenant", "CreateDomain", "DeleteDomain",
     "CreateRoute", "UpdateRoute", "DeleteRoute", "UpsertPolicy", "DeletePolicy",
     "UpsertDomainPolicy", "DeleteDomainPolicy", "CreateMember",
     "UpdatePermissions", "DeleteUser", "Register", "ChangePassword"}

\* NOT NULL, the CHECK on a user's role and tenant, and a policy's unique
\* reference: what the schema demands of row i by itself.
Fits(i, row) ==
    /\ i[1] = "tenant" => row.parent = Nobody
    /\ i[1] \in {"domain", "route", "policy", "domain_policy"} => row.parent # Nobody
    /\ i[1] = "user" => (row.cols.role = "superuser" <=> row.parent = Nobody)
    /\ i[1] \in {"policy", "domain_policy"} => row.key = row.parent
    /\ i[1] = "route" => row.key = i[2]

\* A change-audit row: tenant_id, what it is about (resource_type and
\* resource_id) and who did it (actor_id).  A user of no interest, "unknown"
\* and "deleted_user" are all Nobody.
Forgotten == <<"user", Nobody>>
Logs == [do : {"audit"}, tenant : Names \cup {Nobody}, id : Ids \cup {Forgotten},
         by : Names \cup {Nobody}]

ASSUME NamesAssumption == Absent \notin Row \cup Logs /\ Nobody \notin Keys
\* The uuid a request draws is new.
ASSUME FreshAssumption ==
    /\ Requests \cap Seeds = {}
    /\ \A s \in Seeded : \A k \in Kinds, r \in Requests : s[k, r] = Absent
\* Login puts the role and the tenant of the user's row in the token.
ASSUME CallersAssumption ==
    /\ Callers \subseteq Claims
    /\ \A c \in Callers : c.role # "superuser" =>
          /\ c.tenant # Nobody
          /\ \A s \in Seeded : \A n \in Seeds :
                (n = c.sub /\ s["user", n] # Absent) =>
                    s["user", n].parent = c.tenant /\ s["user", n].cols.role = c.role
ASSUME OpNamesAssumption == OpNames \subseteq Operations
ASSUME SeededAssumption ==
    /\ Seeded \subseteq [Ids -> Row \cup {Absent}]
    /\ \A s \in Seeded : \A i \in Ids :
          s[i] # Absent => s[i].cols \in ColumnsOf(i[1]) /\ Fits(i, s[i])

VARIABLES
    db,         \* the committed rows
    audit,      \* audit[r]: the change-audit row that r committed
    at,         \* at[r]: where request r is
    call,       \* call[r]: the operation, who calls it, on what, with what body
    seen,       \* seen[r]: the entity read first, kept for the second read
    todo,       \* todo[r]: the statements its use case has yet to execute
    fetched,    \* fetched[r]: what save()'s session.get() returned
    pending,    \* pending[r]: rows written by its open transaction
    logged,     \* logged[r]: the audit row inserted by its open transaction
    forgot,     \* forgot[r]: columns of audit rows its transaction has anonymized
    overtaken,  \* what other commits changed or logged since r's first read
    answer      \* answer[r]: how it ended

store == <<db, audit>>
local == <<call, seen, todo, fetched>>
trans == <<pending, logged, forgot>>
vars  == <<store, at, local, trans, overtaken, answer>>

\* What the repositories execute.
Save(k, n, row) == [do |-> "save", id |-> <<k, n>>, row |-> row]
Delete(k, n)    == [do |-> "delete", id |-> <<k, n>>]
Audit(t, k, n, by) == [do |-> "audit", tenant |-> t, id |-> <<k, n>>, by |-> by.sub]
Anonymize(column, n) == [do |-> "anonymize", column |-> column, id |-> <<"user", n>>]

Calling == [op : OpNames, by : Callers, on : Seeds \cup {Nobody},
            key : Seeds \cup NewKeys \cup {Nobody},
            body : {"none", "open", "signed", "signed_with_key"}]
NoCall == [op |-> "none", by |-> Nobody, on |-> Nobody, key |-> Nobody, body |-> "none"]

Init ==
    /\ db \in Seeded
    /\ audit = [r \in Requests |-> Absent]
    /\ at = [r \in Requests |-> "idle"]
    /\ call = [r \in Requests |-> NoCall]
    /\ seen = [r \in Requests |-> Absent]
    /\ todo = [r \in Requests |-> <<>>]
    /\ fetched = [r \in Requests |-> Absent]
    /\ pending = [r \in Requests |-> <<>>]
    /\ logged = [r \in Requests |-> Absent]
    /\ forgot = [r \in Requests |-> {}]
    /\ overtaken = [r \in Requests |-> {}]
    /\ answer = [r \in Requests |-> "none"]

\* What request r sees: the committed rows, and over them its own.
View(r) == [i \in Ids |-> IF i \in DOMAIN pending[r] THEN pending[r][i] ELSE db[i]]

\* The row of a kind that holds a value of its unique column.
Holders(rows, k, key) == {n \in Names : rows[k, n] # Absent /\ rows[k, n].key = key}
Taken(k, key) == Holders(db, k, key) # {}

-----------------------------------------------------------------------------
(***************************************************************************)
(* Who may call what: the guards of the endpoints, on the token's claims.  *)
(***************************************************************************)
IsAdminLike(by) == by.role \in {"superuser", "admin"}
RequirePermission(by, p) == IsAdminLike(by) \/ p \in by.permissions

TenantEndpoint(op, by) ==
    \/ op \in {"CreateTenant", "DeleteTenant"} /\ by.role = "superuser"
    \/ op = "UpdateTenant" /\ IsAdminLike(by)
    \/ /\ op \in {"CreateDomain", "DeleteDomain", "UpsertDomainPolicy", "DeleteDomainPolicy"}
       /\ RequirePermission(by, "domains")

RouteEndpoint(op, by) ==
    op \in {"CreateRoute", "UpdateRoute", "DeleteRoute"} /\ RequirePermission(by, "routes")

PolicyEndpoint(op, by) ==
    op \in {"UpsertPolicy", "DeletePolicy"} /\ RequirePermission(by, "routes")

\* DELETE /me is open to every token, and names its own user.
SubUserEndpoint(op, by, on) ==
    \/ op \in {"CreateMember", "UpdatePermissions", "DeleteUser"} /\ IsAdminLike(by)
    \/ op = "DeleteUser" /\ on = by.sub

\* Registering needs no token; a password is changed by its owner.
AuthEndpoint(op, by, on) ==
    \/ op = "Register" /\ by.role = "superuser" \* one caller stands for all
    \/ op = "ChangePassword" /\ on = by.sub

Reaches(c) ==
    \/ TenantEndpoint(c.op, c.by)
    \/ RouteEndpoint(c.op, c.by)
    \/ PolicyEndpoint(c.op, c.by)
    \/ SubUserEndpoint(c.op, c.by, c.on)
    \/ AuthEndpoint(c.op, c.by, c.on)

\* TenantAccessControl.ensure_tenant_access()
TenantAccess(by, tenant) == by.role = "superuser" \/ by.tenant = tenant

\* resolve_write_scope() and resolve_member_target_tenant(): only a
\* superuser chooses the tenant.
WriteScope(by, tenant) == IF by.role = "superuser" THEN tenant ELSE by.tenant

\* ensure_can_delete_user()
MayDeleteUser(by, on, user) ==
    \/ user.cols.role = "admin" /\ by.role = "superuser"
    \/ /\ user.cols.role = "member"
       /\ \/ by.sub = on
          \/ IsAdminLike(by) /\ TenantAccess(by, user.parent)

\* Mutant: the tenant of the target is not compared with the caller's.
MayModifyAnyMember(by, user) == user.cols.role = "member" /\ IsAdminLike(by)

\* ensure_can_modify_member()
MayModifyMember(by, user) ==
    user.cols.role = "member" /\ IsAdminLike(by) /\ TenantAccess(by, user.parent)

-----------------------------------------------------------------------------
(***************************************************************************)
(* The use cases.  A request starts with its first SELECT; the use cases   *)
(* that read twice decide on the second one.                               *)
(***************************************************************************)
\* The request is over; its entities and its transaction are gone.
Ends(r, how) ==
    /\ at' = [at EXCEPT ![r] = "done"]
    /\ answer' = [answer EXCEPT ![r] = how]
    /\ call' = [call EXCEPT ![r] = NoCall]
    /\ seen' = [seen EXCEPT ![r] = Absent]
    /\ todo' = [todo EXCEPT ![r] = <<>>]
    /\ fetched' = [fetched EXCEPT ![r] = Absent]
    /\ pending' = [pending EXCEPT ![r] = <<>>]
    /\ logged' = [logged EXCEPT ![r] = Absent]
    /\ forgot' = [forgot EXCEPT ![r] = {}]

\* Everything the transaction has written is rolled back.
RollsBack(r, how) ==
    /\ Ends(r, how)
    /\ overtaken' = [overtaken EXCEPT ![r] = {}]
    /\ UNCHANGED store

\* A use case after its last read: a missing row, a denied access or a
\* conflict raises (404, 403, 409); otherwise its statements follow.
Decides(r, ok, stmts) ==
    IF ~ok
    THEN RollsBack(r, "refused")
    ELSE /\ at' = [at EXCEPT ![r] = "open"]
         /\ seen' = [seen EXCEPT ![r] = Absent]
         /\ todo' = [todo EXCEPT ![r] = stmts]
         /\ UNCHANGED <<store, trans, fetched, overtaken, answer>>

Issued(r, c, op) == at[r] = "idle" /\ c.op = op /\ Reaches(c)

\* A use case with one read.
ReadsOnce(r, c, ok, stmts) ==
    /\ Decides(r, ok, stmts)
    /\ ok => call' = [call EXCEPT ![r] = c]

\* The first read of a use case with two: it keeps the entity and goes on.
ReadsFirst(r, c, ok, row) ==
    IF ~ok
    THEN RollsBack(r, "refused")
    ELSE /\ at' = [at EXCEPT ![r] = "looked"]
         /\ call' = [call EXCEPT ![r] = c]
         /\ seen' = [seen EXCEPT ![r] = row]
         /\ UNCHANGED <<store, trans, todo, fetched, overtaken, answer>>

\* Its second read.
ReadsAgain(r, op, ok, stmts) ==
    /\ at[r] = "looked"
    /\ call[r].op = op
    /\ Decides(r, ok, stmts)
    /\ ok => UNCHANGED call

NewRow(parent, key, cols) == [parent |-> parent, key |-> key, cols |-> cols]
NewUser(r, tenant, key, role) ==
    NewRow(tenant, key, [role |-> role, password |-> r, permissions |-> r])
ByName(r) == [content |-> r]

CreateTenant(r, c) ==
    /\ Issued(r, c, "CreateTenant")
    /\ ReadsOnce(r, c, ~Taken("tenant", c.key),
                 <<Save("tenant", r, NewRow(Nobody, c.key, ByName(r))),
                   Audit(r, "tenant", r, c.by)>>)

\* The alias is looked up only when it changes.
UpdateTenant(r, c) ==
    LET row == db["tenant", c.on]
        ok  == row # Absent /\ TenantAccess(c.by, c.on)
    IN  /\ Issued(r, c, "UpdateTenant")
        /\ IF ok /\ row.key = c.key
           THEN ReadsOnce(r, c, TRUE, <<Save("tenant", c.on, [row EXCEPT !.cols = ByName(r)]),
                                        Audit(c.on, "tenant", c.on, c.by)>>)
           ELSE ReadsFirst(r, c, ok, row)

UpdateTenantAlias(r) ==
    LET c == call[r]
    IN  ReadsAgain(r, "UpdateTenant", Holders(db, "tenant", c.key) \subseteq {c.on},
                   <<Save("tenant", c.on, NewRow(Nobody, c.key, ByName(r))),
                     Audit(c.on, "tenant", c.on, c.by)>>)

DeleteTenant(r, c) ==
    /\ Issued(r, c, "DeleteTenant")
    /\ ReadsFirst(r, c, db["tenant", c.on] # Absent, db["tenant", c.on])

\* Mutant: the audit row is written before the tenant is deleted.
DeleteTenantAuditFirst(r) ==
    LET t == call[r].on
    IN  ReadsAgain(r, "DeleteTenant",
                   \A n \in Names : db["route", n] # Absent => db["route", n].parent # t,
                   <<Audit(t, "tenant", t, call[r].by), Delete("tenant", t)>>)

\* The tenant goes first, and the audit row that follows references it.
DeleteTenantUnlinked(r) ==
    LET t == call[r].on
    IN  ReadsAgain(r, "DeleteTenant",
                   \A n \in Names : db["route", n] # Absent => db["route", n].parent # t,
                   <<Delete("tenant", t), Audit(t, "tenant", t, call[r].by)>>)

CreateDomain(r, c) ==
    /\ Issued(r, c, "CreateDomain")
    /\ ReadsFirst(r, c, TenantAccess(c.by, c.on) /\ db["tenant", c.on] # Absent, Absent)

CreateDomainHost(r) ==
    LET c == call[r]
    IN  ReadsAgain(r, "CreateDomain", ~Taken("domain", c.key),
                   <<Save("domain", r, NewRow(c.on, c.key, ByName(r))),
                     Audit(c.on, "domain", r, c.by)>>)

DeleteDomain(r, c) ==
    LET row == db["domain", c.on]
    IN  /\ Issued(r, c, "DeleteDomain")
        /\ ReadsOnce(r, c, row # Absent /\ TenantAccess(c.by, row.parent),
                     <<Delete("domain", c.on), Audit(row.parent, "domain", c.on, c.by)>>)

CreateRoute(r, c) ==
    LET t == WriteScope(c.by, c.on)
    IN  /\ Issued(r, c, "CreateRoute")
        /\ ReadsOnce(r, c, db["tenant", t] # Absent,
                     <<Save("route", r, NewRow(t, r, ByName(r))), Audit(t, "route", r, c.by)>>)

\* Mutant: a route that does not exist is saved as well.
UpdateRouteOrCreate(r, c) ==
    LET t == IF db["route", c.on] # Absent THEN db["route", c.on].parent ELSE WriteScope(c.by, c.on)
    IN  /\ Issued(r, c, "UpdateRoute")
        /\ ReadsOnce(r, c, TenantAccess(c.by, t),
                     <<Save("route", c.on, NewRow(t, c.on, ByName(r))),
                       Audit(t, "route", c.on, c.by)>>)

UpdateRoute(r, c) ==
    LET row == db["route", c.on]
    IN  /\ Issued(r, c, "UpdateRoute")
        /\ ReadsOnce(r, c, row # Absent /\ TenantAccess(c.by, row.parent),
                     <<Save("route", c.on, [row EXCEPT !.cols = ByName(r)]),
                       Audit(row.parent, "route", c.on, c.by)>>)

DeleteRoute(r, c) ==
    LET row == db["route", c.on]
    IN  /\ Issued(r, c, "DeleteRoute")
        /\ ReadsOnce(r, c, row # Absent /\ TenantAccess(c.by, row.parent),
                     <<Delete("route", c.on), Audit(row.parent, "route", c.on, c.by)>>)

-----------------------------------------------------------------------------
\* Mutant: the mode of the body is stored without being normalised.
PolicyAsGiven(r, body) ==
    [mode |-> body, signing |-> IF body = "signed_with_key" THEN r ELSE Nobody]

(***************************************************************************)
(* Policies.  An entity read from a row knows that a key is configured,    *)
(* not the key: [mode |-> "signed", signing |-> Nobody] is an entity whose *)
(* key, if any, stays in the row.                                          *)
(***************************************************************************)
Policy(r, body) ==
    [mode |-> IF body = "open" THEN "none" ELSE "signed",
     signing |-> IF body = "signed_with_key" THEN r ELSE Nobody]

Keyless(row) == row # Absent /\ row.cols.mode = "signed" /\ row.cols.signing = Nobody

\* ensure_signing_material_available(), on the entity of the body merged
\* with the existing one, which knows of a key in the mode "signed" only;
\* reading a keyless row raises as well.
SigningMaterial(existing, body) ==
    /\ ~Keyless(existing)
    /\ body = "signed" => /\ existing # Absent
                          /\ existing.cols.mode = "signed" /\ existing.cols.signing # Nobody

LooksForTarget(r, c, kind) ==
    LET row == db[kind, c.on]
    IN  ReadsFirst(r, c, row # Absent /\ TenantAccess(c.by, row.parent), row)

\* Mutant: the existing policy is not looked for.
UpsertsAlwaysNew(r, op, kind) ==
    LET c == call[r]
    IN  ReadsAgain(r, op, c.body # "signed",
                   <<Save(kind, r, NewRow(c.on, c.on, Policy(r, c.body))),
                     Audit(seen[r].parent, kind, r, c.by)>>)

\* reconfigure() when the target has a policy, create_for_...() otherwise.
Upserts(r, op, kind) ==
    LET c == call[r]
        found == Holders(db, kind, c.on)
        name  == IF found = {} THEN r ELSE CHOOSE n \in found : TRUE
        existing == IF found = {} THEN Absent ELSE db[kind, name]
    IN  ReadsAgain(r, op, SigningMaterial(existing, c.body),
                   <<Save(kind, name, NewRow(c.on, c.on, Policy(r, c.body))),
                     Audit(seen[r].parent, kind, name, c.by)>>)

UpsertPolicy(r, c) == Issued(r, c, "UpsertPolicy") /\ LooksForTarget(r, c, "route")
UpsertPolicyMerge(r) == Upserts(r, "UpsertPolicy", "policy")

UpsertDomainPolicy(r, c) ==
    Issued(r, c, "UpsertDomainPolicy") /\ LooksForTarget(r, c, "domain")
UpsertDomainPolicyMerge(r) == Upserts(r, "UpsertDomainPolicy", "domain_policy")

\* DELETE ... WHERE route_id: the statement names the target.
DeletePolicy(r, c) ==
    LET row == db["route", c.on]
    IN  /\ Issued(r, c, "DeletePolicy")
        /\ ReadsOnce(r, c, row # Absent /\ TenantAccess(c.by, row.parent),
                     <<Delete("policy", c.on), Audit(row.parent, "policy", c.on, c.by)>>)

DeleteDomainPolicy(r, c) ==
    LET row == db["domain", c.on]
    IN  /\ Issued(r, c, "DeleteDomainPolicy")
        /\ ReadsOnce(r, c, row # Absent /\ TenantAccess(c.by, row.parent),
                     <<Delete("domain_policy", c.on),
                       Audit(row.parent, "domain_policy", c.on, c.by)>>)

-----------------------------------------------------------------------------
(***************************************************************************)
(* Users.                                                                  *)
(***************************************************************************)
\* An admin may not name another tenant than its own.
CreateMember(r, c) ==
    /\ Issued(r, c, "CreateMember")
    /\ ReadsFirst(r, c, TenantAccess(c.by, c.on) /\ db["tenant", c.on] # Absent, Absent)

CreateMemberEmail(r) ==
    LET c == call[r]
    IN  ReadsAgain(r, "CreateMember", ~Taken("user", c.key),
                   <<Save("user", r, NewUser(r, c.on, c.key, "member")),
                     Audit(c.on, "user", r, c.by)>>)

\* with_permissions(): the entity read, every other column included.
UpdatePermissions(r, c) ==
    LET row == db["user", c.on]
    IN  /\ Issued(r, c, "UpdatePermissions")
        /\ ReadsOnce(r, c, row # Absent /\ MayModifyMember(c.by, row),
                     <<Save("user", c.on, [row EXCEPT !.cols.permissions = r]),
                       Audit(row.parent, "user", c.on, c.by)>>)

\* Mutant: the references are anonymized before the deletion is logged.
DeleteUserLoggedLate(r, c) ==
    LET row == db["user", c.on]
    IN  /\ Issued(r, c, "DeleteUser")
        /\ ReadsOnce(r, c, row # Absent /\ MayDeleteUser(c.by, c.on, row),
                     <<Anonymize("actor", c.on), Anonymize("resource", c.on),
                       Audit(row.parent, "user", c.on, c.by), Delete("user", c.on)>>)

\* The audit row first, so that it is anonymized with the older ones.
DeleteUser(r, c) ==
    LET row == db["user", c.on]
    IN  /\ Issued(r, c, "DeleteUser")
        /\ ReadsOnce(r, c, row # Absent /\ MayDeleteUser(c.by, c.on, row),
                     <<Audit(row.parent, "user", c.on, c.by), Anonymize("actor", c.on),
                       Anonymize("resource", c.on), Delete("user", c.on)>>)

\* RegisterAdminWithTenant: the e-mail, then the alias; no audit row.
Register(r, c) ==
    /\ Issued(r, c, "Register")
    /\ ReadsFirst(r, c, ~Taken("user", c.key), Absent)

RegisterAlias(r) ==
    LET c == call[r]
    IN  ReadsAgain(r, "Register", ~Taken("tenant", c.key),
                   <<Save("tenant", r, NewRow(Nobody, c.key, ByName(r))),
                     Save("user", r, NewUser(r, r, c.key, "admin"))>>)

\* Mutant: the new entity is built without the permissions.
ChangePasswordOnly(r, c) ==
    LET row == db["user", c.on]
    IN  /\ Issued(r, c, "ChangePassword")
        /\ ReadsOnce(r, c, row # Absent,
                     <<Save("user", c.on, [row EXCEPT !.cols.password = r, !.cols.permissions = r])>>)

\* ChangePassword and ResetPasswordWithCode: the entity read, with the new
\* password and "role, tenant_id and permissions preserved"; no audit row.
ChangePassword(r, c) ==
    LET row == db["user", c.on]
    IN  /\ Issued(r, c, "ChangePassword")
        /\ ReadsOnce(r, c, row # Absent,
                     <<Save("user", c.on, [row EXCEPT !.cols.password = r])>>)

-----------------------------------------------------------------------------
(***************************************************************************)
(* Statements and their locks.  A statement waits while another open       *)
(* transaction holds a conflicting lock: on a row it has written, on a     *)
(* unique value it has put in or taken out, on a row that its new rows     *)
(* reference (which may not be deleted, nor change its unique value).  A   *)
(* cascade takes its locks at once.                                        *)
(***************************************************************************)
ParentId(i, row) == <<ParentKind[i[1]], row.parent>>
References(i, row) == i[1] # "tenant" /\ row.parent # Nobody

\* Rows that deleting those of S takes along.
Dependents(rows, S) ==
    {j \in Ids : /\ rows[j] # Absent
                 /\ j[1] \in Cascading
                 /\ ParentId(j, rows[j]) \in S}
Cascade(rows, S) ==
    LET T == S \cup Dependents(rows, S) IN T \cup Dependents(rows, T)

\* DELETE by primary key, or by the target of a policy.
Victims(rows, i) ==
    IF i[1] \in {"policy", "domain_policy"}
    THEN {<<i[1], n>> : n \in Holders(rows, i[1], i[2])}
    ELSE IF rows[i] # Absent THEN {i} ELSE {}

\* Every row with a foreign key has the row it references ...
Referenced(rows) ==
    \A i \in Ids : rows[i] # Absent /\ References(i, rows[i]) => rows[ParentId(i, rows[i])] # Absent

\* ... and no two rows of a table have the same unique value.
KeysUnique(rows) ==
    \A k \in Kinds : \A m, n \in Names :
        rows[k, m] # Absent /\ rows[k, n] # Absent /\ rows[k, m].key = rows[k, n].key => m = n

\* Mutant: the columns are not declared unique.
ReferencedOnly(rows) == Referenced(rows)

Legal(rows) == Referenced(rows) /\ KeysUnique(rows)
ASSUME LegalAssumption == \A s \in Seeded : Legal(s)

KeyOf(row) == IF row = Absent THEN {} ELSE {row.key}

\* Rows that a set of changes removes or gives another unique value, and
\* rows that its new rows, or an audit row, reference.
Exclusive(change) ==
    {i \in DOMAIN change : db[i] # Absent /\ KeyOf(change[i]) # KeyOf(db[i])}
Shared(change, log) ==
    {ParentId(i, change[i]) : i \in {j \in DOMAIN change :
        db[j] = Absent /\ change[j] # Absent /\ References(j, change[j])}}
    \cup {<<"tenant", l.tenant>> : l \in {log} \ {Absent}}

SameValue(change, other) ==
    \E i \in DOMAIN change : \E j \in DOMAIN other :
        i[1] = j[1] /\ KeyOf(change[i]) \cap (KeyOf(other[j]) \cup KeyOf(db[j])) # {}

Waits(r, change, log) ==
    \E q \in Requests \ {r} :
        \/ DOMAIN change \cap DOMAIN pending[q] # {}
        \/ SameValue(change, pending[q])
        \/ Exclusive(change) \cap Shared(pending[q], logged[q]) # {}
        \/ Shared(change, log) \cap Exclusive(pending[q]) # {}

Over(rows, change) == [i \in Ids |-> IF i \in DOMAIN change THEN change[i] ELSE rows[i]]

At(r, statement) == at[r] = "open" /\ todo[r] # <<>> /\ Head(todo[r]).do = statement

\* The statement is done: the next one, or the end of the use case.
Next1(r) ==
    /\ at' = [at EXCEPT ![r] = "open"]
    /\ todo' = [todo EXCEPT ![r] = Tail(@)]
    /\ UNCHANGED <<store, call, seen, forgot, overtaken, answer>>

\* It writes, or a constraint of the schema raises: 500.
Writes(r, change) ==
    IF Legal(Over(View(r), change))
    THEN /\ Next1(r)
         /\ pending' = [pending EXCEPT ![r] = [i \in DOMAIN @ \cup DOMAIN change |->
                                                 IF i \in DOMAIN change THEN change[i] ELSE @[i]]]
         /\ fetched' = [fetched EXCEPT ![r] = Absent]
         /\ UNCHANGED logged
    ELSE RollsBack(r, "error")

\* save(): session.get() runs a SELECT of its own, as the object of the
\* first read is gone.
SaveSelects(r) ==
    /\ At(r, "save")
    /\ at' = [at EXCEPT ![r] = "fetched"]
    /\ fetched' = [fetched EXCEPT ![r] = View(r)[Head(todo[r]).id]]
    /\ UNCHANGED <<store, call, seen, todo, trans, overtaken, answer>>

\* The statement has a value that cannot be stored: _apply_signing_key() has
\* no cipher for a policy's key (SecretCipherError), or the column is too
\* narrow for a number or a text that the body's schema lets through.  500
\* as well, before anything is written and without waiting for a lock.
LooseKinds == Kinds \ {"user"}
Unstorable(r, kinds) == Head(todo[r]).id[1] \in kinds /\ RollsBack(r, "unstorable")

\* save() of an entity that was not found: INSERT.
SaveInserts(r) ==
    LET s == Head(todo[r])
        change == [i \in {s.id} |-> s.row]
    IN  /\ at[r] = "fetched"
        /\ fetched[r] = Absent
        /\ \/ Unstorable(r, LooseKinds)
           \/ /\ ~Waits(r, change, Absent)
              /\ IF View(r)[s.id] = Absent THEN Writes(r, change) ELSE RollsBack(r, "error")

\* The UPDATE sets the columns in which the entity differs from the row
\* that was fetched; _apply_signing_key() leaves the key of a signed policy
\* alone when the entity carries none.
Updated(row, old, new) ==
    [row EXCEPT !.key = IF new.key = old.key THEN @ ELSE new.key,
                !.cols = [c \in DOMAIN row.cols |->
                            IF new.cols[c] = old.cols[c] \/ (c = "signing" /\ Keyless(new))
                            THEN row.cols[c] ELSE new.cols[c]]]

\* save() of an entity that was found: UPDATE, which raises when the row
\* has gone meanwhile.
SaveUpdates(r) ==
    LET s == Head(todo[r])
        row == View(r)[s.id]
        change == [i \in {s.id} |-> Updated(row, fetched[r], s.row)]
    IN  /\ at[r] = "fetched"
        /\ fetched[r] # Absent
        /\ \/ Unstorable(r, LooseKinds)
           \/ row = Absent /\ RollsBack(r, "error")
           \/ row # Absent /\ ~Waits(r, change, Absent) /\ Writes(r, change)

\* Mutant: no use case looks at the number of rows deleted.
DeletesAnyway(r) ==
    LET i == Head(todo[r]).id
        change == [j \in Cascade(View(r), Victims(View(r), i)) |-> Absent]
    IN  /\ At(r, "delete")
        /\ ~Waits(r, change, Absent)
        /\ Writes(r, change)

\* delete(): the use cases of routes and domains ignore that nothing was
\* deleted, the others raise NotFoundError.
Deletes(r) ==
    LET i == Head(todo[r]).id
        victims == Victims(View(r), i)
        change == [j \in Cascade(View(r), victims) |-> Absent]
    IN  /\ At(r, "delete")
        /\ ~Waits(r, change, Absent)
        /\ IF victims = {} /\ i[1] \notin {"route", "domain"}
           THEN RollsBack(r, "refused")
           ELSE Writes(r, change)

\* record(): an INSERT that references the tenant.  The summary of a route's
\* policy is longer than the path, which may fill the column already.
Audits(r) ==
    LET s == Head(todo[r])
    IN  /\ At(r, "audit")
        /\ \/ Unstorable(r, {"policy"})
           \/ /\ ~Waits(r, <<>>, s)
              /\ IF View(r)["tenant", s.tenant] = Absent
                 THEN RollsBack(r, "error")
                 ELSE /\ Next1(r)
                      /\ logged' = [logged EXCEPT ![r] = s]
                      /\ UNCHANGED <<pending, fetched>>

\* An audit row has user n in a column, and the row without it.
Mentions(log, column, n) ==
    log # Absent /\ IF column = "actor" THEN log.by = n ELSE log.id = <<"user", n>>
Anonymous(log, columns) ==
    [log EXCEPT !.by = IF "actor" \in columns THEN Nobody ELSE @,
                !.id = IF "resource" \in columns THEN Forgotten ELSE @]

\* anonymize_user_references(), an UPDATE for each column: of the rows that
\* are visible now, the transaction's own among them.
Anonymizes(r) ==
    LET s == Head(todo[r])
        rows == {q \in Requests : Mentions(audit[q], s.column, s.id[2])}
    IN  /\ At(r, "anonymize")
        /\ \A q \in Requests \ {r} : forgot[q] \cap ({"actor", "resource"} \X rows) = {}
        /\ at' = at
        /\ todo' = [todo EXCEPT ![r] = Tail(@)]
        /\ forgot' = [forgot EXCEPT ![r] = @ \cup ({s.column} \X rows)]
        /\ logged' = [logged EXCEPT ![r] =
                        IF Mentions(@, s.column, s.id[2]) THEN Anonymous(@, {s.column}) ELSE @]
        /\ UNCHANGED <<store, call, seen, fetched, pending, overtaken, answer>>

\* The dependency of the request is closed: session.begin() commits.
Commits(r) ==
    /\ at[r] = "open"
    /\ todo[r] = <<>>
    /\ db' = Over(db, pending[r])
    /\ audit' = [q \in Requests |->
                    IF q = r THEN logged[r]
                    ELSE IF audit[q] = Absent THEN Absent
                    ELSE Anonymous(audit[q], {c \in {"actor", "resource"} :
                                                <<c, q>> \in forgot[r]})]
    /\ overtaken' = [q \in Requests |->
                        IF q = r \/ at[q] \in {"idle", "done"} THEN {}
                        ELSE overtaken[q] \cup DOMAIN pending[r]
                               \cup IF logged[r] = Absent THEN {} ELSE {<<"audit", r>>}]
    /\ Ends(r, "ok")

\* The process or its connection dies: PostgreSQL rolls back.
Dies(r) == at[r] \notin {"idle", "done"} /\ RollsBack(r, "lost")

-----------------------------------------------------------------------------
\* Operations whose body has a value for a unique column.
Keyed == {"CreateTenant", "UpdateTenant", "CreateDomain", "CreateMember", "Register"}
Calls ==
    {c \in Calling :
        /\ c.on = Nobody <=> c.op \in {"CreateTenant", "Register"}
        /\ c.key = Nobody <=> c.op \notin Keyed
        /\ c.body = "none" <=> c.op \notin {"UpsertPolicy", "UpsertDomainPolicy"}}

Issue(r, c) ==
    \/ CreateTenant(r, c) \/ UpdateTenant(r, c) \/ DeleteTenant(r, c)
    \/ CreateDomain(r, c) \/ DeleteDomain(r, c)
    \/ CreateRoute(r, c) \/ UpdateRoute(r, c) \/ DeleteRoute(r, c)
    \/ UpsertPolicy(r, c) \/ DeletePolicy(r, c)
    \/ UpsertDomainPolicy(r, c) \/ DeleteDomainPolicy(r, c)
    \/ CreateMember(r, c) \/ UpdatePermissions(r, c) \/ DeleteUser(r, c)
    \/ Register(r, c) \/ ChangePassword(r, c)

Decide(r) ==
    \/ UpdateTenantAlias(r) \/ DeleteTenantUnlinked(r) \/ CreateDomainHost(r)
    \/ UpsertPolicyMerge(r) \/ UpsertDomainPolicyMerge(r)
    \/ CreateMemberEmail(r) \/ RegisterAlias(r)

Execute(r) ==
    \/ SaveSelects(r) \/ SaveInserts(r) \/ SaveUpdates(r)
    \/ Deletes(r) \/ Audits(r) \/ Anonymizes(r) \/ Commits(r)

\* Everything has been answered: the only way to stop.
AllAnswered == (\A r \in Requests : at[r] = "done") /\ UNCHANGED vars

Next ==
    \/ \E r \in Requests : at[r] = "idle" /\ \E c \in Calls : Issue(r, c)
    \/ \E r \in Requests : Decide(r) \/ Execute(r) \/ Dies(r)
    \/ AllAnswered

Spec == Init /\ [][Next]_vars

-----------------------------------------------------------------------------
(***************************************************************************)
(* Properties.                                                             *)
(***************************************************************************)
TypeOK ==
    /\ db \in [Ids -> Row \cup {Absent}]
    /\ \A r \in Requests :
        /\ audit[r] \in Logs \cup {Absent}
        /\ at[r] \in {"idle", "looked", "open", "fetched", "done"}
        /\ call[r] \in Calling \cup {NoCall}
        /\ seen[r] \in Row \cup {Absent}
        /\ fetched[r] \in Row \cup {Absent}
        /\ DOMAIN pending[r] \subseteq Ids
        /\ \A i \in DOMAIN pending[r] : pending[r][i] \in Row \cup {Absent}
        /\ forgot[r] \subseteq {"actor", "resource"} \X Requests
        /\ overtaken[r] \subseteq Ids \cup ({"audit"} \X Requests)
        /\ answer[r] \in {"none", "ok", "refused", "error", "unstorable", "lost"}

\* Request r commits in this step.
Committing(r) == at[r] # "done" /\ at'[r] = "done" /\ answer'[r] = "ok"
Changes(i) == db'[i] # db[i]

\* Other commits have changed rows since request r first read.
Overlapped(r) == overtaken[r] \cap Ids # {}

\* A commit of a token's request changes rows of the token's tenant only,
\* and of the kinds its role and permissions open (access_control.py), though
\* the access was checked on rows read long before.  Registering changes only
\* rows it creates; a superuser is changed by nobody else, and never removed.
TenantOf(i, row) ==
    IF i[1] = "tenant" THEN i[2]
    ELSE IF i[1] \in {"domain", "route", "user"} THEN row.parent
    ELSE LET p == ParentId(i, row) IN IF db[p] # Absent THEN db[p].parent ELSE db'[p].parent
MayChange(c, r, i, row) ==
    \/ c.op = "Register" /\ i[2] = r
    \/ /\ c.op # "Register" /\ c.by.role = "superuser"
       /\ (i[1] = "user" /\ row.cols.role = "superuser") => i[2] = c.by.sub /\ db'[i] # Absent
    \/ c.by.role = "admin" /\ TenantOf(i, row) = c.by.tenant
    \/ /\ c.by.role = "member"
       /\ TenantOf(i, row) = c.by.tenant
       /\ \/ i[1] \in {"route", "policy"} /\ "routes" \in c.by.permissions
          \/ i[1] \in {"domain", "domain_policy"} /\ "domains" \in c.by.permissions
          \/ i = <<"user", c.by.sub>>
OwnTenantOnly ==
    [][\A r \in Requests : Committing(r) =>
          \A i \in Ids : Changes(i) =>
              MayChange(call[r], r, i, IF db[i] # Absent THEN db[i] ELSE db'[i])]_vars

\* The use cases look for a taken alias, host or e-mail, and for the parent
\* of what they save, on reads that other commits may overtake: the unique
\* columns and the foreign keys (models.py) hold in the committed tables all
\* the same, as only one of the requests that race gets through.
UniqueAndReferenced == KeysUnique(db) /\ Referenced(db)

\* What the code comes down to, against the collections under tests/ (see
\* TenantIsDeleted): deleting a tenant never commits, as its audit row
\* references the tenant it has just deleted (manage_tenant.py, lines 97-99).
\* ConfigPropagation and SnapshotRows rely on this when they leave the
\* operation out.
TenantsStay ==
    [][\A n \in Names : db["tenant", n] # Absent => db'["tenant", n] # Absent]_vars

\* A row that was deleted comes back only through a request that had read
\* it before the deletion committed: save() inserts what it does not find.
OnlyOverlapResurrects ==
    [][\A r \in Requests : Committing(r) =>
          \A i \in Ids : (db[i] = Absent /\ Changes(i)) => i[2] = r \/ i \in overtaken[r]]_vars

\* A commit changes the columns of a user that its operation is about, and
\* others only when it overlapped a commit that had changed them: a whole
\* entity is written back, "role, tenant_id and permissions preserved".
Purpose(op) ==
    IF op = "ChangePassword" THEN {"password"}
    ELSE IF op = "UpdatePermissions" THEN {"permissions"} ELSE {}
OnlyOverlapReverts ==
    [][\A r \in Requests : Committing(r) =>
          \A n \in Names :
              LET i == <<"user", n>> IN
              (db[i] # Absent /\ db'[i] # Absent /\ i \notin overtaken[r]) =>
                  /\ db'[i].parent = db[i].parent /\ db'[i].key = db[i].key
                  /\ \A c \in DOMAIN db[i].cols \ Purpose(call[r].op) :
                         db'[i].cols[c] = db[i].cols[c]]_vars

\* The tables make a statement fail that follows from a use case's checks -
\* a constraint, a row that has gone: IntegrityError, StaleDataError, 500 -
\* only when another request has committed since; except for deleting a
\* tenant.  (A value that cannot be stored fails by itself: "unstorable".)
OnlyOverlapFails ==
    [][\A r \in Requests : (answer[r] # "error" /\ answer'[r] = "error") =>
          Overlapped(r) \/ call[r].op = "DeleteTenant"]_vars

\* The change-audit log and the tables agree, commit by commit: what has a
\* log row was written, unless another commit had been there first, and what
\* is written has a log row, registrations and passwords apart.
AuditTellsTheChange ==
    [][\A r \in Requests : Committing(r) =>
          /\ audit'[r] # Absent => DOMAIN pending[r] # {} \/ Overlapped(r)
          /\ audit'[r] = Absent => call[r].op \in {"Register", "ChangePassword"}]_vars

\* Once a user's deletion commits, the audit rows name the user neither as
\* their actor nor as what they are about (change_audit.py, lines 67-82),
\* the deletion's own row included - but for rows that others have committed
\* since the deletion began, which its two UPDATEs may have missed.
DeletedUserIsForgotten ==
    [][\A r \in Requests, n \in Names :
          LET i == <<"user", n>> IN
          (Committing(r) /\ db[i] # Absent /\ db'[i] = Absent)
              => \A q \in Requests, column \in {"actor", "resource"} :
                     Mentions(audit'[q], column, n) => <<"audit", q>> \in overtaken[r]]_vars

\* NOT a property of this code (see the run that refutes it): where nothing
\* else happens, a tenant without routes can be deleted, as the collections
\* of requests under tests/ expect ("o tenant pode ser deletado", 204).
TenantIsDeleted == \A r \in Requests : answer[r] # "error"

\* NOT a property of this code (see the run that refutes it): a policy that
\* demands a signature has the key to verify it, as policy.py requires of
\* every entity: "Validacao de assinatura JWT exige uma secret/chave publica
\* configurada."
SignedPolicyHasKey ==
    \A k \in {"policy", "domain_policy"} : \A n \in Names : ~Keyless(db[k, n])
=============================================================================
