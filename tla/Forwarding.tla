----------------------------- MODULE Forwarding -----------------------------
(***************************************************************************)
(* The life of a proxied request: ForwardRequest.handle() behind the       *)
(* gateway's catch-all route, and the events it leaves behind.             *)
(*                                                                         *)
(*  - Everything up to the rate limiter runs without a suspension, on the  *)
(*    snapshot served at that moment.  The limiter and the backend are     *)
(*    awaited; the snapshot may be replaced meanwhile.                     *)
(*  - The audit event and the operational log of an answer are written by  *)
(*    tasks nobody waits for.  The row of the audit event has a foreign    *)
(*    key to the tenant, whose row may be gone by then.                    *)
(*                                                                         *)
(* What a load may put into a snapshot is SnapshotRows' subject, when it   *)
(* happens ConfigPropagation's; how the limiter decides is in RateWindow,  *)
(* and whether the writer of the log is switched off in GatewayRedis.      *)
(***************************************************************************)
EXTENDS RoutePath, PolicyEvaluation, FiniteSets

CONSTANTS
    Requests,    \* HTTP requests; each is made at most once
    Inputs,      \* what a request may look like:
                 \* [host, method, path, token, names, fits]; fits: whether
                 \* the audit table has room for its path and its client's
                 \* address
    Snapshots,   \* configurations a load may find:
                 \* [tenants, routes, backends, policies, fallbacks]
    Tenants,
    Statuses,    \* what backends answer with
    None         \* no tenant, no policy, no backend, no event

\* HttpMethod
Methods == {"GET", "POST", "PUT", "PATCH", "DELETE"}

\* The routes are in the order of the query, the longest prefix first.
ASSUME SnapshotsAssumption ==
    \A s \in Snapshots :
        /\ DOMAIN s.routes \subseteq Nat
        /\ \A i, j \in DOMAIN s.routes :
              i < j => Len(s.routes[i].prefix) >= Len(s.routes[j].prefix)

ASSUME TenantsAssumption ==
    /\ None \notin Tenants /\ None \notin Snapshots
    /\ \A s \in Snapshots : \A h \in DOMAIN s.tenants : s.tenants[h] \in Tenants

\* The catch-all route of the framework, "/{path:path}", takes no other paths.
ASSUME PathsAssumption ==
    /\ \A i \in Inputs : i.path \in Seq(STRING) /\ Len(i.path) > 0 /\ i.path[1] = "/"
    /\ \A s \in Snapshots : \A k \in DOMAIN s.routes : s.routes[k].prefix \in Seq(STRING)

ASSUME StatusesAssumption == Statuses \subseteq 100..599 /\ None \notin Int

VARIABLES
    auditing,  \* settings.audit_to_postgres
    fail_open, \* settings.redis_fail_open
    up,        \* the process runs
    postgres,  \* PostgreSQL answers
    tenants,   \* tenants that have a row
    snapshot,  \* the configuration being served
    at,        \* at[r]: where request r is
    input,     \* input[r]: what it looks like
    seen,      \* seen[r]: the snapshot that was served when it came
    target,    \* target[r]: what handle() holds: tenant, route, policy, backend
    verdict,   \* verdict[r]: what the limiter has said
    sent,      \* sent[r]: the backend and path its copy went to
    answer,    \* answer[r]: what the client got
    audit,     \* audit[r]: its audit event
    log        \* log[r]: its operational log event

world == <<auditing, fail_open, up, postgres, tenants, snapshot>>
vars == <<world, at, input, seen, target, verdict, sent, answer, audit, log>>

-----------------------------------------------------------------------------
(***************************************************************************)
(* The lookups, on a snapshot.                                             *)
(***************************************************************************)
\* get_by_domain()
TenantOf(s, i) == IF i.host \in DOMAIN s.tenants THEN s.tenants[i.host] ELSE None

\* Mutant: the routes of all tenants are searched.
HitsOfAnyTenant(s, i) ==
    {k \in DOMAIN s.routes :
        /\ PathMatches(s.routes[k].prefix, i.path)
        /\ s.routes[k].methods # {} => i.method \in s.routes[k].methods}

\* The routes get_by_path() may return; it returns the first.
Hits(s, i) ==
    {k \in DOMAIN s.routes :
        /\ s.routes[k].tenant = TenantOf(s, i)
        /\ PathMatches(s.routes[k].prefix, i.path)
        /\ s.routes[k].methods # {} => i.method \in s.routes[k].methods}

RouteOf(s, i) == s.routes[Min(Hits(s, i))]

\* get_by_id() of the route's domain
BackendOf(s, i) ==
    IF RouteOf(s, i).id \in DOMAIN s.backends THEN s.backends[RouteOf(s, i).id] ELSE None

\* get_by_route_id(), then get_domain_policy()
PolicyOf(s, i) ==
    IF RouteOf(s, i).id \in DOMAIN s.policies THEN s.policies[RouteOf(s, i).id]
    ELSE IF i.host \in DOMAIN s.fallbacks THEN s.fallbacks[i.host] ELSE None

Verdict(p, i) == IF p = None THEN Allowed ELSE Evaluate(p, i.token, i.names)

NoTarget == [tenant |-> None, route |-> None, policy |-> None, backend |-> None]
NoCopy == [backend |-> None, path |-> <<>>]

-----------------------------------------------------------------------------
(***************************************************************************)
(* Answers and events.  Three places decide a status: the builder of the   *)
(* audit event, handle() for the log, and the router for the client.  An   *)
(* outcome is what the audit event calls it; code is what the client is    *)
(* told, and an upstream's answer has no code.                             *)
(***************************************************************************)
\* Mutant: status_code is given as the event has it.
StatusColumnAsGiven(status) == status

\* "status_code": event.upstream_status_code or 0
StatusColumn(status) == IF status = None THEN 0 ELSE status

UpstreamErrors ==
    {"UPSTREAM_TIMEOUT", "UPSTREAM_CONNECTION_REFUSED", "UPSTREAM_DNS_FAILURE", "UPSTREAM_UNREACHABLE"}

\* Mutant: no status is a zero already in the event.
AuditStatusZero(outcome, status) ==
    CASE outcome \in {"SUCCESS", "POLICY_DENIED"} -> status
      [] outcome = "UNEXPECTED_ERROR"             -> 502
      [] OTHER                                    -> 0

\* upstream_status_code of the event AuditEventBuilder makes; status is the
\* policy's or the upstream's.
AuditStatus(outcome, status) ==
    CASE outcome \in {"SUCCESS", "POLICY_DENIED"} -> status
      [] outcome = "UNEXPECTED_ERROR"             -> 502
      [] OTHER                                    -> None

LogStatus(outcome, status) ==
    CASE outcome \in {"SUCCESS", "POLICY_DENIED"}             -> status
      [] outcome \in {"TENANT_NOT_FOUND", "ROUTE_NOT_FOUND"} -> 404
      [] OTHER                                                -> 502

\* What the router makes of the exception handle() ends with: a denial has
\* the status it was raised with, and everything it does not know is a 502.
Answer(outcome, status) ==
    CASE outcome = "SUCCESS"            -> [status |-> status, code |-> "NONE"]
      [] outcome = "POLICY_DENIED"      -> [status |-> status, code |-> "POLICY_DENIED"]
      [] outcome = "TENANT_NOT_FOUND"   -> [status |-> 404, code |-> "TENANT_NOT_FOUND"]
      [] outcome = "ROUTE_NOT_FOUND"    -> [status |-> 404, code |-> "ROUTE_NOT_FOUND"]
      [] outcome = "DOMAIN_NOT_FOUND"   -> [status |-> 502, code |-> "DOMAIN_NOT_CONFIGURED"]
      [] outcome = "UPSTREAM_TIMEOUT"   -> [status |-> 504, code |-> "UPSTREAM_TIMEOUT"]
      [] outcome \in UpstreamErrors \ {"UPSTREAM_TIMEOUT"} -> [status |-> 502, code |-> outcome]
      [] OTHER                          -> [status |-> 502, code |-> "UPSTREAM_ERROR"]

\* handle() ends: both events are scheduled, and the router answers.  Only
\* then do other tasks run.
Ends(r, tenant, outcome, status) ==
    /\ at' = [at EXCEPT ![r] = "answered"]
    /\ answer' = [answer EXCEPT ![r] = Answer(outcome, status)]
    /\ audit' = [audit EXCEPT ![r] =
           IF ~auditing THEN @
           ELSE [state |-> "scheduled", outcome |-> outcome, tenant |-> tenant,
                 status |-> AuditStatus(outcome, status)]]
    /\ log' = [log EXCEPT ![r] =
           [state |-> "scheduled", outcome |-> outcome, tenant |-> tenant,
            status |-> LogStatus(outcome, status)]]

NoEvent == [state |-> "none", outcome |-> "NONE", tenant |-> None, status |-> None]

Init ==
    /\ auditing \in BOOLEAN
    /\ fail_open \in BOOLEAN
    /\ up = TRUE
    /\ postgres = TRUE
    /\ tenants = Tenants
    /\ snapshot \in Snapshots
    /\ at = [r \in Requests |-> "idle"]
    /\ input = [r \in Requests |-> None]
    /\ seen = [r \in Requests |-> None]
    /\ target = [r \in Requests |-> NoTarget]
    /\ verdict = [r \in Requests |-> "none"]
    /\ sent = [r \in Requests |-> NoCopy]
    /\ answer = [r \in Requests |-> None]
    /\ audit = [r \in Requests |-> NoEvent]
    /\ log = [r \in Requests |-> NoEvent]

-----------------------------------------------------------------------------
(***************************************************************************)
(* handle().                                                               *)
(***************************************************************************)
GoesOn == [outcome |-> "NONE", status |-> None]

\* Why the request is refused before anything is awaited, if it is.
Refusal(s, i) ==
    CASE TenantOf(s, i) = None  -> [outcome |-> "TENANT_NOT_FOUND", status |-> None]
      [] Hits(s, i) = {}        -> [outcome |-> "ROUTE_NOT_FOUND", status |-> None]
      [] BackendOf(s, i) = None -> [outcome |-> "DOMAIN_NOT_FOUND", status |-> None]
      [] OTHER ->
            LET v == Verdict(PolicyOf(s, i), i) IN
            IF v = Raised THEN [outcome |-> "UNEXPECTED_ERROR", status |-> None]
            ELSE IF v.allowed THEN GoesOn
            ELSE [outcome |-> "POLICY_DENIED", status |-> v.status]

\* The copy goes to the backend.
Forwards(r, t, path) ==
    /\ at' = [at EXCEPT ![r] = "forwarding"]
    /\ sent' = [sent EXCEPT ![r] =
           [backend |-> t.backend, path |-> UpstreamPath(Stripped(t.route.prefix, path))]]
    /\ UNCHANGED <<answer, audit, log>>

\* ApplyPolicyPipeline.apply(), once the evaluator has allowed.
RateLimited(p) == p # None /\ p.rate_limited

\* RequestParser.parse() raises for a method it does not know, outside every
\* try: the framework answers 500 and no event is made.
Unparsed(r, i) ==
    /\ up
    /\ at[r] = "idle"
    /\ i.method \notin Methods
    /\ input' = [input EXCEPT ![r] = i]
    /\ at' = [at EXCEPT ![r] = "answered"]
    /\ answer' = [answer EXCEPT ![r] = [status |-> 500, code |-> "NONE"]]
    /\ UNCHANGED <<world, seen, target, verdict, sent, audit, log>>

Arrives(r, i) ==
    /\ up
    /\ at[r] = "idle"
    /\ i.method \in Methods
    /\ input' = [input EXCEPT ![r] = i]
    /\ seen' = [seen EXCEPT ![r] = snapshot]
    /\ LET no == Refusal(snapshot, i)
           t  == [tenant |-> TenantOf(snapshot, i), route |-> RouteOf(snapshot, i),
                  policy |-> PolicyOf(snapshot, i), backend |-> BackendOf(snapshot, i)]
       IN  IF no # GoesOn
           THEN /\ Ends(r, TenantOf(snapshot, i), no.outcome, no.status)
                /\ UNCHANGED <<target, sent>>
           ELSE /\ target' = [target EXCEPT ![r] = t]
                /\ IF RateLimited(t.policy)
                   THEN at' = [at EXCEPT ![r] = "limiting"] /\ UNCHANGED <<sent, answer, audit, log>>
                   ELSE Forwards(r, t, i.path)
    /\ UNCHANGED <<world, verdict>>

\* Mutant: the backend is looked up again after the limiter has answered.
LimiterAnswersLookingAgain(r, v) ==
    /\ up
    /\ at[r] = "limiting"
    /\ v = "raised" => ~fail_open
    /\ verdict' = [verdict EXCEPT ![r] = v]
    /\ IF v = "allowed"
       THEN Forwards(r, IF Refusal(snapshot, input[r]) = GoesOn
                        THEN [target[r] EXCEPT !.backend = BackendOf(snapshot, input[r])]
                        ELSE target[r], input[r].path)
       ELSE Ends(r, target[r].tenant, "POLICY_DENIED", 429) /\ UNCHANGED sent
    /\ UNCHANGED <<world, input, seen, target>>

\* Mutant: the tenant of a refusal is the one the host has by then.
LimiterAnswersForHost(r, v) ==
    /\ up
    /\ at[r] = "limiting"
    /\ v = "raised" => ~fail_open
    /\ verdict' = [verdict EXCEPT ![r] = v]
    /\ CASE v = "allowed" -> Forwards(r, target[r], input[r].path)
         [] v = "refused" -> Ends(r, TenantOf(snapshot, input[r]), "POLICY_DENIED", 429) /\ UNCHANGED sent
         [] v = "raised"  -> Ends(r, target[r].tenant, "UNEXPECTED_ERROR", None) /\ UNCHANGED sent
    /\ UNCHANGED <<world, input, seen, target>>

\* Without fail-open, is_allowed() raises when Redis does not take the call:
\* an error handle() has no name for.
LimiterAnswers(r, v) ==
    /\ up
    /\ at[r] = "limiting"
    /\ v = "raised" => ~fail_open
    /\ verdict' = [verdict EXCEPT ![r] = v]
    /\ CASE v = "allowed" -> Forwards(r, target[r], input[r].path)
         [] v = "refused" -> Ends(r, target[r].tenant, "POLICY_DENIED", 429) /\ UNCHANGED sent
         [] v = "raised"  -> Ends(r, target[r].tenant, "UNEXPECTED_ERROR", None) /\ UNCHANGED sent
    /\ UNCHANGED <<world, input, seen, target>>

\* HttpxUpstreamProxy.forward() returns or raises; anything but an error of
\* the transport (an invalid URL) is unexpected.
UpstreamAnswers(r, outcome, status) ==
    /\ up
    /\ at[r] = "forwarding"
    /\ outcome = "SUCCESS" <=> status # None
    /\ Ends(r, target[r].tenant, outcome, status)
    /\ UNCHANGED <<world, input, seen, target, verdict, sent>>

-----------------------------------------------------------------------------
(***************************************************************************)
(* The tasks nobody waits for.                                             *)
(***************************************************************************)
\* The constraints of admin_audit_requests: status_code is NOT NULL, path and
\* client_ip have a width, and a tenant_id must be the one of a row.
Insertable(r) ==
    /\ StatusColumn(audit[r].status) # None
    /\ input[r].fits
    /\ audit[r].tenant \in tenants \cup {None}

\* Mutant: the write is tried again until the database answers.
AuditWriteRetried(r) ==
    /\ up
    /\ postgres
    /\ audit[r].state = "scheduled"
    /\ audit' = [audit EXCEPT ![r].state = IF Insertable(r) THEN "written" ELSE "rejected"]
    /\ UNCHANGED <<world, at, input, seen, target, verdict, sent, answer, log>>

\* _safe_audit_write()
AuditWrite(r) ==
    /\ up
    /\ audit[r].state = "scheduled"
    /\ audit' = [audit EXCEPT ![r].state =
           IF ~postgres THEN "unreachable" ELSE IF Insertable(r) THEN "written" ELSE "rejected"]
    /\ UNCHANGED <<world, at, input, seen, target, verdict, sent, answer, log>>

\* _safe_log_write(): written to the stream, or skipped by the writer.
LogWrite(r) ==
    /\ up
    /\ log[r].state = "scheduled"
    /\ log' = [log EXCEPT ![r].state = "settled"]
    /\ UNCHANGED <<world, at, input, seen, target, verdict, sent, answer, audit>>

-----------------------------------------------------------------------------
(***************************************************************************)
(* Around the requests.                                                    *)
(***************************************************************************)
TenantsIn(s) == {s.tenants[h] : h \in DOMAIN s.tenants}

\* load() ends: the attributes are assigned without a suspension.
Reload(s) ==
    /\ up
    /\ postgres
    /\ TenantsIn(s) \subseteq tenants
    /\ snapshot' = s
    /\ UNCHANGED <<auditing, fail_open, up, postgres, tenants, at, input, seen, target, verdict, sent, answer, audit, log>>

\* Somebody removes a tenant by hand: the DELETE of the admin service never
\* commits (AdminStore, TenantsStay).
TenantDeleted(t) ==
    /\ postgres
    /\ t \in tenants
    /\ tenants' = tenants \ {t}
    /\ UNCHANGED <<auditing, fail_open, up, postgres, snapshot, at, input, seen, target, verdict, sent, answer, audit, log>>

PostgresTurns ==
    /\ postgres' = ~postgres
    /\ UNCHANGED <<auditing, fail_open, up, tenants, snapshot, at, input, seen, target, verdict, sent, answer, audit, log>>

\* The process stops, in order or not: what is under way is cut off, and
\* the tasks that have not run are cancelled with the event loop.
Lost(e) == IF e.state = "scheduled" THEN [e EXCEPT !.state = "lost"] ELSE e

Stops ==
    /\ up
    /\ up' = FALSE
    /\ at' = [r \in Requests |-> IF at[r] \in {"idle", "answered"} THEN at[r] ELSE "cut"]
    /\ audit' = [r \in Requests |-> Lost(audit[r])]
    /\ log' = [r \in Requests |-> Lost(log[r])]
    /\ UNCHANGED <<auditing, fail_open, postgres, tenants, snapshot, input, seen, target, verdict, sent, answer>>

Next ==
    \/ \E r \in Requests :
          \/ \E i \in Inputs : Unparsed(r, i) \/ Arrives(r, i)
          \/ \E v \in {"allowed", "refused", "raised"} : LimiterAnswers(r, v)
          \/ \E o \in {"SUCCESS", "UNEXPECTED_ERROR"} \cup UpstreamErrors, status \in Statuses \cup {None} :
                UpstreamAnswers(r, o, status)
          \/ AuditWrite(r) \/ LogWrite(r)
    \/ \E s \in Snapshots : Reload(s)
    \/ \E t \in Tenants : TenantDeleted(t)
    \/ PostgresTurns
    \/ Stops

Spec == Init /\ [][Next]_vars

\* The limiter, the backend and the database answer or time out (Redis and
\* httpx have timeouts), and the event loop runs every task.
Progress(r) ==
    \/ \E v \in {"allowed", "refused", "raised"} : LimiterAnswers(r, v)
    \/ \E o \in {"SUCCESS", "UNEXPECTED_ERROR"} \cup UpstreamErrors, status \in Statuses \cup {None} :
          UpstreamAnswers(r, o, status)

LiveSpec ==
    /\ Spec
    /\ \A r \in Requests :
          WF_vars(Progress(r)) /\ WF_vars(AuditWrite(r)) /\ WF_vars(LogWrite(r))

-----------------------------------------------------------------------------
(***************************************************************************)
(* Properties.                                                             *)
(***************************************************************************)
Event ==
    [state : {"none", "scheduled", "written", "rejected", "unreachable", "settled", "lost"},
     outcome : {"NONE", "TENANT_NOT_FOUND", "ROUTE_NOT_FOUND", "DOMAIN_NOT_FOUND", "POLICY_DENIED",
                "SUCCESS", "UNEXPECTED_ERROR"} \cup UpstreamErrors,
     tenant : Tenants \cup {None},
     status : {None} \cup 100..599]

\* Every variable holds a value of its type.
TypeOK ==
    /\ auditing \in BOOLEAN /\ fail_open \in BOOLEAN /\ up \in BOOLEAN /\ postgres \in BOOLEAN
    /\ tenants \subseteq Tenants
    /\ snapshot \in Snapshots
    /\ at \in [Requests -> {"idle", "limiting", "forwarding", "answered", "cut"}]
    /\ input \in [Requests -> Inputs \cup {None}]
    /\ seen \in [Requests -> Snapshots \cup {None}]
    /\ verdict \in [Requests -> {"none", "allowed", "refused", "raised"}]
    /\ audit \in [Requests -> Event]
    /\ log \in [Requests -> Event]

\* Whether a copy of the request went to a backend.
Sent(r) == sent[r].backend # None

\* One configuration decides a request: what reached a backend went to the
\* backend, passed the policy and - when it has one - the limit that the
\* snapshot of its arrival had for it, whatever was loaded meanwhile; and
\* the limiter only counts what the policy lets through.
OneConfigurationDecides ==
    \A r \in Requests :
        LET s == seen[r]
            i == input[r]
        IN  /\ Sent(r) =>
                  /\ Refusal(s, i) = GoesOn
                  /\ sent[r].backend = s.backends[RouteOf(s, i).id]
                  /\ RateLimited(PolicyOf(s, i)) => verdict[r] = "allowed"
            /\ verdict[r] # "none" => Refusal(s, i) = GoesOn /\ RateLimited(PolicyOf(s, i))

\* A request reaches a backend of the tenant its host belongs to, under the
\* route's own policy if there is one, and the backend sees the path the
\* client sent, cut at a "/" behind the route's prefix.
TenantsKeepApart ==
    \A r \in Requests : Sent(r) =>
        /\ target[r].tenant = seen[r].tenants[input[r].host]
        /\ target[r].route.tenant = target[r].tenant
        /\ target[r].route.id \in DOMAIN seen[r].policies
              => target[r].policy = seen[r].policies[target[r].route.id]

CutAtSlash ==
    \A r \in Requests : Sent(r) =>
        \E k \in 0..Len(input[r].path) :
            /\ input[r].path = WithoutTrailing(target[r].route.prefix)
                                  \o [j \in 1..k |-> "/"] \o sent[r].path
            /\ k = 0 => sent[r].path = <<>>

TellsTheCourse(r) ==
    LET first == Refusal(seen[r], input[r])
        how   == log[r].outcome
    IN  /\ log[r].tenant = TenantOf(seen[r], input[r])
        /\ auditing => audit[r].tenant = log[r].tenant /\ audit[r].outcome = how
        /\ Sent(r) <=> first = GoesOn /\ verdict[r] \in {"none", "allowed"}
        /\ IF first # GoesOn THEN how = first.outcome
           ELSE CASE verdict[r] = "refused" -> how = "POLICY_DENIED" /\ answer[r].status = 429
                  [] verdict[r] = "raised"  -> how = "UNEXPECTED_ERROR" /\ answer[r].code = "UPSTREAM_ERROR"
                  [] OTHER -> how \in {"SUCCESS", "UNEXPECTED_ERROR"} \cup UpstreamErrors
        /\ answer[r].code = "NONE" <=> how = "SUCCESS"
        /\ \/ answer[r].status = log[r].status
           \/ how = "UPSTREAM_TIMEOUT" /\ answer[r].status = 504 /\ log[r].status = 502

\* The events of an answer tell what the request went through, although the
\* configuration may have been replaced while it waited, and agree with what
\* the client was told: they name the tenant its host had when it came; a
\* request no copy of which was sent was refused by what was looked up then,
\* by the limiter or by the limiter's failure, and one with a copy ends as its
\* backend's call did.  A backend's timeout is a 504 for the client and a 502
\* in the log; no other status differs.
EventsTellTheCourse ==
    \A r \in Requests : log[r].state # "none" => TellsTheCourse(r)

\* The database takes the audit event of every answer - whatever the request
\* failed on - unless its tenant has been deleted, or the client sent a path
\* or an address the columns have no room for.
RejectedForACause ==
    \A r \in Requests : audit[r].state = "rejected" =>
        audit[r].tenant \in Tenants \ tenants \/ ~input[r].fits

\* Every request is answered, and the events of its answer are written or
\* given up, unless the process stops.
RequestsSettle ==
    \A r \in Requests :
        at[r] # "idle" ~>
            \/ at[r] = "cut"
            \/ at[r] = "answered" /\ audit[r].state # "scheduled" /\ log[r].state # "scheduled"
=============================================================================
