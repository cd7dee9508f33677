----------------------------- MODULE GatewayRedis -----------------------------
(***************************************************************************)
(* The gateway's users of Redis on the request path, the rate limiter and  *)
(* the log writer, and the circuit breaker each keeps in the dependency    *)
(* registry.                                                               *)
(*                                                                         *)
(*  - A user is skipped while redis_ping says error, while it is inactive  *)
(*    itself or while it cools down; a skipped rate limit lets the request *)
(*    through.                                                             *)
(*  - redis_ping is set by /health probes, and to error by the Pub/Sub     *)
(*    subscriber as soon as it loses Redis.                                *)
(*  - A failure counts; at MaxFailures the user turns inactive.  Only an   *)
(*    answered call resets the count.                                      *)
(*                                                                         *)
(* Calls and probes suspend, so their outcomes are recorded later, in any  *)
(* order.  Time is abstracted: a cooldown may end at any moment.           *)
(***************************************************************************)
EXTENDS DependencyStatus, FiniteSets

CONSTANTS
    Calls,          \* calls each user may have in flight at the same time
    Probes,         \* /health requests that may be open at the same time
    MaxFailures,    \* settings.redis_runtime_max_failures
    Faults          \* the kinds of fault a run injects

ASSUME CallsAssumption    == IsFiniteSet(Calls)
ASSUME FailuresAssumption == MaxFailures \in Nat \ {0}
ASSUME FaultsAssumption   == Faults \subseteq {"redis", "link"}

Limiter == "redis_rate_limit"
Logger  == "redis_raw_logs"
Users   == {Limiter, Logger}

VARIABLES
    redis,      \* TRUE while Redis answers
    doomed,     \* the subscriber's connection, or attempt at one, has yet to fail
    ping,       \* status of redis_ping
    user,       \* user[u]: the registry's entry of u
    call,       \* call[u][c]: "idle", "sent", or "hit" by an outage since
    probe       \* probe[p]: the answer a /health request has yet to record

vars == <<redis, doomed, ping, user, call, probe>>

TypeOK ==
    /\ redis \in BOOLEAN
    /\ doomed \in BOOLEAN
    /\ ping \in {"unknown", "ok", "error"}
    /\ user \in [Users -> Entry]
    /\ call \in [Users -> [Calls -> {"idle", "sent", "hit"}]]
    /\ probe \in [Probes -> {"none", "accepted", "refused"}]

Init ==
    /\ redis \in (IF "redis" \in Faults THEN BOOLEAN ELSE {TRUE})
    /\ doomed = ~redis
    /\ ping = "unknown"
    /\ user = [u \in Users |-> Fresh]
    /\ call = [u \in Users |-> [c \in Calls |-> "idle"]]
    /\ probe = [p \in Probes |-> "none"]

-----------------------------------------------------------------------------
Refused == ~redis \/ "link" \in Faults

InFlight(u) == {c \in Calls : call[u][c] # "idle"}
Inactive(u) == user[u].status = "inactive"

\* _ping_redis() in the lifespan, for the rate limiter and then the log
\* writer.  A failure counts, but starts no cooldown.
StartupPing(u) ==
    /\ user[u].status = "unknown"
    /\ u = Logger => user[Limiter].status # "unknown"
    /\ \/ redis /\ user' = [user EXCEPT ![u] = MarkedOk(@)]
       \/ Refused /\ user' = [user EXCEPT ![u] = MarkedError(@, FALSE)]
    /\ UNCHANGED <<redis, doomed, ping, call, probe>>

\* Start-up is over: requests, probes and the subscriber run.
Serving == \A u \in Users : user[u].status # "unknown"

\* _should_short_circuit() of both users.
ShortCircuited(u) == ping = "error" \/ Inactive(u) \/ user[u].cooling

\* A request reaches Redis; a skipped one changes nothing.
StartCall(u, c) ==
    /\ Serving
    /\ call[u][c] = "idle"
    /\ ~ShortCircuited(u)
    /\ call' = [call EXCEPT ![u][c] = IF redis THEN "sent" ELSE "hit"]
    /\ UNCHANGED <<redis, doomed, ping, user, probe>>

CallSucceeds(u, c) ==
    /\ call[u][c] = "sent"
    /\ user' = [user EXCEPT ![u] = MarkedOk(@)]
    /\ call' = [call EXCEPT ![u][c] = "idle"]
    /\ UNCHANGED <<redis, doomed, ping, probe>>

\* Mutant: the budget of failures is never checked.
FailedForever(e) == MarkedError(e, TRUE)

\* mark_error() and, at the budget, mark_inactive().
Failed(e) ==
    IF e.attempts + 1 >= MaxFailures
    THEN MarkedInactive(MarkedError(e, TRUE))
    ELSE MarkedError(e, TRUE)

\* A timeout or a broken connection: also when Redis is back by now.
CallFails(u, c) ==
    /\ call[u][c] = "hit" \/ (call[u][c] = "sent" /\ "link" \in Faults)
    /\ user' = [user EXCEPT ![u] = Failed(@)]
    /\ call' = [call EXCEPT ![u][c] = "idle"]
    /\ UNCHANGED <<redis, doomed, ping, probe>>

\* next_retry_at passes.
CoolingEnds(u) ==
    /\ user[u].cooling
    /\ user' = [user EXCEPT ![u].cooling = FALSE]
    /\ UNCHANGED <<redis, doomed, ping, call, probe>>

\* What the subscriber does to a user's entry when it loses Redis.
Warned(e) == IF e.status \in {"inactive", "error"} THEN e ELSE MarkedDegraded(e)

\* The except branch of the subscriber: it fails to connect, or notices that
\* its connection is gone, and tells the request path at once.  While Redis is
\* down its next attempt is doomed too, and may fail when Redis is back.
SubscriberFails ==
    /\ Serving
    /\ doomed \/ Refused
    /\ doomed' = ~redis
    /\ ping' = "error"
    /\ user' = [u \in Users |-> Warned(user[u])]
    /\ UNCHANGED <<redis, call, probe>>

\* tcp_probe() of a /health request ends in its thread.
ProbeAnswered(p) ==
    /\ Serving
    /\ probe[p] = "none"
    /\ \/ redis /\ probe' = [probe EXCEPT ![p] = "accepted"]
       \/ Refused /\ probe' = [probe EXCEPT ![p] = "refused"]
    /\ UNCHANGED <<redis, doomed, ping, user, call>>

\* Mutant: only a failed probe is recorded.
ProbeRecordedIfRefused(p) ==
    /\ probe[p] # "none"
    /\ ping' = IF probe[p] = "refused" THEN "error" ELSE ping
    /\ probe' = [probe EXCEPT ![p] = "none"]
    /\ UNCHANGED <<redis, doomed, user, call>>

\* Its answer is recorded later, when the event loop gets to it.
ProbeRecorded(p) ==
    /\ probe[p] # "none"
    /\ ping' = IF probe[p] = "accepted" THEN "ok" ELSE "error"
    /\ probe' = [probe EXCEPT ![p] = "none"]
    /\ UNCHANGED <<redis, doomed, user, call>>

\* An outage breaks the subscriber's connection and the calls in flight.  The
\* subscriber runs only once start-up is over.
RedisGoesDown ==
    /\ "redis" \in Faults
    /\ redis
    /\ redis' = FALSE
    /\ doomed' = TRUE
    /\ call' = [u \in Users |-> [c \in Calls |-> IF call[u][c] = "sent" THEN "hit" ELSE call[u][c]]]
    /\ UNCHANGED <<ping, user, probe>>

RedisComesBack ==
    /\ ~redis
    /\ redis' = TRUE
    /\ doomed' = Serving
    /\ UNCHANGED <<ping, user, call, probe>>

-----------------------------------------------------------------------------
Next ==
    \/ \E u \in Users : StartupPing(u) \/ CoolingEnds(u)
    \/ \E u \in Users : \E c \in Calls : StartCall(u, c) \/ CallSucceeds(u, c) \/ CallFails(u, c)
    \/ \E p \in Probes : ProbeAnswered(p) \/ ProbeRecorded(p)
    \/ SubscriberFails
    \/ RedisGoesDown
    \/ RedisComesBack

Spec == Init /\ [][Next]_vars

(***************************************************************************)
(* Fairness.  Start-up goes on, a call in flight is answered or times out, *)
(* a cooldown is a delay and passes, somebody polls /health and its        *)
(* handler runs on.  No request has to come.                               *)
(***************************************************************************)
Fairness ==
    /\ \A u \in Users : WF_vars(StartupPing(u)) /\ WF_vars(CoolingEnds(u))
    /\ \A u \in Users : \A c \in Calls : WF_vars(CallSucceeds(u, c) \/ CallFails(u, c))
    /\ \A p \in Probes : WF_vars(ProbeAnswered(p)) /\ WF_vars(ProbeRecorded(p))

LiveSpec == Spec /\ Fairness

-----------------------------------------------------------------------------
(***************************************************************************)
(* Properties.                                                             *)
(***************************************************************************)

\* The budget holds for concurrent requests as well: between two answered
\* calls a user fails at most MaxFailures times, plus once for each call that
\* was already in flight (rate_limiter.py and redis_log_writer.py count and
\* check without waiting for each other's calls).
Budget == \A u \in Users : user[u].attempts + Cardinality(InFlight(u)) <= MaxFailures + Cardinality(Calls)

\* An inactive user with no call in flight stays so until the process ends:
\* neither a probe, nor the subscriber, nor Redis coming back re-arms it, nor
\* is it used again.  main.py says of a component that Redis did not answer
\* that it is updated when it is used ("sera atualizado quando for usado").
InactiveIsFinal ==
    [][\A u \in Users : Inactive(u) /\ InFlight(u) = {} => Inactive(u)' /\ InFlight(u)' = {}]_vars

\* An operation that a reachable Redis should have answered fails.
LinkFault ==
    /\ redis
    /\ \/ \E u \in Users : \E c \in Calls : call[u][c] = "sent" /\ CallFails(u, c)
       \/ ~doomed /\ SubscriberFails
       \/ \E p \in Probes : ProbeAnswered(p) /\ probe'[p] = "refused"

\* If Redis stays up and its links hold, the shared flag and the cooldowns
\* stop holding a user back, however old answers of probes and dying calls
\* are recorded; only its own inactivity can.
HeldBackOnlyIfInactive ==
    <>[]redis /\ <>[][~LinkFault]_vars =>
        \A u \in Users : <>[](ShortCircuited(u) => Inactive(u))
=============================================================================
