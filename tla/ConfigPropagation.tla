-------------------------- MODULE ConfigPropagation --------------------------
(***************************************************************************)
(* How an administrative change reaches the gateway.                       *)
(*                                                                         *)
(*  - An admin HTTP request opens one PostgreSQL transaction for the whole *)
(*    request, writes, announces the change on a Redis Pub/Sub channel and *)
(*    only then, when the request dependency is closed, commits.           *)
(*  - The gateway serves from an in-memory snapshot of four tables.  It    *)
(*    loads it at start-up and reloads it for every message its subscriber *)
(*    task receives; a load is four SELECTs, each seeing what is committed *)
(*    at that moment, and one assignment without a suspension point.       *)
(*  - The subscriber task reconnects a bounded number of times, then ends; *)
(*    a successful Redis probe of /health starts a new one.                *)
(*                                                                         *)
(* A table is represented by its version: how many committed transactions  *)
(* changed it.  A message is represented by the versions committed when it *)
(* was published: the program sends the constant "updated", so the tag is  *)
(* only used to state properties.  Time is abstracted: a timeout, a sleep  *)
(* or a cooldown may end at any moment.                                    *)
(***************************************************************************)
EXTENDS Naturals, Sequences, FiniteSets

CONSTANTS
    Requests,       \* admin HTTP requests that may be open at the same time
    Tasks,          \* identities for subscriber tasks
    Startup,        \* the loader that runs in the gateway's lifespan start-up
    MaxRetries,     \* settings.redis_subscriber_max_retries
    OpNames,        \* the administrative operations a run explores
    Faults,         \* the kinds of fault a run injects
    MaxVersion,     \* bound on the commits that change one table
    MaxInbox        \* bound on unread messages when a request starts

FaultKinds == {"redis", "link", "postgres", "gateway"}

\* The tables of the snapshot, in the order load() reads them.
TenantDomains  == 1
Routes         == 2
Policies       == 3
DomainPolicies == 4
Tables == 1..4

(***************************************************************************)
(* The administrative operations that change those tables, with the ones   *)
(* each writes, foreign-key cascades included.  All of them announce.      *)
(* Deleting a tenant is not here: it would cascade to two of these tables  *)
(* and does not announce, but its transaction never commits, because the   *)
(* change-audit row it inserts references the tenant it has just deleted.  *)
(***************************************************************************)
Operation ==
    [ SaveRoute          |-> {Routes},
      DeleteRoute        |-> {Routes, Policies},
      SavePolicy         |-> {Policies},
      DeletePolicy       |-> {Policies},
      CreateDomain       |-> {TenantDomains},
      DeleteDomain       |-> {TenantDomains, DomainPolicies},
      SaveDomainPolicy   |-> {DomainPolicies},
      DeleteDomainPolicy |-> {DomainPolicies} ]

ASSUME RetriesAssumption == MaxRetries \in Nat \ {0}
ASSUME LoadersAssumption == Startup \notin Tasks
ASSUME OpsAssumption     == OpNames \subseteq DOMAIN Operation
ASSUME FaultsAssumption  == Faults \subseteq FaultKinds

Loaders  == Tasks \cup {Startup}
Versions == [Tables -> Nat]
NoVersion == [t \in Tables |-> 0]

Covers(a, b) == \A t \in Tables : b[t] <= a[t]

VARIABLES
    db,         \* committed versions of the tables
    request,    \* request[r]: where an admin request is, and its operation
    redis,      \* TRUE while Redis answers
    probed,     \* a /health request has its Redis answer and has not gone on
    tripped,    \* the notifier failed since its last success: it may skip
    gateway,    \* "down", "loading" (lifespan start-up) or "up"
    current,    \* app.state.subscriber_task
    pc,         \* pc[k]: control point of subscriber task k
    attempt,    \* attempt[k]: its reconnection counter
    connected,  \* connected[k]: its subscription is live in Redis
    inbox,      \* inbox[k]: messages delivered to it and not yet read
    handling,   \* handling[k]: the message whose reload is in progress
    step,       \* step[x]: how many tables loader x has read
    loaded,     \* loaded[x]: the versions it has read
    pubsub,     \* status of "redis_pubsub" in the dependency registry
    reload,     \* status of "snapshot_reload" in the dependency registry
    snapshot,   \* versions in the snapshot being served
    promised    \* versions that messages already handled stand for

adminVars == <<db, request, tripped>>
redisVars == <<redis, probed>>
taskVars  == <<pc, attempt, connected, inbox, handling>>
loadVars  == <<step, loaded>>
stateVars == <<gateway, current, pubsub, reload, snapshot, promised>>
vars == <<db, request, tripped, redis, probed, gateway, current, pc, attempt,
          connected, inbox, handling, step, loaded, pubsub, reload,
          snapshot, promised>>

Idle == [at |-> "idle", op |-> "none"]
RequestState == {Idle} \cup [at : {"written", "announced"}, op : OpNames]

TypeOK ==
    /\ db \in Versions
    /\ request \in [Requests -> RequestState]
    /\ redis \in BOOLEAN
    /\ probed \in BOOLEAN
    /\ tripped \in BOOLEAN
    /\ gateway \in {"down", "loading", "up"}
    /\ current \in Tasks
    /\ pc \in [Tasks -> {"done", "start", "connecting", "listening",
                         "reloading", "backoff", "closing"}]
    /\ attempt \in [Tasks -> 0..MaxRetries]
    /\ connected \in [Tasks -> BOOLEAN]
    /\ inbox \in [Tasks -> Seq(Versions)]
    /\ handling \in [Tasks -> Versions]
    /\ step \in [Loaders -> 0..4]
    /\ loaded \in [Loaders -> Versions]
    /\ pubsub \in {"unknown", "ok", "degraded", "error", "inactive"}
    /\ reload \in {"unknown", "error"}
    /\ snapshot \in Versions
    /\ promised \in Versions

Init ==
    /\ db = NoVersion
    /\ request = [r \in Requests |-> Idle]
    /\ redis = TRUE
    /\ probed = FALSE
    /\ tripped = FALSE
    /\ gateway = "down"
    /\ current \in Tasks
    /\ pc = [k \in Tasks |-> "done"]
    /\ attempt = [k \in Tasks |-> 0]
    /\ connected = [k \in Tasks |-> FALSE]
    /\ inbox = [k \in Tasks |-> <<>>]
    /\ handling = [k \in Tasks |-> NoVersion]
    /\ step = [x \in Loaders |-> 0]
    /\ loaded = [x \in Loaders |-> NoVersion]
    /\ pubsub = "unknown"
    /\ reload = "unknown"
    /\ snapshot = NoVersion
    /\ promised = NoVersion

-----------------------------------------------------------------------------
(***************************************************************************)
(* An admin request.                                                       *)
(***************************************************************************)
Writes(r) == Operation[request[r].op]

\* Bounds: no table changes more than MaxVersion times, and requests start
\* while no task has more than MaxInbox unread messages.
WithinBound(o) ==
    /\ \A k \in Tasks : Len(inbox[k]) <= MaxInbox
    /\ \A t \in Operation[o] :
           db[t] + Cardinality({q \in Requests : request[q] # Idle /\ t \in Writes(q)})
               < MaxVersion

\* The use case's checks passed and its repository flushed the change into
\* the request's open transaction.
AdminWrite(r, o) ==
    /\ request[r] = Idle
    /\ WithinBound(o)
    /\ request' = [request EXCEPT ![r] = [at |-> "written", op |-> o]]
    /\ UNCHANGED <<db, tripped, redisVars, stateVars, taskVars, loadVars>>

\* Everyone subscribed at this moment gets the message; nobody else ever will.
Delivered == [k \in Tasks |-> IF connected[k] THEN Append(inbox[k], db) ELSE inbox[k]]

Announces(r) ==
    /\ request[r].at = "written"
    /\ request' = [request EXCEPT ![r] = [at |-> "announced", op |-> request[r].op]]
    /\ UNCHANGED <<db, redisVars, stateVars, loadVars, pc, attempt, connected, handling>>

\* notify_config_updated(): PUBLISH answered.
PublishDelivered(r) ==
    /\ Announces(r)
    /\ redis
    /\ inbox' = Delivered
    /\ tripped' = FALSE

\* notify_config_updated(): PUBLISH raised.  The use case goes on.  When only
\* the answer was late, the message may have been delivered all the same.
PublishFailed(r) ==
    /\ Announces(r)
    /\ \/ ~redis /\ UNCHANGED inbox
       \/ redis /\ "link" \in Faults /\ inbox' \in {inbox, Delivered}
    /\ tripped' = TRUE

\* notify_config_updated(): the circuit breaker is open, Redis is not asked.
PublishSkipped(r) ==
    /\ Announces(r)
    /\ tripped
    /\ UNCHANGED <<inbox, tripped>>

\* The request dependency is closed: session.begin() commits.
AdminCommit(r) ==
    /\ request[r].at = "announced"
    /\ db' = [t \in Tables |-> IF t \in Writes(r) THEN db[t] + 1 ELSE db[t]]
    /\ request' = [request EXCEPT ![r] = Idle]
    /\ UNCHANGED <<tripped, redisVars, stateVars, taskVars, loadVars>>

\* An exception after the write, or a COMMIT that fails, rolls back.
AdminRollback(r) ==
    /\ "postgres" \in Faults
    /\ request[r] # Idle
    /\ request' = [request EXCEPT ![r] = Idle]
    /\ UNCHANGED <<db, tripped, redisVars, stateVars, taskVars, loadVars>>

-----------------------------------------------------------------------------
(***************************************************************************)
(* Loading a snapshot: shared by start-up and by every reload.             *)
(***************************************************************************)
Loading(x) == IF x = Startup THEN gateway = "loading" ELSE pc[x] = "reloading"

\* Mutant: a SELECT sees changes that are not committed yet.
ReadTableDirty(x) ==
    LET t == step[x] + 1
        open == {r \in Requests : request[r] # Idle /\ t \in Writes(r)}
    IN  /\ Loading(x)
        /\ step[x] < 4
        /\ step' = [step EXCEPT ![x] = t]
        /\ loaded' = [loaded EXCEPT ![x][t] = db[t] + Cardinality(open)]
        /\ UNCHANGED <<adminVars, redisVars, stateVars, taskVars>>

\* The next SELECT of load().  READ COMMITTED: it sees what is committed now.
ReadTable(x) ==
    /\ Loading(x)
    /\ step[x] < 4
    /\ step' = [step EXCEPT ![x] = @ + 1]
    /\ loaded' = [loaded EXCEPT ![x][step[x] + 1] = db[step[x] + 1]]
    /\ UNCHANGED <<adminVars, redisVars, stateVars, taskVars>>

\* Mutant: a load that keeps what it has read for the next one.
LoadEndsCached(x) == UNCHANGED <<step, loaded>>

\* The loader's local variables are gone once load() returns or raises.
LoadEnds(x) ==
    /\ step' = [step EXCEPT ![x] = 0]
    /\ loaded' = [loaded EXCEPT ![x] = NoVersion]

-----------------------------------------------------------------------------
(***************************************************************************)
(* listen_for_config_updates(): the subscriber task.                       *)
(***************************************************************************)
GoTo(k, there) == pc' = [pc EXCEPT ![k] = there]

\* Top of the outer loop, on the first iteration or after the sleep.
Connect(k) ==
    /\ pc[k] \in {"start", "backoff"}
    /\ GoTo(k, "connecting")
    /\ attempt' = [attempt EXCEPT ![k] = @ + 1]
    /\ pubsub' = "degraded"
    /\ UNCHANGED <<adminVars, redisVars, connected, inbox, handling, loadVars,
                   gateway, current, reload, snapshot, promised>>

\* Probe, PING and SUBSCRIBE succeeded.  Nothing is reloaded here: what was
\* published while the task was away is not made up for.
Subscribe(k) ==
    /\ pc[k] = "connecting"
    /\ redis
    /\ GoTo(k, "listening")
    /\ attempt' = [attempt EXCEPT ![k] = 0]
    /\ connected' = [connected EXCEPT ![k] = TRUE]
    /\ pubsub' = "ok"
    /\ UNCHANGED <<adminVars, redisVars, inbox, handling, loadVars,
                   gateway, current, reload, snapshot, promised>>

\* get_message() returned an update; on_update() starts.
TakeMessage(k) ==
    /\ pc[k] = "listening"
    /\ inbox[k] # <<>>
    /\ GoTo(k, "reloading")
    /\ handling' = [handling EXCEPT ![k] = Head(inbox[k])]
    /\ inbox' = [inbox EXCEPT ![k] = Tail(@)]
    /\ UNCHANGED <<adminVars, redisVars, attempt, connected, loadVars, stateVars>>

\* The last row is read; the dictionaries are assigned in one go.
ReloadDone(k) ==
    /\ pc[k] = "reloading"
    /\ step[k] = 4
    /\ GoTo(k, "listening")
    /\ snapshot' = loaded[k]
    /\ promised' = [t \in Tables |-> IF promised[t] < handling[k][t]
                                       THEN handling[k][t] ELSE promised[t]]
    /\ handling' = [handling EXCEPT ![k] = NoVersion]
    /\ pubsub' = "ok"
    /\ LoadEnds(k)
    /\ UNCHANGED <<adminVars, redisVars, attempt, connected, inbox,
                   gateway, current, reload>>

\* on_update() raised: the old snapshot stays, the message is spent, and
\* "snapshot_reload" turns to error for the rest of the process.
ReloadFails(k) ==
    /\ "postgres" \in Faults
    /\ pc[k] = "reloading"
    /\ GoTo(k, "listening")
    /\ handling' = [handling EXCEPT ![k] = NoVersion]
    /\ reload' = "error"
    /\ LoadEnds(k)
    /\ UNCHANGED <<adminVars, redisVars, attempt, connected, inbox,
                   gateway, current, pubsub, snapshot, promised>>

\* Connecting failed, or reading or the idle PING met a dead connection.
Broken(k) ==
    \/ pc[k] = "connecting" /\ (~redis \/ "link" \in Faults)
    \/ pc[k] = "listening" /\ ~connected[k]

\* Mutant: the retry budget is never checked.
TaskFailsForever(k) ==
    /\ Broken(k)
    /\ connected' = [connected EXCEPT ![k] = FALSE]
    /\ inbox' = [inbox EXCEPT ![k] = <<>>]
    /\ GoTo(k, "backoff")
    /\ pubsub' = "error"
    /\ UNCHANGED <<adminVars, redisVars, attempt, handling, loadVars,
                   gateway, current, reload, snapshot, promised>>

\* Mutant: the failure is not recorded in the registry.
TaskFailsSilently(k) ==
    /\ Broken(k)
    /\ connected' = [connected EXCEPT ![k] = FALSE]
    /\ inbox' = [inbox EXCEPT ![k] = <<>>]
    /\ GoTo(k, IF attempt[k] >= MaxRetries THEN "closing" ELSE "backoff")
    /\ UNCHANGED <<adminVars, redisVars, attempt, handling, loadVars,
                   gateway, current, pubsub, reload, snapshot, promised>>

\* The except branch: back off, or give up once the budget is spent.  The
\* connection and what it had received are dropped.
TaskFails(k) ==
    /\ Broken(k)
    /\ connected' = [connected EXCEPT ![k] = FALSE]
    /\ inbox' = [inbox EXCEPT ![k] = <<>>]
    /\ IF attempt[k] >= MaxRetries
       THEN /\ GoTo(k, "closing")
            /\ pubsub' = "inactive"
       ELSE /\ GoTo(k, "backoff")
            /\ pubsub' = "error"
    /\ UNCHANGED <<adminVars, redisVars, attempt, handling, loadVars,
                   gateway, current, reload, snapshot, promised>>

\* The finally block of a task that gave up has closed its connections.
TaskEnds(k) ==
    /\ pc[k] = "closing"
    /\ GoTo(k, "done")
    /\ attempt' = [attempt EXCEPT ![k] = 0]
    /\ UNCHANGED <<adminVars, redisVars, connected, inbox, handling, loadVars, stateVars>>

\* _new_subscriber_task(): asyncio.create_task on a fresh task.
NewTask(k) ==
    /\ pc[k] = "done"
    /\ GoTo(k, "start")
    /\ current' = k
    /\ pubsub' = "degraded"
    /\ UNCHANGED <<attempt, connected, inbox, handling>>

\* Mutant: a task that is still running does not stop a restart.
RestartByStatusAlone == pubsub \in {"inactive", "error", "unknown", "degraded"}

\* Mutant: "inactive" is taken for final.
RestartUnlessInactive ==
    /\ pc[current] = "done"
    /\ pubsub \in {"error", "unknown", "degraded"}

\* restart_redis_subscriber_if_needed() goes past its early returns.
RestartNeeded ==
    /\ pc[current] = "done"
    /\ pubsub \in {"inactive", "error", "unknown", "degraded"}

\* _redis_ping(): the probe of a /health request succeeds.  The request goes
\* on later; by then Redis or the subscriber task may have changed.
ProbeSucceeds ==
    /\ gateway = "up"
    /\ redis
    /\ ~probed
    /\ probed' = TRUE
    /\ UNCHANGED <<adminVars, redis, taskVars, loadVars, stateVars>>

\* ... and restarts the subscriber, without a suspension point in between.
ProbeRestarts(k) ==
    /\ probed
    /\ RestartNeeded
    /\ NewTask(k)
    /\ probed' = FALSE
    /\ UNCHANGED <<adminVars, redis, loadVars, gateway, reload, snapshot, promised>>

ProbeLeaves ==
    /\ probed
    /\ ~RestartNeeded
    /\ probed' = FALSE
    /\ UNCHANGED <<adminVars, redis, taskVars, loadVars, stateVars>>

-----------------------------------------------------------------------------
(***************************************************************************)
(* The gateway process, Redis and the network.                             *)
(***************************************************************************)
GatewayBoots ==
    /\ gateway = "down"
    /\ gateway' = "loading"
    /\ pubsub' = "unknown"
    /\ reload' = "unknown"
    /\ UNCHANGED <<adminVars, redisVars, taskVars, loadVars, current, snapshot, promised>>

\* The snapshot is assigned and the first subscriber task is created: it
\* subscribes only later, so a change announced in between is not heard.
StartupDone(k) ==
    /\ gateway = "loading"
    /\ step[Startup] = 4
    /\ gateway' = "up"
    /\ snapshot' = loaded[Startup]
    /\ LoadEnds(Startup)
    /\ NewTask(k)
    /\ UNCHANGED <<adminVars, redisVars, reload, promised>>

\* The load raised: the lifespan raises too and the process ends.
StartupFails ==
    /\ "postgres" \in Faults
    /\ gateway = "loading"
    /\ gateway' = "down"
    /\ LoadEnds(Startup)
    /\ UNCHANGED <<adminVars, redisVars, taskVars, current, pubsub, reload, snapshot, promised>>

\* The process is stopped or killed; everything it held in memory is gone.
GatewayStops ==
    /\ "gateway" \in Faults
    /\ gateway # "down"
    /\ gateway' = "down"
    /\ pc' = [k \in Tasks |-> "done"]
    /\ attempt' = [k \in Tasks |-> 0]
    /\ connected' = [k \in Tasks |-> FALSE]
    /\ inbox' = [k \in Tasks |-> <<>>]
    /\ handling' = [k \in Tasks |-> NoVersion]
    /\ step' = [x \in Loaders |-> 0]
    /\ loaded' = [x \in Loaders |-> NoVersion]
    /\ pubsub' = "unknown"
    /\ reload' = "unknown"
    /\ probed' = FALSE
    /\ UNCHANGED <<adminVars, redis, current, snapshot, promised>>

RedisGoesDown ==
    /\ "redis" \in Faults
    /\ redis
    /\ redis' = FALSE
    /\ connected' = [k \in Tasks |-> FALSE]
    /\ UNCHANGED <<adminVars, probed, pc, attempt, inbox, handling, loadVars, stateVars>>

RedisComesBack ==
    /\ ~redis
    /\ redis' = TRUE
    /\ UNCHANGED <<adminVars, probed, taskVars, loadVars, stateVars>>

\* One connection is lost while Redis stays up.
LinkDrops(k) ==
    /\ "link" \in Faults
    /\ connected[k]
    /\ connected' = [connected EXCEPT ![k] = FALSE]
    /\ UNCHANGED <<adminVars, redisVars, pc, attempt, inbox, handling, loadVars, stateVars>>

-----------------------------------------------------------------------------
Admin(r) ==
    \/ \E o \in OpNames : AdminWrite(r, o)
    \/ PublishDelivered(r)
    \/ PublishFailed(r)
    \/ PublishSkipped(r)
    \/ AdminCommit(r)
    \/ AdminRollback(r)

Subscriber(k) ==
    \/ Connect(k)
    \/ Subscribe(k)
    \/ TakeMessage(k)
    \/ ReloadDone(k)
    \/ ReloadFails(k)
    \/ TaskFails(k)
    \/ TaskEnds(k)

\* Redis and the network change, or a probe that restarts nothing goes by.
Network ==
    \/ RedisGoesDown
    \/ RedisComesBack
    \/ \E k \in Tasks : LinkDrops(k)
    \/ ProbeSucceeds
    \/ ProbeLeaves

Next ==
    \/ \E r \in Requests : Admin(r)
    \/ \E k \in Tasks : Subscriber(k) \/ ProbeRestarts(k) \/ StartupDone(k)
    \/ \E x \in Loaders : ReadTable(x)
    \/ GatewayBoots
    \/ StartupFails
    \/ GatewayStops
    \/ Network

Spec == Init /\ [][Next]_vars

(***************************************************************************)
(* Fairness.  The event loop runs a task that can go on, a load that can   *)
(* read its next table and the end of start-up; the process supervisor     *)
(* starts the gateway; somebody polls /health.  Nothing is assumed of the  *)
(* faults or of the administrators.                                        *)
(***************************************************************************)
Fairness ==
    /\ \A k \in Tasks : WF_vars(Subscriber(k))
    /\ \A x \in Loaders : WF_vars(ReadTable(x))
    /\ WF_vars(\E k \in Tasks : StartupDone(k))
    /\ WF_vars(ProbeSucceeds)
    /\ WF_vars(\E k \in Tasks : ProbeRestarts(k))
    /\ WF_vars(ProbeLeaves)
    /\ WF_vars(GatewayBoots)

LiveSpec == Spec /\ Fairness

-----------------------------------------------------------------------------
(***************************************************************************)
(* Properties.                                                             *)
(***************************************************************************)

\* Once the message of a change has been handled (redis_subscriber.py, the
\* on_update() call), the served snapshot holds everything that had been
\* committed when the message was published, whatever was lost, retried or
\* reloaded in between.
HandledIsServed == Covers(snapshot, promised)

\* At most one subscriber task is alive in a gateway process, and it is the
\* one in app.state, however health probes and dying tasks interleave.
SingleSubscriber == \A k \in Tasks : pc[k] # "done" => k = current

\* The registry says "ok" of redis_pubsub only while a task is past its
\* SUBSCRIBE and has not failed since.
OkMeansSubscribed == pubsub = "ok" => pc[current] \in {"listening", "reloading"}

\* A gateway whose subscriber has ended is always in a state from which a
\* health probe starts a new one: it is never deaf for good.
EndedCanRestart == gateway = "up" /\ pc[current] = "done" => RestartNeeded

\* The snapshot implements the abstract cache: versions that were committed,
\* table by table, and never an older one than before, across reloads and
\* restarts of the process.
Cache == INSTANCE SnapshotCache WITH Tables <- Tables, db <- db, snapshot <- snapshot
CacheSpec == Cache!Spec

\* A fault that keeps the gateway from serving or its subscriber from
\* listening although Redis is up.
Disturbed ==
    \/ \E k \in Tasks : LinkDrops(k) \/ (redis /\ pc[k] = "connecting" /\ TaskFails(k))
    \/ StartupFails
    \/ GatewayStops

\* If Redis stays up and the other faults cease from some point on, the
\* gateway ends up subscribed and stays so, whatever happened before, even if
\* every retry had been spent: "a proxima resposta OK do Redis no healthcheck
\* reativara a mensageria" (redis_subscriber.py).
Listening == \E k \in Tasks : pc[k] \in {"listening", "reloading"} /\ connected[k]
SubscriberRecovers == <>[]redis /\ <>[][~Disturbed]_vars => <>[]Listening

\* A message that reached the subscriber's connection leads to a snapshot
\* with what was committed when it was published, unless the connection dies
\* or a reload failed; then the registry says so: no message is lost in
\* silence once it was received.
Received(t, n) == \E k \in Tasks : \E i \in 1..Len(inbox[k]) : inbox[k][i][t] >= n
DeliveredIsServed ==
    \A o \in OpNames : \A t \in Operation[o] : \A n \in 1..MaxVersion :
        Received(t, n) ~>
            (snapshot[t] >= n \/ (\A k \in Tasks : ~connected[k]) \/ reload = "error")

\* NOT a property of this code (see the run that refutes it): when nothing
\* failed, every request is over and every message is handled, the snapshot
\* is what PostgreSQL holds.
Quiet ==
    /\ gateway = "up"
    /\ \A r \in Requests : request[r] = Idle
    /\ pc[current] = "listening"
    /\ connected[current]
    /\ inbox[current] = <<>>
FreshWhenQuiet == Quiet => snapshot = db
=============================================================================
