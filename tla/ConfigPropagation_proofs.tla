----------------------- MODULE ConfigPropagation_proofs -----------------------
(***************************************************************************)
(* Proofs about ConfigPropagation, for every set of requests and tasks,    *)
(* every retry budget, every set of operations and faults, and every value *)
(* of the two bounds.                                                      *)
(***************************************************************************)
EXTENDS ConfigPropagation, TLAPS

(***************************************************************************)
(* The inductive invariant.                                                *)
(***************************************************************************)

\* A task about to connect has an attempt left; one that ended left none used.
Budget ==
    \A k \in Tasks :
        /\ pc[k] \in {"done", "start"} => attempt[k] = 0
        /\ pc[k] = "backoff" => attempt[k] < MaxRetries

\* A living task is the one in app.state, of a process that is up; so is the
\* process of a probe that has not gone on.
Alive ==
    /\ \A k \in Tasks : pc[k] # "done" => k = current /\ gateway = "up"
    /\ probed => gateway = "up"

\* A load starts from its first table.
FreshLoad == \A x \in Loaders : ~Loading(x) => step[x] = 0

\* What was promised is served, and what is served was committed.
Served ==
    \A t \in Tables : promised[t] <= snapshot[t] /\ snapshot[t] <= db[t]

\* What a load has read was committed and is not older than what is served.
Reads ==
    \A x \in Loaders : Loading(x) =>
        \A t \in 1..step[x] :
            snapshot[t] <= loaded[x][t] /\ loaded[x][t] <= db[t]

\* A message stands for versions that were committed.
Tags ==
    \A k \in Tasks :
        /\ Covers(db, handling[k])
        /\ \A i \in 1..Len(inbox[k]) : Covers(db, inbox[k][i])

\* What a reload has read covers the message that asked for it.
Answers ==
    \A k \in Tasks : pc[k] = "reloading" =>
        \A t \in 1..step[k] : handling[k][t] <= loaded[k][t]

IInv ==
    /\ TypeOK
    /\ Budget
    /\ Alive
    /\ FreshLoad
    /\ Served
    /\ Reads
    /\ Tags
    /\ Answers
    /\ OkMeansSubscribed

(***************************************************************************)
(* Type correctness.                                                       *)
(***************************************************************************)
LEMMA NoVersionType == NoVersion \in Versions
  BY DEF NoVersion, Versions

LEMMA InitType == Init => TypeOK
<1> SUFFICES ASSUME Init PROVE TypeOK
  OBVIOUS
<1>1. db \in Versions /\ snapshot \in Versions /\ promised \in Versions
  BY NoVersionType DEF Init
<1>2. handling \in [Tasks -> Versions] /\ loaded \in [Loaders -> Versions]
  BY NoVersionType DEF Init
<1>3. inbox \in [Tasks -> Seq(Versions)]
  <2>1. <<>> \in Seq(Versions)
    OBVIOUS
  <2>2. QED
    BY <2>1 DEF Init
<1>4. attempt \in [Tasks -> 0..MaxRetries]
  BY RetriesAssumption DEF Init
<1>5. request \in [Requests -> RequestState]
  BY DEF Init, RequestState
<1>6. step \in [Loaders -> 0..4]
  BY DEF Init
<1>7. QED
  BY <1>1, <1>2, <1>3, <1>4, <1>5, <1>6 DEF Init, TypeOK

LEMMA LoadEndsType ==
  ASSUME TypeOK, NEW x \in Loaders, LoadEnds(x)
  PROVE  step' \in [Loaders -> 0..4] /\ loaded' \in [Loaders -> Versions]
<1>1. 0 \in 0..4
  OBVIOUS
<1>2. step' \in [Loaders -> 0..4]
  BY <1>1 DEF TypeOK, LoadEnds
<1>3. QED
  BY <1>2, NoVersionType DEF TypeOK, LoadEnds

LEMMA AdminType ==
  ASSUME TypeOK, NEW r \in Requests, Admin(r)
  PROVE  TypeOK'
<1> USE DEF TypeOK, redisVars, adminVars, taskVars, loadVars, stateVars
<1>1. ASSUME NEW o \in OpNames, AdminWrite(r, o)
      PROVE  TypeOK'
  BY <1>1 DEF AdminWrite, RequestState
<1>2. ASSUME Announces(r)
      PROVE  request' \in [Requests -> RequestState]
  BY <1>2 DEF Announces, RequestState, Idle
<1>3. Delivered \in [Tasks -> Seq(Versions)]
  BY DEF Delivered
<1>4. CASE PublishDelivered(r)
  BY <1>2, <1>3, <1>4 DEF PublishDelivered, Announces
<1>5. CASE PublishFailed(r)
  BY <1>2, <1>3, <1>5 DEF PublishFailed, Announces
<1>6. CASE PublishSkipped(r)
  BY <1>2, <1>6 DEF PublishSkipped, Announces
<1>7. CASE AdminCommit(r)
  <2>1. db' \in Versions
    BY <1>7 DEF AdminCommit, Versions
  <2>2. request' \in [Requests -> RequestState]
    BY <1>7 DEF AdminCommit, RequestState
  <2>3. QED
    BY <1>7, <2>1, <2>2 DEF AdminCommit
<1>8. CASE AdminRollback(r)
  BY <1>8 DEF AdminRollback, RequestState
<1>9. QED
  BY <1>1, <1>4, <1>5, <1>6, <1>7, <1>8 DEF Admin

LEMMA SubscriberType ==
  ASSUME TypeOK, Budget, NEW k \in Tasks, Subscriber(k)
  PROVE  TypeOK'
<1> USE DEF TypeOK, redisVars, adminVars, taskVars, loadVars, stateVars, GoTo
<1>0. k \in Loaders
  BY DEF Loaders
<1>1. CASE Connect(k)
  <2>1. attempt[k] \in 0..MaxRetries /\ attempt[k] < MaxRetries
    BY <1>1, RetriesAssumption DEF Connect, Budget
  <2>2. attempt' \in [Tasks -> 0..MaxRetries]
    BY <1>1, <2>1, RetriesAssumption DEF Connect
  <2>3. QED
    BY <1>1, <2>2 DEF Connect
<1>2. CASE Subscribe(k)
  BY <1>2, RetriesAssumption DEF Subscribe
<1>3. CASE TakeMessage(k)
  BY <1>3 DEF TakeMessage
<1>4. CASE ReloadDone(k)
  <2>1. snapshot' \in Versions
    BY <1>0, <1>4 DEF ReloadDone
  <2>2. handling' \in [Tasks -> Versions]
    BY <1>4, NoVersionType DEF ReloadDone
  <2>3. promised' \in Versions
    BY <1>4 DEF ReloadDone, Versions
  <2>4. step' \in [Loaders -> 0..4] /\ loaded' \in [Loaders -> Versions]
    BY <1>0, <1>4, LoadEndsType DEF ReloadDone
  <2>5. QED
    BY <1>4, <2>1, <2>2, <2>3, <2>4 DEF ReloadDone
<1>5. CASE ReloadFails(k)
  <2>1. step' \in [Loaders -> 0..4] /\ loaded' \in [Loaders -> Versions]
    BY <1>0, <1>5, LoadEndsType DEF ReloadFails
  <2>2. handling' \in [Tasks -> Versions]
    BY <1>5, NoVersionType DEF ReloadFails
  <2>3. QED
    BY <1>5, <2>1, <2>2 DEF ReloadFails
<1>6. CASE TaskFails(k)
  <2>1. inbox' \in [Tasks -> Seq(Versions)]
    <3>1. <<>> \in Seq(Versions)
      OBVIOUS
    <3>2. QED
      BY <1>6, <3>1 DEF TaskFails
  <2>2. pc' \in [Tasks -> {"done", "start", "connecting", "listening",
                           "reloading", "backoff", "closing"}]
    BY <1>6 DEF TaskFails
  <2>3. pubsub' \in {"error", "inactive"}
    BY <1>6 DEF TaskFails
  <2>4. QED
    BY <1>6, <2>1, <2>2, <2>3 DEF TaskFails
<1>7. CASE TaskEnds(k)
  BY <1>7, RetriesAssumption DEF TaskEnds
<1>8. QED
  BY <1>1, <1>2, <1>3, <1>4, <1>5, <1>6, <1>7 DEF Subscriber

LEMMA LoadType ==
  ASSUME TypeOK, NEW x \in Loaders, ReadTable(x)
  PROVE  TypeOK'
<1> USE DEF TypeOK, redisVars, adminVars, taskVars, stateVars, ReadTable
<1>1. step[x] \in 0..3 /\ step[x] + 1 \in Tables
  BY DEF Tables
<1>2. step' \in [Loaders -> 0..4]
  BY <1>1
<1>3. loaded' \in [Loaders -> Versions]
  BY <1>1 DEF Versions
<1>4. QED
  BY <1>2, <1>3

LEMMA GatewayType ==
  ASSUME TypeOK,
         \/ GatewayBoots
         \/ StartupFails
         \/ GatewayStops
         \/ \E k \in Tasks : StartupDone(k) \/ ProbeRestarts(k)
  PROVE  TypeOK'
<1> USE NoVersionType DEF TypeOK, redisVars, adminVars, taskVars, loadVars, NewTask, GoTo
<1>0. Startup \in Loaders
  BY DEF Loaders
<1>1. CASE GatewayBoots
  BY <1>1 DEF GatewayBoots
<1>2. CASE StartupFails
  BY <1>0, <1>2, LoadEndsType DEF StartupFails
<1>3. CASE GatewayStops
  <2>1. inbox' \in [Tasks -> Seq(Versions)]
    <3>1. <<>> \in Seq(Versions)
      OBVIOUS
    <3>2. QED
      BY <1>3, <3>1 DEF GatewayStops
  <2>2. attempt' \in [Tasks -> 0..MaxRetries]
    BY <1>3, RetriesAssumption DEF GatewayStops
  <2>3. step' \in [Loaders -> 0..4] /\ loaded' \in [Loaders -> Versions]
    BY <1>3 DEF GatewayStops
  <2>4. handling' \in [Tasks -> Versions]
    BY <1>3 DEF GatewayStops
  <2>5. QED
    BY <1>3, <2>1, <2>2, <2>3, <2>4 DEF GatewayStops
<1>4. ASSUME NEW k \in Tasks, StartupDone(k)
      PROVE  TypeOK'
  BY <1>0, <1>4, LoadEndsType DEF StartupDone
<1>5. ASSUME NEW k \in Tasks, ProbeRestarts(k)
      PROVE  TypeOK'
  BY <1>5 DEF ProbeRestarts
<1>6. QED
  BY <1>1, <1>2, <1>3, <1>4, <1>5

LEMMA NetworkType ==
  ASSUME TypeOK, Network
  PROVE  TypeOK'
  BY DEF TypeOK, redisVars, adminVars, taskVars, loadVars, stateVars, Network,
         RedisGoesDown, RedisComesBack, LinkDrops, ProbeSucceeds, ProbeLeaves

LEMMA TypeStep ==
  ASSUME TypeOK, Budget, [Next]_vars
  PROVE  TypeOK'
<1>1. CASE UNCHANGED vars
  BY <1>1 DEF TypeOK, vars
<1>2. CASE Next
  BY <1>2, AdminType, SubscriberType, LoadType, GatewayType, NetworkType DEF Next
<1>3. QED
  BY <1>1, <1>2

(***************************************************************************)
(* What whole groups of actions leave alone.                               *)
(***************************************************************************)
LEMMA AdminFrame ==
  ASSUME NEW r \in Requests, Admin(r)
  PROVE  UNCHANGED <<redisVars, stateVars, loadVars, pc, attempt, connected, handling>>
  BY DEF Admin, AdminWrite, PublishDelivered, PublishFailed, PublishSkipped,
         AdminCommit, AdminRollback, Announces, taskVars

LEMMA NetworkFrame ==
  ASSUME Network
  PROVE  UNCHANGED <<adminVars, pc, attempt, inbox, handling, loadVars, stateVars>>
  BY DEF Network, RedisGoesDown, RedisComesBack, LinkDrops,
         ProbeSucceeds, ProbeLeaves, taskVars

LEMMA SubscriberFrame ==
  ASSUME TypeOK, NEW k \in Tasks, Subscriber(k)
  PROVE  /\ UNCHANGED <<adminVars, redisVars, gateway, current>>
         /\ pc[k] # "done"
         /\ \A j \in Tasks \ {k} : pc'[j] = pc[j]
<1> USE DEF TypeOK, GoTo
<1>1. CASE Connect(k) \/ Subscribe(k)
  BY <1>1 DEF Connect, Subscribe
<1>2. CASE TakeMessage(k)
  BY <1>2 DEF TakeMessage, stateVars
<1>3. CASE ReloadDone(k) \/ ReloadFails(k)
  BY <1>3 DEF ReloadDone, ReloadFails
<1>4. CASE TaskFails(k)
  BY <1>4 DEF TaskFails, Broken
<1>5. CASE TaskEnds(k)
  BY <1>5 DEF TaskEnds, stateVars
<1>6. QED
  BY <1>1, <1>2, <1>3, <1>4, <1>5 DEF Subscriber

LEMMA BudgetStep ==
  ASSUME TypeOK, Budget, [Next]_vars
  PROVE  Budget'
<1> USE RetriesAssumption
    DEF TypeOK, Budget, adminVars, taskVars, loadVars, stateVars, GoTo, NewTask
<1>1. CASE UNCHANGED <<pc, attempt>>
  BY <1>1
<1>2. CASE \E r \in Requests : Admin(r)
  BY <1>1, <1>2, AdminFrame
<1>3. CASE Network
  BY <1>1, <1>3, NetworkFrame
<1>4. CASE GatewayBoots \/ StartupFails \/ \E x \in Loaders : ReadTable(x)
  BY <1>1, <1>4 DEF GatewayBoots, StartupFails, ReadTable
<1>5. CASE GatewayStops
  BY <1>5 DEF GatewayStops
<1>6. ASSUME NEW k \in Tasks, StartupDone(k) \/ ProbeRestarts(k)
      PROVE  Budget'
  BY <1>6 DEF StartupDone, ProbeRestarts
<1>7. ASSUME NEW k \in Tasks, Subscriber(k)
      PROVE  Budget'
  <2>1. CASE Connect(k) \/ Subscribe(k)
    BY <2>1 DEF Connect, Subscribe
  <2>2. CASE TakeMessage(k) \/ ReloadDone(k) \/ ReloadFails(k)
    BY <2>2 DEF TakeMessage, ReloadDone, ReloadFails
  <2>3. CASE TaskFails(k)
    BY <2>3 DEF TaskFails
  <2>4. CASE TaskEnds(k)
    BY <2>4 DEF TaskEnds
  <2>5. QED
    BY <1>7, <2>1, <2>2, <2>3, <2>4 DEF Subscriber
<1>8. QED
  BY <1>1, <1>2, <1>3, <1>4, <1>5, <1>6, <1>7 DEF Next, vars

LEMMA AliveStep ==
  ASSUME TypeOK, Alive, [Next]_vars
  PROVE  Alive'
<1> USE DEF TypeOK, Alive, redisVars, adminVars, taskVars, loadVars, stateVars, GoTo, NewTask
<1>1. CASE UNCHANGED <<pc, current, gateway, probed>>
  BY <1>1
<1>2. CASE \E r \in Requests : Admin(r)
  BY <1>1, <1>2, AdminFrame
<1>3. CASE Network
  <2>1. UNCHANGED <<pc, current, gateway>>
    BY <1>3, NetworkFrame
  <2>2. probed' => probed \/ gateway = "up"
    BY <1>3 DEF Network, RedisGoesDown, RedisComesBack, LinkDrops, ProbeSucceeds,
                ProbeLeaves
  <2>3. QED
    BY <2>1, <2>2
<1>4. CASE \E x \in Loaders : ReadTable(x)
  BY <1>1, <1>4 DEF ReadTable
<1>5. CASE GatewayBoots \/ StartupFails \/ GatewayStops
  BY <1>5 DEF GatewayBoots, StartupFails, GatewayStops
<1>6. ASSUME NEW k \in Tasks, StartupDone(k)
      PROVE  Alive'
  BY <1>6 DEF StartupDone
<1>7. ASSUME NEW k \in Tasks, ProbeRestarts(k)
      PROVE  Alive'
  BY <1>7 DEF ProbeRestarts, RestartNeeded
<1>8. ASSUME NEW k \in Tasks, Subscriber(k)
      PROVE  Alive'
  <2>1. UNCHANGED <<current, gateway, probed>> /\ pc[k] # "done"
    BY <1>8, SubscriberFrame
  <2>2. \A j \in Tasks \ {k} : pc'[j] = pc[j]
    BY <1>8, SubscriberFrame
  <2>3. QED
    BY <2>1, <2>2
<1>9. QED
  BY <1>1, <1>2, <1>3, <1>4, <1>5, <1>6, <1>7, <1>8 DEF Next, vars

LEMMA StatusStep ==
  ASSUME TypeOK, Alive, OkMeansSubscribed, [Next]_vars
  PROVE  OkMeansSubscribed'
<1> USE DEF TypeOK, Alive, OkMeansSubscribed,
            adminVars, taskVars, loadVars, stateVars, GoTo, NewTask
<1>1. CASE UNCHANGED <<pc, current, pubsub>>
  BY <1>1
<1>2. CASE \E r \in Requests : Admin(r)
  BY <1>1, <1>2, AdminFrame
<1>3. CASE Network
  BY <1>1, <1>3, NetworkFrame
<1>4. CASE StartupFails \/ \E x \in Loaders : ReadTable(x)
  BY <1>1, <1>4 DEF StartupFails, ReadTable
<1>5. CASE GatewayBoots \/ GatewayStops
  BY <1>5 DEF GatewayBoots, GatewayStops
<1>6. CASE \E k \in Tasks : StartupDone(k) \/ ProbeRestarts(k)
  BY <1>6 DEF StartupDone, ProbeRestarts
<1>7. ASSUME NEW k \in Tasks, Subscriber(k)
      PROVE  OkMeansSubscribed'
  <2>1. k = current /\ current' = current
    BY <1>7, SubscriberFrame
  <2>2. CASE Connect(k) \/ Subscribe(k)
    BY <2>1, <2>2 DEF Connect, Subscribe
  <2>3. CASE TakeMessage(k) \/ ReloadDone(k) \/ ReloadFails(k)
    BY <2>1, <2>3 DEF TakeMessage, ReloadDone, ReloadFails
  <2>4. CASE TaskFails(k)
    BY <2>1, <2>4 DEF TaskFails
  <2>5. CASE TaskEnds(k)
    BY <2>1, <2>5 DEF TaskEnds
  <2>6. QED
    BY <1>7, <2>2, <2>3, <2>4, <2>5 DEF Subscriber
<1>8. QED
  BY <1>1, <1>2, <1>3, <1>4, <1>5, <1>6, <1>7 DEF Next, vars

LEMMA FreshLoadStep ==
  ASSUME TypeOK, Alive, FreshLoad, [Next]_vars
  PROVE  FreshLoad'
<1> USE LoadersAssumption
    DEF TypeOK, FreshLoad, Loading, Loaders,
        adminVars, taskVars, loadVars, stateVars, GoTo, NewTask, LoadEnds
<1>1. CASE UNCHANGED <<pc, gateway, step>>
  BY <1>1
<1>2. CASE \E r \in Requests : Admin(r)
  BY <1>1, <1>2, AdminFrame
<1>3. CASE Network
  BY <1>1, <1>3, NetworkFrame
<1>4. ASSUME NEW x \in Loaders, ReadTable(x)
      PROVE  FreshLoad'
  BY <1>4 DEF ReadTable
<1>5. CASE GatewayBoots
  BY <1>5 DEF GatewayBoots
<1>6. CASE StartupFails
  BY <1>6 DEF StartupFails
<1>7. CASE GatewayStops
  BY <1>7 DEF GatewayStops
<1>8. ASSUME NEW k \in Tasks, StartupDone(k) \/ ProbeRestarts(k)
      PROVE  FreshLoad'
  BY <1>8 DEF StartupDone, ProbeRestarts
<1>9. ASSUME NEW k \in Tasks, Subscriber(k)
      PROVE  FreshLoad'
  <2>1. CASE Connect(k) \/ Subscribe(k)
    BY <2>1 DEF Connect, Subscribe
  <2>2. CASE TakeMessage(k)
    BY <2>2 DEF TakeMessage
  <2>3. CASE ReloadDone(k) \/ ReloadFails(k)
    BY <2>3 DEF ReloadDone, ReloadFails
  <2>4. CASE TaskFails(k)
    BY <2>4 DEF TaskFails, Broken
  <2>5. CASE TaskEnds(k)
    BY <2>5 DEF TaskEnds
  <2>6. QED
    BY <1>9, <2>1, <2>2, <2>3, <2>4, <2>5 DEF Subscriber
<1>10. QED
  BY <1>1, <1>2, <1>3, <1>4, <1>5, <1>6, <1>7, <1>8, <1>9 DEF Next, vars

(***************************************************************************)
(* How a step can change what is committed and what is served.             *)
(***************************************************************************)

\* A step commits a transaction, installs a complete load, or leaves both
\* the database and the snapshot alone.
Installs(x) ==
    /\ Loading(x)
    /\ step[x] = 4
    /\ snapshot' = loaded[x]
    /\ UNCHANGED db
    /\ \A y \in Loaders : ~Loading(y)'

LEMMA StoreStep ==
  ASSUME TypeOK, Alive, [Next]_vars
  PROVE  \/ UNCHANGED <<db, snapshot>>
         \/ (\E r \in Requests : AdminCommit(r)) /\ UNCHANGED snapshot
         \/ \E x \in Loaders : Installs(x)
<1> USE LoadersAssumption
    DEF TypeOK, Loaders, adminVars, taskVars, loadVars, stateVars
<1>1. ASSUME NEW r \in Requests, Admin(r)
      PROVE  UNCHANGED snapshot /\ (AdminCommit(r) \/ UNCHANGED db)
  BY <1>1 DEF Admin, AdminWrite, PublishDelivered, PublishFailed,
              PublishSkipped, AdminCommit, AdminRollback, Announces
<1>2. CASE Network
  BY <1>2, NetworkFrame
<1>3. CASE GatewayBoots \/ StartupFails \/ GatewayStops
  BY <1>3 DEF GatewayBoots, StartupFails, GatewayStops
<1>4. CASE \E x \in Loaders : ReadTable(x)
  BY <1>4 DEF ReadTable
<1>5. ASSUME NEW k \in Tasks, StartupDone(k)
      PROVE  Installs(Startup)
  BY <1>5 DEF StartupDone, Installs, Loading, Alive, NewTask, GoTo
<1>6. CASE \E k \in Tasks : ProbeRestarts(k)
  BY <1>6 DEF ProbeRestarts
<1>7. ASSUME NEW k \in Tasks, Subscriber(k), ~ReloadDone(k)
      PROVE  UNCHANGED <<db, snapshot>>
  BY <1>7 DEF Subscriber, Connect, Subscribe, TakeMessage, ReloadFails,
              TaskFails, TaskEnds
<1>8. ASSUME NEW k \in Tasks, ReloadDone(k)
      PROVE  Installs(k)
  BY <1>8 DEF ReloadDone, Installs, Loading, Alive, GoTo
<1>9. QED
  BY <1>1, <1>2, <1>3, <1>4, <1>5, <1>6, <1>7, <1>8 DEF Next, vars

LEMMA DbGrows ==
  ASSUME TypeOK, Alive, [Next]_vars
  PROVE  db' \in Versions /\ Covers(db', db)
<1>1. CASE UNCHANGED db
  BY <1>1 DEF TypeOK, Versions, Covers
<1>2. ASSUME NEW r \in Requests, AdminCommit(r)
      PROVE  db' \in Versions /\ Covers(db', db)
  BY <1>2 DEF TypeOK, AdminCommit, Versions, Covers
<1>3. QED
  BY <1>1, <1>2, StoreStep DEF Installs

LEMMA PromisedStep ==
  ASSUME TypeOK, [Next]_vars
  PROVE  UNCHANGED promised \/ \E k \in Tasks : ReloadDone(k)
<1> USE DEF adminVars, taskVars, loadVars, stateVars
<1>1. CASE \E r \in Requests : Admin(r)
  BY <1>1, AdminFrame
<1>2. CASE Network
  BY <1>2, NetworkFrame
<1>3. CASE GatewayBoots \/ StartupFails \/ GatewayStops \/ \E x \in Loaders : ReadTable(x)
  BY <1>3 DEF GatewayBoots, StartupFails, GatewayStops, ReadTable
<1>4. CASE \E k \in Tasks : StartupDone(k) \/ ProbeRestarts(k)
  BY <1>4 DEF StartupDone, ProbeRestarts
<1>5. ASSUME NEW k \in Tasks, Subscriber(k), ~ReloadDone(k)
      PROVE  UNCHANGED promised
  BY <1>5 DEF Subscriber, Connect, Subscribe, TakeMessage, ReloadFails,
              TaskFails, TaskEnds
<1>6. QED
  BY <1>1, <1>2, <1>3, <1>4, <1>5 DEF Next, vars

LEMMA ServedStep ==
  ASSUME IInv, [Next]_vars
  PROVE  Served'
<1> USE DEF IInv
<1>1. db' \in Versions /\ Covers(db', db)
  BY DbGrows
<1>2. TypeOK'
  BY TypeStep
<1> HIDE DEF IInv
<1>3. snapshot' \in Versions /\ Covers(snapshot', snapshot) /\ Covers(db', snapshot')
  <2>1. CASE UNCHANGED snapshot
    BY <1>1, <1>2, <2>1 DEF IInv, TypeOK, Served, Covers, Versions
  <2>2. ASSUME NEW x \in Loaders, Installs(x)
        PROVE  Covers(snapshot', snapshot) /\ Covers(db', snapshot')
    BY <2>2 DEF IInv, Reads, Installs, Covers, Tables
  <2>3. QED
    BY <1>2, <2>1, <2>2, StoreStep DEF IInv, TypeOK
<1>4. CASE UNCHANGED promised
  BY <1>2, <1>3, <1>4 DEF IInv, TypeOK, Served, Covers, Versions
<1>5. ASSUME NEW k \in Tasks, ReloadDone(k)
      PROVE  Served'
  <2>1. \A t \in Tables : /\ promised[t] <= snapshot'[t]
                          /\ handling[k][t] <= snapshot'[t]
    <3>1. snapshot' = loaded[k]
      BY <1>5 DEF ReloadDone
    <3>2. \A t \in Tables : handling[k][t] <= loaded[k][t]
      BY <1>5 DEF ReloadDone, IInv, Answers, Tables
    <3>3. \A t \in Tables : promised[t] <= snapshot[t] /\ snapshot[t] <= snapshot'[t]
      BY <1>3 DEF IInv, Served, Covers
    <3>4. \A t \in Tables : /\ promised[t] \in Nat
                             /\ snapshot[t] \in Nat
                             /\ snapshot'[t] \in Nat
      BY <1>2 DEF IInv, TypeOK, Versions
    <3>5. QED
      BY <3>1, <3>2, <3>3, <3>4
  <2>2. \A t \in Tables : promised'[t] <= snapshot'[t]
    BY <1>5, <2>1 DEF ReloadDone
  <2>3. QED
    BY <1>3, <2>2 DEF Served, Covers
<1>6. QED
  BY <1>4, <1>5, PromisedStep DEF IInv

LEMMA ReadsStep ==
  ASSUME IInv, [Next]_vars
  PROVE  Reads'
<1>1. TypeOK /\ TypeOK' /\ Alive /\ db' \in Versions /\ Covers(db', db)
  BY DbGrows, TypeStep DEF IInv
<1> DEFINE Bounded(x) == \A t \in 1..step[x] :
                            snapshot[t] <= loaded[x][t] /\ loaded[x][t] <= db[t]
<1>2. ASSUME NEW x \in Loaders, Loading(x), step'[x] = step[x],
             loaded'[x] = loaded[x], UNCHANGED snapshot
      PROVE  Bounded(x)'
  <2>1. \A t \in 1..step[x] : t \in Tables
    <3>1. step[x] \in 0..4
      BY <1>1 DEF TypeOK
    <3>2. QED
      BY <3>1 DEF Tables
  <2>2. \A t \in Tables : /\ db[t] <= db'[t]
                          /\ db[t] \in Nat /\ db'[t] \in Nat
                          /\ loaded[x][t] \in Nat
    BY <1>1 DEF Covers, TypeOK, Versions
  <2>3. \A t \in 1..step[x] :
            snapshot[t] <= loaded[x][t] /\ loaded[x][t] <= db[t]
    BY <1>2 DEF IInv, Reads
  <2>4. QED
    BY <1>2, <2>1, <2>2, <2>3
<1>3. CASE UNCHANGED <<loadVars, snapshot>> /\ \A x \in Loaders : Loading(x)' => Loading(x)
  BY <1>2, <1>3 DEF Reads, loadVars
<1>4. CASE \E r \in Requests : Admin(r)
  BY <1>3, <1>4, AdminFrame DEF stateVars, Loading
<1>5. CASE Network
  BY <1>3, <1>5, NetworkFrame DEF stateVars, Loading
<1>6. ASSUME NEW x \in Loaders, ReadTable(x)
      PROVE  Reads'
  <2>1. /\ step'[x] = step[x] + 1
        /\ step[x] \in 0..3
        /\ loaded'[x][step[x] + 1] = db[step[x] + 1]
        /\ \A t \in 1..step[x] : loaded'[x][t] = loaded[x][t]
        /\ \A y \in Loaders \ {x} : step'[y] = step[y] /\ loaded'[y] = loaded[y]
        /\ \A y \in Loaders : Loading(y)' = Loading(y)
        /\ UNCHANGED <<snapshot, db>>
    <3>1. UNCHANGED <<adminVars, stateVars, taskVars>> /\ step[x] < 4
      BY <1>6 DEF ReadTable
    <3>2. step'[x] = step[x] + 1 /\ step[x] \in 0..3
      BY <1>1, <1>6, <3>1 DEF ReadTable, TypeOK
    <3>3. loaded[x] \in Versions /\ step[x] + 1 \in Tables
      BY <1>1, <3>2 DEF TypeOK, Tables
    <3>4. loaded' = [loaded EXCEPT ![x][step[x] + 1] = db[step[x] + 1]]
      BY <1>6 DEF ReadTable
    <3>5. loaded'[x] = [loaded[x] EXCEPT ![step[x] + 1] = db[step[x] + 1]]
      BY <1>1, <3>4 DEF TypeOK
    <3>6. loaded'[x][step[x] + 1] = db[step[x] + 1]
      BY <3>3, <3>5 DEF Versions
    <3>7. \A t \in 1..step[x] : loaded'[x][t] = loaded[x][t]
      BY <3>2, <3>3, <3>5 DEF Versions, Tables
    <3>8. \A y \in Loaders \ {x} : step'[y] = step[y] /\ loaded'[y] = loaded[y]
      BY <1>1, <1>6, <3>4 DEF ReadTable, TypeOK
    <3>9. QED
      BY <3>1, <3>2, <3>6, <3>7, <3>8 DEF adminVars, stateVars, taskVars, Loading
  <2>2. Bounded(x)'
    <3>1. Loading(x) /\ \A t \in 1..step[x] :
              snapshot[t] <= loaded[x][t] /\ loaded[x][t] <= db[t]
      BY <1>6 DEF ReadTable, IInv, Reads
    <3>2. step[x] + 1 \in Tables
      BY <2>1 DEF Tables
    <3>3. snapshot[step[x] + 1] <= db[step[x] + 1] /\ db[step[x] + 1] \in Nat
      BY <1>1, <3>2 DEF IInv, Served, TypeOK, Versions
    <3>4. \A t \in 1..(step[x] + 1) : t \in 1..step[x] \/ t = step[x] + 1
      BY <2>1
    <3>5. QED
      BY <2>1, <3>1, <3>3, <3>4
  <2>3. QED
    BY <1>2, <2>1, <2>2 DEF Reads
<1>7. CASE GatewayBoots
  <2>1. step'[Startup] = 0
    BY <1>7, LoadersAssumption
       DEF GatewayBoots, loadVars, IInv, FreshLoad, Loading, Loaders
  <2>2. \A x \in Tasks : Loading(x)' => Loading(x)
    BY <1>7, LoadersAssumption DEF GatewayBoots, taskVars, Loading
  <2>3. QED
    BY <1>2, <1>7, <2>1, <2>2 DEF GatewayBoots, loadVars, Reads, Loaders
<1>8. CASE StartupFails \/ GatewayStops
  BY <1>8, <1>1, LoadersAssumption
     DEF StartupFails, GatewayStops, Alive, Reads, Loading, Loaders, taskVars
<1>9. CASE \E x \in Loaders : Installs(x)
  BY <1>9 DEF Installs, Reads
<1>10. CASE \E k \in Tasks : ProbeRestarts(k)
  BY <1>1, <1>3, <1>10 DEF ProbeRestarts, NewTask, GoTo, Loading, TypeOK
<1>11. ASSUME NEW k \in Tasks, TakeMessage(k)
       PROVE  Reads'
  <2>1. step'[k] = 0
    BY <1>11, LoadersAssumption
       DEF TakeMessage, loadVars, IInv, FreshLoad, Loading, Loaders
  <2>2. \A x \in Loaders \ {k} : Loading(x)' => Loading(x)
    BY <1>1, <1>11 DEF TakeMessage, stateVars, Loading, TypeOK, GoTo
  <2>3. QED
    BY <1>2, <1>11, <2>1, <2>2 DEF TakeMessage, stateVars, loadVars, Reads
<1>12. ASSUME NEW k \in Tasks, ReloadFails(k)
       PROVE  Reads'
  BY <1>1, <1>12, LoadersAssumption
     DEF ReloadFails, GoTo, Alive, Reads, Loading, Loaders, TypeOK
<1>13. ASSUME NEW k \in Tasks, Connect(k) \/ Subscribe(k) \/ TaskFails(k) \/ TaskEnds(k)
       PROVE  Reads'
  <2>1. UNCHANGED <<loadVars, gateway, snapshot>>
    BY <1>13 DEF Connect, Subscribe, TaskFails, TaskEnds, stateVars
  <2>2. \A x \in Tasks : pc'[x] = "reloading" => pc[x] = "reloading"
    <3>1. pc' \in {[pc EXCEPT ![k] = p] :
                      p \in {"connecting", "listening", "backoff", "closing", "done"}}
      BY <1>13 DEF Connect, Subscribe, TaskFails, TaskEnds, GoTo
    <3>2. QED
      BY <1>1, <3>1 DEF TypeOK
  <2>3. QED
    BY <1>3, <2>1, <2>2 DEF Loading, Loaders
<1>14. ASSUME NEW k \in Tasks, StartupDone(k) \/ ReloadDone(k)
       PROVE  \E x \in Loaders : Installs(x)
  BY <1>1, <1>14, LoadersAssumption
     DEF StartupDone, ReloadDone, Installs, Loading, Loaders, Alive, NewTask,
         GoTo, TypeOK, adminVars
<1>15. CASE UNCHANGED vars
  BY <1>3, <1>15 DEF vars, loadVars, Loading
<1>16. QED
  BY <1>4, <1>5, <1>6, <1>7, <1>8, <1>9, <1>10, <1>11, <1>12, <1>13, <1>14, <1>15
     DEF Next, Subscriber

LEMMA CoversReflexive ==
  ASSUME NEW v \in Versions
  PROVE  Covers(v, v)
  BY DEF Covers, Versions

LEMMA CoversTransitive ==
  ASSUME NEW a \in Versions, NEW b \in Versions, NEW c \in Versions,
         Covers(a, b), Covers(b, c)
  PROVE  Covers(a, c)
<1>1. \A t \in Tables : a[t] \in Nat /\ b[t] \in Nat /\ c[t] \in Nat
  BY DEF Versions
<1>2. QED
  BY <1>1 DEF Covers

LEMMA CoversNoVersion ==
  ASSUME NEW v \in Versions
  PROVE  Covers(v, NoVersion)
  BY DEF Covers, NoVersion, Versions

LEMMA TagsStep ==
  ASSUME IInv, [Next]_vars
  PROVE  Tags'
<1>1. /\ TypeOK /\ TypeOK' /\ Tags
      /\ db \in Versions /\ db' \in Versions /\ Covers(db', db)
  BY DbGrows, TypeStep DEF IInv, TypeOK
<1>2. ASSUME NEW v \in Versions, Covers(db, v)
      PROVE  Covers(db', v)
  BY <1>1, <1>2, CoversTransitive
<1>3. CASE UNCHANGED <<handling, inbox>>
  <2>1. ASSUME NEW k \in Tasks, NEW i \in 1..Len(inbox[k])
        PROVE  inbox[k][i] \in Versions /\ Covers(db, inbox[k][i])
    BY <1>1 DEF Tags, TypeOK
  <2>2. ASSUME NEW k \in Tasks
        PROVE  handling[k] \in Versions /\ Covers(db, handling[k])
    BY <1>1 DEF Tags, TypeOK
  <2>3. QED
    BY <1>2, <1>3, <2>1, <2>2 DEF Tags
<1>4. ASSUME NEW r \in Requests, Announces(r), inbox' = Delivered
      PROVE  Tags'
  <2>1. UNCHANGED <<db, handling>>
    BY <1>4 DEF Announces
  <2>2. ASSUME NEW k \in Tasks, NEW i \in 1..Len(inbox'[k])
        PROVE  Covers(db, inbox'[k][i])
    <3>1. CASE ~connected[k]
      BY <1>1, <1>4, <2>2, <3>1 DEF Delivered, Tags, TypeOK
    <3>2. CASE connected[k]
      <4>1. inbox[k] \in Seq(Versions) /\ inbox'[k] = Append(inbox[k], db)
        BY <1>1, <1>4, <3>2 DEF Delivered, TypeOK
      <4>2. i \in 1..Len(inbox[k]) \/ i = Len(inbox[k]) + 1
        BY <2>2, <4>1
      <4>3. CASE i \in 1..Len(inbox[k])
        BY <1>1, <4>1, <4>3 DEF Tags
      <4>4. CASE i = Len(inbox[k]) + 1
        BY <1>1, <4>1, <4>4, CoversReflexive
      <4>5. QED
        BY <4>2, <4>3, <4>4
    <3>3. QED
      BY <3>1, <3>2
  <2>3. QED
    BY <1>1, <2>1, <2>2 DEF Tags
<1>5. ASSUME NEW r \in Requests, Admin(r)
      PROVE  Tags'
  <2>1. UNCHANGED handling
    BY <1>5, AdminFrame
  <2>2. CASE AdminCommit(r) \/ AdminRollback(r) \/ \E o \in OpNames : AdminWrite(r, o)
    BY <1>3, <2>1, <2>2 DEF AdminCommit, AdminRollback, AdminWrite, taskVars
  <2>3. CASE PublishDelivered(r) \/ PublishFailed(r) \/ PublishSkipped(r)
    BY <1>3, <1>4, <2>1, <2>3 DEF PublishDelivered, PublishFailed, PublishSkipped
  <2>4. QED
    BY <1>5, <2>2, <2>3 DEF Admin
<1>6. CASE Network
  BY <1>3, <1>6, NetworkFrame
<1>7. CASE GatewayBoots \/ StartupFails \/ \E x \in Loaders : ReadTable(x)
  BY <1>3, <1>7 DEF GatewayBoots, StartupFails, ReadTable, taskVars
<1>8. CASE GatewayStops
  BY <1>1, <1>8, CoversNoVersion DEF GatewayStops, Tags
<1>9. CASE \E k \in Tasks : StartupDone(k) \/ ProbeRestarts(k)
  BY <1>3, <1>9 DEF StartupDone, ProbeRestarts, NewTask
<1>10. ASSUME NEW k \in Tasks, TakeMessage(k)
       PROVE  Tags'
  <2>1. /\ inbox[k] \in Seq(Versions) /\ inbox[k] # <<>>
        /\ inbox'[k] = Tail(inbox[k]) /\ handling'[k] = Head(inbox[k])
        /\ \A j \in Tasks \ {k} : inbox'[j] = inbox[j] /\ handling'[j] = handling[j]
        /\ UNCHANGED db
    BY <1>1, <1>10 DEF TakeMessage, TypeOK, adminVars
  <2>2. Covers(db, handling'[k])
    <3>1. 1 \in 1..Len(inbox[k]) /\ Head(inbox[k]) = inbox[k][1]
      BY <2>1
    <3>2. QED
      BY <1>1, <2>1, <3>1 DEF Tags
  <2>3. \A i \in 1..Len(inbox'[k]) : Covers(db, inbox'[k][i])
    <3>1. ASSUME NEW i \in 1..Len(inbox'[k])
          PROVE  i + 1 \in 1..Len(inbox[k]) /\ inbox'[k][i] = inbox[k][i + 1]
      BY <2>1
    <3>2. QED
      BY <1>1, <3>1 DEF Tags
  <2>4. QED
    BY <1>1, <2>1, <2>2, <2>3 DEF Tags
<1>11. ASSUME NEW k \in Tasks, ReloadDone(k) \/ ReloadFails(k)
       PROVE  Tags'
  <2>1. UNCHANGED <<db, inbox>> /\ handling' = [handling EXCEPT ![k] = NoVersion]
    BY <1>11 DEF ReloadDone, ReloadFails, adminVars
  <2>2. Covers(db, NoVersion)
    BY <1>1, CoversNoVersion
  <2>3. \A j \in Tasks : handling'[j] = handling[j] \/ handling'[j] = NoVersion
    BY <1>1, <2>1 DEF TypeOK
  <2>4. \A j \in Tasks : Covers(db, handling'[j])
    BY <1>1, <2>2, <2>3 DEF Tags
  <2>5. QED
    BY <1>1, <2>1, <2>4 DEF Tags
<1>12. ASSUME NEW k \in Tasks, TaskFails(k)
       PROVE  Tags'
  BY <1>1, <1>12 DEF TaskFails, Tags, TypeOK, adminVars
<1>13. CASE \E k \in Tasks : Connect(k) \/ Subscribe(k) \/ TaskEnds(k)
  BY <1>3, <1>13 DEF Connect, Subscribe, TaskEnds
<1>14. CASE UNCHANGED vars
  BY <1>3, <1>14 DEF vars
<1>15. QED
  BY <1>5, <1>6, <1>7, <1>8, <1>9, <1>10, <1>11, <1>12, <1>13, <1>14
     DEF Next, Subscriber

LEMMA AnswersStep ==
  ASSUME IInv, [Next]_vars
  PROVE  Answers'
<1>1. TypeOK /\ TypeOK' /\ Alive /\ Answers
  BY TypeStep DEF IInv
<1>2. CASE UNCHANGED <<handling, loadVars>> /\
           \A k \in Tasks : pc'[k] = "reloading" => pc[k] = "reloading"
  BY <1>1, <1>2 DEF Answers, loadVars
<1>3. CASE \E r \in Requests : Admin(r)
  BY <1>2, <1>3, AdminFrame
<1>4. CASE Network
  BY <1>2, <1>4, NetworkFrame
<1>5. ASSUME NEW x \in Loaders, ReadTable(x)
      PROVE  Answers'
  <2>1. UNCHANGED <<db, handling, pc>> /\ step[x] \in 0..3
    BY <1>1, <1>5 DEF ReadTable, adminVars, taskVars, TypeOK
  <2>2. /\ step' = [step EXCEPT ![x] = @ + 1]
        /\ loaded' = [loaded EXCEPT ![x][step[x] + 1] = db[step[x] + 1]]
    BY <1>5 DEF ReadTable
  <2>3. \A y \in Loaders \ {x} : step'[y] = step[y] /\ loaded'[y] = loaded[y]
    BY <1>1, <2>2 DEF TypeOK
  <2>4. ASSUME x \in Tasks, pc[x] = "reloading"
        PROVE  \A t \in 1..step'[x] : handling[x][t] <= loaded'[x][t]
    <3>1. step'[x] = step[x] + 1 /\ step[x] + 1 \in Tables
      BY <1>1, <2>1, <2>2 DEF TypeOK, Tables
    <3>2. loaded[x] \in Versions
      BY <1>1 DEF TypeOK
    <3>3. loaded'[x] = [loaded[x] EXCEPT ![step[x] + 1] = db[step[x] + 1]]
      BY <1>1, <2>2 DEF TypeOK
    <3>4. loaded'[x][step[x] + 1] = db[step[x] + 1]
      BY <3>1, <3>2, <3>3 DEF Versions
    <3>5. \A t \in 1..step[x] : loaded'[x][t] = loaded[x][t]
      BY <2>1, <3>1, <3>2, <3>3 DEF Versions, Tables
    <3>6. \A t \in 1..step[x] : handling[x][t] <= loaded[x][t]
      BY <1>1, <2>4 DEF Answers
    <3>7. handling[x][step[x] + 1] <= db[step[x] + 1]
      BY <2>4, <3>1 DEF IInv, Tags, Covers
    <3>8. \A t \in 1..(step[x] + 1) : t \in 1..step[x] \/ t = step[x] + 1
      BY <2>1
    <3>9. QED
      BY <3>1, <3>4, <3>5, <3>6, <3>7, <3>8
  <2>5. QED
    BY <1>1, <2>1, <2>3, <2>4 DEF Answers, Loaders
<1>6. CASE GatewayBoots
  BY <1>2, <1>6 DEF GatewayBoots, taskVars
<1>7. CASE StartupFails \/ GatewayStops
  BY <1>1, <1>7 DEF StartupFails, GatewayStops, Alive, Answers, taskVars
<1>8. ASSUME NEW k \in Tasks, StartupDone(k)
      PROVE  Answers'
  BY <1>1, <1>8 DEF StartupDone, NewTask, GoTo, Alive, Answers, TypeOK
<1>9. ASSUME NEW k \in Tasks, ProbeRestarts(k)
      PROVE  Answers'
  <2>1. UNCHANGED <<handling, loadVars>> /\ pc' = [pc EXCEPT ![k] = "start"]
    BY <1>9 DEF ProbeRestarts, NewTask, GoTo
  <2>2. QED
    BY <1>1, <1>2, <2>1 DEF TypeOK
<1>10. ASSUME NEW k \in Tasks, TakeMessage(k)
       PROVE  Answers'
  <2>1. /\ UNCHANGED <<step, loaded>> /\ step[k] = 0
        /\ \A j \in Tasks \ {k} : pc'[j] = pc[j] /\ handling'[j] = handling[j]
    BY <1>1, <1>10, LoadersAssumption
       DEF TakeMessage, GoTo, TypeOK, IInv, FreshLoad, Loading, Loaders, loadVars
  <2>2. QED
    BY <1>1, <2>1 DEF Answers
<1>11. ASSUME NEW k \in Tasks, ReloadDone(k) \/ ReloadFails(k)
       PROVE  Answers'
  <2>1. k = current /\ pc' = [pc EXCEPT ![k] = "listening"]
    BY <1>11, <1>1 DEF ReloadDone, ReloadFails, GoTo, Alive
  <2>2. \A j \in Tasks : pc'[j] # "reloading"
    BY <1>1, <2>1 DEF Alive, TypeOK
  <2>3. QED
    BY <2>2 DEF Answers
<1>12. ASSUME NEW k \in Tasks, Connect(k) \/ Subscribe(k) \/ TaskFails(k) \/ TaskEnds(k)
       PROVE  Answers'
  <2>1. UNCHANGED <<handling, loadVars>>
    BY <1>12 DEF Connect, Subscribe, TaskFails, TaskEnds
  <2>2. \A j \in Tasks : pc'[j] = "reloading" => pc[j] = "reloading"
    <3>1. pc' \in {[pc EXCEPT ![k] = p] :
                      p \in {"connecting", "listening", "backoff", "closing", "done"}}
      BY <1>12 DEF Connect, Subscribe, TaskFails, TaskEnds, GoTo
    <3>2. QED
      BY <1>1, <3>1 DEF TypeOK
  <2>3. QED
    BY <1>2, <2>1, <2>2
<1>13. CASE UNCHANGED vars
  BY <1>2, <1>13 DEF vars, loadVars
<1>14. QED
  BY <1>3, <1>4, <1>5, <1>6, <1>7, <1>8, <1>9, <1>10, <1>11, <1>12, <1>13
     DEF Next, Subscriber

(***************************************************************************)
(* The invariant is inductive.                                             *)
(***************************************************************************)
LEMMA InitInv == Init => IInv
<1> SUFFICES ASSUME Init PROVE IInv
  OBVIOUS
<1>1. TypeOK
  BY InitType
<1>2. Budget /\ Alive /\ OkMeansSubscribed
  BY DEF Init, Budget, Alive, OkMeansSubscribed
<1>3. FreshLoad
  BY DEF Init, FreshLoad
<1>4. Reads
  BY DEF Init, Reads
<1>5. Served
  BY DEF Init, Served, NoVersion
<1>6. Tags
  BY DEF Init, Tags, Covers, NoVersion
<1>7. Answers
  BY DEF Init, Answers
<1>8. QED
  BY <1>1, <1>2, <1>3, <1>4, <1>5, <1>6, <1>7 DEF IInv

LEMMA StepInv == IInv /\ [Next]_vars => IInv'
<1> SUFFICES ASSUME IInv, [Next]_vars PROVE IInv'
  OBVIOUS
<1>1. TypeOK' /\ Budget' /\ Alive' /\ FreshLoad' /\ OkMeansSubscribed'
  BY TypeStep, BudgetStep, AliveStep, FreshLoadStep, StatusStep DEF IInv
<1>2. QED
  BY <1>1, ServedStep, ReadsStep, TagsStep, AnswersStep DEF IInv

LEMMA Invariance == Spec => []IInv
  BY InitInv, StepInv, PTL DEF Spec

(***************************************************************************)
(* What follows for every behaviour.                                       *)
(***************************************************************************)

\* Every variable keeps its type: in particular no task exceeds its budget
\* of reconnections (the except branch of listen_for_config_updates()).
THEOREM TypeCorrect == Spec => []TypeOK
  BY Invariance, PTL DEF IInv

\* Once a message is handled, the snapshot holds whatever had been committed
\* when it was published.
THEOREM HandledServed == Spec => []HandledIsServed
<1>1. IInv => HandledIsServed
  BY DEF IInv, Served, HandledIsServed, Covers
<1>2. QED
  BY <1>1, Invariance, PTL

\* Health probes, start-up and dying tasks never leave two subscribers alive.
THEOREM OneSubscriber == Spec => []SingleSubscriber
<1>1. IInv => SingleSubscriber
  BY DEF IInv, Alive, SingleSubscriber
<1>2. QED
  BY <1>1, Invariance, PTL

\* The registry never says that a subscriber that is not there is ok.
THEOREM StatusTrue == Spec => []OkMeansSubscribed
  BY Invariance, PTL DEF IInv

\* A gateway whose subscriber ended can always be given a new one.
THEOREM NeverDeafForGood == Spec => []EndedCanRestart
<1>1. IInv => EndedCanRestart
  BY DEF IInv, TypeOK, OkMeansSubscribed, EndedCanRestart, RestartNeeded
<1>2. QED
  BY <1>1, Invariance, PTL

\* The gateway's snapshot implements the abstract cache: committed versions
\* only, and never an older one than before.
THEOREM Refinement == Spec => CacheSpec
<1>1. Init => Cache!Init
  BY DEF Init, Cache!Init, NoVersion
<1>2. ASSUME IInv, IInv', [Next]_vars
      PROVE  [Cache!Next]_(Cache!vars)
  <2>1. CASE UNCHANGED <<db, snapshot>>
    BY <2>1 DEF Cache!vars
  <2>2. ASSUME NEW r \in Requests, AdminCommit(r), UNCHANGED snapshot
        PROVE  Cache!Next
    <3>1. Cache!Commit(Writes(r) \cap Tables)
      BY <2>2 DEF AdminCommit, Cache!Commit
    <3>2. QED
      BY <3>1 DEF Cache!Next
  <2>3. ASSUME NEW x \in Loaders, Installs(x)
        PROVE  Cache!Refresh
    <3>1. snapshot' \in Cache!Versions
      BY <1>2 DEF IInv, TypeOK, Versions, Cache!Versions
    <3>2. Cache!Covers(snapshot', snapshot) /\ Cache!Covers(db, snapshot')
      BY <1>2, <2>3 DEF IInv, Installs, Reads, Cache!Covers, Tables
    <3>3. QED
      BY <2>3, <3>1, <3>2 DEF Cache!Refresh, Installs
  <2>4. QED
    BY <1>2, <2>1, <2>2, <2>3, StoreStep DEF IInv, Cache!Next
<1>3. QED
  BY <1>1, <1>2, Invariance, PTL DEF Spec, CacheSpec, Cache!Spec
=============================================================================
