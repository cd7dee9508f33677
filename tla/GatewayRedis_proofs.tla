-------------------------- MODULE GatewayRedis_proofs --------------------------
(***************************************************************************)
(* Proofs about GatewayRedis: the failure budget under concurrency and the *)
(* finality of an inactive user, for any number of calls and probes.       *)
(***************************************************************************)
EXTENDS GatewayRedis, FiniteSetTheorems, TLAPS

\* A user that is not inactive has some of its budget left, all of it before
\* its first ping.
Spared ==
    \A u \in Users :
        /\ ~Inactive(u) => user[u].attempts <= MaxFailures
        /\ user[u].status = "unknown" => user[u].attempts = 0

IInv == TypeOK /\ Spared /\ Budget

-----------------------------------------------------------------------------
\* What the registry's operations return is an entry again.
LEMMA EntryType ==
    ASSUME NEW e \in Entry, NEW retry \in BOOLEAN
    PROVE  /\ MarkedOk(e) \in Entry
           /\ MarkedDegraded(e) \in Entry
           /\ MarkedError(e, retry) \in Entry
           /\ MarkedInactive(e) \in Entry
           /\ Failed(e) \in Entry
           /\ Warned(e) \in Entry
<1>1. MarkedOk(e) \in Entry BY DEF Entry, MarkedOk
<1>2. MarkedDegraded(e) \in Entry BY DEF Entry, MarkedDegraded
<1>3. \A b \in BOOLEAN : MarkedError(e, b) \in Entry BY DEF Entry, MarkedError
<1>4. \A f \in Entry : MarkedInactive(f) \in Entry BY DEF Entry, MarkedInactive
<1>5. Failed(e) \in Entry BY <1>3, <1>4 DEF Failed
<1>6. Warned(e) \in Entry BY <1>2 DEF Warned
<1>7. QED BY <1>1, <1>2, <1>3, <1>4, <1>5, <1>6

\* An entry nobody has marked yet.
LEMMA FreshType == Fresh \in Entry
  BY DEF Entry, Fresh

\* A failure counts once, and ends the user's activity at the budget.
LEMMA FailedCounts ==
    ASSUME NEW e \in Entry
    PROVE  /\ Failed(e).attempts = e.attempts + 1
           /\ Failed(e).status # "inactive" => Failed(e).attempts <= MaxFailures
           /\ Failed(e).status # "unknown"
  BY FailuresAssumption DEF Entry, Failed, MarkedError, MarkedInactive

\* A warning neither counts nor touches an inactive user.
LEMMA WarnedCounts ==
    ASSUME NEW e \in Entry
    PROVE  /\ Warned(e).attempts = e.attempts
           /\ Warned(e).status = "inactive" <=> e.status = "inactive"
           /\ Warned(e).status = "unknown" => e.status = "unknown"
  BY DEF Entry, Warned, MarkedDegraded

\* The calls in flight of a user are no more than there are calls.
LEMMA FlightCount ==
    ASSUME NEW S \in SUBSET Calls
    PROVE  /\ IsFiniteSet(S)
           /\ Cardinality(S) \in Nat
           /\ Cardinality(S) <= Cardinality(Calls)
           /\ Cardinality(Calls) \in Nat
  BY CallsAssumption, FS_Subset, FS_CardinalityType

\* The gateway has just started and no user was pinged.
LEMMA InitInv == Init => IInv
<1> SUFFICES ASSUME Init PROVE IInv OBVIOUS
<1> USE FailuresAssumption DEF Init
<1>1. TypeOK BY FreshType DEF TypeOK
<1>2. Spared BY DEF Spared, Fresh
<1>3. Budget
  <2> SUFFICES ASSUME NEW u \in Users
               PROVE user[u].attempts + Cardinality(InFlight(u)) <= MaxFailures + Cardinality(Calls)
    BY DEF Budget
  <2>1. InFlight(u) \in SUBSET Calls BY DEF InFlight
  <2>2. user[u].attempts = 0 BY DEF Fresh
  <2>3. QED BY <2>1, <2>2, FlightCount
<1>4. QED BY <1>1, <1>2, <1>3 DEF IInv

\* Types are kept by every step.
LEMMA TypeStep == TypeOK /\ [Next]_vars => TypeOK'
<1> SUFFICES ASSUME TypeOK, [Next]_vars PROVE TypeOK' OBVIOUS
<1> USE DEF TypeOK
<1>1. ASSUME NEW u \in Users, StartupPing(u) PROVE TypeOK'
  <2>1. MarkedOk(user[u]) \in Entry /\ MarkedError(user[u], FALSE) \in Entry
    BY EntryType
  <2>2. QED BY <1>1, <2>1 DEF StartupPing
<1>2. ASSUME NEW u \in Users, CoolingEnds(u) PROVE TypeOK'
  BY <1>2 DEF CoolingEnds, Entry
<1>3. ASSUME NEW u \in Users, NEW c \in Calls, StartCall(u, c) PROVE TypeOK'
  BY <1>3 DEF StartCall
<1>4. ASSUME NEW u \in Users, NEW c \in Calls, CallSucceeds(u, c) PROVE TypeOK'
  BY <1>4, EntryType DEF CallSucceeds
<1>5. ASSUME NEW u \in Users, NEW c \in Calls, CallFails(u, c) PROVE TypeOK'
  BY <1>5, EntryType DEF CallFails
<1>6. ASSUME NEW p \in Probes, ProbeAnswered(p) PROVE TypeOK' BY <1>6 DEF ProbeAnswered
<1>7. ASSUME NEW p \in Probes, ProbeRecorded(p) PROVE TypeOK' BY <1>7 DEF ProbeRecorded
<1>8. CASE SubscriberFails BY <1>8, EntryType DEF SubscriberFails
<1>9. CASE RedisGoesDown BY <1>9 DEF RedisGoesDown
<1>10. CASE RedisComesBack
  <2>1. doomed' \in BOOLEAN BY <1>10 DEF RedisComesBack, Serving
  <2>2. QED BY <1>10, <2>1 DEF RedisComesBack
<1>11. CASE UNCHANGED vars BY <1>11 DEF vars
<1>12. QED BY <1>1, <1>2, <1>3, <1>4, <1>5, <1>6, <1>7, <1>8, <1>9, <1>10, <1>11 DEF Next

\* Whatever changes a user's entry leaves it within the budget or inactive.
LEMMA SparedStep == TypeOK /\ Spared /\ [Next]_vars => Spared'
<1> SUFFICES ASSUME TypeOK, Spared, [Next]_vars PROVE Spared' OBVIOUS
<1> USE FailuresAssumption DEF TypeOK, Spared, Inactive
<1>1. ASSUME NEW u \in Users, StartupPing(u) PROVE Spared'
  <2>1. user[u].attempts = 0 BY <1>1 DEF StartupPing
  <2>2. QED BY <1>1, <2>1 DEF StartupPing, MarkedOk, MarkedError
<1>2. ASSUME NEW u \in Users, CoolingEnds(u) PROVE Spared'
  BY <1>2 DEF CoolingEnds, Entry
<1>3. ASSUME NEW u \in Users, NEW c \in Calls, StartCall(u, c) PROVE Spared'
  BY <1>3 DEF StartCall
<1>4. ASSUME NEW u \in Users, NEW c \in Calls, CallSucceeds(u, c) PROVE Spared'
  BY <1>4 DEF CallSucceeds, MarkedOk
<1>5. ASSUME NEW u \in Users, NEW c \in Calls, CallFails(u, c) PROVE Spared'
  BY <1>5, FailedCounts DEF CallFails
<1>6. ASSUME NEW p \in Probes, ProbeAnswered(p) PROVE Spared' BY <1>6 DEF ProbeAnswered
<1>7. ASSUME NEW p \in Probes, ProbeRecorded(p) PROVE Spared' BY <1>7 DEF ProbeRecorded
<1>8. CASE SubscriberFails BY <1>8, WarnedCounts DEF SubscriberFails
<1>9. CASE RedisGoesDown BY <1>9 DEF RedisGoesDown
<1>10. CASE RedisComesBack BY <1>10 DEF RedisComesBack
<1>11. CASE UNCHANGED vars BY <1>11 DEF vars
<1>12. QED BY <1>1, <1>2, <1>3, <1>4, <1>5, <1>6, <1>7, <1>8, <1>9, <1>10, <1>11 DEF Next

\* One failure moves one call from the calls in flight to the counter.
LEMMA BudgetStep == TypeOK /\ Spared /\ Budget /\ [Next]_vars => Budget'
<1> SUFFICES ASSUME TypeOK, Spared, Budget, [Next]_vars, NEW w \in Users
             PROVE  user'[w].attempts + Cardinality(InFlight(w)') <= MaxFailures + Cardinality(Calls)
  BY DEF Budget
<1> USE FailuresAssumption
<1>a. /\ user[w].attempts \in Nat
      /\ user[w].attempts + Cardinality(InFlight(w)) <= MaxFailures + Cardinality(Calls)
  BY DEF TypeOK, Entry, Budget
<1>b. InFlight(w) \in SUBSET Calls /\ InFlight(w)' \in SUBSET Calls BY DEF InFlight
<1>c. ASSUME user'[w].attempts <= user[w].attempts, user'[w].attempts \in Nat,
             InFlight(w)' \subseteq InFlight(w)
      PROVE  user'[w].attempts + Cardinality(InFlight(w)') <= MaxFailures + Cardinality(Calls)
  <2>1. Cardinality(InFlight(w)') <= Cardinality(InFlight(w))
    BY <1>b, <1>c, FlightCount, FS_Subset
  <2>2. QED BY <1>a, <1>b, <1>c, <2>1, FlightCount
<1>d. ASSUME user'[w].attempts \in Nat, user'[w].attempts <= MaxFailures
      PROVE  user'[w].attempts + Cardinality(InFlight(w)') <= MaxFailures + Cardinality(Calls)
  BY <1>b, <1>d, FlightCount
<1>1. ASSUME NEW u \in Users, StartupPing(u)
      PROVE  user'[w].attempts + Cardinality(InFlight(w)') <= MaxFailures + Cardinality(Calls)
  <2>1. CASE u = w
    <3>1. user[w].attempts = 0 BY <1>1, <2>1 DEF Spared, StartupPing
    <3>2. user'[w].attempts \in {0, 1}
      BY <1>1, <2>1, <3>1 DEF StartupPing, MarkedOk, MarkedError, TypeOK
    <3>3. QED BY <3>2, <1>d
  <2>2. CASE u # w BY <1>1, <2>2, <1>a, <1>c DEF StartupPing, InFlight, TypeOK
  <2>3. QED BY <2>1, <2>2
<1>2. ASSUME NEW u \in Users, CoolingEnds(u)
      PROVE  user'[w].attempts + Cardinality(InFlight(w)') <= MaxFailures + Cardinality(Calls)
  BY <1>2, <1>a, <1>c DEF CoolingEnds, InFlight, TypeOK, Entry
<1>3. ASSUME NEW u \in Users, NEW c \in Calls, StartCall(u, c)
      PROVE  user'[w].attempts + Cardinality(InFlight(w)') <= MaxFailures + Cardinality(Calls)
  <2>1. CASE u = w
    <3>1. user'[w].attempts <= MaxFailures
      BY <1>3, <2>1 DEF StartCall, ShortCircuited, Spared
    <3>2. QED BY <1>3, <3>1, <1>a, <1>d DEF StartCall
  <2>2. CASE u # w BY <1>3, <2>2, <1>a, <1>c DEF StartCall, InFlight, TypeOK
  <2>3. QED BY <2>1, <2>2
<1>4. ASSUME NEW u \in Users, NEW c \in Calls, CallSucceeds(u, c)
      PROVE  user'[w].attempts + Cardinality(InFlight(w)') <= MaxFailures + Cardinality(Calls)
  <2>1. InFlight(w)' \subseteq InFlight(w) BY <1>4 DEF CallSucceeds, InFlight, TypeOK
  <2>2. user'[w].attempts \in {0, user[w].attempts}
    BY <1>4 DEF CallSucceeds, MarkedOk, TypeOK
  <2>3. QED BY <2>1, <2>2, <1>a, <1>c
<1>5. ASSUME NEW u \in Users, NEW c \in Calls, CallFails(u, c)
      PROVE  user'[w].attempts + Cardinality(InFlight(w)') <= MaxFailures + Cardinality(Calls)
  <2>1. CASE u = w
    <3>1. user'[w].attempts = user[w].attempts + 1
      BY <1>5, <2>1, FailedCounts DEF CallFails, TypeOK
    <3>2. c \in InFlight(w) /\ InFlight(w)' = InFlight(w) \ {c}
      BY <1>5, <2>1 DEF CallFails, InFlight, TypeOK
    <3>3. Cardinality(InFlight(w)') = Cardinality(InFlight(w)) - 1
      BY <3>2, <1>b, FlightCount, FS_RemoveElement
    <3>4. QED BY <3>1, <3>3, <1>a, <1>b, FlightCount
  <2>2. CASE u # w BY <1>5, <2>2, <1>a, <1>c DEF CallFails, InFlight, TypeOK
  <2>3. QED BY <2>1, <2>2
<1>6. ASSUME NEW p \in Probes, ProbeAnswered(p)
      PROVE  user'[w].attempts + Cardinality(InFlight(w)') <= MaxFailures + Cardinality(Calls)
  BY <1>6, <1>a, <1>c DEF ProbeAnswered, InFlight
<1>7. ASSUME NEW p \in Probes, ProbeRecorded(p)
      PROVE  user'[w].attempts + Cardinality(InFlight(w)') <= MaxFailures + Cardinality(Calls)
  BY <1>7, <1>a, <1>c DEF ProbeRecorded, InFlight
<1>8. CASE SubscriberFails
  BY <1>8, <1>a, <1>c, WarnedCounts DEF SubscriberFails, InFlight, TypeOK
<1>9. CASE RedisGoesDown
  <2>1. InFlight(w)' \subseteq InFlight(w) BY <1>9 DEF RedisGoesDown, InFlight
  <2>2. user' = user BY <1>9 DEF RedisGoesDown
  <2>3. QED BY <2>1, <2>2, <1>a, <1>c
<1>10. CASE RedisComesBack BY <1>10, <1>a, <1>c DEF RedisComesBack, InFlight
<1>11. CASE UNCHANGED vars BY <1>11, <1>a, <1>c DEF vars, InFlight
<1>12. QED BY <1>1, <1>2, <1>3, <1>4, <1>5, <1>6, <1>7, <1>8, <1>9, <1>10, <1>11 DEF Next

\* The inductive invariant holds in every reachable state.
THEOREM Inductive == Spec => []IInv
<1>1. IInv /\ [Next]_vars => IInv' BY TypeStep, SparedStep, BudgetStep DEF IInv
<1>2. QED BY <1>1, InitInv, PTL DEF Spec

-----------------------------------------------------------------------------
\* Every variable keeps its type, in particular the registry's entries.
THEOREM TypeCorrect == Spec => []TypeOK
<1>1. IInv => TypeOK BY DEF IInv
<1>2. QED BY <1>1, Inductive, PTL

\* A user overruns its failure budget by no more than the calls in flight
\* (rate_limiter.py and redis_log_writer.py).
THEOREM BudgetHolds == Spec => []Budget
<1>1. IInv => Budget BY DEF IInv
<1>2. QED BY <1>1, Inductive, PTL

\* One step cannot re-arm an inactive user that has no call in flight.
LEMMA FinalStep ==
    ASSUME TypeOK, [Next]_vars, NEW w \in Users, Inactive(w), InFlight(w) = {}
    PROVE  Inactive(w)' /\ InFlight(w)' = {}
<1> USE DEF TypeOK, Inactive, InFlight
<1>1. ASSUME NEW u \in Users, StartupPing(u) PROVE Inactive(w)' /\ InFlight(w)' = {}
  BY <1>1 DEF StartupPing
<1>2. ASSUME NEW u \in Users, CoolingEnds(u) PROVE Inactive(w)' /\ InFlight(w)' = {}
  BY <1>2 DEF CoolingEnds, Entry
<1>3. ASSUME NEW u \in Users, NEW c \in Calls, StartCall(u, c) PROVE Inactive(w)' /\ InFlight(w)' = {}
  BY <1>3 DEF StartCall, ShortCircuited
<1>4. ASSUME NEW u \in Users, NEW c \in Calls, CallSucceeds(u, c) PROVE Inactive(w)' /\ InFlight(w)' = {}
  BY <1>4 DEF CallSucceeds
<1>5. ASSUME NEW u \in Users, NEW c \in Calls, CallFails(u, c) PROVE Inactive(w)' /\ InFlight(w)' = {}
  BY <1>5 DEF CallFails
<1>6. ASSUME NEW p \in Probes, ProbeAnswered(p) PROVE Inactive(w)' /\ InFlight(w)' = {}
  BY <1>6 DEF ProbeAnswered
<1>7. ASSUME NEW p \in Probes, ProbeRecorded(p) PROVE Inactive(w)' /\ InFlight(w)' = {}
  BY <1>7 DEF ProbeRecorded
<1>8. CASE SubscriberFails
  BY <1>8, WarnedCounts DEF SubscriberFails
<1>9. CASE RedisGoesDown BY <1>9 DEF RedisGoesDown
<1>10. CASE RedisComesBack BY <1>10 DEF RedisComesBack
<1>11. CASE UNCHANGED vars BY <1>11 DEF vars
<1>12. QED BY <1>1, <1>2, <1>3, <1>4, <1>5, <1>6, <1>7, <1>8, <1>9, <1>10, <1>11 DEF Next

\* Once inactive and idle, a user is inactive until the process ends: no step
\* of probes, subscriber, network or requests re-arms it.
THEOREM FinalOnceInactive == Spec => InactiveIsFinal
<1>1. TypeOK /\ [Next]_vars
        => [\A u \in Users : Inactive(u) /\ InFlight(u) = {} => Inactive(u)' /\ InFlight(u)' = {}]_vars
  BY FinalStep
<1>2. QED BY <1>1, TypeCorrect, PTL DEF Spec, InactiveIsFinal
=============================================================================
