------------------------- MODULE SnapshotRows_proofs -------------------------
(***************************************************************************)
(* Proofs about SnapshotRows: when a load of four separate SELECTs is as   *)
(* good as atomic, and what it answers wrongly when it is not, for any     *)
(* number of routes, domains and transactions.                             *)
(***************************************************************************)
EXTENDS SnapshotRows, WellFoundedInduction, TLAPS

\* A row table of d is that of some configuration in S.
Somewhere(S, d) ==
    /\ \E c \in S : d.domains = c.domains
    /\ \E c \in S : d.routes = c.routes
    /\ \E c \in S : d.policies = c.policies
    /\ \E c \in S : d.fallbacks = c.fallbacks

\* What the load in progress has read was committed while it ran.
ReadsCommitted ==
    /\ step > 0 => db \in overlap
    /\ step > 1 => \E c \in overlap : buffer.domains = c.domains
    /\ step > 2 => \E c \in overlap : buffer.routes = c.routes
    /\ step > 3 => \E c \in overlap : buffer.policies = c.policies
    /\ step > 4 => \E c \in overlap : buffer.fallbacks = c.fallbacks

ServesCommitted == Somewhere(origin, snapshot)

IInv == TypeOK /\ ReadsCommitted /\ ServesCommitted

\* One transaction apart: the routes, or the domains, may lose a member
\* together with its policy.
Near(d, e) ==
    \/ d.domains = e.domains /\ d.routes = e.routes /\ d.fallbacks = e.fallbacks
    \/ d.domains = e.domains /\ d.routes = e.routes /\ d.policies = e.policies
    \/ /\ d.domains = e.domains /\ d.fallbacks = e.fallbacks
       /\ \A r \in d.routes \cap e.routes : d.policies[r] = e.policies[r]
    \/ /\ d.routes = e.routes /\ d.policies = e.policies
       /\ \A h \in d.domains \cap e.domains : d.fallbacks[h] = e.fallbacks[h]

\* Two configurations that are all of S are one transaction apart.
NearPair(S) == \A d, e \in S : S = {d, e} => Near(d, e)

Neighbours ==
    /\ \A d \in tx : Near(db, d)
    /\ NearPair(overlap)
    /\ NearPair(origin)

-----------------------------------------------------------------------------
\* The operations make configurations of configurations.
LEMMA ResultsType ==
    ASSUME NEW o \in OpNames, NEW d \in Configuration
    PROVE  Results(o, d) \subseteq Configuration
<1> USE DEF Configuration, Row, Policy
<1>1. CreateRoute(d) \subseteq Configuration BY DEF CreateRoute
<1>2. DeleteRoute(d) \subseteq Configuration
  <2>1. \A r \in d.routes : WithoutRoute(d, r) \in Configuration BY DEF WithoutRoute
  <2>2. QED BY <2>1 DEF DeleteRoute
<1>3. SavePolicy(d) \subseteq Configuration BY DEF SavePolicy
<1>4. DeletePolicy(d) \subseteq Configuration BY DEF DeletePolicy
<1>5. CreateDomain(d) \subseteq Configuration BY DEF CreateDomain
<1>6. DeleteDomain(d) \subseteq Configuration
  <2>1. \A h \in d.domains : WithoutDomain(d, h) \in Configuration BY DEF WithoutDomain
  <2>2. QED BY <2>1 DEF DeleteDomain
<1>7. SaveDomainPolicy(d) \subseteq Configuration BY DEF SaveDomainPolicy
<1>8. DeleteDomainPolicy(d) \subseteq Configuration BY DEF DeleteDomainPolicy
<1>9. o \in Operations BY OpsAssumption
<1>10. QED
  BY <1>1, <1>2, <1>3, <1>4, <1>5, <1>6, <1>7, <1>8, <1>9 DEF Results, Operations

\* A configuration is given by its four tables.
LEMMA FourTables ==
    ASSUME NEW d \in Configuration, NEW e \in Configuration,
           d.domains = e.domains, d.routes = e.routes,
           d.policies = e.policies, d.fallbacks = e.fallbacks
    PROVE  d = e
BY DEF Configuration

\* The tables in which two configurations agree.
LEMMA ThreeAlike ==
    ASSUME NEW d \in Configuration, NEW e \in Configuration, OneTable(d, e)
    PROVE  \/ d.routes = e.routes /\ d.policies = e.policies /\ d.fallbacks = e.fallbacks
           \/ d.domains = e.domains /\ d.policies = e.policies /\ d.fallbacks = e.fallbacks
           \/ d.domains = e.domains /\ d.routes = e.routes /\ d.fallbacks = e.fallbacks
           \/ d.domains = e.domains /\ d.routes = e.routes /\ d.policies = e.policies
BY DEF OneTable, Configuration

-----------------------------------------------------------------------------
LEMMA InitInv == Init => IInv
<1> SUFFICES ASSUME Init PROVE IInv OBVIOUS
<1> USE DEF Init
<1>1. TypeOK BY NumbersAssumption DEF TypeOK, Configuration, Nothing, Row
<1>2. QED BY <1>1 DEF IInv, ReadsCommitted, ServesCommitted, Somewhere

LEMMA TypeStep == TypeOK /\ [Next]_vars => TypeOK'
<1> SUFFICES ASSUME TypeOK, [Next]_vars PROVE TypeOK' OBVIOUS
<1> USE NumbersAssumption DEF TypeOK
<1>0. Nothing \in Configuration BY DEF Nothing, Configuration, Row
<1>1. ASSUME NEW o \in OpNames, Announce(o) PROVE TypeOK'
  <2>1. PICK d \in Results(o, db) : tx' = {d} /\ used' = used \cup d.routes BY <1>1 DEF Announce
  <2>2. d \in Configuration BY <2>1, ResultsType
  <2>3. d.routes \subseteq Routes BY <2>2 DEF Configuration
  <2>4. QED BY <1>1, <2>1, <2>2, <2>3 DEF Announce, loadVars
<1>2. CASE Commit BY <1>2 DEF Commit
<1>3. CASE Rollback BY <1>3 DEF Rollback, loadVars
<1>4. CASE LoadStarts BY <1>0, <1>4 DEF LoadStarts
<1>5. CASE ReadNext
  <2>1. buffer' \in Configuration BY <1>5 DEF ReadNext, Configuration
  <2>2. QED BY <1>5, <2>1 DEF ReadNext
<1>6. CASE LoadEnds BY <1>0, <1>6 DEF LoadEnds
<1>7. CASE LoadFails BY <1>0, <1>7 DEF LoadFails
<1>8. CASE UNCHANGED vars BY <1>8 DEF vars, loadVars
<1>9. QED BY <1>1, <1>2, <1>3, <1>4, <1>5, <1>6, <1>7, <1>8 DEF Next

LEMMA ReadsStep == TypeOK /\ ReadsCommitted /\ [Next]_vars => ReadsCommitted'
<1> SUFFICES ASSUME TypeOK, ReadsCommitted, [Next]_vars PROVE ReadsCommitted' OBVIOUS
<1> USE DEF TypeOK, ReadsCommitted
<1>1. ASSUME NEW o \in OpNames, Announce(o) PROVE ReadsCommitted'
  BY <1>1 DEF Announce, loadVars
<1>2. CASE Commit BY <1>2 DEF Commit
<1>3. CASE Rollback BY <1>3 DEF Rollback, loadVars
<1>4. CASE LoadStarts BY <1>4 DEF LoadStarts
<1>5. CASE ReadNext
  <2>1. step \in 1..4 /\ step' = step + 1 /\ db' = db /\ overlap' = overlap BY <1>5 DEF ReadNext
  <2>2. CASE step = 1 BY <1>5, <2>1, <2>2 DEF ReadNext, Configuration
  <2>3. CASE step = 2 BY <1>5, <2>1, <2>3 DEF ReadNext, Configuration
  <2>4. CASE step = 3 BY <1>5, <2>1, <2>4 DEF ReadNext, Configuration
  <2>5. CASE step = 4 BY <1>5, <2>1, <2>5 DEF ReadNext, Configuration
  <2>6. QED BY <2>1, <2>2, <2>3, <2>4, <2>5
<1>6. CASE LoadEnds BY <1>6 DEF LoadEnds
<1>7. CASE LoadFails BY <1>7 DEF LoadFails
<1>8. CASE UNCHANGED vars BY <1>8 DEF vars, loadVars
<1>9. QED BY <1>1, <1>2, <1>3, <1>4, <1>5, <1>6, <1>7, <1>8 DEF Next

LEMMA ServesStep == TypeOK /\ ReadsCommitted /\ ServesCommitted /\ [Next]_vars => ServesCommitted'
<1> SUFFICES ASSUME TypeOK, ReadsCommitted, ServesCommitted, [Next]_vars PROVE ServesCommitted'
  OBVIOUS
<1>1. CASE LoadEnds BY <1>1 DEF LoadEnds, ReadsCommitted, ServesCommitted, Somewhere
<1>2. CASE ~LoadEnds
  <2>1. UNCHANGED <<snapshot, origin>>
    BY <1>2 DEF Next, Announce, Commit, Rollback, LoadStarts, ReadNext, LoadFails, vars, loadVars
  <2>2. QED BY <2>1 DEF ServesCommitted, Somewhere
<1>3. QED BY <1>1, <1>2

LEMMA InvStep == IInv /\ [Next]_vars => IInv'
BY TypeStep, ReadsStep, ServesStep DEF IInv

THEOREM Invariance == Spec => []IInv
BY InitInv, InvStep, PTL DEF Spec

-----------------------------------------------------------------------------
\* Every variable keeps its type: what the operations commit are
\* configurations, and a load reads four tables and no more (load()).
THEOREM TypeCorrect == Spec => []TypeOK
<1>1. IInv => TypeOK BY DEF IInv
<1>2. QED BY <1>1, Invariance, PTL

\* However many transactions a load overlaps, it is as good as atomic if
\* they change one table: no snapshot mixes two of their states (load()).
THEOREM AtomicLoads == Spec => []AtomicUnlessTorn
<1>1. ASSUME IInv PROVE AtomicUnlessTorn
  <2> SUFFICES ASSUME \A d, e \in origin : OneTable(d, e) PROVE snapshot \in origin
    BY DEF AtomicUnlessTorn
  <2> USE <1>1 DEF IInv, TypeOK
  <2>1. PICK a \in origin : snapshot.domains = a.domains BY DEF ServesCommitted, Somewhere
  <2>2. PICK b \in origin : snapshot.routes = b.routes BY DEF ServesCommitted, Somewhere
  <2>3. PICK c \in origin : snapshot.policies = c.policies BY DEF ServesCommitted, Somewhere
  <2>4. PICK f \in origin : snapshot.fallbacks = f.fallbacks BY DEF ServesCommitted, Somewhere
  <2>5. \A d, e \in origin :
           \/ d.routes = e.routes /\ d.policies = e.policies /\ d.fallbacks = e.fallbacks
           \/ d.domains = e.domains /\ d.policies = e.policies /\ d.fallbacks = e.fallbacks
           \/ d.domains = e.domains /\ d.routes = e.routes /\ d.fallbacks = e.fallbacks
           \/ d.domains = e.domains /\ d.routes = e.routes /\ d.policies = e.policies
    BY ThreeAlike
  <2>6. \E d \in {a, b, c, f} :
           /\ a.domains = d.domains /\ b.routes = d.routes
           /\ c.policies = d.policies /\ f.fallbacks = d.fallbacks
    BY <2>5, SMTT(60)
  <2>7. QED BY <2>1, <2>2, <2>3, <2>4, <2>6, FourTables
<1>2. QED BY <1>1, Invariance, PTL

-----------------------------------------------------------------------------
\* An operation ends one transaction away from where it began.
LEMMA ResultsNear ==
    ASSUME NEW o \in OpNames, NEW d \in Configuration, NEW e \in Results(o, d)
    PROVE  Near(d, e)
<1> USE DEF Near, Configuration
<1>1. \A f \in CreateRoute(d) : Near(d, f) BY DEF CreateRoute
<1>2. \A r \in d.routes : Near(d, WithoutRoute(d, r)) BY DEF WithoutRoute
<1>3. \A f \in DeleteRoute(d) : Near(d, f) BY <1>2 DEF DeleteRoute
<1>4. \A f \in SavePolicy(d) : Near(d, f) BY DEF SavePolicy
<1>5. \A f \in DeletePolicy(d) : Near(d, f) BY DEF DeletePolicy
<1>6. \A f \in CreateDomain(d) : Near(d, f) BY DEF CreateDomain
<1>7. \A h \in d.domains : Near(d, WithoutDomain(d, h)) BY DEF WithoutDomain
<1>8. \A f \in DeleteDomain(d) : Near(d, f) BY <1>7 DEF DeleteDomain
<1>9. \A f \in SaveDomainPolicy(d) : Near(d, f) BY DEF SaveDomainPolicy
<1>10. \A f \in DeleteDomainPolicy(d) : Near(d, f) BY DEF DeleteDomainPolicy
<1>11. o \in Operations BY OpsAssumption
<1> HIDE DEF Near
<1>12. QED
  BY <1>1, <1>3, <1>4, <1>5, <1>6, <1>8, <1>9, <1>10, <1>11 DEF Results, Operations

LEMMA NeighboursStep == IInv /\ Neighbours /\ [Next]_vars => Neighbours'
<1> SUFFICES ASSUME IInv, Neighbours, [Next]_vars PROVE Neighbours' OBVIOUS
<1> USE DEF Neighbours, NearPair
<1>1. ASSUME NEW o \in OpNames, Announce(o) PROVE Neighbours'
  <2>1. PICK d \in Results(o, db) : tx' = {d} BY <1>1 DEF Announce
  <2>2. Near(db, d) BY ResultsNear DEF IInv, TypeOK
  <2>3. QED BY <1>1, <2>1, <2>2 DEF Announce, loadVars
<1>2. CASE Commit
  <2>1. PICK t \in tx : db' = t /\ overlap' = IF step = 0 THEN {} ELSE overlap \cup {t}
    BY <1>2 DEF Commit
  <2>2. Near(db, t) /\ Near(t, db) BY <2>1 DEF Near
  <2>3. step # 0 => db \in overlap BY DEF IInv, TypeOK, ReadsCommitted
  <2>4. NearPair(overlap')
    <3> SUFFICES ASSUME NEW d \in overlap', NEW e \in overlap', overlap' = {d, e}
                 PROVE Near(d, e)
      OBVIOUS
    <3>1. step # 0 /\ overlap' = overlap \cup {t} BY <2>1
    <3>2. CASE t \in overlap BY <3>1, <3>2
    <3>3. CASE t \notin overlap
      <4>1. db # t /\ {d, e} = {db, t} BY <2>3, <3>1, <3>3
      <4>2. QED BY <2>2, <4>1
    <3>4. QED BY <3>2, <3>3
  <2>5. QED BY <1>2, <2>4 DEF Commit
<1>3. CASE Rollback BY <1>3 DEF Rollback, loadVars
<1>4. CASE LoadStarts
  <2>1. Near(db, db) BY DEF Near
  <2>2. QED BY <1>4, <2>1 DEF LoadStarts
<1>5. CASE ReadNext BY <1>5 DEF ReadNext
<1>6. CASE LoadEnds BY <1>6 DEF LoadEnds
<1>7. CASE LoadFails BY <1>7 DEF LoadFails
<1>8. CASE UNCHANGED vars BY <1>8 DEF vars, loadVars
<1>9. QED BY <1>1, <1>2, <1>3, <1>4, <1>5, <1>6, <1>7, <1>8 DEF Next

\* The least of some routes is one of them.
LEMMA MinIsMember ==
    ASSUME NEW S \in SUBSET Routes, S # {}
    PROVE  Min(S) \in S
<1>1. S \subseteq Nat BY NumbersAssumption DEF Routes
<1>2. PICK x \in S : \A y \in S : ~(<<y, x>> \in OpToRel(<, Nat))
  BY <1>1, NatLessThanWellFounded, WFMin
<1>3. \A y \in S : x <= y
  <2> SUFFICES ASSUME NEW y \in S PROVE x <= y OBVIOUS
  <2>1. ~(y < x) BY <1>1, <1>2 DEF OpToRel
  <2>2. QED BY <1>1, <2>1
<1>4. QED BY <1>3 DEF Min

\* What decides a request: its host, the routes it matches, and the policy
\* in force for the first of them.
LEMMA SameOutcome ==
    ASSUME NEW d \in Configuration, NEW e \in Configuration, NEW q \in Request,
           q.host \in d.domains, q.host \in e.domains, Matched(d, q) = Matched(e, q),
           Matched(d, q) # {} =>
               EffectivePolicy(d, Min(Matched(d, q)), q.host)
               = EffectivePolicy(e, Min(Matched(d, q)), q.host)
    PROVE  Outcome(d, q) = Outcome(e, q)
BY DEF Outcome

\* A torn snapshot answers for what stayed as one of the configurations it
\* was torn between (load(), ForwardRequest.handle()).
THEOREM TearIsLocal == Spec => []TearHitsOnlyTheDeleted
<1>1. Init => Neighbours
  <2>1. Init => Near(db, db) BY DEF Near
  <2>2. QED BY <2>1 DEF Init, Neighbours, NearPair
<1>2. ASSUME IInv, Neighbours PROVE TearHitsOnlyTheDeleted
  <2> SUFFICES ASSUME NEW d \in origin, NEW e \in origin, origin = {d, e},
                      NEW q \in Request, q.host \in d.domains \cap e.domains,
                      Matched(d, q) = Matched(e, q)
               PROVE Outcome(snapshot, q) \in {Outcome(d, q), Outcome(e, q)}
    BY DEF TearHitsOnlyTheDeleted
  <2>1. /\ d \in Configuration /\ e \in Configuration /\ snapshot \in Configuration
        /\ snapshot.domains \in {d.domains, e.domains}
        /\ snapshot.routes \in {d.routes, e.routes}
        /\ snapshot.policies \in {d.policies, e.policies}
        /\ snapshot.fallbacks \in {d.fallbacks, e.fallbacks}
    BY <1>2 DEF IInv, TypeOK, ServesCommitted, Somewhere
  <2>2. Near(d, e) BY <1>2 DEF Neighbours, NearPair
  <2>3. q.host \in snapshot.domains /\ Matched(snapshot, q) = Matched(d, q)
    BY <2>1 DEF Matched
  <2>4. CASE snapshot = d \/ snapshot = e BY <2>4
  <2>5. CASE /\ d.domains = e.domains /\ d.fallbacks = e.fallbacks
             /\ \A r \in d.routes \cap e.routes : d.policies[r] = e.policies[r]
    <3>1. ASSUME Matched(d, q) # {}
          PROVE Min(Matched(d, q)) \in d.routes \cap e.routes
      <4>1. Matched(d, q) \subseteq Routes BY <2>1 DEF Matched, Configuration
      <4>2. Min(Matched(d, q)) \in Matched(d, q) BY <3>1, <4>1, MinIsMember
      <4>3. QED BY <4>2 DEF Matched
    <3>2. Matched(d, q) # {} =>
              EffectivePolicy(snapshot, Min(Matched(snapshot, q)), q.host)
              = EffectivePolicy(d, Min(Matched(snapshot, q)), q.host)
      BY <2>1, <2>3, <2>5, <3>1 DEF EffectivePolicy
    <3>3. QED BY <2>1, <2>3, <3>2, SameOutcome
  <2>6. CASE /\ d.routes = e.routes /\ d.policies = e.policies
             /\ \A h \in d.domains \cap e.domains : d.fallbacks[h] = e.fallbacks[h]
    <3>1. EffectivePolicy(snapshot, Min(Matched(snapshot, q)), q.host)
          = EffectivePolicy(d, Min(Matched(snapshot, q)), q.host)
      BY <2>1, <2>6 DEF EffectivePolicy
    <3>2. QED BY <2>1, <2>3, <3>1, SameOutcome
  <2>7. QED BY <2>1, <2>2, <2>4, <2>5, <2>6, FourTables DEF Near
<1>3. QED BY <1>1, <1>2, InitInv, InvStep, NeighboursStep, PTL DEF Spec
=============================================================================
