---------------------------- MODULE SnapshotRows ----------------------------
(***************************************************************************)
(* The rows behind the gateway's snapshot, and what a request is answered  *)
(* from them.  ConfigPropagation says when a snapshot is loaded; this      *)
(* module says what a load that overlaps transactions may see.             *)
(*                                                                         *)
(*  - A load is four SELECTs in one READ COMMITTED transaction: each sees  *)
(*    what is committed when it runs.                                      *)
(*  - A deletion cascades to policies, so a transaction may change two     *)
(*    tables.  It is announced before it commits.                          *)
(*  - A request is decided by one snapshot: its lookups do not suspend.    *)
(*                                                                         *)
(* One tenant, one administrator at a time.  A policy is either open or    *)
(* guarded (it asks for a bearer token); the other checks are left out,    *)
(* and so are updates of a route, which change what requests it matches.   *)
(***************************************************************************)
EXTENDS Naturals, FiniteSets, FiniteSetsExt

CONSTANTS
    NRoutes,        \* routes, the longest path prefix first
    Hosts,          \* domains of the tenant
    OpNames,        \* the administrative operations a run explores
    MaxChanges      \* bound on the transactions of a behaviour

Routes == 1..NRoutes

ASSUME NumbersAssumption ==
    /\ NRoutes \in Nat
    /\ MaxChanges \in Nat

Policy == {"open", "guarded"}
Row    == Policy \cup {"absent"}

\* The rows the snapshot is made of, with the foreign keys between them.
Configuration ==
    [domains : SUBSET Hosts, routes : SUBSET Routes,
     policies : [Routes -> Row], fallbacks : [Hosts -> Row]]

Consistent(d) ==
    /\ \A r \in Routes : d.policies[r] # "absent" => r \in d.routes
    /\ \A h \in Hosts : d.fallbacks[h] # "absent" => h \in d.domains

VARIABLES
    db,         \* what is committed
    tx,         \* the rows an open transaction will commit, if any
    used,       \* identities of routes that were ever used
    changes,    \* transactions so far
    messages,   \* announcements the subscriber has not read
    step,       \* tables the load in progress has read; 0 when there is none
    buffer,     \* the rows it has read
    overlap,    \* configurations committed since it began
    snapshot,   \* the rows being served
    origin      \* configurations the load of the snapshot overlapped

loadVars == <<step, buffer, overlap, snapshot, origin>>
vars == <<db, tx, used, changes, messages, loadVars>>

TypeOK ==
    /\ db \in Configuration
    /\ tx \in SUBSET Configuration
    /\ used \subseteq Routes
    /\ changes \in 0..MaxChanges
    /\ messages \in 0..changes
    /\ step \in 0..5
    /\ buffer \in Configuration
    /\ overlap \in SUBSET Configuration
    /\ snapshot \in Configuration
    /\ origin \in SUBSET Configuration

Nothing ==
    [domains |-> {}, routes |-> {},
     policies |-> [r \in Routes |-> "absent"], fallbacks |-> [h \in Hosts |-> "absent"]]

\* The gateway has just loaded a configuration.
Init ==
    /\ db \in {d \in Configuration : Consistent(d)}
    /\ tx = {}
    /\ used = db.routes
    /\ changes = 0
    /\ messages = 0
    /\ step = 0
    /\ buffer = Nothing
    /\ overlap = {}
    /\ snapshot = db
    /\ origin = {db}

-----------------------------------------------------------------------------
(***************************************************************************)
(* What the administrative operations make of a configuration.             *)
(***************************************************************************)
CreateRoute(d) ==
    {[d EXCEPT !.routes = @ \cup {r}] : r \in Routes \ used}

\* The policy goes with its route (ON DELETE CASCADE).
WithoutRoute(d, r) ==
    [d EXCEPT !.routes = @ \ {r}, !.policies = [@ EXCEPT ![r] = "absent"]]

DeleteRoute(d) == {WithoutRoute(d, r) : r \in d.routes}

SavePolicy(d) ==
    {[d EXCEPT !.policies = [@ EXCEPT ![r] = p]] : r \in d.routes, p \in Policy}

DeletePolicy(d) ==
    {[d EXCEPT !.policies = [@ EXCEPT ![r] = "absent"]] :
        r \in {s \in d.routes : d.policies[s] # "absent"}}

CreateDomain(d) ==
    {[d EXCEPT !.domains = @ \cup {h}] : h \in Hosts \ d.domains}

\* The fallback policy goes with its domain.
WithoutDomain(d, h) ==
    [d EXCEPT !.domains = @ \ {h}, !.fallbacks = [@ EXCEPT ![h] = "absent"]]

DeleteDomain(d) == {WithoutDomain(d, h) : h \in d.domains}

SaveDomainPolicy(d) ==
    {[d EXCEPT !.fallbacks = [@ EXCEPT ![h] = p]] : h \in d.domains, p \in Policy}

DeleteDomainPolicy(d) ==
    {[d EXCEPT !.fallbacks = [@ EXCEPT ![h] = "absent"]] :
        h \in {g \in d.domains : d.fallbacks[g] # "absent"}}

Results(o, d) ==
    CASE o = "CreateRoute"        -> CreateRoute(d)
      [] o = "DeleteRoute"        -> DeleteRoute(d)
      [] o = "SavePolicy"         -> SavePolicy(d)
      [] o = "DeletePolicy"       -> DeletePolicy(d)
      [] o = "CreateDomain"       -> CreateDomain(d)
      [] o = "DeleteDomain"       -> DeleteDomain(d)
      [] o = "SaveDomainPolicy"   -> SaveDomainPolicy(d)
      [] o = "DeleteDomainPolicy" -> DeleteDomainPolicy(d)

Operations == {"CreateRoute", "DeleteRoute", "SavePolicy", "DeletePolicy", "CreateDomain",
               "DeleteDomain", "SaveDomainPolicy", "DeleteDomainPolicy"}

ASSUME OpsAssumption == OpNames \subseteq Operations

-----------------------------------------------------------------------------
\* A use case has written its rows and announced them.
Announce(o) ==
    /\ tx = {}
    /\ changes < MaxChanges
    /\ \E d \in Results(o, db) : tx' = {d} /\ used' = used \cup d.routes
    /\ changes' = changes + 1
    /\ messages' = messages + 1
    /\ UNCHANGED <<db, loadVars>>

\* The request dependency is closed.
Commit ==
    /\ \E d \in tx :
           /\ db' = d
           /\ overlap' = IF step = 0 THEN {} ELSE overlap \cup {d}
    /\ tx' = {}
    /\ UNCHANGED <<used, changes, messages, step, buffer, snapshot, origin>>

\* The request fails after all; its message is not taken back.
Rollback ==
    /\ tx # {}
    /\ tx' = {}
    /\ UNCHANGED <<db, used, changes, messages, loadVars>>

-----------------------------------------------------------------------------
\* The subscriber reads a message and reloads.
LoadStarts ==
    /\ step = 0
    /\ messages > 0
    /\ messages' = messages - 1
    /\ step' = 1
    /\ buffer' = Nothing
    /\ overlap' = {db}
    /\ UNCHANGED <<db, tx, used, changes, snapshot, origin>>

\* Mutant: the fallback policies are kept from the last load.
ReadNextKeepsFallbacks ==
    /\ step \in 1..4
    /\ step' = step + 1
    /\ buffer' = CASE step = 1 -> [buffer EXCEPT !.domains = db.domains]
                   [] step = 2 -> [buffer EXCEPT !.routes = db.routes]
                   [] step = 3 -> [buffer EXCEPT !.policies = db.policies]
                   [] step = 4 -> [buffer EXCEPT !.fallbacks = snapshot.fallbacks]
    /\ UNCHANGED <<db, tx, used, changes, messages, overlap, snapshot, origin>>

\* Mutant: one SELECT too many.
ReadNextPastTheEnd ==
    /\ step \in 1..5
    /\ step' = step + 1
    /\ buffer' = IF step = 1 THEN [buffer EXCEPT !.domains = db.domains] ELSE buffer
    /\ UNCHANGED <<db, tx, used, changes, messages, overlap, snapshot, origin>>

\* The next SELECT of load().
ReadNext ==
    /\ step \in 1..4
    /\ step' = step + 1
    /\ buffer' = CASE step = 1 -> [buffer EXCEPT !.domains = db.domains]
                   [] step = 2 -> [buffer EXCEPT !.routes = db.routes]
                   [] step = 3 -> [buffer EXCEPT !.policies = db.policies]
                   [] step = 4 -> [buffer EXCEPT !.fallbacks = db.fallbacks]
    /\ UNCHANGED <<db, tx, used, changes, messages, overlap, snapshot, origin>>

\* Mutant: the new policies are added to the old ones.
LoadEndsMerging ==
    /\ step = 5
    /\ step' = 0
    /\ snapshot' = [buffer EXCEPT !.policies =
           [r \in Routes |-> IF @[r] = "absent" THEN snapshot.policies[r] ELSE @[r]]]
    /\ origin' = overlap
    /\ buffer' = Nothing
    /\ overlap' = {}
    /\ UNCHANGED <<db, tx, used, changes, messages>>

\* The five attributes are assigned without a suspension point.
LoadEnds ==
    /\ step = 5
    /\ step' = 0
    /\ snapshot' = buffer
    /\ origin' = overlap
    /\ buffer' = Nothing
    /\ overlap' = {}
    /\ UNCHANGED <<db, tx, used, changes, messages>>

\* A SELECT raises: the snapshot stays as it was.
LoadFails ==
    /\ step \in 1..4
    /\ step' = 0
    /\ buffer' = Nothing
    /\ overlap' = {}
    /\ UNCHANGED <<db, tx, used, changes, messages, snapshot, origin>>

Next ==
    \/ \E o \in OpNames : Announce(o)
    \/ Commit
    \/ Rollback
    \/ LoadStarts
    \/ ReadNext
    \/ LoadEnds
    \/ LoadFails

Spec == Init /\ [][Next]_vars

-----------------------------------------------------------------------------
(***************************************************************************)
(* What a request gets from a configuration: its host, the routes that     *)
(* match its path and method, and whether it brings a bearer token.        *)
(***************************************************************************)
Request == [host : Hosts, matching : SUBSET Routes, bearer : BOOLEAN]

\* get_by_path(): the routes are kept in the order of the query.
Matched(d, q) == d.routes \cap q.matching

\* The route's own policy, else the fallback of the host.
EffectivePolicy(d, r, h) == IF d.policies[r] # "absent" THEN d.policies[r] ELSE d.fallbacks[h]

Outcome(d, q) ==
    IF q.host \notin d.domains THEN "TENANT_NOT_FOUND"
    ELSE IF Matched(d, q) = {} THEN "ROUTE_NOT_FOUND"
    ELSE IF EffectivePolicy(d, Min(Matched(d, q)), q.host) = "guarded" /\ ~q.bearer
         THEN "POLICY_DENIED"
         ELSE "FORWARDED"

-----------------------------------------------------------------------------
(***************************************************************************)
(* Properties.                                                             *)
(***************************************************************************)

\* Two configurations differ in one table at most.
OneTable(d, e) ==
    \/ d = [e EXCEPT !.domains = d.domains]
    \/ d = [e EXCEPT !.routes = d.routes]
    \/ d = [e EXCEPT !.policies = d.policies]
    \/ d = [e EXCEPT !.fallbacks = d.fallbacks]

\* A load is as good as atomic while the transactions it overlaps change the
\* same table only, however many they are: the snapshot is a configuration
\* that was committed (postgres_snapshot.py, load()).
AtomicUnlessTorn == (\A d, e \in origin : OneTable(d, e)) => snapshot \in origin

\* A deletion that overlaps a load tears the snapshot (see below), but only
\* for what it deletes: after a load that overlapped one transaction, a
\* request for a host and routes that stayed is answered as by the
\* configuration before that transaction or the one after it.
TearHitsOnlyTheDeleted ==
    \A d, e \in origin :
        origin = {d, e} =>
            \A q \in Request :
                q.host \in d.domains \cap e.domains /\ Matched(d, q) = Matched(e, q)
                => Outcome(snapshot, q) \in {Outcome(d, q), Outcome(e, q)}

\* NOT a property of this code (see the run that refutes it): a request
\* without a token is refused by the gateway if every configuration committed
\* while the snapshot was loaded refuses it, "Rota com requires_auth -> sem
\* Bearer retorna 401" (docs/casos-de-uso.md).
RefusedIfAlwaysRefused ==
    \A q \in Request :
        (\A d \in origin : Outcome(d, q) # "FORWARDED") => Outcome(snapshot, q) # "FORWARDED"
=============================================================================
