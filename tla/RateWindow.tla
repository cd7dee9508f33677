------------------------------ MODULE RateWindow ------------------------------
(***************************************************************************)
(* The sliding window behind the gateway's rate limit: the calls of        *)
(* RateLimiter.is_allowed() on one key (tenant, route and client address). *)
(*                                                                         *)
(* A call takes its timestamp, suspends on a MULTI/EXEC that prunes the    *)
(* sorted set, adds the call, counts and renews the key's time to live,    *)
(* and decides when the answer comes.  Calls overlap, so the server may    *)
(* run them in another order than their timestamps.  An answer that does   *)
(* not come within the client's timeouts is an exception; the transaction  *)
(* it belongs to may have run, or may still run later.                     *)
(*                                                                         *)
(* The gateway's clock and the server's are one and never go back, and the *)
(* server keeps its data.  What the gateway does of an unanswered call     *)
(* (it lets the request through, unless fail-open is off) is not counted.  *)
(***************************************************************************)
EXTENDS Naturals, FiniteSets

CONSTANTS
    Calls,      \* the calls made on the key
    Limit,      \* the policy's rate_limit_per_minute
    Window,     \* window_seconds
    MaxDelay,   \* the oldest timestamp whose answer the client still awaits
    MaxTime     \* bound on the clock

ASSUME CallsAssumption == IsFiniteSet(Calls)
ASSUME NumbersAssumption ==
    /\ Limit \in Nat
    /\ Window \in Nat \ {0}
    /\ MaxDelay \in Nat
    /\ MaxTime \in Nat

VARIABLES
    clock,
    status,     \* status[c]: what became of call c
    ts,         \* ts[c]: its timestamp, which is also its score
    pending,    \* calls whose transaction may still reach the server
    zset,       \* members of the key's sorted set
    expiry      \* when the server drops the key

vars == <<clock, status, ts, pending, zset, expiry>>

Status == {"idle", "sent", "allowed", "denied", "unanswered"}

TypeOK ==
    /\ clock \in 0..MaxTime
    /\ status \in [Calls -> Status]
    /\ ts \in [Calls -> 0..MaxTime]
    /\ pending \subseteq Calls
    /\ zset \subseteq Calls
    /\ expiry \in Nat

Init ==
    /\ clock = 0
    /\ status = [c \in Calls |-> "idle"]
    /\ ts = [c \in Calls |-> 0]
    /\ pending = {}
    /\ zset = {}
    /\ expiry = 0

-----------------------------------------------------------------------------
\* Mutant: the score is the end of the call's window.
StartAtWindowEnd(c) ==
    /\ status[c] = "idle"
    /\ status' = [status EXCEPT ![c] = "sent"]
    /\ ts' = [ts EXCEPT ![c] = clock + Window]
    /\ pending' = pending \cup {c}
    /\ UNCHANGED <<clock, zset, expiry>>

\* now = time.time(); the transaction is queued and execute() suspends.
Start(c) ==
    /\ status[c] = "idle"
    /\ status' = [status EXCEPT ![c] = "sent"]
    /\ ts' = [ts EXCEPT ![c] = clock]
    /\ pending' = pending \cup {c}
    /\ UNCHANGED <<clock, zset, expiry>>

\* Mutant: the set is not pruned, it only expires.
KeptUntilExpiry(c) == IF clock >= expiry THEN {} ELSE zset

\* What c's transaction finds after ZREMRANGEBYSCORE: an expired key is empty.
Kept(c) ==
    IF clock >= expiry THEN {} ELSE {d \in zset : ts[d] + Window > ts[c]}

\* Mutant: the count is taken before the call is added.
AdmitsUncounted(members) == Cardinality(members) <= Limit + 1

\* return count <= limit
Admits(members) == Cardinality(members) <= Limit

\* MULTI/EXEC on the server: prune, ZADD, ZCARD and EXPIRE in one step.
\* A call that is still awaited in time decides by the count; the answer may
\* also be lost on its way.
Execute(c) ==
    /\ c \in pending
    /\ pending' = pending \ {c}
    /\ zset' = Kept(c) \cup {c}
    /\ expiry' = clock + Window
    /\ \/ /\ status[c] = "sent"
          /\ clock <= ts[c] + MaxDelay
          /\ status' = [status EXCEPT ![c] = IF Admits(zset') THEN "allowed" ELSE "denied"]
       \/ UNCHANGED status
    /\ UNCHANGED <<clock, ts>>

\* The client gives up: a timeout or a broken connection.
Abandon(c) ==
    /\ status[c] = "sent"
    /\ status' = [status EXCEPT ![c] = "unanswered"]
    /\ UNCHANGED <<clock, ts, pending, zset, expiry>>

\* The transaction never reaches the server.
Lose(c) ==
    /\ c \in pending
    /\ pending' = pending \ {c}
    /\ UNCHANGED <<clock, status, ts, zset, expiry>>

Tick ==
    /\ clock < MaxTime
    /\ clock' = clock + 1
    /\ UNCHANGED <<status, ts, pending, zset, expiry>>

Next ==
    \/ \E c \in Calls : Start(c) \/ Execute(c) \/ Abandon(c) \/ Lose(c)
    \/ Tick

Spec == Init /\ [][Next]_vars

-----------------------------------------------------------------------------
(***************************************************************************)
(* Properties.                                                             *)
(***************************************************************************)

\* Calls the limiter answered with True and stamped in the window that ends
\* at T, without the last MaxDelay units at its far end.
Admitted(T) == {c \in Calls : status[c] = "allowed" /\ ts[c] <= T /\ ts[c] + Window > T + MaxDelay}

\* "Max N requests/min." (rate_limit_checker.py): whatever the order in which
\* the server runs overlapping calls, and whatever is lost or runs late, no
\* window of Window - MaxDelay units holds more than Limit admitted calls.
WindowBound == \A T \in 0..MaxTime : Cardinality(Admitted(T)) <= Limit

\* Calls made around call c: after its window began, and before its answer
\* could still be awaited.
Rivals(c) == {d \in Calls : status[d] # "idle" /\ ts[d] + Window > ts[c] /\ ts[d] <= ts[c] + MaxDelay}

\* A 429 is only given to a client that really made more than Limit calls in
\* about a window: old members and a key that outlives them do not count.
DenialJustified == \A c \in Calls : status[c] = "denied" => Cardinality(Rivals(c)) > Limit
=============================================================================
