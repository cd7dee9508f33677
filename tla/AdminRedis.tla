------------------------------ MODULE AdminRedis ------------------------------
(***************************************************************************)
(* The admin service's users of Redis: the notifier that announces a       *)
(* change and the reader of the gateway's raw logs, each with a circuit    *)
(* breaker, and the health check that re-arms them.                        *)
(*                                                                         *)
(* A breaker is open while its adapter is inactive in the registry or      *)
(* while its own retry instant is still to come (resting).  The adapter's  *)
(* failure counter and the registry's attempts always move together, so    *)
(* one stands for both.  Time is abstracted: a rest may end at any moment. *)
(***************************************************************************)
EXTENDS DependencyStatus

CONSTANTS
    Ops,            \* operations an adapter may have open at the same time
    Streams,        \* the most streams a read of the logs visits
    MaxFailures,    \* failures that make an adapter inactive
    MaxAttempts,    \* bound on the failures counted in a row
    Faults          \* the kinds of fault a run injects

ASSUME NumbersAssumption ==
    /\ Streams \in Nat
    /\ MaxFailures \in Nat \ {0}
    /\ MaxAttempts \in Nat
ASSUME FaultsAssumption == Faults \subseteq {"redis", "link"}

Notifier == "redis_notifier"
Reader   == "redis_raw_log_reader"
Adapters == {Notifier, Reader}

VARIABLES
    redis,      \* TRUE while Redis answers
    shared,     \* status of "redis" in the registry
    own,        \* own[a]: the registry's entry of adapter a
    resting,    \* resting[a]: its own _next_retry_at is still to come
    publish,    \* publish[o]: notify_config_updated()
    read,       \* read[o]: list_recent(), with the streams it has left
    doomed,     \* doomed[a]: operations that may fail though Redis answers
    probe       \* the answer a health check has yet to record

vars == <<redis, shared, own, resting, publish, read, doomed, probe>>

NoRead == [at |-> "idle", left |-> 0]

TypeOK ==
    /\ redis \in BOOLEAN
    /\ shared \in {"degraded", "ok", "error"}
    /\ own \in [Adapters -> Entry]
    /\ resting \in [Adapters -> BOOLEAN]
    /\ publish \in [Ops -> {"idle", "sent"}]
    /\ read \in [Ops -> [at : {"idle", "scan", "stream", "failed"}, left : 0..Streams]]
    /\ doomed \in [Adapters -> SUBSET Ops]
    /\ probe \in {"none", "accepted", "refused"}

Init ==
    /\ redis \in (IF "redis" \in Faults THEN BOOLEAN ELSE {TRUE})
    /\ shared = "degraded"
    /\ own = [a \in Adapters |-> Fresh]
    /\ resting = [a \in Adapters |-> FALSE]
    /\ publish = [o \in Ops |-> "idle"]
    /\ read = [o \in Ops |-> NoRead]
    /\ doomed = [a \in Adapters |-> {}]
    /\ probe = "none"

-----------------------------------------------------------------------------
(***************************************************************************)
(* The breaker, which both adapters repeat.                                *)
(***************************************************************************)
Refused == ~redis \/ "link" \in Faults

\* Operations that wait for an answer of Redis.
InFlight(a) ==
    IF a = Notifier THEN {o \in Ops : publish[o] = "sent"}
                    ELSE {o \in Ops : read[o].at \in {"scan", "stream"}}

MayFail(a, o) == Refused \/ o \in doomed[a]

Inactive(a) == own[a].status = "inactive"

ShortCircuited(a) == Inactive(a) \/ resting[a]

\* _mark_short_circuited(): the operation is skipped, whatever the reason.
Skip(a) ==
    /\ ShortCircuited(a)
    /\ own' = [own EXCEPT ![a] = MarkedDegraded(@)]
    /\ UNCHANGED <<redis, shared, resting, publish, read, doomed, probe>>

\* Mutant: an answer resets the counter and leaves the status.
AnsweredCountOnly(a) ==
    /\ own' = [own EXCEPT ![a].attempts = 0]
    /\ shared' = "ok"
    /\ resting' = [resting EXCEPT ![a] = FALSE]

Answered(a) ==
    /\ own' = [own EXCEPT ![a] = MarkedOk(@)]
    /\ shared' = "ok"
    /\ resting' = [resting EXCEPT ![a] = FALSE]

Failed(e) ==
    IF e.attempts + 1 >= MaxFailures
    THEN MarkedInactive(MarkedError(e, TRUE))
    ELSE MarkedError(e, TRUE)

\* _handle_failure(): it also closes the connections of the adapter's other
\* operations.
HandleFailure(a, o) ==
    /\ own' = [own EXCEPT ![a] = Failed(@)]
    /\ shared' = "error"
    /\ resting' = [resting EXCEPT ![a] = TRUE]
    /\ doomed' = [doomed EXCEPT ![a] = InFlight(a) \ {o}]

Replied(a, o) == doomed' = [doomed EXCEPT ![a] = @ \ {o}]

\* Bound: operations start while few failures were counted in a row.
WithinBound(a) == own[a].attempts < MaxAttempts

RestEnds(a) ==
    /\ resting[a]
    /\ resting' = [resting EXCEPT ![a] = FALSE]
    /\ UNCHANGED <<redis, shared, own, publish, read, doomed, probe>>

-----------------------------------------------------------------------------
(***************************************************************************)
(* notify_config_updated().                                                *)
(***************************************************************************)
StartPublish(o) ==
    /\ publish[o] = "idle"
    /\ ~ShortCircuited(Notifier)
    /\ WithinBound(Notifier)
    /\ publish' = [publish EXCEPT ![o] = "sent"]
    /\ UNCHANGED <<redis, shared, own, resting, read, doomed, probe>>

PublishEnds(o) ==
    /\ publish[o] = "sent"
    /\ \/ redis /\ Answered(Notifier) /\ Replied(Notifier, o)
       \/ MayFail(Notifier, o) /\ HandleFailure(Notifier, o)
    /\ publish' = [publish EXCEPT ![o] = "idle"]
    /\ UNCHANGED <<redis, read, probe>>

-----------------------------------------------------------------------------
(***************************************************************************)
(* list_recent(): a scan for the streams' keys, then one query a stream.   *)
(***************************************************************************)
StartRead(o) ==
    /\ read[o] = NoRead
    /\ ~ShortCircuited(Reader)
    /\ WithinBound(Reader)
    /\ read' = [read EXCEPT ![o].at = "scan"]
    /\ UNCHANGED <<redis, shared, own, resting, publish, doomed, probe>>

\* Go on with the streams that are left; after the last one the reader marks
\* itself and Redis healthy.
Proceed(o, left) ==
    IF left = 0
    THEN /\ Answered(Reader)
         /\ read' = [read EXCEPT ![o] = NoRead]
    ELSE /\ read' = [read EXCEPT ![o] = [at |-> "stream", left |-> left]]
         /\ UNCHANGED <<own, shared, resting>>

ScanSucceeds(o) ==
    /\ read[o].at = "scan"
    /\ redis
    /\ \E n \in 0..Streams : Proceed(o, n)
    /\ Replied(Reader, o)
    /\ UNCHANGED <<redis, publish, probe>>

\* A failed scan ends the read.
ScanFails(o) ==
    /\ read[o].at = "scan"
    /\ MayFail(Reader, o)
    /\ HandleFailure(Reader, o)
    /\ read' = [read EXCEPT ![o] = NoRead]
    /\ UNCHANGED <<redis, publish, probe>>

StreamSucceeds(o) ==
    /\ read[o].at = "stream"
    /\ redis
    /\ Proceed(o, read[o].left - 1)
    /\ Replied(Reader, o)
    /\ UNCHANGED <<redis, publish, probe>>

\* Mutant: the failure moves on to the next stream, and so does the loop.
StreamFailsTwice(o) ==
    /\ read[o].at = "stream"
    /\ MayFail(Reader, o)
    /\ HandleFailure(Reader, o)
    /\ read' = [read EXCEPT ![o] = [at |-> "failed", left |-> read[o].left - 1]]
    /\ UNCHANGED <<redis, publish, probe>>

\* A failed query does not end the read: its loop continues.
StreamFails(o) ==
    /\ read[o].at = "stream"
    /\ MayFail(Reader, o)
    /\ HandleFailure(Reader, o)
    /\ read' = [read EXCEPT ![o].at = "failed"]
    /\ UNCHANGED <<redis, publish, probe>>

\* The connections are closed; the read goes on with the next stream.
Continue(o) ==
    /\ read[o].at = "failed"
    /\ Proceed(o, read[o].left - 1)
    /\ UNCHANGED <<redis, publish, doomed, probe>>

-----------------------------------------------------------------------------
(***************************************************************************)
(* check_redis() of the health page, and Redis itself.                     *)
(***************************************************************************)
ProbeAnswered ==
    /\ probe = "none"
    /\ \/ redis /\ probe' = "accepted"
       \/ Refused /\ probe' = "refused"
    /\ UNCHANGED <<redis, shared, own, resting, publish, read, doomed>>

\* Mutant: only the adapters that failed lately are re-armed.
RearmedUnlessInactive(e) == IF e.status = "error" THEN MarkedDegraded(e) ELSE e

\* A healthy Redis re-arms an adapter: its status, not its counter or rest.
Rearmed(e) == IF e.status \in {"error", "inactive", "degraded"} THEN MarkedDegraded(e) ELSE e

ProbeRecorded ==
    /\ probe # "none"
    /\ IF probe = "accepted"
       THEN /\ shared' = "ok"
            /\ own' = [a \in Adapters |-> Rearmed(own[a])]
       ELSE /\ shared' = "error"
            /\ UNCHANGED own
    /\ probe' = "none"
    /\ UNCHANGED <<redis, resting, publish, read, doomed>>

RedisGoesDown ==
    /\ "redis" \in Faults
    /\ redis
    /\ redis' = FALSE
    /\ UNCHANGED <<shared, own, resting, publish, read, doomed, probe>>

\* What was asked during the outage may still fail.
RedisComesBack ==
    /\ ~redis
    /\ redis' = TRUE
    /\ doomed' = [a \in Adapters |-> InFlight(a)]
    /\ UNCHANGED <<shared, own, resting, publish, read, probe>>

-----------------------------------------------------------------------------
ReadGoesOn(o) ==
    \/ ScanSucceeds(o)
    \/ ScanFails(o)
    \/ StreamSucceeds(o)
    \/ StreamFails(o)
    \/ Continue(o)

Next ==
    \/ \E a \in Adapters : Skip(a) \/ RestEnds(a)
    \/ \E o \in Ops : StartPublish(o) \/ PublishEnds(o) \/ StartRead(o) \/ ReadGoesOn(o)
    \/ ProbeAnswered
    \/ ProbeRecorded
    \/ RedisGoesDown
    \/ RedisComesBack

Spec == Init /\ [][Next]_vars

\* Fairness.  An open operation ends, a rest is a delay and passes, and
\* somebody looks at the health page.  Nobody has to make a change or to
\* read the logs.
Fairness ==
    /\ \A a \in Adapters : WF_vars(RestEnds(a))
    /\ \A o \in Ops : WF_vars(PublishEnds(o)) /\ WF_vars(ReadGoesOn(o))
    /\ WF_vars(ProbeAnswered)
    /\ WF_vars(ProbeRecorded)

LiveSpec == Spec /\ Fairness

-----------------------------------------------------------------------------
(***************************************************************************)
(* Properties.                                                             *)
(***************************************************************************)

\* An adapter is inactive only once its whole budget of failures is spent
\* with no answer in between, whatever ran concurrently.
InactiveIsDeserved == \A a \in Adapters : Inactive(a) => own[a].attempts >= MaxFailures

\* An operation or a probe that fails although Redis is up.
Disturbed ==
    /\ redis
    /\ \/ probe = "none" /\ probe' = "refused"
       \/ \E o \in Ops : ScanFails(o) \/ StreamFails(o)
       \/ \E o \in Ops : PublishEnds(o) /\ HandleFailure(Notifier, o)

\* If Redis stays up and nothing fails any more, both breakers end up closed,
\* even when nobody uses the adapters: the health check re-arms them
\* (system_health.py, "A successful health probe reopens admin-side Redis
\* adapters").
BreakersClose ==
    <>[]redis /\ <>[][~Disturbed]_vars => <>[](\A a \in Adapters : ~ShortCircuited(a))
=============================================================================
