--------------------------- MODULE AdminRedis_proofs ---------------------------
(***************************************************************************)
(* Proofs about AdminRedis: types, and that no interleaving of operations, *)
(* skips and health checks makes an adapter inactive before its budget of  *)
(* failures is spent.                                                      *)
(***************************************************************************)
EXTENDS AdminRedis, TLAPS

\* A read that is at a stream has it still to count off.
StreamsLeft == \A o \in Ops : read[o].at \in {"stream", "failed"} => read[o].left # 0

IInv == TypeOK /\ InactiveIsDeserved /\ StreamsLeft

-----------------------------------------------------------------------------
\* What the registry's operations return is an entry again.
LEMMA EntryType ==
    ASSUME NEW e \in Entry
    PROVE  /\ MarkedOk(e) \in Entry
           /\ MarkedDegraded(e) \in Entry
           /\ Failed(e) \in Entry
           /\ Rearmed(e) \in Entry
<1>1. MarkedOk(e) \in Entry BY DEF Entry, MarkedOk
<1>2. MarkedDegraded(e) \in Entry BY DEF Entry, MarkedDegraded
<1>3. MarkedError(e, TRUE) \in Entry BY DEF Entry, MarkedError
<1>4. \A f \in Entry : MarkedInactive(f) \in Entry BY DEF Entry, MarkedInactive
<1>5. Failed(e) \in Entry BY <1>3, <1>4 DEF Failed
<1>6. Rearmed(e) \in Entry BY <1>2 DEF Rearmed
<1>7. QED BY <1>1, <1>2, <1>5, <1>6

\* An entry is deserved when it is inactive only at the budget.
Deserved(e) == e.status = "inactive" => e.attempts >= MaxFailures

\* No operation of the registry, as the adapters use it, is undeserved.
LEMMA EntryDeserved ==
    ASSUME NEW e \in Entry, Deserved(e)
    PROVE  /\ Deserved(MarkedOk(e))
           /\ Deserved(MarkedDegraded(e))
           /\ Deserved(Failed(e))
           /\ Deserved(Rearmed(e))
<1>1. Deserved(MarkedOk(e)) BY DEF Deserved, MarkedOk
<1>2. Deserved(MarkedDegraded(e)) BY DEF Deserved, MarkedDegraded, Entry
<1>3. Deserved(Failed(e))
  BY NumbersAssumption DEF Deserved, Failed, MarkedError, MarkedInactive, Entry
<1>4. Deserved(Rearmed(e)) BY <1>2 DEF Rearmed
<1>5. QED BY <1>1, <1>2, <1>3, <1>4

\* Nothing is inactive when the service starts.
LEMMA InitInv == Init => IInv
<1> SUFFICES ASSUME Init PROVE IInv OBVIOUS
<1> USE DEF Init
<1>1. Fresh \in Entry BY DEF Fresh, Entry
<1>2. NoRead \in [at : {"idle", "scan", "stream", "failed"}, left : 0..Streams]
  BY NumbersAssumption DEF NoRead
<1>3. TypeOK BY <1>1, <1>2 DEF TypeOK
<1>4. InactiveIsDeserved BY DEF InactiveIsDeserved, Inactive, Fresh
<1>5. StreamsLeft BY DEF StreamsLeft, NoRead
<1>6. QED BY <1>3, <1>4, <1>5 DEF IInv

\* The part of the state the breakers share.
Breakers ==
    /\ own \in [Adapters -> Entry]
    /\ \A a \in Adapters : Deserved(own[a])
    /\ shared \in {"degraded", "ok", "error"}
    /\ resting \in [Adapters -> BOOLEAN]

Reads ==
    /\ read \in [Ops -> [at : {"idle", "scan", "stream", "failed"}, left : 0..Streams]]
    /\ StreamsLeft

\* The invariant in the parts that one step handles together.
LEMMA Parts == IInv => Breakers /\ Reads
  BY DEF IInv, TypeOK, InactiveIsDeserved, Inactive, Deserved, Breakers, Reads, StreamsLeft

\* An answer keeps the breakers well formed.
LEMMA AnsweredStep == \A a \in Adapters : Breakers /\ Answered(a) => Breakers'
  BY EntryType, EntryDeserved DEF Breakers, Answered

\* A failure counts towards the budget of its adapter only.
LEMMA FailureStep == \A a \in Adapters : \A o \in Ops : Breakers /\ HandleFailure(a, o) => Breakers'
  BY EntryType, EntryDeserved DEF Breakers, HandleFailure

\* The reader goes on with a number of streams it may have.
LEMMA ProceedStep ==
    ASSUME NEW o \in Ops, NEW n \in 0..Streams, Breakers, Reads, Proceed(o, n)
    PROVE  Breakers' /\ Reads'
<1>1. CASE n = 0
  <2>1. Breakers' BY <1>1, AnsweredStep DEF Proceed, Adapters
  <2>2. Reads' BY <1>1, NumbersAssumption DEF Proceed, Reads, StreamsLeft, NoRead
  <2>3. QED BY <2>1, <2>2
<1>2. CASE n # 0
  <2>1. Breakers' BY <1>2 DEF Proceed, Breakers
  <2>2. Reads' BY <1>2 DEF Proceed, Reads, StreamsLeft
  <2>3. QED BY <2>1, <2>2
<1>3. QED BY <1>1, <1>2

\* One step keeps the breakers and the reads well formed.
LEMMA PartsStep == IInv /\ [Next]_vars => Breakers' /\ Reads'
<1> SUFFICES ASSUME IInv, [Next]_vars PROVE Breakers' /\ Reads' OBVIOUS
<1>a. Breakers /\ Reads BY Parts
<1>b. \A o \in Ops : read[o].at \in {"stream", "failed"} => read[o].left - 1 \in 0..Streams
  BY <1>a, NumbersAssumption DEF Reads, StreamsLeft
<1>1. ASSUME NEW a \in Adapters, Skip(a) PROVE Breakers' /\ Reads'
  BY <1>1, <1>a, EntryType, EntryDeserved DEF Skip, Breakers, Reads, StreamsLeft
<1>2. ASSUME NEW a \in Adapters, RestEnds(a) PROVE Breakers' /\ Reads'
  BY <1>2, <1>a DEF RestEnds, Breakers, Reads, StreamsLeft
<1>3. ASSUME NEW o \in Ops, StartPublish(o) PROVE Breakers' /\ Reads'
  BY <1>3, <1>a DEF StartPublish, Breakers, Reads, StreamsLeft
<1>4. ASSUME NEW o \in Ops, PublishEnds(o) PROVE Breakers' /\ Reads'
  <2>1. Breakers' BY <1>4, <1>a, AnsweredStep, FailureStep DEF PublishEnds, Adapters
  <2>2. Reads' BY <1>4, <1>a DEF PublishEnds, Reads, StreamsLeft
  <2>3. QED BY <2>1, <2>2
<1>5. ASSUME NEW o \in Ops, StartRead(o) PROVE Breakers' /\ Reads'
  BY <1>5, <1>a DEF StartRead, Breakers, Reads, StreamsLeft
<1>6. ASSUME NEW o \in Ops, ScanSucceeds(o) PROVE Breakers' /\ Reads'
  BY <1>6, <1>a, ProceedStep DEF ScanSucceeds
<1>7. ASSUME NEW o \in Ops, ScanFails(o) PROVE Breakers' /\ Reads'
  <2>1. Breakers' BY <1>7, <1>a, FailureStep DEF ScanFails, Adapters
  <2>2. Reads' BY <1>7, <1>a, NumbersAssumption DEF ScanFails, Reads, StreamsLeft, NoRead
  <2>3. QED BY <2>1, <2>2
<1>8. ASSUME NEW o \in Ops, StreamSucceeds(o) PROVE Breakers' /\ Reads'
  BY <1>8, <1>a, <1>b, ProceedStep DEF StreamSucceeds
<1>9. ASSUME NEW o \in Ops, StreamFails(o) PROVE Breakers' /\ Reads'
  <2>1. Breakers' BY <1>9, <1>a, FailureStep DEF StreamFails, Adapters
  <2>2. Reads' BY <1>9, <1>a DEF StreamFails, Reads, StreamsLeft
  <2>3. QED BY <2>1, <2>2
<1>10. ASSUME NEW o \in Ops, Continue(o) PROVE Breakers' /\ Reads'
  BY <1>10, <1>a, <1>b, ProceedStep DEF Continue
<1>11. CASE ProbeAnswered
  BY <1>11, <1>a DEF ProbeAnswered, Breakers, Reads, StreamsLeft
<1>12. CASE ProbeRecorded
  BY <1>12, <1>a, EntryType, EntryDeserved DEF ProbeRecorded, Breakers, Reads, StreamsLeft
<1>13. CASE RedisGoesDown \/ RedisComesBack
  BY <1>13, <1>a DEF RedisGoesDown, RedisComesBack, Breakers, Reads, StreamsLeft
<1>14. CASE UNCHANGED vars BY <1>14, <1>a DEF vars, Breakers, Reads, StreamsLeft
<1>15. QED
  BY <1>1, <1>2, <1>3, <1>4, <1>5, <1>6, <1>7, <1>8, <1>9, <1>10, <1>11, <1>12, <1>13, <1>14
  DEF Next, ReadGoesOn

\* Only operations in flight are ever doomed.
LEMMA DoomedStep ==
    TypeOK /\ [Next]_vars => doomed' \in [Adapters -> SUBSET Ops]
<1> SUFFICES ASSUME TypeOK, [Next]_vars PROVE doomed' \in [Adapters -> SUBSET Ops] OBVIOUS
<1> USE DEF TypeOK
<1>1. \A a \in Adapters : InFlight(a) \subseteq Ops BY DEF InFlight
<1>2. ASSUME NEW a \in Adapters, NEW o \in Ops, HandleFailure(a, o) \/ Replied(a, o)
      PROVE  doomed' \in [Adapters -> SUBSET Ops]
  BY <1>1, <1>2 DEF HandleFailure, Replied
<1>3. Notifier \in Adapters /\ Reader \in Adapters BY DEF Adapters
<1>4. ASSUME NEW o \in Ops, PublishEnds(o) PROVE doomed' \in [Adapters -> SUBSET Ops]
  BY <1>2, <1>3, <1>4 DEF PublishEnds
<1>5. ASSUME NEW o \in Ops, ReadGoesOn(o) PROVE doomed' \in [Adapters -> SUBSET Ops]
  BY <1>2, <1>3, <1>5
  DEF ReadGoesOn, ScanSucceeds, ScanFails, StreamSucceeds, StreamFails, Continue
<1>6. CASE RedisComesBack BY <1>1, <1>6 DEF RedisComesBack
<1>7. ASSUME UNCHANGED doomed PROVE doomed' \in [Adapters -> SUBSET Ops] BY <1>7
<1>8. QED
  BY <1>4, <1>5, <1>6, <1>7
  DEF Next, vars, Skip, RestEnds, StartPublish, StartRead, ProbeAnswered, ProbeRecorded,
      RedisGoesDown

\* The other variables keep their types.
LEMMA OthersStep ==
    TypeOK /\ [Next]_vars =>
        /\ redis' \in BOOLEAN
        /\ publish' \in [Ops -> {"idle", "sent"}]
        /\ probe' \in {"none", "accepted", "refused"}
  BY DEF TypeOK, Next, vars, Skip, RestEnds, StartPublish, PublishEnds, StartRead,
         ReadGoesOn, ScanSucceeds, ScanFails, StreamSucceeds, StreamFails, Continue,
         ProbeAnswered, ProbeRecorded, RedisGoesDown, RedisComesBack

\* The inductive invariant holds in every reachable state.
THEOREM Inductive == Spec => []IInv
<1>1. IInv /\ [Next]_vars => IInv'
  <2> SUFFICES ASSUME IInv, [Next]_vars PROVE IInv' OBVIOUS
  <2>1. Breakers' /\ Reads' BY PartsStep
  <2>2. TypeOK' BY <2>1, OthersStep, DoomedStep DEF IInv, TypeOK, Breakers, Reads
  <2>3. InactiveIsDeserved' BY <2>1 DEF Breakers, InactiveIsDeserved, Inactive, Deserved
  <2>4. QED BY <2>1, <2>2, <2>3 DEF IInv, Reads
<1>2. QED BY <1>1, InitInv, PTL DEF Spec

-----------------------------------------------------------------------------
\* Every variable keeps its type, in particular the registry's entries.
THEOREM TypeCorrect == Spec => []TypeOK
<1>1. IInv => TypeOK BY DEF IInv
<1>2. QED BY <1>1, Inductive, PTL

\* No adapter turns inactive before its budget of failures in a row is spent
\* (redis_notifier.py and redis_gateway_log_repository.py, _handle_failure()).
THEOREM InactivityDeserved == Spec => []InactiveIsDeserved
<1>1. IInv => InactiveIsDeserved BY DEF IInv
<1>2. QED BY <1>1, Inductive, PTL
=============================================================================
