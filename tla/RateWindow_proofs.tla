--------------------------- MODULE RateWindow_proofs ---------------------------
(***************************************************************************)
(* Proofs about RateWindow: the bound on what a window admits and the      *)
(* justification of every denial, for any number of overlapping calls.     *)
(***************************************************************************)
EXTENDS RateWindow, FiniteSetTheorems, TLAPS

\* A member of the set was stamped before now, and leaves the key's life
\* only when its window has passed.
Stamped ==
    /\ \A c \in Calls : ts[c] <= clock
    /\ \A c \in zset : status[c] # "idle" /\ ts[c] + Window <= expiry
    /\ \A c \in pending : status[c] # "idle"

\* An admitted call stays in the set until its window has passed.
Remembered ==
    \A c \in Calls : status[c] = "allowed" =>
        /\ c \notin pending
        /\ c \in zset \/ ts[c] + Window <= clock

\* WindowBound with no bound on the end of the window.
Bounded == \A T \in Nat : Cardinality(Admitted(T)) <= Limit

IInv == TypeOK /\ Stamped /\ Remembered /\ Bounded /\ DenialJustified

-----------------------------------------------------------------------------
\* A subset of the calls has no more members than a larger one.
LEMMA Fewer ==
    ASSUME NEW S \in SUBSET Calls, NEW R \in SUBSET S
    PROVE  /\ Cardinality(R) \in Nat
           /\ Cardinality(S) \in Nat
           /\ Cardinality(R) <= Cardinality(S)
<1>1. IsFiniteSet(S) BY CallsAssumption, FS_Subset
<1>2. QED BY <1>1, FS_Subset, FS_CardinalityType

\* No call is admitted before the first one is made.
LEMMA InitInv == Init => IInv
<1> SUFFICES ASSUME Init PROVE IInv OBVIOUS
<1> USE DEF Init
<1>1. TypeOK BY NumbersAssumption DEF TypeOK, Status
<1>2. Stamped /\ Remembered /\ DenialJustified
  BY DEF Stamped, Remembered, DenialJustified
<1>3. Bounded
  <2> SUFFICES ASSUME NEW T \in Nat PROVE Cardinality(Admitted(T)) <= Limit
    BY DEF Bounded
  <2>1. Admitted(T) = {} BY DEF Admitted
  <2>2. QED BY <2>1, FS_EmptySet, NumbersAssumption
<1>4. QED BY <1>1, <1>2, <1>3 DEF IInv

\* Types are kept by every step.
LEMMA TypeStep == TypeOK /\ [Next]_vars => TypeOK'
<1> SUFFICES ASSUME TypeOK, [Next]_vars PROVE TypeOK' OBVIOUS
<1> USE NumbersAssumption DEF TypeOK, Status
<1>1. ASSUME NEW c \in Calls, Start(c) PROVE TypeOK' BY <1>1 DEF Start
<1>2. ASSUME NEW c \in Calls, Execute(c) PROVE TypeOK'
  <2>1. zset' \subseteq Calls /\ pending' \subseteq Calls /\ expiry' \in Nat
    BY <1>2 DEF Execute, Kept
  <2>2. status' \in [Calls -> Status] BY <1>2 DEF Execute
  <2>3. QED BY <1>2, <2>1, <2>2 DEF Execute
<1>3. ASSUME NEW c \in Calls, Abandon(c) PROVE TypeOK' BY <1>3 DEF Abandon
<1>4. ASSUME NEW c \in Calls, Lose(c) PROVE TypeOK' BY <1>4 DEF Lose
<1>5. CASE Tick BY <1>5 DEF Tick
<1>6. CASE UNCHANGED vars BY <1>6 DEF vars
<1>7. QED BY <1>1, <1>2, <1>3, <1>4, <1>5, <1>6 DEF Next

\* Stamps never run ahead of the clock.
LEMMA StampedStep == TypeOK /\ Stamped /\ [Next]_vars => Stamped'
<1> SUFFICES ASSUME TypeOK, Stamped, [Next]_vars PROVE Stamped' OBVIOUS
<1> USE NumbersAssumption DEF TypeOK, Stamped
<1>1. ASSUME NEW c \in Calls, Start(c) PROVE Stamped'
  <2>1. c \notin zset BY <1>1 DEF Start
  <2>2. QED BY <1>1, <2>1 DEF Start
<1>2. ASSUME NEW c \in Calls, Execute(c) PROVE Stamped'
  <2>1. \A d \in zset' : d \in zset \/ d = c BY <1>2 DEF Execute, Kept
  <2>2. \A d \in Calls : status[d] # "idle" => status'[d] # "idle" BY <1>2 DEF Execute
  <2>3. \A d \in zset' : ts'[d] + Window <= expiry' BY <1>2, <2>1 DEF Execute
  <2>4. QED BY <1>2, <2>1, <2>2, <2>3 DEF Execute
<1>3. ASSUME NEW c \in Calls, Abandon(c) PROVE Stamped' BY <1>3 DEF Abandon
<1>4. ASSUME NEW c \in Calls, Lose(c) PROVE Stamped' BY <1>4 DEF Lose
<1>5. CASE Tick BY <1>5 DEF Tick
<1>6. CASE UNCHANGED vars BY <1>6 DEF vars
<1>7. QED BY <1>1, <1>2, <1>3, <1>4, <1>5, <1>6 DEF Next

\* Pruning and expiry only forget calls whose window has passed.
LEMMA RememberedStep == TypeOK /\ Stamped /\ Remembered /\ [Next]_vars => Remembered'
<1> SUFFICES ASSUME TypeOK, Stamped, Remembered, [Next]_vars PROVE Remembered' OBVIOUS
<1> USE NumbersAssumption DEF TypeOK
<1>1. ASSUME NEW c \in Calls, Start(c) PROVE Remembered'
  BY <1>1 DEF Start, Remembered
<1>2. ASSUME NEW c \in Calls, Execute(c) PROVE Remembered'
  <2> SUFFICES ASSUME NEW d \in Calls, status'[d] = "allowed"
               PROVE  /\ d \notin pending'
                      /\ d \in zset' \/ ts'[d] + Window <= clock'
    BY DEF Remembered
  <2>1. CASE d = c BY <1>2, <2>1 DEF Execute
  <2>2. CASE d # c
    <3>1. status[d] = "allowed" BY <1>2, <2>2 DEF Execute
    <3>2. d \notin pending /\ (d \in zset \/ ts[d] + Window <= clock)
      BY <3>1 DEF Remembered
    <3>3. d \in zset => d \in Kept(c) \/ ts[d] + Window <= clock
      BY DEF Kept, Stamped
    <3>4. QED BY <1>2, <3>2, <3>3 DEF Execute
  <2>3. QED BY <2>1, <2>2
<1>3. ASSUME NEW c \in Calls, Abandon(c) PROVE Remembered'
  BY <1>3 DEF Abandon, Remembered
<1>4. ASSUME NEW c \in Calls, Lose(c) PROVE Remembered'
  BY <1>4 DEF Lose, Remembered
<1>5. CASE Tick BY <1>5 DEF Tick, Remembered
<1>6. CASE UNCHANGED vars BY <1>6 DEF vars, Remembered
<1>7. QED BY <1>1, <1>2, <1>3, <1>4, <1>5, <1>6 DEF Next

\* A call is admitted only when the set that then holds every admitted call
\* of its window is within the limit.
LEMMA BoundedStep == TypeOK /\ Stamped /\ Remembered /\ Bounded /\ [Next]_vars => Bounded'
<1> SUFFICES ASSUME TypeOK, Stamped, Remembered, Bounded, [Next]_vars, NEW T \in Nat
             PROVE  Cardinality(Admitted(T)') <= Limit
  BY DEF Bounded
<1> USE NumbersAssumption DEF TypeOK
<1>a. Cardinality(Admitted(T)) <= Limit BY DEF Bounded
<1>b. Admitted(T) \in SUBSET Calls /\ Admitted(T)' \in SUBSET Calls BY DEF Admitted
<1>c. ASSUME Admitted(T)' \subseteq Admitted(T)
      PROVE  Cardinality(Admitted(T)') <= Limit
  BY <1>a, <1>b, <1>c, Fewer
<1>1. ASSUME NEW c \in Calls, Start(c) PROVE Cardinality(Admitted(T)') <= Limit
  BY <1>1, <1>c DEF Start, Admitted
<1>2. ASSUME NEW c \in Calls, Execute(c) PROVE Cardinality(Admitted(T)') <= Limit
  <2>1. CASE c \notin Admitted(T)'
    <3>1. Admitted(T)' \subseteq Admitted(T) BY <1>2, <2>1 DEF Execute, Admitted
    <3>2. QED BY <3>1, <1>c
  <2>2. CASE c \in Admitted(T)' /\ UNCHANGED status
    <3>1. Admitted(T)' \subseteq Admitted(T) BY <1>2, <2>2 DEF Execute, Admitted
    <3>2. QED BY <3>1, <1>c
  <2>3. CASE c \in Admitted(T)' /\ ~UNCHANGED status
    <3>1. /\ clock <= ts[c] + MaxDelay
          /\ Admits(zset')
          /\ zset' = Kept(c) \cup {c}
      BY <1>2, <2>3 DEF Execute, Admitted
    <3>2. ts[c] <= T BY <1>2, <2>3 DEF Execute, Admitted
    <3>3. Admitted(T)' \subseteq zset'
      <4> SUFFICES ASSUME NEW d \in Admitted(T)', d # c PROVE d \in Kept(c)
        BY <3>1
      <4>1. status[d] = "allowed" /\ ts[d] + Window > T + MaxDelay /\ d \in Calls
        BY <1>2 DEF Execute, Admitted
      <4>2. ts[d] + Window > clock /\ ts[d] + Window > ts[c]
        BY <3>1, <3>2, <4>1
      <4>3. d \in zset BY <4>1, <4>2 DEF Remembered
      <4>4. ~(clock >= expiry) BY <4>2, <4>3 DEF Stamped
      <4>5. QED BY <4>2, <4>3, <4>4 DEF Kept
    <3>4. zset' \in SUBSET Calls BY <3>1 DEF Kept
    <3>5. QED BY <3>1, <3>3, <3>4, <1>b, Fewer DEF Admits
  <2>4. QED BY <2>1, <2>2, <2>3
<1>3. ASSUME NEW c \in Calls, Abandon(c) PROVE Cardinality(Admitted(T)') <= Limit
  BY <1>3, <1>c DEF Abandon, Admitted
<1>4. ASSUME NEW c \in Calls, Lose(c) PROVE Cardinality(Admitted(T)') <= Limit
  BY <1>4, <1>c DEF Lose, Admitted
<1>5. CASE Tick BY <1>5, <1>c DEF Tick, Admitted
<1>6. CASE UNCHANGED vars BY <1>6, <1>c DEF vars, Admitted
<1>7. QED BY <1>1, <1>2, <1>3, <1>4, <1>5, <1>6 DEF Next

\* What is counted against a call was made around it, and stays so.
LEMMA DenialStep == TypeOK /\ Stamped /\ DenialJustified /\ [Next]_vars => DenialJustified'
<1> SUFFICES ASSUME TypeOK, Stamped, DenialJustified, [Next]_vars,
                    NEW e \in Calls, status'[e] = "denied"
             PROVE  Cardinality(Rivals(e)') > Limit
  BY DEF DenialJustified
<1> USE NumbersAssumption DEF TypeOK
<1>b. Rivals(e) \in SUBSET Calls /\ Rivals(e)' \in SUBSET Calls BY DEF Rivals
<1>c. ASSUME status[e] = "denied", Rivals(e) \subseteq Rivals(e)'
      PROVE  Cardinality(Rivals(e)') > Limit
  BY <1>b, <1>c, Fewer DEF DenialJustified
<1>1. ASSUME NEW c \in Calls, Start(c) PROVE Cardinality(Rivals(e)') > Limit
  <2>1. status[e] = "denied" /\ e # c BY <1>1 DEF Start
  <2>2. Rivals(e) \subseteq Rivals(e)' BY <1>1, <2>1 DEF Start, Rivals
  <2>3. QED BY <2>1, <2>2, <1>c
<1>2. ASSUME NEW c \in Calls, Execute(c) PROVE Cardinality(Rivals(e)') > Limit
  <2>1. CASE status[e] = "denied"
    <3>1. Rivals(e) \subseteq Rivals(e)' BY <1>2 DEF Execute, Rivals
    <3>2. QED BY <2>1, <3>1, <1>c
  <2>2. CASE status[e] # "denied"
    <3>1. /\ e = c
          /\ clock <= ts[c] + MaxDelay
          /\ ~Admits(zset')
          /\ zset' = Kept(c) \cup {c}
      BY <1>2, <2>2 DEF Execute
    <3>2. zset' \subseteq Rivals(e)'
      <4> SUFFICES ASSUME NEW d \in zset' PROVE d \in Rivals(e)' OBVIOUS
      <4>1. d \in Calls /\ ts'[d] = ts[d] /\ ts[d] + Window > ts[c] /\ ts[d] <= ts[c] + MaxDelay
        BY <1>2, <3>1 DEF Execute, Kept, Stamped
      <4>2. status'[d] # "idle"
        BY <1>2, <3>1 DEF Execute, Kept, Stamped
      <4>3. QED BY <1>2, <3>1, <4>1, <4>2 DEF Execute, Rivals
    <3>3. QED BY <3>1, <3>2, <1>b, Fewer DEF Admits
  <2>3. QED BY <2>1, <2>2
<1>3. ASSUME NEW c \in Calls, Abandon(c) PROVE Cardinality(Rivals(e)') > Limit
  <2>1. status[e] = "denied" BY <1>3 DEF Abandon
  <2>2. Rivals(e) \subseteq Rivals(e)' BY <1>3 DEF Abandon, Rivals
  <2>3. QED BY <2>1, <2>2, <1>c
<1>4. ASSUME NEW c \in Calls, Lose(c) PROVE Cardinality(Rivals(e)') > Limit
  BY <1>4, <1>c DEF Lose, Rivals
<1>5. CASE Tick BY <1>5, <1>c DEF Tick, Rivals
<1>6. CASE UNCHANGED vars BY <1>6, <1>c DEF vars, Rivals
<1>7. QED BY <1>1, <1>2, <1>3, <1>4, <1>5, <1>6 DEF Next

\* The inductive invariant holds in every reachable state.
THEOREM Inductive == Spec => []IInv
<1>1. IInv /\ [Next]_vars => IInv'
  BY TypeStep, StampedStep, RememberedStep, BoundedStep, DenialStep DEF IInv
<1>2. QED BY <1>1, InitInv, PTL DEF Spec

-----------------------------------------------------------------------------
\* Every variable keeps its type: a stamp is an instant that has been.
THEOREM TypeCorrect == Spec => []TypeOK
<1>1. IInv => TypeOK BY DEF IInv
<1>2. QED BY <1>1, Inductive, PTL

\* No window admits more than the limit, whatever the interleaving of the
\* calls' transactions (rate_limiter.py, is_allowed()).
THEOREM WindowIsBounded == Spec => []WindowBound
<1>1. IInv => WindowBound
  BY NumbersAssumption DEF IInv, Bounded, WindowBound
<1>2. QED BY <1>1, Inductive, PTL

\* A denied call had more than Limit calls around it.
THEOREM DenialsAreJustified == Spec => []DenialJustified
<1>1. IInv => DenialJustified BY DEF IInv
<1>2. QED BY <1>1, Inductive, PTL
=============================================================================
