------------------------- MODULE PasswordReset_proofs -------------------------
(***************************************************************************)
(* Proofs about PasswordReset, for any number of requests and addresses:   *)
(* without PostgreSQL the file refines DocumentStore; a spent code never   *)
(* comes back unless two writers have overlapped; and a reset is whole.    *)
(***************************************************************************)
EXTENDS PasswordReset, TLAPS

Waiting == {"mutate", "read", "truncated"}

\* A request has a job while it changes the file, and the code it was given
\* before it goes for the password.
Jobs ==
    \A r \in Requests :
        /\ job[r] # "none" <=> at[r] \in Waiting
        /\ at[r] \in {"verified", "found", "update", "insert", "commit"} \/ job[r] \in {"user", "remove"} => code[r] # None

\* The lock of the one store is held exactly while the file is changed.
Locked ==
    /\ mode = "postgres" => lock = None
    /\ mode = "json" => \A r \in Requests :
          /\ Mutating(r) <=> lock = r
          /\ at[r] = "read" => copy[r] = Read
          /\ at[r] = "truncated" => file = Truncated

\* Who does not change the file holds no document; and unless two changes
\* have overlapped, there is one at a time.
Alone ==
    /\ \A r \in Requests : ~Mutating(r) => copy[r] = Default
    /\ ~raced => \A q, r \in Requests : Mutating(q) /\ Mutating(r) => q = r

\* Code c was stored by the request of that name, for its own address, once.
Stored(c, e) == c \in Requests /\ email[c] = e /\ at[c] # "idle" /\ job[c] # "put"

\* Request r has set the password of e, and removes its code or has done so.
SetBy(r, e) ==
    /\ email[r] = e
    /\ code[r] # None
    /\ \/ at[r] = "commit" \/ job[r] = "remove"
       \/ at[r] = "done" /\ (deaths # 0 \/ code[r] \in spent)

Filed(d) ==
    \A e \in Emails :
        /\ d.codes[e] # None => Stored(d.codes[e], e)
        /\ d.users[e] \in Requests => SetBy(d.users[e], e)

\* Every document - in the file or in a thread - and every row has such
\* entries only, and so has what a request remembers.
Records ==
    /\ Filed(Read)
    /\ \A r \in Requests : Filed(copy[r])
    /\ \A r \in Requests : code[r] # None => Stored(code[r], email[r])
    /\ \A e \in Emails : table[e] \in Requests => SetBy(table[e], e)

\* Nobody holds code c, and the request that made it will not store it again.
Gone(c) ==
    /\ \A e \in Emails : Read.codes[e] # c /\ \A q \in Requests : copy[q].codes[e] # c
    /\ c \in Requests /\ at[c] # "idle" /\ job[c] # "put"

Removed ==
    raced \/ \A c \in Codes :
        c \in spent \/ (\E r \in Requests : at[r] = "commit" /\ code[r] = c) => Gone(c)

IInv == TypeOK /\ Jobs /\ Locked /\ Alone /\ Records /\ Removed

-----------------------------------------------------------------------------
\* The default document is a document, and it is not the truncated file.
LEMMA Documents ==
    /\ Default \in Document /\ Truncated \notin Document
    /\ \A e \in Emails : Default.codes[e] = None /\ Default.users[e] = None
BY TruncatedAssumption DEF Default, Document, Codes

\* Read() returns a document.
LEMMA ReadType == TypeOK => Read \in Document
BY Documents DEF TypeOK, Read

\* Each change of the file yields a document.
LEMMA ChangedType ==
    ASSUME TypeOK, NEW r \in Requests
    PROVE  Changed(r) \in Document
BY DEF TypeOK, Changed, Document, Codes

\* What MutateFills does, job by job.
LEMMA Fills ==
    ASSUME NEW r \in Requests, MutateFills(r)
    PROVE  \/ job[r] = "put"  /\ Goes(r, "mail", "none")
           \/ job[r] = "user" /\ Goes(r, "mutate", "remove")
           \/ job[r] = "drop" /\ Goes(r, "done", "none")
           \/ job[r] \notin {"put", "user", "drop"} /\ mode = "json" /\ Goes(r, "done", "none")
           \/ job[r] \notin {"put", "user", "drop"} /\ mode # "json" /\ Goes(r, "commit", "none")
BY DEF MutateFills, Afterwards, Over

\* The invariant holds in the beginning.
LEMMA InitInv == Init => IInv
<1> SUFFICES ASSUME Init PROVE IInv OBVIOUS
<1> USE Documents DEF Init
<1>1. file \in Document /\ table \in [Emails -> Codes \cup {None}]
  BY DEF Document, Default, Codes
<1>2. TypeOK BY <1>1 DEF TypeOK, Codes, Places
<1>3. Jobs /\ Locked /\ Alone BY NoneAssumption DEF Jobs, Locked, Alone, Mutating, Waiting
<1>4. Read = file BY <1>1 DEF Read
<1>5. \A e \in Emails : file.codes[e] = None /\ file.users[e] \in {Old, None} /\ table[e] \in {Old, None}
  BY DEF Default
<1>6. Records BY <1>4, <1>5, NoneAssumption DEF Records, Filed
<1>7. Removed BY DEF Removed
<1>8. QED BY <1>2, <1>3, <1>6, <1>7 DEF IInv

-----------------------------------------------------------------------------
\* Types are kept by every step.
LEMMA TypeStep == TypeOK /\ Jobs /\ [Next]_vars => TypeOK'
<1> SUFFICES ASSUME TypeOK, Jobs, [Next]_vars PROVE TypeOK' OBVIOUS
<1>0. Read \in Document /\ Default \in Document BY ReadType, Documents
<1> USE DEF Places
<1>1. ASSUME NEW r \in Requests, Forgot(r) PROVE TypeOK'
  BY <1>1 DEF TypeOK, Forgot, Goes, Over, ghosts
<1>2. ASSUME NEW r \in Requests, Mails(r) PROVE TypeOK'
  BY <1>2 DEF TypeOK, Mails, Goes, Over, ghosts
<1>3. ASSUME NEW r \in Requests, LooksUpAccount(r) \/ LooksUpRow(r) \/ UpdatesRow(r) \/ InsertsRow(r)
      PROVE  TypeOK'
  BY <1>3 DEF TypeOK, LooksUpAccount, LooksUpRow, UpdatesRow, InsertsRow, Holds, Goes, Over, ghosts
<1>4. ASSUME NEW r \in Requests, Commits(r) PROVE TypeOK'
  <2>1. at[r] = "commit" /\ code[r] # None /\ code[r] \in Codes
    BY <1>4 DEF Commits, Jobs, TypeOK
  <2>2. QED BY <1>4, <2>1 DEF TypeOK, Commits, Goes, Over, Codes
<1>5. ASSUME NEW r \in Requests, MutateReads(r) PROVE TypeOK'
  BY <1>0, <1>5 DEF TypeOK, MutateReads, Mutating
<1>6. ASSUME NEW r \in Requests, MutateTruncates(r) PROVE TypeOK'
  BY <1>6 DEF TypeOK, MutateTruncates, ghosts
<1>7. ASSUME NEW r \in Requests, MutateFills(r) PROVE TypeOK'
  <2>1. job[r] = "remove" => code[r] \in Codes BY DEF Jobs, TypeOK
  <2>2. /\ at' \in [Requests -> Places]
        /\ job' \in [Requests -> {"none", "put", "user", "drop", "remove"}]
    BY <1>7, Fills DEF Goes, TypeOK
  <2>3. Changed(r) \in Document BY ChangedType
  <2>4. QED BY <1>0, <1>7, <2>1, <2>2, <2>3 DEF TypeOK, MutateFills, Released
<1>8. ASSUME NEW r \in Requests, NEW c \in Requests, Reset(r, c) PROVE TypeOK'
  <2>1. Read.codes[email[r]] \in Codes \cup {None} BY <1>0 DEF TypeOK, Document
  <2>2. QED BY <1>8, <2>1 DEF TypeOK, Reset, Goes, Over, ghosts
<1>9. ASSUME NEW c \in Requests, Expires(c) PROVE TypeOK'
  BY <1>9 DEF TypeOK, Expires, request, ghosts
<1>10. ASSUME NEW e \in Emails, AccountDeleted(e) PROVE TypeOK'
  BY <1>10 DEF TypeOK, AccountDeleted, request, ghosts
<1>11. CASE ProcessDies BY <1>0, <1>11 DEF TypeOK, ProcessDies
<1>12. CASE UNCHANGED vars BY <1>12 DEF TypeOK, vars, request, ghosts
<1>13. QED
  BY <1>1, <1>2, <1>3, <1>4, <1>5, <1>6, <1>7, <1>8, <1>9, <1>10, <1>11, <1>12 DEF Next, AllOver

\* A job, and the code of a password, belong to their places in a request.
LEMMA JobsStep == TypeOK /\ Jobs /\ [Next]_vars => Jobs'
<1> SUFFICES ASSUME TypeOK, Jobs, [Next]_vars PROVE Jobs' OBVIOUS
<1> USE DEF Jobs, Waiting
<1>1. ASSUME NEW r \in Requests, Forgot(r) PROVE Jobs'
  BY <1>1 DEF TypeOK, Forgot, Goes, Over, ghosts
<1>2. ASSUME NEW r \in Requests, Mails(r) PROVE Jobs'
  BY <1>2 DEF TypeOK, Mails, Goes, Over, ghosts
<1>3. ASSUME NEW r \in Requests, LooksUpAccount(r) \/ LooksUpRow(r) \/ UpdatesRow(r) \/ InsertsRow(r)
      PROVE  Jobs'
  BY <1>3 DEF TypeOK, LooksUpAccount, LooksUpRow, UpdatesRow, InsertsRow, Holds, Goes, Over, ghosts
<1>4. ASSUME NEW r \in Requests, Commits(r) PROVE Jobs'
  BY <1>4 DEF TypeOK, Commits, Goes, Over
<1>5. ASSUME NEW r \in Requests, MutateReads(r) PROVE Jobs'
  BY <1>5 DEF TypeOK, MutateReads
<1>6. ASSUME NEW r \in Requests, MutateTruncates(r) PROVE Jobs'
  BY <1>6 DEF TypeOK, MutateTruncates, ghosts
<1>7. ASSUME NEW r \in Requests, MutateFills(r) PROVE Jobs'
  <2>1. code' = code /\ at[r] = "truncated" BY <1>7 DEF MutateFills
  <2>2. job[r] \in {"put", "user", "drop", "remove"} BY <2>1 DEF TypeOK
  <2>3. QED BY <1>7, <2>1, <2>2, Fills DEF Goes, TypeOK
<1>8. ASSUME NEW r \in Requests, NEW c \in Requests, Reset(r, c) PROVE Jobs'
  BY <1>8, NoneAssumption DEF TypeOK, Reset, Goes, Over, ghosts
<1>9. ASSUME NEW c \in Requests, Expires(c) PROVE Jobs'
  BY <1>9 DEF Expires, request
<1>10. ASSUME NEW e \in Emails, AccountDeleted(e) PROVE Jobs'
  BY <1>10 DEF AccountDeleted, request
<1>11. CASE ProcessDies BY <1>11 DEF TypeOK, ProcessDies
<1>12. CASE UNCHANGED vars BY <1>12 DEF vars, request
<1>13. QED
  BY <1>1, <1>2, <1>3, <1>4, <1>5, <1>6, <1>7, <1>8, <1>9, <1>10, <1>11, <1>12 DEF Next, AllOver

\* What the actions that leave the file and its lock alone have in common.
Aside ==
    /\ file' = file /\ lock' = lock /\ copy' = copy /\ mode' = mode
    /\ raced' = raced /\ deaths' = deaths
    /\ \A q \in Requests :
          at'[q] # at[q] => at[q] \notin {"read", "truncated"} /\ at'[q] \notin {"read", "truncated"}

LEMMA AsideSteps ==
    ASSUME TypeOK, NEW r \in Requests
    PROVE  /\ Forgot(r) \/ Mails(r) \/ Commits(r) => Aside
           /\ LooksUpAccount(r) \/ LooksUpRow(r) \/ UpdatesRow(r) \/ InsertsRow(r) => Aside
           /\ \A c \in Requests : Reset(r, c) => Aside
           /\ \A c \in Requests : Expires(c) => Aside
           /\ \A e \in Emails : AccountDeleted(e) => Aside
           /\ UNCHANGED vars => Aside
<1> USE DEF TypeOK, Aside, Goes, Over, request, ghosts
<1>1. Forgot(r) => Aside BY DEF Forgot
<1>2. Mails(r) => Aside BY DEF Mails
<1>3. LooksUpAccount(r) \/ LooksUpRow(r) \/ UpdatesRow(r) \/ InsertsRow(r) => Aside
  BY DEF LooksUpAccount, LooksUpRow, UpdatesRow, InsertsRow, Holds
<1>4. Commits(r) => Aside BY DEF Commits
<1>5. ASSUME NEW c \in Requests PROVE Reset(r, c) => Aside BY DEF Reset
<1>6. ASSUME NEW c \in Requests PROVE Expires(c) => Aside BY DEF Expires
<1>7. ASSUME NEW e \in Emails PROVE AccountDeleted(e) => Aside BY DEF AccountDeleted
<1>8. UNCHANGED vars => Aside BY DEF vars
<1>9. QED BY <1>1, <1>2, <1>3, <1>4, <1>5, <1>6, <1>7, <1>8

\* Every step is one of these.
LEMMA Steps ==
    ASSUME TypeOK, [Next]_vars
    PROVE  \/ Aside
           \/ \E r \in Requests : MutateReads(r) \/ MutateTruncates(r) \/ MutateFills(r)
           \/ ProcessDies
<1>1. CASE UNCHANGED vars BY <1>1 DEF Aside, vars, request, ghosts
<1>2. ASSUME NEW r \in Requests,
             \/ Forgot(r) \/ Mails(r) \/ Commits(r)
             \/ LooksUpAccount(r) \/ LooksUpRow(r) \/ UpdatesRow(r) \/ InsertsRow(r)
      PROVE  Aside
  BY <1>2, AsideSteps
<1>3. ASSUME NEW r \in Requests, NEW c \in Requests, Reset(r, c) \/ Expires(c) PROVE Aside
  BY <1>3, AsideSteps
<1>4. ASSUME NEW c \in Requests, Expires(c) PROVE Aside BY <1>4, AsideSteps
<1>5. ASSUME NEW e \in Emails, AccountDeleted(e) PROVE Aside
  BY <1>5 DEF AccountDeleted, Aside, request, ghosts
<1>6. QED BY <1>1, <1>2, <1>3, <1>4, <1>5 DEF Next, AllOver

-----------------------------------------------------------------------------
\* The lock is held by whoever changes the file.
LEMMA LockedStep == TypeOK /\ Locked /\ [Next]_vars => Locked'
<1> SUFFICES ASSUME TypeOK, Locked, [Next]_vars PROVE Locked' OBVIOUS
<1>0. \A r \in Requests : r # None BY NoneAssumption
<1>1. CASE Aside
  <2>1. Read' = Read BY <1>1 DEF Aside, Read
  <2>2. QED BY <1>1, <2>1 DEF Aside, Locked, Mutating, TypeOK
<1>2. ASSUME NEW r \in Requests, MutateReads(r) PROVE Locked'
  <2>1. Read' = Read BY <1>2 DEF MutateReads, Read
  <2>2. QED BY <1>0, <1>2, <2>1 DEF MutateReads, LockFree, Locked, Mutating, TypeOK
<1>3. ASSUME NEW r \in Requests, MutateTruncates(r) PROVE Locked'
  BY <1>3 DEF MutateTruncates, Locked, Mutating, TypeOK
<1>4. ASSUME NEW r \in Requests, MutateFills(r) PROVE Locked'
  <2>1. \E there \in {"mail", "mutate", "done", "commit"} : at' = [at EXCEPT ![r] = there]
    BY <1>4, Fills DEF Goes
  <2>2. lock' = None /\ mode' = mode /\ at[r] = "truncated" BY <1>4 DEF MutateFills, Released
  <2>3. mode = "json" => \A q \in Requests : ~(at'[q] \in {"read", "truncated"})
    BY <2>1, <2>2 DEF Locked, Mutating, TypeOK
  <2>4. QED BY <1>0, <2>2, <2>3 DEF Locked, Mutating, TypeOK
<1>5. CASE ProcessDies BY <1>0, <1>5 DEF ProcessDies, Locked, Mutating, TypeOK
<1>6. QED BY <1>1, <1>2, <1>3, <1>4, <1>5, Steps

\* Unless changes have overlapped, there is one at a time.
LEMMA AloneStep == TypeOK /\ Locked /\ Alone /\ [Next]_vars => Alone'
<1> SUFFICES ASSUME TypeOK, Locked, Alone, [Next]_vars PROVE Alone' OBVIOUS
<1>0. \A r \in Requests : r # None BY NoneAssumption
<1>1. CASE Aside BY <1>1 DEF Aside, Alone, Mutating
<1>2. ASSUME NEW r \in Requests, MutateReads(r) PROVE Alone'
  <2>1. \A q \in Requests : q # r => at'[q] = at[q] /\ copy'[q] = copy[q]
    BY <1>2 DEF MutateReads, TypeOK
  <2>2. at'[r] = "read" BY <1>2 DEF MutateReads, TypeOK
  <2>3. ASSUME NEW q \in Requests, ~raced', q # r PROVE ~Mutating(q)
    BY <1>2, <2>3, <1>0 DEF MutateReads, LockFree, Locked, TypeOK
  <2>4. ~raced' => ~raced BY <1>2 DEF MutateReads
  <2>5. QED BY <2>1, <2>2, <2>3, <2>4 DEF Alone, Mutating
<1>3. ASSUME NEW r \in Requests, MutateTruncates(r) PROVE Alone'
  BY <1>3 DEF MutateTruncates, Alone, Mutating, TypeOK, ghosts
<1>4. ASSUME NEW r \in Requests, MutateFills(r) PROVE Alone'
  <2>1. \E there \in {"mail", "mutate", "done", "commit"} : at' = [at EXCEPT ![r] = there]
    BY <1>4, Fills DEF Goes
  <2>2. copy' = [copy EXCEPT ![r] = Default] /\ raced' = raced BY <1>4 DEF MutateFills
  <2>3. at'[r] \notin {"read", "truncated"} /\ \A q \in Requests : q # r => at'[q] = at[q]
    BY <2>1 DEF TypeOK
  <2>4. QED BY <2>2, <2>3 DEF Alone, Mutating, TypeOK
<1>5. CASE ProcessDies BY <1>5 DEF ProcessDies, Alone, Mutating, TypeOK
<1>6. QED BY <1>1, <1>2, <1>3, <1>4, <1>5, Steps

-----------------------------------------------------------------------------
\* A mapped step of the abstract store, without PostgreSQL.
Begins(r) == lock = None /\ lock' = r /\ Shown' = Shown /\ code' = code /\ deaths' = deaths

Ends(r) ==
    /\ lock = r /\ lock' = None /\ code' = code /\ deaths' = deaths
    /\ \E e \in Emails :
           \/ Shown' = [Shown EXCEPT !.codes[e] = None]
           \/ \E c \in Codes : \/ Shown' = [Shown EXCEPT !.codes[e] = c]
                               \/ Shown' = [Shown EXCEPT !.users[e] = c]

Looks(r) ==
    /\ lock = None /\ lock' = lock /\ Shown' = Shown /\ deaths' = deaths
    /\ email[r] \in Emails /\ code' = [code EXCEPT ![r] = Shown.codes[email[r]]]

Lost ==
    /\ lock' = None /\ code' = code /\ deaths' = deaths + 1
    /\ Shown' = Shown \/ (lock # None /\ Shown' = Default)

\* What an action that leaves the file alone leaves to its readers.
LEMMA AsideShown ==
    ASSUME TypeOK, Locked, Aside, mode = "json"
    PROVE  lock' = lock /\ Shown' = Shown /\ deaths' = deaths
<1>1. Read' = Read BY DEF Aside, Read
<1>2. ASSUME lock # None PROVE at'[lock] = at[lock]
  BY <1>2 DEF Aside, Locked, Mutating, TypeOK
<1>3. QED BY <1>1, <1>2 DEF Aside, Shown

\* Without PostgreSQL, a step begins or ends a change, shows a code, loses
\* the document with the process, or changes nothing of it.
LEMMA DocumentSteps ==
    ASSUME TypeOK, Locked, [Next]_vars, mode = "json"
    PROVE  \/ lock' = lock /\ Shown' = Shown /\ code' = code /\ deaths' = deaths
           \/ \E r \in Requests : Begins(r) \/ Ends(r) \/ Looks(r)
           \/ Lost
<1>0. \A r \in Requests : r # None BY NoneAssumption
<1>1. ASSUME NEW r \in Requests, NEW c \in Requests, Reset(r, c) PROVE Looks(r)
  <2>1. Aside BY <1>1, AsideSteps
  <2>2. lock = None /\ email[r] \in Emails BY <1>1 DEF Reset, LockFree, TypeOK
  <2>3. Shown = Read BY <2>2 DEF Shown
  <2>4. QED BY <1>1, <2>1, <2>2, <2>3, AsideShown DEF Reset, Looks
<1>2. CASE Aside /\ code' = code BY <1>2, AsideShown
<1>3. ASSUME NEW r \in Requests, MutateReads(r) PROVE Begins(r)
  <2>1. lock = None /\ lock' = r /\ at'[r] = "read" /\ Read' = Read
    BY <1>3 DEF MutateReads, LockFree, TypeOK, Read
  <2>2. Shown' = Shown BY <1>0, <2>1 DEF Shown
  <2>3. QED BY <1>3, <2>1, <2>2 DEF MutateReads, Begins
<1>4. ASSUME NEW r \in Requests, MutateTruncates(r)
      PROVE  lock' = lock /\ Shown' = Shown /\ code' = code /\ deaths' = deaths
  <2>1. lock = r /\ at[r] = "read" /\ Read = copy[r]
    BY <1>4 DEF MutateTruncates, Locked, Mutating, TypeOK
  <2>2. lock' = lock /\ at'[r] = "truncated" /\ copy' = copy
    BY <1>4 DEF MutateTruncates, TypeOK
  <2>3. Shown' = Shown BY <1>0, <2>1, <2>2 DEF Shown
  <2>4. QED BY <1>4, <2>3 DEF MutateTruncates, ghosts
<1>5. ASSUME NEW r \in Requests, MutateFills(r) PROVE Ends(r)
  <2>1. lock = r /\ at[r] = "truncated"
    BY <1>5 DEF MutateFills, Locked, Mutating, TypeOK
  <2>2. Changed(r) \in Document /\ Changed(r) # Truncated BY ChangedType, TruncatedAssumption
  <2>3. lock' = None /\ file' = Changed(r) /\ code' = code /\ deaths' = deaths
    BY <1>5 DEF MutateFills, Released
  <2>4. Shown' = Changed(r) BY <2>2, <2>3 DEF Shown, Read
  <2>5. Shown = copy[r] BY <1>0, <2>1 DEF Shown
  <2>6. /\ r \in Codes /\ email[r] \in Emails
        /\ \/ Changed(r) = [copy[r] EXCEPT !.codes[email[r]] = r]
           \/ Changed(r) = [copy[r] EXCEPT !.users[email[r]] = r]
           \/ Changed(r) = [copy[r] EXCEPT !.codes[email[r]] = None]
    BY DEF Changed, Codes, TypeOK
  <2>7. QED BY <2>1, <2>3, <2>4, <2>5, <2>6 DEF Ends
<1>6. CASE ProcessDies
  <2>1. lock' = None /\ file' = file /\ code' = code /\ deaths' = deaths + 1
    BY <1>6 DEF ProcessDies
  <2>2. Shown' = Read BY <2>1 DEF Shown, Read
  <2>3. CASE lock # None /\ at[lock] = "truncated"
    <3>1. file = Truncated BY <2>3 DEF Locked, TypeOK
    <3>2. QED BY <2>1, <2>2, <2>3, <3>1 DEF Read, Lost
  <2>4. CASE ~(lock # None /\ at[lock] = "truncated") BY <2>1, <2>2, <2>4 DEF Shown, Lost
  <2>5. QED BY <2>3, <2>4
<1>7. \/ \E r, c \in Requests : Reset(r, c)
      \/ code' = code
  BY DEF Next, AllOver, vars, request, ghosts, Forgot, Mails, LooksUpAccount, LooksUpRow, UpdatesRow,
         InsertsRow, Commits, MutateReads, MutateTruncates, MutateFills, Expires, AccountDeleted, ProcessDies
<1>8. CASE \E r, c \in Requests : Reset(r, c) BY <1>1, <1>8
<1>9. CASE code' = code BY <1>2, <1>3, <1>4, <1>5, <1>6, <1>9, Steps
<1>10. QED BY <1>7, <1>8, <1>9

-----------------------------------------------------------------------------
Lasting ==
    /\ \A c, e : Stored(c, e) => Stored(c, e)'
    /\ \A r \in Requests, e \in Emails : SetBy(r, e) => SetBy(r, e)'

\* A step does not undo what an entry rests on.
LEMMA RecordsLast ==
    ASSUME TypeOK, Jobs, [Next]_vars
    PROVE  Lasting
<1> USE DEF Lasting, Stored, SetBy, Jobs, Waiting, TypeOK
<1>1. ASSUME NEW r \in Requests, Forgot(r) PROVE Lasting
  BY <1>1 DEF Forgot, Goes, Over, ghosts
<1>2. ASSUME NEW r \in Requests, Mails(r) PROVE Lasting
  BY <1>2 DEF Mails, Goes, Over, ghosts
<1>3. ASSUME NEW r \in Requests, LooksUpAccount(r) \/ LooksUpRow(r) \/ UpdatesRow(r) \/ InsertsRow(r)
      PROVE  Lasting
  BY <1>3 DEF LooksUpAccount, LooksUpRow, UpdatesRow, InsertsRow, Holds, Goes, Over, ghosts
<1>4. ASSUME NEW r \in Requests, Commits(r) PROVE Lasting
  BY <1>4 DEF Commits, Goes, Over
<1>5. ASSUME NEW r \in Requests, MutateReads(r) PROVE Lasting
  BY <1>5 DEF MutateReads
<1>6. ASSUME NEW r \in Requests, MutateTruncates(r) PROVE Lasting
  BY <1>6 DEF MutateTruncates, ghosts
<1>7. ASSUME NEW r \in Requests, MutateFills(r) PROVE Lasting
  <2>1. /\ email' = email /\ code' = code /\ at[r] = "truncated" /\ deaths' = deaths
        /\ spent' = IF job[r] = "remove" /\ mode = "json" THEN spent \cup {code[r]} ELSE spent
    BY <1>7 DEF MutateFills
  <2>2. QED BY <1>7, <2>1, Fills DEF Goes
<1>8. ASSUME NEW r \in Requests, NEW d \in Requests, Reset(r, d) PROVE Lasting
  BY <1>8 DEF Reset, Goes, Over, ghosts
<1>9. ASSUME NEW d \in Requests, Expires(d) PROVE Lasting
  BY <1>9 DEF Expires, request, ghosts
<1>10. ASSUME NEW d \in Emails, AccountDeleted(d) PROVE Lasting
  BY <1>10 DEF AccountDeleted, request, ghosts
<1>11. ASSUME ProcessDies PROVE Lasting
  BY <1>11 DEF ProcessDies
<1>12. ASSUME UNCHANGED vars PROVE Lasting
  BY <1>12 DEF vars, request, ghosts
<1> HIDE DEF Lasting
<1>13. QED
  BY <1>1, <1>2, <1>3, <1>4, <1>5, <1>6, <1>7, <1>8, <1>9, <1>10, <1>11, <1>12 DEF Next, AllOver

\* What becomes of the documents, in the file and in the threads.
LEMMA NewDocuments ==
    ASSUME TypeOK, [Next]_vars
    PROVE  /\ \/ Read' \in {Read, Default}
              \/ \E r \in Requests : MutateFills(r) /\ Read' = Changed(r)
           /\ \A q \in Requests : copy'[q] \in {copy[q], Default, Read}
<1>1. CASE Aside BY <1>1 DEF Aside, Read
<1>2. ASSUME NEW r \in Requests, MutateReads(r)
      PROVE  Read' = Read /\ \A q \in Requests : copy'[q] \in {copy[q], Read}
  BY <1>2 DEF MutateReads, Read, TypeOK
<1>3. ASSUME NEW r \in Requests, MutateTruncates(r) PROVE Read' = Default /\ copy' = copy
  BY <1>3 DEF MutateTruncates, Read
<1>4. ASSUME NEW r \in Requests, MutateFills(r)
      PROVE  Read' = Changed(r) /\ \A q \in Requests : copy'[q] \in {copy[q], Default}
  <2>1. Changed(r) # Truncated BY ChangedType, TruncatedAssumption
  <2>2. QED BY <1>4, <2>1 DEF MutateFills, Read, TypeOK
<1>5. CASE ProcessDies BY <1>5 DEF ProcessDies, Read, TypeOK
<1>6. QED BY <1>1, <1>2, <1>3, <1>4, <1>5, Steps

\* Every entry keeps its history.
LEMMA RecordsStep == TypeOK /\ Jobs /\ Records /\ [Next]_vars => Records'
<1> SUFFICES ASSUME TypeOK, Jobs, Records, [Next]_vars PROVE Records' OBVIOUS
<1>0. Lasting BY RecordsLast
<1>1. \A d : Filed(d) => Filed(d)' BY <1>0, NoneAssumption DEF Filed, Lasting
<1>2. Filed(Default) /\ Filed(Default)' BY Documents, NoneAssumption DEF Filed
<1>3. ASSUME NEW r \in Requests, MutateFills(r), NEW d, d = Changed(r) PROVE Filed(d)'
  <2>0. copy[r] \in Document /\ email' = email /\ code' = code /\ at[r] = "truncated" /\ email[r] \in Emails
    BY <1>3 DEF MutateFills, TypeOK
  <2>1. \A e \in Emails : \A x :
            /\ x = copy[r].codes[e] /\ x # None => Stored(x, e)'
            /\ x = copy[r].users[e] /\ x \in Requests => SetBy(x, e)'
    BY <1>0 DEF Records, Filed, Lasting
  <2>2. CASE job[r] = "put"
    <3>1. Stored(r, email[r])' BY <1>3, <2>0, <2>2, Fills DEF Goes, Stored, TypeOK
    <3>2. d = [copy[r] EXCEPT !.codes[email[r]] = r] BY <1>3, <2>2 DEF Changed
    <3>3. \A e \in Emails : /\ d.users[e] = copy[r].users[e]
                            /\ e # email[r] => d.codes[e] = copy[r].codes[e]
                            /\ e = email[r] => d.codes[e] = r
      BY <2>0, <3>2 DEF Document
    <3>4. QED BY <2>0, <2>1, <3>1, <3>3 DEF Filed
  <2>3. CASE job[r] = "user"
    <3>1. SetBy(r, email[r])' BY <1>3, <2>0, <2>3, Fills DEF Goes, SetBy, Jobs, TypeOK
    <3>2. d = [copy[r] EXCEPT !.users[email[r]] = r] BY <1>3, <2>3 DEF Changed
    <3>3. \A e \in Emails : /\ d.codes[e] = copy[r].codes[e]
                            /\ e # email[r] => d.users[e] = copy[r].users[e]
                            /\ e = email[r] => d.users[e] = r
      BY <2>0, <3>2 DEF Document
    <3>4. QED BY <2>0, <2>1, <3>1, <3>3 DEF Filed
  <2>4. CASE job[r] \notin {"put", "user"}
    <3>1. d = [copy[r] EXCEPT !.codes[email[r]] = None] BY <1>3, <2>4 DEF Changed
    <3>2. \A e \in Emails : /\ d.users[e] = copy[r].users[e]
                            /\ d.codes[e] \in {copy[r].codes[e], None}
      BY <2>0, <3>1 DEF Document
    <3>3. QED BY <2>1, <3>2 DEF Filed
  <2>5. QED BY <2>2, <2>3, <2>4
<1>4. Filed(Read)'
  <2>1. \A d : d \in {Read, Default} => Filed(d)' BY <1>1, <1>2 DEF Records
  <2>2. QED BY <1>3, <2>1, NewDocuments DEF Filed
<1>5. ASSUME NEW q \in Requests PROVE Filed(copy[q])'
  <2>1. \A d : d \in {copy[q], Read, Default} => Filed(d)' BY <1>1, <1>2 DEF Records
  <2>2. QED BY <2>1, NewDocuments DEF Filed
<1>6. ASSUME NEW q \in Requests, code'[q] # None PROVE Stored(code[q], email[q])'
  <2>1. email' = email
    BY DEF Next, AllOver, vars, request, ghosts, Forgot, Mails, LooksUpAccount, LooksUpRow, UpdatesRow, InsertsRow, Commits, MutateReads, MutateTruncates,
           MutateFills, Reset, Expires, AccountDeleted, ProcessDies
  <2>2. CASE code'[q] = code[q] BY <1>0, <1>6, <2>1, <2>2 DEF Records, Lasting, Stored
  <2>3. ASSUME NEW r \in Requests, NEW c \in Requests, Reset(r, c), code'[q] # code[q]
        PROVE  code'[q] = Read.codes[email[q]]
    BY <2>3 DEF Reset, TypeOK
  <2>4. code'[q] # code[q] => \E r, c \in Requests : Reset(r, c)
    BY DEF Next, AllOver, vars, request, ghosts, Forgot, Mails, LooksUpAccount, LooksUpRow, UpdatesRow, InsertsRow, Commits, MutateReads, MutateTruncates,
           MutateFills, Expires, AccountDeleted, ProcessDies
  <2>5. CASE code'[q] # code[q]
    <3>1. code'[q] = Read.codes[email[q]] /\ email[q] \in Emails BY <2>3, <2>4, <2>5 DEF TypeOK
    <3>2. Stored(code'[q], email[q]) BY <1>6, <3>1 DEF Records, Filed
    <3>3. QED BY <1>0, <2>1, <3>2 DEF Lasting, Stored
  <2>6. QED BY <2>2, <2>5
<1>7. ASSUME NEW e \in Emails, table'[e] \in Requests PROVE SetBy(table[e], e)'
  <2>1. CASE table'[e] = table[e] BY <1>0, <1>7, <2>1 DEF Records, Lasting, SetBy
  <2>2. ASSUME NEW r \in Requests, Commits(r), table'[e] # table[e] PROVE SetBy(table[e], e)'
    <3>1. email[r] = e /\ table'[e] = r BY <2>2 DEF Commits, TypeOK
    <3>2. /\ email' = email /\ code' = code /\ code[r] # None
          /\ at'[r] = "done" /\ code[r] \in spent'
      BY <2>2 DEF Commits, Over, Goes, Jobs, TypeOK
    <3>3. QED BY <3>1, <3>2 DEF SetBy
  <2>3. ASSUME NEW d \in Emails, AccountDeleted(d), table'[e] # table[e] PROVE table'[e] = None
    BY <2>3 DEF AccountDeleted, TypeOK
  <2>4. table'[e] # table[e] =>
           (\E r \in Requests : Commits(r)) \/ \E d \in Emails : AccountDeleted(d)
    BY DEF Next, AllOver, vars, request, ghosts, Forgot, Mails, LooksUpAccount, LooksUpRow, UpdatesRow, InsertsRow, MutateReads, MutateTruncates,
           MutateFills, Reset, Expires, ProcessDies
  <2>5. QED BY <1>7, <2>1, <2>2, <2>3, <2>4, NoneAssumption
<1>8. QED BY <1>4, <1>5, <1>6, <1>7 DEF Records

\* Who holds no code will never hold it again, unless it is stored again.
LEMMA GoneLasts ==
    ASSUME TypeOK, Jobs, [Next]_vars, NEW c \in Codes, Gone(c)
    PROVE  Gone(c)'
<1>0. c # None BY NoneAssumption DEF Codes
<1>1. \A e \in Emails : Default.codes[e] # c BY <1>0, Documents
<1>2. ASSUME NEW r \in Requests, MutateFills(r), NEW e \in Emails PROVE Changed(r).codes[e] # c
  <2>1. copy[r] \in Document /\ at[r] = "truncated" BY <1>2 DEF MutateFills, TypeOK
  <2>2. job[r] = "put" => r # c BY DEF Gone
  <2>3. \/ Changed(r).codes[e] \in {copy[r].codes[e], None}
        \/ job[r] = "put" /\ Changed(r).codes[e] = r
    BY <2>1 DEF Changed, Document
  <2>4. QED BY <1>0, <2>2, <2>3 DEF Gone
<1>3. \A e \in Emails : Read'.codes[e] # c /\ \A q \in Requests : copy'[q].codes[e] # c
  BY <1>1, <1>2, NewDocuments DEF Gone
<1>4. Lasting /\ Stored(c, email[c]) BY RecordsLast DEF Gone, Stored
<1>5. c \in Requests /\ at'[c] # "idle" /\ job'[c] # "put"
  <2>1. \A e : e = email[c] => Stored(c, e)' BY <1>4 DEF Lasting
  <2>2. QED BY <2>1 DEF Stored
<1>6. QED BY <1>3, <1>5 DEF Gone

\* A request comes to its end, or to its commit, by removing its code.
LEMMA NewlySpent ==
    ASSUME TypeOK, Jobs, [Next]_vars, NEW c \in Codes,
           c \in spent' \/ \E r \in Requests : at'[r] = "commit" /\ code'[r] = c,
           ~(c \in spent \/ \E r \in Requests : at[r] = "commit" /\ code[r] = c)
    PROVE  \E r \in Requests : MutateFills(r) /\ job[r] = "remove" /\ code[r] = c
<1> USE DEF TypeOK
<1>1. ASSUME NEW r \in Requests, Forgot(r) PROVE FALSE BY <1>1 DEF Forgot, Goes, Over, ghosts
<1>2. ASSUME NEW r \in Requests, Mails(r) PROVE FALSE BY <1>2 DEF Mails, Goes, Over, ghosts
<1>3. ASSUME NEW r \in Requests, LooksUpAccount(r) \/ LooksUpRow(r) \/ UpdatesRow(r) \/ InsertsRow(r)
      PROVE  FALSE
  BY <1>3 DEF LooksUpAccount, LooksUpRow, UpdatesRow, InsertsRow, Holds, Goes, Over, ghosts
<1>4. ASSUME NEW r \in Requests, Commits(r) PROVE FALSE BY <1>4 DEF Commits, Goes, Over
<1>5. ASSUME NEW r \in Requests, MutateReads(r) PROVE FALSE BY <1>5 DEF MutateReads
<1>6. ASSUME NEW r \in Requests, MutateTruncates(r) PROVE FALSE BY <1>6 DEF MutateTruncates, ghosts
<1>7. ASSUME NEW r \in Requests, MutateFills(r) PROVE job[r] = "remove" /\ code[r] = c
  <2>1. /\ code' = code /\ at[r] = "truncated"
        /\ spent' = IF job[r] = "remove" /\ mode = "json" THEN spent \cup {code[r]} ELSE spent
    BY <1>7 DEF MutateFills
  <2>2. job[r] \in {"put", "user", "drop", "remove"} BY <2>1 DEF Jobs, Waiting
  <2>3. QED BY <1>7, <2>1, <2>2, Fills DEF Goes
<1>8. ASSUME NEW r \in Requests, NEW d \in Requests, Reset(r, d) PROVE FALSE
  BY <1>8 DEF Reset, Goes, Over, ghosts
<1>9. ASSUME NEW d \in Requests, Expires(d) PROVE FALSE BY <1>9 DEF Expires, request, ghosts
<1>10. ASSUME NEW d \in Emails, AccountDeleted(d) PROVE FALSE
  BY <1>10 DEF AccountDeleted, request, ghosts
<1>11. ASSUME ProcessDies PROVE FALSE BY <1>11 DEF ProcessDies
<1>12. ASSUME UNCHANGED vars PROVE FALSE BY <1>12 DEF vars, request, ghosts
<1>13. QED
  BY <1>1, <1>2, <1>3, <1>4, <1>5, <1>6, <1>7, <1>8, <1>9, <1>10, <1>11, <1>12 DEF Next, AllOver

\* A removed code stays away.
LEMMA RemovedStep == IInv /\ [Next]_vars => Removed'
<1> SUFFICES ASSUME TypeOK, Jobs, Alone, Records, Removed, [Next]_vars, ~raced',
                    NEW c \in Codes,
                    c \in spent' \/ \E r \in Requests : at'[r] = "commit" /\ code'[r] = c
             PROVE  Gone(c)'
  BY DEF IInv, Removed
<1>0. ~raced
  <2>1. CASE Aside BY <2>1 DEF Aside
  <2>2. QED
    BY <2>1, Steps DEF MutateReads, MutateTruncates, MutateFills, ProcessDies, ghosts
<1>1. CASE c \in spent \/ \E r \in Requests : at[r] = "commit" /\ code[r] = c
  BY <1>0, <1>1, GoneLasts DEF Removed
<1>2. ASSUME NEW r \in Requests, MutateFills(r), job[r] = "remove", code[r] = c PROVE Gone(c)'
  <2>0. c # None BY NoneAssumption DEF Codes
  <2>1. copy[r] \in Document /\ email[r] \in Emails /\ Mutating(r) /\ email' = email
    BY <1>2 DEF MutateFills, Mutating, TypeOK
  <2>2. Stored(c, email[r]) BY <1>2, <2>0 DEF Records
  <2>3. Changed(r) = [copy[r] EXCEPT !.codes[email[r]] = None] BY <1>2 DEF Changed
  <2>4. ASSUME NEW e \in Emails PROVE Changed(r).codes[e] # c
    <3>1. Changed(r).codes[e] = IF e = email[r] THEN None ELSE copy[r].codes[e]
      BY <2>1, <2>3 DEF Document
    <3>2. copy[r].codes[e] = c => email[r] = e BY <2>0, <2>2 DEF Records, Filed, Stored
    <3>3. QED BY <2>0, <3>1, <3>2
  <2>5. Read' = Changed(r)
    <3>1. Changed(r) # Truncated BY ChangedType, TruncatedAssumption
    <3>2. QED BY <1>2, <3>1 DEF MutateFills, Read
  <2>6. ASSUME NEW q \in Requests PROVE copy'[q] = Default
    BY <1>0, <1>2, <2>1 DEF MutateFills, Alone, TypeOK
  <2>7. c \in Requests /\ at'[c] # "idle" /\ job'[c] # "put"
    <3>1. \A e : e = email[r] => Stored(c, e)' BY <2>2, RecordsLast DEF Lasting
    <3>2. QED BY <3>1 DEF Stored
  <2>8. QED BY <2>0, <2>4, <2>5, <2>6, <2>7, Documents DEF Gone
<1>3. QED BY <1>1, <1>2, NewlySpent

-----------------------------------------------------------------------------
\* The invariant is inductive.
LEMMA NextInv == IInv /\ [Next]_vars => IInv'
BY TypeStep, JobsStep, LockedStep, AloneStep, RecordsStep, RemovedStep DEF IInv

\* The invariant always holds.
LEMMA Invariant == Spec => []IInv
BY InitInv, NextInv, PTL DEF Spec

\* Every variable keeps its type.
THEOREM TypeCorrect == Spec => []TypeOK
<1>1. IInv => TypeOK BY DEF IInv
<1>2. QED BY Invariant, <1>1, PTL

\* A code that reset a password is in the file no more - unless two requests
\* with a lock each have written the file at once.
THEOREM SpentCodesStayGone == Spec => []SpentIsGone
<1>1. IInv => SpentIsGone
  <2> SUFFICES ASSUME IInv, ~raced, NEW c \in spent, NEW e \in Emails PROVE Shown.codes[e] # c
    BY DEF SpentIsGone
  <2>1. Gone(c) BY DEF IInv, Removed, TypeOK
  <2>2. Shown = Read \/ (lock \in Requests /\ Shown = copy[lock]) BY DEF Shown, IInv, TypeOK
  <2>3. QED BY <2>1, <2>2 DEF Gone
<1>2. QED BY Invariant, <1>1, PTL

\* An account gets a password only by a code stored for its own e-mail, and
\* the code is gone when the request is over, unless the process died.
THEOREM ResetsAreWhole == Spec => []ResetIsWhole
<1>1. IInv => ResetIsWhole
  <2> SUFFICES ASSUME IInv, NEW e \in Emails, NEW r \in Requests, r = Account(e)
               PROVE  /\ email[r] = e /\ code[r] \in Requests /\ email[code[r]] = e
                      /\ deaths # 0 \/ at[r] # "done" \/ code[r] \in spent
    BY DEF ResetIsWhole
  <2>1. SetBy(r, e) BY DEF IInv, Records, Filed, Account
  <2>2. Stored(code[r], email[r]) BY <2>1 DEF IInv, Records, SetBy
  <2>3. at[r] = "done" => job[r] = "none" BY DEF IInv, Jobs, Waiting
  <2>4. QED BY <2>1, <2>2, <2>3 DEF SetBy, Stored
<1>2. QED BY Invariant, <1>1, PTL

\* Without PostgreSQL the file is one document with one lock: every step
\* begins or ends a change of one entry, shows a code, or changes nothing of
\* it; only the death of the process, while somebody writes, may lose it.
THEOREM FileImplementsStore == Spec => FileChangesWhole
<1> DEFINE doc  == IF mode = "json" THEN Shown ELSE Default
           told == IF mode = "json" THEN code ELSE [r \in Requests |-> None]
<1>0. Store!Default = Default BY DEF Store!Default, Default
<1>1. Init => Store!Init
  <2> SUFFICES ASSUME Init PROVE Store!Init OBVIOUS
  <2>1. file \in Document /\ file.codes = Default.codes /\ file.users \in [Emails -> Codes \cup {None}]
        /\ file = [codes |-> file.codes, users |-> file.users]
    BY DEF Init, Document, Default, Codes
  <2>2. mode = "json" => Shown = file BY <2>1, TruncatedAssumption DEF Init, Shown, Read
  <2>3. doc \in [codes : {Default.codes}, users : [Emails -> Codes \cup {None}]]
    BY <2>1, <2>2 DEF Default
  <2>4. lock = None /\ told = [r \in Requests |-> None] /\ deaths = 0 BY DEF Init
  <2>5. QED BY <1>0, <2>3, <2>4 DEF Store!Init
<1>2. IInv /\ [Next]_vars => [Store!Next]_<<doc, lock, told, deaths>>
  <2> SUFFICES ASSUME IInv, [Next]_vars
               PROVE  Store!Next \/ (doc' = doc /\ lock' = lock /\ told' = told /\ deaths' = deaths)
    OBVIOUS
  <2>1. mode' = mode
    BY DEF Next, AllOver, vars, request, ghosts, Forgot, Mails, LooksUpAccount, LooksUpRow, UpdatesRow,
           InsertsRow, Commits, MutateReads, MutateTruncates, MutateFills, Reset, Expires, AccountDeleted,
           ProcessDies
  <2>2. CASE mode # "json"
    <3>1. doc' = doc /\ told' = told BY <2>1, <2>2 DEF Default
    <3>2. lock = None /\ lock' = None
      <4>1. mode = "postgres" BY <2>2 DEF IInv, TypeOK
      <4>2. Locked' BY LockedStep DEF IInv
      <4>3. QED BY <2>1, <4>1, <4>2 DEF IInv, Locked
    <3>3. deaths' = deaths \/ deaths' = deaths + 1
      BY DEF Next, AllOver, vars, request, ghosts, Forgot, Mails, LooksUpAccount, LooksUpRow, UpdatesRow,
             InsertsRow, Commits, MutateReads, MutateTruncates, MutateFills, Reset, Expires, AccountDeleted,
             ProcessDies
    <3>4. QED BY <3>1, <3>2, <3>3 DEF Store!Next, Store!Dies
  <2>3. CASE mode = "json"
    <3> USE <2>1, <2>3
    <3>1. ASSUME NEW r \in Requests, Begins(r) PROVE Store!Begin(r)
      BY <3>1 DEF Begins, Store!Begin
    <3>2. ASSUME NEW r \in Requests, Ends(r) PROVE Store!End(r)
      BY <3>2 DEF Ends, Store!End, Store!PutCode, Store!RemoveCode, Store!SetPassword
    <3>3. ASSUME NEW r \in Requests, Looks(r) PROVE \E e \in Emails : Store!Look(r, e)
      BY <3>3 DEF Looks, Store!Look
    <3>4. CASE Lost BY <1>0, <3>4 DEF Lost, Store!Next, Store!Dies
    <3>5. CASE lock' = lock /\ Shown' = Shown /\ code' = code /\ deaths' = deaths BY <3>5
    <3>6. QED BY <3>1, <3>2, <3>3, <3>4, <3>5, DocumentSteps DEF IInv, Store!Next
  <2>4. QED BY <2>2, <2>3
<1>3. QED BY <1>1, <1>2, Invariant, PTL DEF Spec, FileChangesWhole, Store!Spec, Store!vars
=============================================================================
