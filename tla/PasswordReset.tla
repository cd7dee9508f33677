---------------------------- MODULE PasswordReset ----------------------------
(***************************************************************************)
(* Forgotten passwords: a code is stored, mailed, and given back with the  *)
(* new password.                                                           *)
(*                                                                         *)
(* Codes are kept in a JSON file, in both modes of the program.  Without   *)
(* PostgreSQL the accounts are in the same file, and one DocumentStore     *)
(* with one lock serves every request.  With PostgreSQL the accounts are   *)
(* rows, and every request builds a DocumentStore of its own on the same   *)
(* path: its lock excludes nobody.  A change of the file reads it,         *)
(* truncates it and fills it again, in a thread; an empty file reads as    *)
(* the default document.                                                   *)
(*                                                                         *)
(* A code and a new password are named after the request they come from.   *)
(* Time is abstract: a stored code may expire at any moment.               *)
(***************************************************************************)
EXTENDS Naturals, FiniteSets

CONSTANTS
    Requests,    \* HTTP requests; each is issued at most once
    Emails,      \* e-mail addresses
    None,        \* no code, no account, no holder of the lock
    Old,         \* the password of an account at the beginning
    Truncated    \* what is in the file between truncating and filling it

ASSUME NoneAssumption == None \notin Requests /\ Old \notin Requests /\ Old # None

Codes == Requests \cup {Old}
Document == [codes : [Emails -> Codes \cup {None}], users : [Emails -> Codes \cup {None}]]
ASSUME TruncatedAssumption == Truncated \notin Document

VARIABLES
    mode,      \* "json" or "postgres": settings.use_postgres
    file,      \* the JSON file
    table,     \* table[e]: the password in the committed row, with PostgreSQL
    lock,      \* who holds the lock of the one DocumentStore, without
    at,        \* at[r]: where request r is
    job,       \* job[r]: the change of the file it is about
    email,     \* email[r]: the address it is about
    code,      \* code[r]: the code it has found in the file
    copy,      \* copy[r]: the document its thread has read
    updated,   \* requests whose transaction holds an uncommitted UPDATE
    expired,   \* codes whose time is over
    spent,     \* codes of the resets that were answered with success
    raced,     \* with PostgreSQL: two changes of the file have overlapped
    deaths     \* how often the process died while a request was under way

request == <<at, job, email, code>>
ghosts  == <<spent, raced, deaths>>
vars == <<mode, file, table, lock, request, copy, updated, expired, ghosts>>

\* _default_document()
Default == [codes |-> [e \in Emails |-> None], users |-> [e \in Emails |-> None]]

Init ==
    /\ mode \in {"json", "postgres"}
    /\ table \in [Emails -> {Old, None}]
    /\ file = [Default EXCEPT !.users = IF mode = "json" THEN table ELSE @]
    /\ lock = None
    /\ at = [r \in Requests |-> "idle"]
    /\ job = [r \in Requests |-> "none"]
    /\ email \in [Requests -> Emails]
    /\ code = [r \in Requests |-> None]
    /\ copy = [r \in Requests |-> Default]
    /\ updated = {}
    /\ expired = {}
    /\ spent = {}
    /\ raced = FALSE
    /\ deaths = 0

\* _read_unlocked()
Read == IF file = Truncated THEN Default ELSE file

\* Mutant: the lock is not taken.
LockFreeAlways == TRUE

\* One store, one lock - or a lock for each request.
LockFree == mode = "json" => lock = None

Account(e) == IF mode = "json" THEN Read.users[e] ELSE table[e]

Goes(r, there, what) ==
    /\ at' = [at EXCEPT ![r] = there]
    /\ job' = [job EXCEPT ![r] = what]

Over(r) == Goes(r, "done", "none")

-----------------------------------------------------------------------------
(***************************************************************************)
(* The use cases.                                                          *)
(***************************************************************************)
\* RequestPasswordReset: without an account nothing happens, and the answer
\* is the same.
Forgot(r) ==
    /\ at[r] = "idle"
    /\ LockFree
    /\ IF Account(email[r]) = None THEN Over(r) ELSE Goes(r, "mutate", "put")
    /\ UNCHANGED <<mode, file, table, lock, email, code, copy, updated, expired, ghosts>>

\* The e-mail goes out, or the sender raises; the code stays either way.
Mails(r) ==
    /\ at[r] = "mail"
    /\ Over(r)
    /\ UNCHANGED <<mode, file, table, lock, email, code, copy, updated, expired, ghosts>>

\* ResetPasswordWithCode, up to the comparison of the codes: the request
\* gives code c.
Reset(r, c) ==
    LET record == Read.codes[email[r]]
    IN  /\ at[r] = "idle"
        /\ LockFree
        /\ code' = [code EXCEPT ![r] = record]
        /\ IF record # None /\ record \in expired THEN Goes(r, "mutate", "drop")
           ELSE IF record # c THEN Over(r)
           ELSE Goes(r, "verified", "none")
        /\ UNCHANGED <<mode, file, table, lock, email, copy, updated, expired, ghosts>>

\* The account is looked up by its e-mail; without one the code is dropped.
LooksUpAccount(r) ==
    /\ at[r] = "verified"
    /\ LockFree
    /\ IF Account(email[r]) = None THEN Goes(r, "mutate", "drop")
       ELSE IF mode = "json" THEN Goes(r, "mutate", "user")
       ELSE Goes(r, "found", "none")
    /\ UNCHANGED <<mode, file, table, lock, email, code, copy, updated, expired, ghosts>>

\* UserRepository.save(): session.get() by the identifier, which decides
\* between an UPDATE and an INSERT.
LooksUpRow(r) ==
    /\ at[r] = "found"
    /\ Goes(r, IF table[email[r]] = None THEN "insert" ELSE "update", "none")
    /\ UNCHANGED <<mode, file, table, lock, email, code, copy, updated, expired, ghosts>>

\* No other transaction has written the row of e.
RowFree(e) == \A q \in updated : email[q] # e

Holds(r) == Goes(r, "mutate", "remove") /\ updated' = updated \cup {r}

\* An UPDATE that meets no row raises StaleDataError.
UpdatesRow(r) ==
    /\ at[r] = "update"
    /\ IF table[email[r]] = None THEN Over(r) /\ UNCHANGED updated
       ELSE RowFree(email[r]) /\ Holds(r)
    /\ UNCHANGED <<mode, file, table, lock, email, code, copy, expired, ghosts>>

\* An INSERT that meets a row raises IntegrityError.
InsertsRow(r) ==
    /\ at[r] = "insert"
    /\ RowFree(email[r])
    /\ IF table[email[r]] # None THEN Over(r) /\ UNCHANGED updated ELSE Holds(r)
    /\ UNCHANGED <<mode, file, table, lock, email, code, copy, expired, ghosts>>

\* The request's dependency is closed: session.begin() commits.
Commits(r) ==
    /\ at[r] = "commit"
    /\ table' = [table EXCEPT ![email[r]] = r]
    /\ updated' = updated \ {r}
    /\ spent' = spent \cup {code[r]}
    /\ Over(r)
    /\ UNCHANGED <<mode, file, lock, email, code, copy, expired, raced, deaths>>

-----------------------------------------------------------------------------
(***************************************************************************)
(* DocumentStore.mutate(), in a thread of its own.                         *)
(***************************************************************************)
Mutating(q) == at[q] \in {"read", "truncated"}

MutateReads(r) ==
    /\ at[r] = "mutate"
    /\ LockFree
    /\ lock' = IF mode = "json" THEN r ELSE None
    /\ copy' = [copy EXCEPT ![r] = Read]
    /\ at' = [at EXCEPT ![r] = "read"]
    /\ raced' = (raced \/ (mode = "postgres" /\ \E q \in Requests : Mutating(q)))
    /\ UNCHANGED <<mode, file, table, job, email, code, updated, expired, spent, deaths>>

MutateTruncates(r) ==
    /\ at[r] = "read"
    /\ file' = Truncated
    /\ at' = [at EXCEPT ![r] = "truncated"]
    /\ UNCHANGED <<mode, table, lock, job, email, code, copy, updated, expired, ghosts>>

\* Mutant: clear() leaves the code of a successful reset in the file.
ChangedKeepingCode(r) ==
    LET e == email[r] IN
    CASE job[r] = "put"  -> [copy[r] EXCEPT !.codes[e] = r]
      [] job[r] = "user" -> [copy[r] EXCEPT !.users[e] = r]
      [] job[r] = "drop" -> [copy[r] EXCEPT !.codes[e] = None]
      [] OTHER           -> copy[r]

\* Mutant: clear() leaves nothing under the e-mail, not even an absence.
ChangedPopping(r) ==
    LET e == email[r] IN
    CASE job[r] = "put"  -> [copy[r] EXCEPT !.codes[e] = r]
      [] job[r] = "user" -> [copy[r] EXCEPT !.users[e] = r]
      [] OTHER           -> [copy[r] EXCEPT !.codes = [x \in Emails \ {e} |-> @[x]]]

\* save() of a record, save() of a user, clear().
Changed(r) ==
    LET e == email[r] IN
    CASE job[r] = "put"  -> [copy[r] EXCEPT !.codes[e] = r]
      [] job[r] = "user" -> [copy[r] EXCEPT !.users[e] = r]
      [] OTHER           -> [copy[r] EXCEPT !.codes[e] = None]

\* Mutant: the request is over with the new password, the code is left.
AfterwardsOver(r) ==
    CASE job[r] = "put" -> Goes(r, "mail", "none")
      [] job[r] \in {"user", "drop"} -> Over(r)
      [] OTHER -> IF mode = "json" THEN Over(r) ELSE Goes(r, "commit", "none")

\* What the use case does when mutate_async() returns.
Afterwards(r) ==
    CASE job[r] = "put"  -> Goes(r, "mail", "none")
      [] job[r] = "user" -> Goes(r, "mutate", "remove")
      [] job[r] = "drop" -> Over(r)
      [] OTHER           -> IF mode = "json" THEN Over(r) ELSE Goes(r, "commit", "none")

\* Mutant: a removal that ends in an error leaves the lock taken.
ReleasedOnSuccess(r) == IF job[r] = "drop" THEN lock ELSE None

Released(r) == None

MutateFills(r) ==
    /\ at[r] = "truncated"
    /\ file' = Changed(r)
    /\ lock' = Released(r)
    /\ copy' = [copy EXCEPT ![r] = Default]
    /\ Afterwards(r)
    /\ spent' = IF job[r] = "remove" /\ mode = "json" THEN spent \cup {code[r]} ELSE spent
    /\ UNCHANGED <<mode, table, email, code, updated, expired, raced, deaths>>

-----------------------------------------------------------------------------
(***************************************************************************)
(* Around the requests.                                                    *)
(***************************************************************************)
Expires(c) ==
    /\ c \notin expired
    /\ \E e \in Emails : Read.codes[e] = c
    /\ expired' = expired \cup {c}
    /\ UNCHANGED <<mode, file, table, lock, request, copy, updated, ghosts>>

\* An administrator deletes the account (there are no such requests without
\* PostgreSQL).
AccountDeleted(e) ==
    /\ mode = "postgres"
    /\ table[e] # None
    /\ RowFree(e)
    /\ table' = [table EXCEPT ![e] = None]
    /\ UNCHANGED <<mode, file, lock, request, copy, updated, expired, ghosts>>

\* The process dies and starts again: the open transactions roll back, the
\* file stays as it is.
ProcessDies ==
    /\ \E r \in Requests : at[r] \notin {"idle", "done"}
    /\ at' = [r \in Requests |-> IF at[r] = "idle" THEN "idle" ELSE "done"]
    /\ job' = [r \in Requests |-> "none"]
    /\ copy' = [r \in Requests |-> Default]
    /\ lock' = None
    /\ updated' = {}
    /\ deaths' = deaths + 1
    /\ UNCHANGED <<mode, file, table, email, code, expired, spent, raced>>

AllOver == (\A r \in Requests : at[r] = "done") /\ UNCHANGED vars

Next ==
    \/ \E r \in Requests :
          \/ Forgot(r) \/ Mails(r) \/ LooksUpAccount(r) \/ LooksUpRow(r)
          \/ UpdatesRow(r) \/ InsertsRow(r) \/ Commits(r)
          \/ MutateReads(r) \/ MutateTruncates(r) \/ MutateFills(r)
          \/ \E c \in Requests : Reset(r, c)
    \/ \E c \in Requests : Expires(c)
    \/ \E e \in Emails : AccountDeleted(e)
    \/ ProcessDies
    \/ AllOver

Spec == Init /\ [][Next]_vars

\* The event loop and its threads go on with every request they have begun.
GoesOn(r) ==
    \/ Mails(r) \/ LooksUpAccount(r) \/ LooksUpRow(r)
    \/ UpdatesRow(r) \/ InsertsRow(r) \/ Commits(r)
    \/ MutateReads(r) \/ MutateTruncates(r) \/ MutateFills(r)

LiveSpec == Spec /\ \A r \in Requests : WF_vars(GoesOn(r))

-----------------------------------------------------------------------------
(***************************************************************************)
(* Properties.                                                             *)
(***************************************************************************)
Places == {"idle", "verified", "found", "update", "insert", "mutate", "read", "truncated", "mail",
           "commit", "done"}

\* Every variable holds a value of its type.
TypeOK ==
    /\ mode \in {"json", "postgres"}
    /\ file \in Document \cup {Truncated}
    /\ table \in [Emails -> Codes \cup {None}]
    /\ lock \in Requests \cup {None}
    /\ at \in [Requests -> Places]
    /\ job \in [Requests -> {"none", "put", "user", "drop", "remove"}]
    /\ email \in [Requests -> Emails]
    /\ code \in [Requests -> Codes \cup {None}]
    /\ copy \in [Requests -> Document]
    /\ updated \subseteq Requests
    /\ expired \subseteq Requests
    /\ spent \subseteq Codes
    /\ raced \in BOOLEAN
    /\ deaths \in Nat

\* The document as the other users of the one DocumentStore see it: between
\* truncating and filling, it is still the one the holder of the lock read.
Shown == IF lock # None /\ at[lock] = "truncated" THEN copy[lock] ELSE Read

Store == INSTANCE DocumentStore
             WITH Clients <- Requests, Emails <- Emails, Codes <- Codes, None <- None,
                  doc <- IF mode = "json" THEN Shown ELSE Default,
                  writer <- lock,
                  told <- IF mode = "json" THEN code ELSE [r \in Requests |-> None],
                  deaths <- deaths

\* Without PostgreSQL the file is one document with one lock: a change is
\* never half made for anybody, alters one entry and loses nobody else's,
\* and a request finds the code that is in the document when nobody writes.
\* But this is less than the "transactional" store json/store.py promises: a
\* process that dies while somebody writes may leave the document empty.
FileChangesWhole == Store!Spec

\* A code that reset a password is in the file no more, whatever the other
\* requests of the time were writing - unless two requests with a lock each
\* have written the file at once: then a spent code can come back.
SpentIsGone == raced \/ \A c \in spent, e \in Emails : Shown.codes[e] # c

\* An account gets a password only from a request about its own e-mail that
\* found there a code which a request about that e-mail had stored; and that
\* code is gone - the new password and its removal are two writes - unless
\* the request is still under way, or the process died.
ResetIsWhole ==
    \A e \in Emails : Account(e) \in Requests =>
        LET r == Account(e) IN
        /\ email[r] = e /\ code[r] \in Requests /\ email[code[r]] = e
        /\ deaths # 0 \/ at[r] # "done" \/ code[r] \in spent

\* Every request ends: nobody waits forever for the lock of the document or
\* for the row of an account.
RequestsEnd == \A r \in Requests : at[r] # "idle" ~> at[r] = "done"
=============================================================================
