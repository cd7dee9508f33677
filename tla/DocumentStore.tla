---------------------------- MODULE DocumentStore ----------------------------
(***************************************************************************)
(* What a user of json/store.py may count on: one document of reset codes  *)
(* and accounts with one lock.  A change takes effect as a whole when its  *)
(* writer is done, alters one entry and takes no other writer's entry      *)
(* back; a reader sees the document when nobody is writing.  The document  *)
(* can be lost only to the death of the process, and only while somebody   *)
(* writes.                                                                 *)
(***************************************************************************)
EXTENDS Naturals

CONSTANTS Clients, Emails, Codes, None

VARIABLES
    doc,      \* [codes : [Emails -> Codes or None], users : the same]
    writer,   \* the client that changes the document, or None
    told,     \* told[r]: the code that client r was shown last
    deaths    \* how often the process has died

vars == <<doc, writer, told, deaths>>

Default == [codes |-> [e \in Emails |-> None], users |-> [e \in Emails |-> None]]

PutCode(e, c)     == doc' = [doc EXCEPT !.codes[e] = c]
RemoveCode(e)     == doc' = [doc EXCEPT !.codes[e] = None]
SetPassword(e, p) == doc' = [doc EXCEPT !.users[e] = p]

Init ==
    /\ doc \in [codes : {Default.codes}, users : [Emails -> Codes \cup {None}]]
    /\ writer = None
    /\ told = [r \in Clients |-> None]
    /\ deaths = 0

\* A client is shown the code of an address.
Look(r, e) ==
    /\ writer = None
    /\ told' = [told EXCEPT ![r] = doc.codes[e]]
    /\ UNCHANGED <<doc, writer, deaths>>

Begin(r) ==
    /\ writer = None
    /\ writer' = r
    /\ UNCHANGED <<doc, told, deaths>>

End(r) ==
    /\ writer = r
    /\ writer' = None
    /\ \E e \in Emails :
          RemoveCode(e) \/ \E c \in Codes : PutCode(e, c) \/ SetPassword(e, c)
    /\ UNCHANGED <<told, deaths>>

Dies ==
    /\ deaths' = deaths + 1
    /\ writer' = None
    /\ doc' = doc \/ (writer # None /\ doc' = Default)
    /\ UNCHANGED told

Next ==
    \/ \E r \in Clients : Begin(r) \/ End(r) \/ \E e \in Emails : Look(r, e)
    \/ Dies

Spec == Init /\ [][Next]_vars
=============================================================================
