---------------------------- MODULE SnapshotCache ----------------------------
(***************************************************************************)
(* What the gateway's in-memory snapshot promises, without saying how it   *)
(* is kept.  The administrative store is a set of tables; each is seen     *)
(* through a version, the number of committed transactions that changed    *)
(* it.  The snapshot holds one version of each table.  It may lag, but it  *)
(* never holds rows nobody committed and it never goes back.               *)
(***************************************************************************)
EXTENDS Naturals

CONSTANT Tables             \* the tables the gateway reads

VARIABLES db,               \* db[t]: transactions committed on table t
          snapshot          \* snapshot[t]: the version of t being served

vars == <<db, snapshot>>

Versions == [Tables -> Nat]

\* a is nowhere behind b.
Covers(a, b) == \A t \in Tables : b[t] <= a[t]

Init == /\ db = [t \in Tables |-> 0]
        /\ snapshot = [t \in Tables |-> 0]

\* A transaction that changed the tables in writes becomes visible at once.
Commit(writes) ==
    /\ db' = [t \in Tables |-> IF t \in writes THEN db[t] + 1 ELSE db[t]]
    /\ UNCHANGED snapshot

\* Some tables of the snapshot advance to versions that were committed; the
\* tables need not advance to the same instant.
Refresh ==
    /\ snapshot' \in Versions
    /\ Covers(snapshot', snapshot)
    /\ Covers(db, snapshot')
    /\ UNCHANGED db

Next == \/ \E writes \in SUBSET Tables : Commit(writes)
        \/ Refresh

Spec == Init /\ [][Next]_vars
=============================================================================
