--------------------------- MODULE DependencyStatus ---------------------------
(***************************************************************************)
(* An entry of the dependency registry: what the health pages show and     *)
(* what the circuit breakers of both services read.  Its next_retry_at is  *)
(* kept as cooling: the instant is still to come.  Details, reason codes   *)
(* and other instants are left out.                                        *)
(***************************************************************************)
EXTENDS Naturals

Entry == [status : {"unknown", "ok", "degraded", "error", "inactive"},
          attempts : Nat,
          cooling : BOOLEAN]

Fresh == [status |-> "unknown", attempts |-> 0, cooling |-> FALSE]

\* Mutant: an answer takes back one failure instead of all of them.
MarkedOkOneBack(e) == [status |-> "ok", attempts |-> e.attempts - 1, cooling |-> FALSE]

\* The counter and the retry instant are forgotten.
MarkedOk(e) == [status |-> "ok", attempts |-> 0, cooling |-> FALSE]

\* Only the status changes: the failures counted so far stay.
MarkedDegraded(e) == [e EXCEPT !.status = "degraded"]

\* One more failure.  Without retry_in_seconds the retry instant stays.
MarkedError(e, retry) ==
    [status |-> "error", attempts |-> e.attempts + 1, cooling |-> e.cooling \/ retry]

\* The retry instant is forgotten, the counter is not.
MarkedInactive(e) == [e EXCEPT !.status = "inactive", !.cooling = FALSE]
=============================================================================
