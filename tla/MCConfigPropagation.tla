------------------------- MODULE MCConfigPropagation -------------------------
(***************************************************************************)
(* Instances of ConfigPropagation for TLC.                                 *)
(***************************************************************************)
EXTENDS ConfigPropagation

(***************************************************************************)
(* The state a gateway reaches when it starts and subscribes with Redis up *)
(* and no administrator active.  It leaves aside what may be missed while  *)
(* the gateway starts.                                                     *)
(***************************************************************************)
SubscribedInit ==
    /\ db = NoVersion
    /\ request = [r \in Requests |-> Idle]
    /\ redis = TRUE
    /\ probed = FALSE
    /\ tripped = FALSE
    /\ gateway = "up"
    /\ current \in Tasks
    /\ pc = [k \in Tasks |-> IF k = current THEN "listening" ELSE "done"]
    /\ attempt = [k \in Tasks |-> 0]
    /\ connected = [k \in Tasks |-> k = current]
    /\ inbox = [k \in Tasks |-> <<>>]
    /\ handling = [k \in Tasks |-> NoVersion]
    /\ step = [x \in Loaders |-> 0]
    /\ loaded = [x \in Loaders |-> NoVersion]
    /\ pubsub = "ok"
    /\ reload = "unknown"
    /\ snapshot = NoVersion
    /\ promised = NoVersion

SubscribedSpec == SubscribedInit /\ [][Next]_vars
=============================================================================
