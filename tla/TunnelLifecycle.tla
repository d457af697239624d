-------------------------- MODULE TunnelLifecycle --------------------------
(***************************************************************************)
(* What the relay promises of a tunnel (docs/FEATURE_RELAY.md,             *)
(* "Synchronization & Race Prevention"): it stays Pending until both peers *)
(* have signalled readiness, becomes Active at most once, and an Active    *)
(* tunnel can only be Closed.  A readiness signal is never taken back.     *)
(***************************************************************************)
VARIABLES ready,  \* the roles that have signalled readiness
          phase   \* "Pending", "Active" or "Closed"

Roles == {"client", "server"}

Init == ready = {} /\ phase = "Pending"

Signal ==
    /\ \E r \in Roles : ready' = ready \cup {r}
    /\ UNCHANGED phase

Activate ==
    /\ phase = "Pending"
    /\ ready = Roles
    /\ phase' = "Active"
    /\ UNCHANGED ready

Close ==
    /\ phase = "Active"
    /\ phase' = "Closed"
    /\ UNCHANGED ready

Next == Signal \/ Activate \/ Close

Spec == Init /\ [][Next]_<<ready, phase>>
=============================================================================
