-------------------------- MODULE MCRelayRegistry --------------------------
(* Instances of RelayRegistry for TLC: two clients, two keys.  A token is  *)
(* good for one client and one key, or has one defect of those the code    *)
(* checks for.                                                             *)
EXTENDS RelayRegistry

Good(k, c) == [key |-> k, aud |-> TRUE, sub |-> c, bound |-> c, known |-> TRUE,
               server |-> Server, audience |-> Server, connect |-> TRUE]

GoodTokens == {Good(k, c) : k \in Keys, c \in Clients}

\* Every good token, and one of each defect.
SampleTokens ==
    LET t == CHOOSE t \in GoodTokens : TRUE
    IN  GoodTokens \cup {[t EXCEPT !.aud = FALSE], [t EXCEPT !.server = "other"],
                        [t EXCEPT !.audience = "other"], [t EXCEPT !.connect = FALSE]}
=============================================================================
