------------------------------ MODULE MCKeepalive ------------------------------
(* Small instances of Keepalive for TLC. *)
EXTENDS Keepalive, TLC

CONSTANTS hub, client

Scenario(n, m, idlers, cut, answering) ==
    [writes |-> (hub :> n @@ client :> m), idlers |-> idlers, cut |-> cut,
     answering |-> answering]

\* A link that is cut under traffic one way; a user that stops reading; traffic
\* both ways, with answers.
All == {Scenario(1, 0, {}, TRUE, FALSE), Scenario(1, 0, {client}, FALSE, FALSE),
        Scenario(2, 2, {}, FALSE, TRUE)}
================================================================================
