------------------------------- MODULE MCService -------------------------------
(* Small instances of Service for TLC. *)
EXTENDS Service

CONSTANTS k1, k2, u1, u2

Scenario(clients, users, faults_, keyed) ==
    [clients |-> clients, users |-> users, faults |-> faults_, keyed |-> keyed]

\* One client that loses its connection again and again, with nonces and, more often,
\* without; two clients that compete for the hub; two users on a session that breaks.
Four == {Scenario({k1}, {u1}, 2, TRUE), Scenario({k1}, {u1}, 3, FALSE),
         Scenario({k1, k2}, {u1}, 1, TRUE), Scenario({k1}, {u1, u2}, 1, TRUE)}
================================================================================
