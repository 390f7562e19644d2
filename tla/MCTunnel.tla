-------------------------------- MODULE MCTunnel --------------------------------
(* Small instances of Tunnel for TLC. *)
EXTENDS Tunnel

CONSTANTS t1, t2

\* The sides in talking send a chunk each, those in ending may finish, those in slow
\* may stop reading, and the sessions in dying may die.
Scenario(users, talking, ending, dying, slow) ==
    [users |-> users,
     chunks |-> [x \in Sides |-> IF x \in talking THEN 1 ELSE 0],
     ending |-> ending, dying |-> dying, slow |-> slow]

OneTunnel == {<<hub, t1>>, <<client, t1>>}

\* Two users send, one of them is done early; one tunnel with traffic both ways and a
\* user that may stop reading; one tunnel whose sessions die.
Reuse    == Scenario({t1, t2}, OneTunnel \cup {<<hub, t2>>}, {<<hub, t1>>}, {}, {})
BothWays == Scenario({t1}, OneTunnel, OneTunnel, {}, {<<hub, t1>>})
Death    == Scenario({t1}, {<<hub, t1>>}, OneTunnel, {hub, client}, {})

Three == {Reuse, BothWays, Death}
=================================================================================
