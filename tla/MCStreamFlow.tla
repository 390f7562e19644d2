----------------------------- MODULE MCStreamFlow -----------------------------
(* Small instances of StreamFlow for TLC. *)
EXTENDS StreamFlow

CONSTANTS hub, client

\* The hub writes n chunks, the client m.
Writes(n, m) == [e \in Ends |-> IF e = hub THEN n ELSE m]

\* Data one way for some rounds of FUL and EMP, and data both ways.
OneWay       == {Writes(4, 0)}
OneOrBothWay == {Writes(4, 0), Writes(2, 2)}
===============================================================================
