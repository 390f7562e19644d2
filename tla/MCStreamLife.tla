----------------------------- MODULE MCStreamLife -----------------------------
(* Small instances of StreamLife for TLC. *)
EXTENDS StreamLife

CONSTANTS hub, client, s1, s2

\* The hub opens streams, the client accepts them.
OneOpener == [s \in Streams |-> hub]

\* The hub writes n chunks on every stream, the client m.
Writes(n, m) == [h \in Handles |-> IF h[1] = hub THEN n ELSE m]

\* One stream with data in one direction, everybody may close it, the client may
\* fail, and its stream may be too full.
DataAndFailure ==
    {[streams |-> {s1}, writes |-> Writes(2, 0), closing |-> Handles,
      reading |-> Handles, failing |-> {client}, pausing |-> {client}],
     [streams |-> {s1}, writes |-> Writes(0, 3), closing |-> Handles,
      reading |-> {<<hub, s1>>}, failing |-> {client}, pausing |-> {}]}

\* The same without a failure and without flow control.
Data ==
    {[streams |-> {s1}, writes |-> Writes(2, 0), closing |-> Handles,
      reading |-> Handles, failing |-> {}, pausing |-> {}]}

\* One stream with data that is closed; one whose data may be too much for a
\* client that fails; and two that fill chAccepts of such a client.
EndOrBacklog ==
    {[streams |-> {s1}, writes |-> Writes(1, 0), closing |-> Handles,
      reading |-> Handles, failing |-> {}, pausing |-> {client}],
     [streams |-> {s1}, writes |-> Writes(2, 0), closing |-> {},
      reading |-> {<<client, s1>>}, failing |-> {client}, pausing |-> {client}],
     [streams |-> {s1, s2}, writes |-> Writes(0, 0), closing |-> {},
      reading |-> {}, failing |-> {client}, pausing |-> {}]}
===============================================================================
