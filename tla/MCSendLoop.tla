------------------------------ MODULE MCSendLoop ------------------------------
(* Small instances of SendLoop for TLC. *)
EXTENDS SendLoop

\* Chunks written on each stream; a stream without any is opened and closed.
One     == [s \in Streams |-> 1]
OnFirst == [s \in Streams |-> IF s = 1 THEN 2 ELSE 0]
===============================================================================
