------------------------------- MODULE BytePipe -------------------------------
(***************************************************************************)
(* What a direction of a smux stream promises its reader: the chunks that  *)
(* the writer sent, in the order it sent them, none twice and none left    *)
(* out in the middle; the end of the stream only after the writer closed.  *)
(* The promise is silent about the tail: a closed stream may lose what was *)
(* not read yet.                                                           *)
(***************************************************************************)
EXTENDS Naturals, Sequences

CONSTANT Pipes      \* directions that keep the promise

VARIABLES
    sent,           \* the number of chunks sent so far in each pipe
    got,            \* the chunks received from each pipe, by number
    closed,         \* the pipes whose writer has closed
    ended           \* the pipes whose reader was told the end

vars == <<sent, got, closed, ended>>

Init ==
    /\ sent = [p \in Pipes |-> 0]
    /\ got = [p \in Pipes |-> <<>>]
    /\ closed = {}
    /\ ended = {}

Send(p) ==
    /\ sent' = [sent EXCEPT ![p] = @ + 1]
    /\ UNCHANGED <<got, closed, ended>>

\* The reader gets the next k chunks.
Receive(p, k) ==
    /\ Len(got[p]) + k <= sent[p]
    /\ got' = [got EXCEPT ![p] = @ \o [i \in 1 .. k |-> Len(@) + i]]
    /\ UNCHANGED <<sent, closed, ended>>

Close(p) ==
    /\ closed' = closed \cup {p}
    /\ UNCHANGED <<sent, got, ended>>

End(p) ==
    /\ p \in closed
    /\ ended' = ended \cup {p}
    /\ UNCHANGED <<sent, got, closed>>

Next ==
    \E p \in Pipes :
        \/ Send(p)
        \/ \E k \in 1 .. sent[p] : Receive(p, k)
        \/ Close(p)
        \/ End(p)

Spec == Init /\ [][Next]_vars
===============================================================================
