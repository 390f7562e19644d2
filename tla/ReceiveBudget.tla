---------------------------- MODULE ReceiveBudget ----------------------------
(***************************************************************************)
(* What the receive bucket of a smux session promises to the rest of the   *)
(* program, with no thread, lock, channel or stream in sight.              *)
(*                                                                         *)
(* A session holds bytes for its streams.  Its receiver goes to the        *)
(* connection only while fewer than MaxReceiveBuffer bytes are held (or    *)
(* when the session is closing), takes at most one frame there, and looks  *)
(* at the budget again.  It may have an answer of its own to write for the *)
(* frame, which takes as long as the connection does not take it.  A       *)
(* receiver that is not writing does go back to the connection while there *)
(* is room.                                                                *)
(***************************************************************************)
EXTENDS Naturals

CONSTANTS
    MaxReceiveBuffer,   \* Config.MaxReceiveBuffer, in bytes
    MaxFrame            \* the longest payload a frame header can announce

VARIABLES
    held,       \* the number of bytes held for the streams
    receiver,   \* what the receiver is at, see TypeOK
    closing     \* whether the session was closed

vars == <<held, receiver, closing>>

TypeOK ==
    /\ held \in Nat
    /\ receiver \in {"idle",      \* between two frames
                    "reading",   \* at the connection
                    "handling",  \* with a frame for a stream
                    "writing",   \* an answer, until the connection takes it
                    "stopped"}
    /\ closing \in BOOLEAN

Init ==
    /\ held = 0
    /\ receiver = "idle"
    /\ closing = FALSE

\* The receiver goes to the connection for one frame.
Start ==
    /\ receiver = "idle"
    /\ held < MaxReceiveBuffer \/ closing
    /\ receiver' = "reading"
    /\ UNCHANGED <<held, closing>>

\* The frame carries n bytes for a stream that exists.
Admit(n) ==
    /\ receiver = "reading"
    /\ held < MaxReceiveBuffer \/ closing
    /\ held' = held + n
    /\ receiver' = "handling"
    /\ UNCHANGED closing

\* The stream has its bytes; it may be so full that the peer has to be told.
Handle ==
    /\ receiver = "handling"
    /\ receiver' \in {"idle", "writing"}
    /\ UNCHANGED <<held, closing>>

\* The frame carries nothing to hold; it may ask for an answer.
Pass ==
    /\ receiver = "reading"
    /\ receiver' \in {"idle", "writing"}
    /\ UNCHANGED <<held, closing>>

\* The answer is written.
Written ==
    /\ receiver = "writing"
    /\ receiver' = "idle"
    /\ UNCHANGED <<held, closing>>

\* The connection failed.
Stop ==
    /\ receiver = "reading"
    /\ receiver' = "stopped"
    /\ closing' = TRUE
    /\ UNCHANGED held

\* A stream consumed, or gave up, n of the bytes held.
Release(n) ==
    /\ n <= held
    /\ held' = held - n
    /\ UNCHANGED <<receiver, closing>>

Close ==
    /\ closing' = TRUE
    /\ UNCHANGED <<held, receiver>>

Next ==
    \/ Start
    \/ \E n \in 1 .. MaxFrame : Admit(n)
    \/ Handle
    \/ Pass
    \/ Written
    \/ Stop
    \/ \E n \in 1 .. held : Release(n)
    \/ Close

Safety == Init /\ [][Next]_vars

\* The receiver is not left idle while there is room, nor with a frame.
Spec == Safety /\ WF_vars(Start) /\ WF_vars(Handle)
=============================================================================
