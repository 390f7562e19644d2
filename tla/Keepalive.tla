------------------------------- MODULE Keepalive -------------------------------
(***************************************************************************)
(* How a session finds out that its peer is gone: the NOP frames and the   *)
(* timeout of Session.keepalive, and the recvLoop that writes frames of    *)
(* its own when EnableStreamBuffer is set: an ACK for a NOP, and a FUL for *)
(* a PSH that overfills its stream (src/lib/smux/session.go).              *)
(*                                                                         *)
(* Whoever writes a frame, keepalive, recvLoop or a user's Write or Read,  *)
(* waits until the connection takes it.  The connection takes so much that *)
(* has not been read and no more, and a recvLoop reads only while it has   *)
(* tokens, of which a PSH costs one.  A FUL is written under streamLock,   *)
(* which Session.Close wants before it closes the connection.              *)
(*                                                                         *)
(* The tickers are slow (KeepAliveInterval is two seconds): time passes    *)
(* only when everything that can move has moved.                           *)
(***************************************************************************)
EXTENDS Integers, Sequences, FiniteSets, Functions

CONSTANTS
    Ends,           \* the two ends of the connection
    Capacity,       \* what the connection takes ahead of the reader
    Chunk,          \* the size of a PSH; the other frames have size one
    Tokens,         \* MaxReceiveBuffer, in PSH frames
    Pings,          \* KeepAliveTimeout over KeepAliveInterval
    Scenarios       \* how much each end's users write at most (bound: frames
                    \* from one tick to the next), whose user may stop reading,
                    \* whether the link may fail, and whether EnableStreamBuffer
                    \* is set

ASSUME TwoEnds == IsFiniteSet(Ends) /\ Cardinality(Ends) = 2
ASSUME SizesNat == {Capacity, Chunk, Tokens, Pings} \subseteq Nat \ {0}
\* The connection has room for the pings of two timeouts.
ASSUME PingsFit == Capacity > 2 * Pings
ASSUME ScenariosTyped ==
    Scenarios \subseteq [writes : [Ends -> Nat], idlers : SUBSET Ends,
                         cut : BOOLEAN, answering : BOOLEAN]

Peer(e) == CHOOSE p \in Ends : p # e

VARIABLES
    scenario,   \* which of the Scenarios this is; it never changes
    link,       \* "up", "closed" by an end, or "cut": nothing arrives any more
    conn,       \* conn[e]: the frames on their way to e
    held,       \* the tokens of e in its users' buffers
    reading,    \* whether the user of e reads
    pend,       \* the frames of e that wait for the connection: keepalive is
                \* writing iff NOP is in it, recvLoop iff ACK or FUL, a user
                \* iff PSH
    due,        \* the tickers of e that have fired
    dataReady,
    die,
    tick,       \* the time, modulo the timeout
    wrote,      \* bound: the frames users wrote since the last tick
    since       \* history: the ticks since keepalive looked at dataReady

vars == <<scenario, link, conn, held, reading, pend, due, dataReady, die, tick,
          wrote, since>>

Cmds == {"NOP", "ACK", "PSH", "FUL"}

Size(cmd) == IF cmd = "PSH" THEN Chunk ELSE 1
Used(frames) ==
    Len(frames) + (Chunk - 1) * Cardinality({i \in DOMAIN frames : frames[i] = "PSH"})

TypeOK ==
    /\ scenario \in Scenarios
    /\ link \in {"up", "cut", "closed"}
    /\ conn \in [Ends -> Seq(Cmds)] /\ \A e \in Ends : Used(conn[e]) <= Capacity
    /\ held \in [Ends -> 0 .. Tokens]
    /\ reading \in [Ends -> BOOLEAN]
    /\ pend \in [Ends -> SUBSET Cmds]
    /\ due \in [Ends -> SUBSET {"ping", "timeout"}]
    /\ dataReady \in [Ends -> BOOLEAN]
    /\ die \in [Ends -> BOOLEAN]
    /\ tick \in 0 .. Pings - 1
    /\ wrote \in [Ends -> Nat]
    /\ since \in [Ends -> 0 .. Pings]

\* keepalive begins with a ping.
Init ==
    /\ scenario \in Scenarios
    /\ link = "up"
    /\ conn = [e \in Ends |-> <<>>]
    /\ held = [e \in Ends |-> 0]
    /\ reading = [e \in Ends |-> TRUE]
    /\ pend = [e \in Ends |-> {"NOP"}]
    /\ due = [e \in Ends |-> {}]
    /\ dataReady = [e \in Ends |-> FALSE]
    /\ die = [e \in Ends |-> FALSE]
    /\ tick = 0
    /\ wrote = [e \in Ends |-> 0]
    /\ since = [e \in Ends |-> 0]

\* The connection has room for another frame of e.
Room(e, cmd) == Used(conn[Peer(e)]) + Size(cmd) <= Capacity

-----------------------------------------------------------------------------
(* The actions; those before Tick take no time *)

\* The writer goroutine gets one of the frames rid; on a closed connection it fails.
\* In a session that is closed it may have left: nothing makes it write then.
CanSend(e, cmd) == cmd \in pend[e] /\ (Room(e, cmd) \/ link = "closed")
Send(e, cmd) ==
    /\ CanSend(e, cmd)
    /\ pend' = [pend EXCEPT ![e] = @ \ {cmd}]
    /\ conn' = IF link = "closed" THEN conn
               ELSE [conn EXCEPT ![Peer(e)] = Append(@, cmd)]
    /\ UNCHANGED <<scenario, link, held, reading, due, dataReady, die, tick,
                   wrote, since>>

\* recvLoop is not writing a frame of its own.
Free(e) == pend[e] \cap {"ACK", "FUL"} = {}

\* Mutant: recvLoop does not look at the bucket.
CanRecvFree(e) ==
    /\ link = "up"
    /\ conn[e] # <<>>
    /\ Free(e)


\* In a session that is closed recvLoop does not look at the bucket.
CanRecv(e) ==
    /\ link = "up"
    /\ conn[e] # <<>>
    /\ held[e] < Tokens \/ die[e]
    /\ Free(e)

\* What recvLoop writes itself: an ACK for a NOP, and perhaps a FUL for a PSH.  (Some
\* streams overfill and others do not; Read tells about EMP in StreamFlow.)
Answers(e) ==
    CASE ~scenario.answering -> {{}}
      [] scenario.answering /\ Head(conn[e]) = "NOP" -> {{"ACK"}}
      [] scenario.answering /\ Head(conn[e]) = "PSH" -> {{}, {"FUL"}}
      [] OTHER -> {{}}

\* Mutant: dataReady is set for data only.
RecvPSHReady(e) ==
    /\ CanRecv(e)
    /\ conn' = [conn EXCEPT ![e] = Tail(@)]
    /\ dataReady' = [dataReady EXCEPT ![e] = @ \/ Head(conn[e]) = "PSH"]
    /\ held' = [held EXCEPT ![e] = IF Head(conn[e]) = "PSH" /\ ~die[e] THEN @ + 1 ELSE @]
    /\ \E answer \in Answers(e) : pend' = [pend EXCEPT ![e] = @ \cup answer]
    /\ UNCHANGED <<scenario, link, reading, due, die, tick, wrote, since>>

\* One round of recvLoop up to what it writes itself.  An ACK only sets the rtt, a FUL
\* a flag of its stream.
Recv(e) ==
    /\ CanRecv(e)
    /\ conn' = [conn EXCEPT ![e] = Tail(@)]
    /\ dataReady' = [dataReady EXCEPT ![e] = TRUE]
    /\ held' = [held EXCEPT ![e] = IF Head(conn[e]) = "PSH" /\ ~die[e] THEN @ + 1 ELSE @]
    /\ \E answer \in Answers(e) : pend' = [pend EXCEPT ![e] = @ \cup answer]
    /\ UNCHANGED <<scenario, link, reading, due, die, tick, wrote, since>>

\* A user reads; returnTokens.
CanRead(e) == reading[e] /\ held[e] > 0
Read(e) ==
    /\ CanRead(e)
    /\ held' = [held EXCEPT ![e] = @ - 1]
    /\ UNCHANGED <<scenario, link, conn, reading, pend, due, dataReady, die, tick,
                   wrote, since>>

\* keepalive has the time of the ping, or of the timeout, when it is not writing.
CanWake(e) == ~die[e] /\ due[e] # {} /\ "NOP" \notin pend[e]
Ping(e) ==
    /\ CanWake(e)
    /\ "ping" \in due[e]
    /\ due' = [due EXCEPT ![e] = @ \ {"ping"}]
    /\ pend' = [pend EXCEPT ![e] = @ \cup {"NOP"}]
    /\ UNCHANGED <<scenario, link, conn, held, reading, dataReady, die, tick,
                   wrote, since>>

\* Session.Close begins: nobody starts to write any more.
Close(e) == die' = [die EXCEPT ![e] = TRUE]

\* It ends with conn.Close, and the peer's reads fail.  Before that it has to lock
\* streamLock: while recvLoop writes a FUL it gets on only if it has been there
\* already.
CanCloseConn(e) == die[e] /\ link = "up"
CloseConn(e) ==
    /\ CanCloseConn(e)
    /\ link' = "closed"
    /\ UNCHANGED <<scenario, conn, held, reading, pend, due, dataReady, die,
                   tick, wrote, since>>

\* Mutant: the timeout does not reset dataReady.
TimeoutKeepsReady(e) ==
    /\ CanWake(e)
    /\ "timeout" \in due[e]
    /\ due' = [due EXCEPT ![e] = @ \ {"timeout"}]
    /\ IF dataReady[e] THEN UNCHANGED die ELSE Close(e)
    /\ UNCHANGED <<scenario, link, conn, held, reading, pend, dataReady, tick,
                   wrote, since>>

Timeout(e) ==
    /\ CanWake(e)
    /\ "timeout" \in due[e]
    /\ due' = [due EXCEPT ![e] = @ \ {"timeout"}]
    /\ IF dataReady[e] THEN UNCHANGED die ELSE Close(e)
    /\ dataReady' = [dataReady EXCEPT ![e] = FALSE]
    /\ since' = [since EXCEPT ![e] = 0]
    /\ UNCHANGED <<scenario, link, conn, held, reading, pend, tick, wrote>>

\* recvLoop cannot read from a connection the peer closed.
CanNotice(e) == link = "closed" /\ ~die[e] /\ held[e] < Tokens /\ Free(e)
Notice(e) ==
    /\ CanNotice(e)
    /\ Close(e)
    /\ UNCHANGED <<scenario, link, conn, held, reading, pend, due, dataReady,
                   tick, wrote, since>>

\* Nothing moves any more and the tickers fire.  (Bound: so do the idlers make up
\* their minds whether to read; the target of a tunnel is slow for a while, say.)
Tick ==
    /\ \A e \in Ends :
          ~(CanRecv(e) \/ CanRead(e) \/ CanWake(e) \/ CanNotice(e)
            \/ (CanCloseConn(e) /\ "FUL" \notin pend[e])
            \/ \E cmd \in Cmds : ~die[e] /\ CanSend(e, cmd))
    /\ \E e \in Ends : ~die[e]
    /\ tick' = (tick + 1) % Pings
    /\ due' = [e \in Ends |-> due[e] \cup {"ping"} \cup
                              (IF tick' = 0 THEN {"timeout"} ELSE {})]
    /\ reading' \in {r \in [Ends -> BOOLEAN] : \A e \in Ends \ scenario.idlers : r[e]}
    /\ wrote' = [e \in Ends |-> 0]
    /\ since' = [e \in Ends |-> IF since[e] < Pings THEN since[e] + 1 ELSE Pings]
    /\ UNCHANGED <<scenario, link, conn, held, pend, dataReady, die>>

-----------------------------------------------------------------------------
(* The users and the link *)

Write(e) ==
    /\ wrote[e] < scenario.writes[e]
    /\ ~die[e] /\ "PSH" \notin pend[e]
    /\ pend' = [pend EXCEPT ![e] = @ \cup {"PSH"}]
    /\ wrote' = [wrote EXCEPT ![e] = @ + 1]
    /\ UNCHANGED <<scenario, link, conn, held, reading, due, dataReady, die,
                   tick, since>>

\* From now on nothing arrives, and nobody is told.
Cut ==
    /\ scenario.cut
    /\ link = "up"
    /\ link' = "cut"
    /\ UNCHANGED <<scenario, conn, held, reading, pend, due, dataReady, die,
                   tick, wrote, since>>

Session(e) ==
    \/ \E cmd \in Cmds : Send(e, cmd)
    \/ Recv(e)
    \/ Read(e)
    \/ Ping(e)
    \/ Timeout(e)
    \/ Notice(e)
    \/ CloseConn(e)

Next ==
    \/ \E e \in Ends : Session(e) \/ Write(e)
    \/ Tick
    \/ Cut

\* What Tick waits for.
Moves(e) ==
    \/ \E cmd \in Cmds : ~die[e] /\ Send(e, cmd)
    \/ Recv(e)
    \/ Read(e)
    \/ Ping(e)
    \/ Timeout(e)
    \/ Notice(e)
    \/ "FUL" \notin pend[e] /\ CloseConn(e)

\* Something that can move moves, and then time passes.  Nobody need write, or read
\* for ever.
Fairness == WF_vars((\E e \in Ends : Moves(e)) \/ Tick)

Spec == Init /\ [][Next]_vars /\ Fairness

-----------------------------------------------------------------------------
(* Properties *)

\* The peer's pings keep a session alive, however little its users send.  Over
\* a link that works, to a peer that is not closed, it is timed out in two cases
\* only: frames have arrived that its recvLoop does not read, for want of tokens (so
\* a user that does not read ends the session of all the others) or in the writing
\* of an ACK or FUL of its own; or keepalive was held up in its ping, took the tick
\* of the last timeout late, and takes this one right after it.
TimeoutUnreadOrHurried ==
    [][\A e \in Ends :
          ~die[e] /\ die'[e] /\ link = "up" /\ ~die[Peer(e)] =>
             conn[e] # <<>> \/ since[e] <= 1]_vars

\* "KeepAliveTimeout is how long the session will be closed if no data has
\* arrived" (src/lib/smux/mux.go:17).  A session reads frames for ever or is
\* closed, but for one case: keepalive itself is caught in the writing of its
\* ping, behind data that the peer does not read, and so never gets to the
\* timeout.  Pings alone never block it.
SilenceClosesOrPingBlocks ==
    \A e \in Ends :
        \/ []<><<Recv(e)>>_vars
        \/ <>die[e]
        \/ <>[]("NOP" \in pend[e] /\ "PSH" \in Range(conn[Peer(e)]))

\* recvLoop is itself waiting to write.
Answering(e) == \E cmd \in {"ACK", "FUL"} \cap pend[e] : ~Room(e, cmd)

================================================================================
