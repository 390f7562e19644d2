--------------------------------- MODULE Tunnel ---------------------------------
(***************************************************************************)
(* What happens to a user who got a stream: handleClient and cp at the hub *)
(* and at the client (src/hub.go, src/client.go), each with two goroutines *)
(* that copy between a TCP connection and the stream, until the first of   *)
(* them ends and both connections are closed.                              *)
(*                                                                         *)
(* Stream.Write hands sendLoop the caller's slice (split makes references  *)
(* only), and the slice is a buffer of the pool copyBuf.  So the content   *)
(* of a frame is what the buffer holds when the frame is sent, and here a  *)
(* content is the tunnel whose data it is.  (TCPConn.ReadFrom copies the   *)
(* other way, with a buffer of its own; the buffers that goroutine takes   *)
(* from the pool are not used and not modelled.)                           *)
(*                                                                         *)
(* A frame is sent and handled by the peer's recvLoop in one step; until   *)
(* then it waits in the queue of its stream, as long as it may.  That it   *)
(* does not wait for ever while both sessions are open is taken for        *)
(* granted, and so is what StreamLife says of the order inside a stream:   *)
(* Keepalive and TokenBucket tell what can keep a recvLoop or a connection *)
(* from getting on.                                                        *)
(***************************************************************************)
EXTENDS Naturals, Sequences, FiniteSets

CONSTANTS
    hub, client,    \* the two ends
    Tunnels,        \* the users, each with a stream of its own
    Buffers,        \* bound: the buffers of each process
    Scenarios       \* bound: which users come, who sends, who finishes, whose
                    \* session dies, and who may stop reading

Ends  == {hub, client}
Peer(e) == IF e = hub THEN client ELSE hub
Sides == Ends \X Tunnels        \* x[1] is the end, x[2] the tunnel
Other(x) == <<Peer(x[1]), x[2]>>

ASSUME TwoEnds == hub # client
\* The pool makes another buffer when it is empty: there are enough for all.
ASSUME EnoughBuffers ==
    /\ IsFiniteSet(Tunnels) /\ Tunnels # {}
    /\ Buffers \subseteq Nat /\ IsFiniteSet(Buffers)
    /\ Cardinality(Tunnels) <= Cardinality(Buffers)
ASSUME ScenariosTyped ==
    Scenarios \subseteq [users : SUBSET Tunnels, chunks : [Sides -> Nat],
                         ending : SUBSET Sides, dying : SUBSET Ends,
                         slow : SUBSET Sides]

VARIABLES
    scenario,   \* which of the Scenarios this is; it never changes
    dead,       \* the ends whose session is closed
    swept,      \* those of them that have gone over their streams
    left,       \* the chunks that the TCP peer of a side is still going to send
    hup,        \* whether the TCP peer has finished
    tcp,        \* whether this end has its TCP connection open
    main,       \* where handleClient is; at the client it begins in chAccepts
    up,         \* where the copy from TCP to the stream is
    down,       \* where the copy from the stream to TCP is
    ub,         \* the buffer of the copy from TCP
    mem,        \* mem[e][b]: what is in a buffer
    sdie,       \* whether the stream is closed
    rst,        \* whether its FIN has come
    rbuf,       \* how many chunks are in its buffer
    queue,      \* the frames of the stream that sendLoop has
    foreign,    \* history: chunks of another tunnel the stream received
    lost        \* history: the streams whose FIN came before they were registered

goVars     == <<main, up, down, ub, mem>>
tcpVars    == <<left, hup, tcp>>
sessVars   == <<dead, swept>>
streamVars == <<sdie, rst, rbuf, queue, foreign, lost>>
vars == <<scenario, sessVars, tcpVars, goVars, streamVars>>

Frame == [cmd : {"SYN", "PSH", "FIN"}, buf : Buffers]

TypeOK ==
    /\ scenario \in Scenarios
    /\ dead \subseteq Ends /\ swept \subseteq dead
    /\ left \in [Sides -> Nat]
    /\ hup \in [Sides -> BOOLEAN]
    /\ tcp \in [Sides -> BOOLEAN]
    /\ main \in [Sides -> {"none", "SYN", "accept", "select", "stream", "FIN", "done",
                            "stuck"}]
    /\ up \in [Sides -> {"none", "read", "write", "sent", "gone"}]
    /\ down \in [Sides -> {"none", "copy", "write", "FIN", "gone", "stuck"}]
    /\ ub \in [Sides -> Buffers]
    /\ mem \in [Ends -> [Buffers -> Tunnels]]
    /\ sdie \in [Sides -> BOOLEAN]
    /\ rst \in [Sides -> BOOLEAN]
    /\ rbuf \in [Sides -> Nat]
    /\ queue \in [Sides -> Seq(Frame)]
    /\ \A x \in Sides : \A i, j \in DOMAIN queue[x] :
          queue[x][i].cmd = "FIN" /\ queue[x][j].cmd = "FIN" => i = j
    /\ foreign \in [Sides -> Nat]
    /\ lost \subseteq Sides

Init ==
    /\ scenario \in Scenarios
    /\ dead = {} /\ swept = {}
    /\ left = scenario.chunks
    /\ hup = [x \in Sides |-> FALSE]
    /\ tcp = [x \in Sides |-> FALSE]
    /\ main = [x \in Sides |-> "none"]
    /\ up = [x \in Sides |-> "none"]
    /\ down = [x \in Sides |-> "none"]
    /\ ub = [x \in Sides |-> CHOOSE b \in Buffers : TRUE]
    /\ mem = [e \in Ends |-> [b \in Buffers |-> CHOOSE t \in Tunnels : TRUE]]
    /\ sdie = [x \in Sides |-> FALSE]
    /\ rst = [x \in Sides |-> FALSE]
    /\ rbuf = [x \in Sides |-> 0]
    /\ queue = [x \in Sides |-> <<>>]
    /\ foreign = [x \in Sides |-> 0]
    /\ lost = {}

\* The buffers that are not with a goroutine: in the pool, or still to be made.
\* Get prefers one that was in use before, here the least.
Pool(e) ==
    Buffers \ {ub[x] : x \in {y \in Sides : y[1] = e /\ up[y] \notin {"none", "gone"}}}

Waiting(x, cmd) == \E i \in DOMAIN queue[x] : queue[x][i].cmd = cmd

\* The stream is in the table of its session.
Registered(x) == main[x] \notin {"none", "SYN"}

\* cp starts its two goroutines.
StartCopying(x) ==
    /\ main' = [main EXCEPT ![x] = "select"]
    /\ up' = [up EXCEPT ![x] = "read"]
    /\ down' = [down EXCEPT ![x] = "copy"]
    /\ ub' = [ub EXCEPT ![x] = CHOOSE b \in Pool(x[1]) : \A c \in Pool(x[1]) : b <= c]
    /\ UNCHANGED mem

-----------------------------------------------------------------------------
(* handleClient *)

\* The hub has accepted the user, and OpenStream hands sendLoop a SYN.
HandleUser(t) ==
    LET x == <<hub, t>>
    IN
    /\ main[x] = "none"
    /\ t \in scenario.users
    /\ hub \notin dead
    /\ main' = [main EXCEPT ![x] = "SYN"]
    /\ tcp' = [tcp EXCEPT ![x] = TRUE]
    /\ queue' = [queue EXCEPT ![x] = Append(@, [cmd |-> "SYN", buf |-> ub[x]])]
    /\ UNCHANGED <<scenario, sessVars, left, hup, up, down, ub, mem, sdie, rst, rbuf,
                   foreign, lost>>

\* The SYN is out, and only now the stream gets into the table: what the client sent
\* before that is gone, and a session that has been closed never closes it.
Register(t) ==
    /\ main[<<hub, t>>] = "SYN"
    /\ ~Waiting(<<hub, t>>, "SYN")
    /\ StartCopying(<<hub, t>>)
    /\ UNCHANGED <<scenario, sessVars, tcpVars, streamVars>>

\* The session is closed with the SYN still there: OpenStream fails, or waits for an
\* answer that nobody gives.  When it has the answer, it may still wait for streamLock,
\* which recvLoop keeps when it writes a frame in vain.
OpenFails(t) ==
    LET x == <<hub, t>>
    IN
    /\ main[x] = "SYN"
    /\ hub \in dead
    /\ \/ /\ Waiting(x, "SYN")
          /\ main' = [main EXCEPT ![x] = "done"]
          /\ tcp' = [tcp EXCEPT ![x] = FALSE]
       \/ main' = [main EXCEPT ![x] = "stuck"] /\ UNCHANGED tcp
    /\ UNCHANGED <<scenario, sessVars, left, hup, up, down, ub, mem, streamVars>>

\* The client accepts the stream, perhaps even after its session was closed, and
\* reaches the target, or closes the stream.  (Scenarios in which the target does not
\* finish have one that is there.)
HandleStream(t) ==
    LET x == <<client, t>>
    IN
    /\ main[x] = "accept"
    /\ \/ StartCopying(x) /\ tcp' = [tcp EXCEPT ![x] = TRUE]
       \/ /\ x \in scenario.ending
          /\ main' = [main EXCEPT ![x] = "stream"]
          /\ up' = [up EXCEPT ![x] = "gone"]
          /\ down' = [down EXCEPT ![x] = "gone"]
          /\ UNCHANGED <<tcp, ub, mem>>
    /\ UNCHANGED <<scenario, sessVars, left, hup, streamVars>>

\* Mutant: cp waits for both of its goroutines.
SelectBoth(x) ==
    /\ main[x] = "select"
    /\ up[x] = "gone" /\ down[x] = "gone"
    /\ main' = [main EXCEPT ![x] = "stream"]
    /\ tcp' = [tcp EXCEPT ![x] = (x[1] = hub)]
    /\ UNCHANGED <<scenario, sessVars, left, hup, up, down, ub, mem, streamVars>>

\* The first copy to end ends the tunnel.  Deferred calls run backwards: the hub
\* closes the stream first, the client the TCP connection.
Select(x) ==
    /\ main[x] = "select"
    /\ up[x] = "gone" \/ down[x] = "gone"
    /\ main' = [main EXCEPT ![x] = "stream"]
    /\ tcp' = [tcp EXCEPT ![x] = (x[1] = hub)]
    /\ UNCHANGED <<scenario, sessVars, left, hup, up, down, ub, mem, streamVars>>

\* The stream is closed, and now the TCP connection, if it is not.
Finish(x) ==
    /\ main' = [main EXCEPT ![x] = "done"]
    /\ tcp' = [tcp EXCEPT ![x] = FALSE]

\* Stream.Close: die is closed, the buffer cut off, and the FIN handed to
\* sendLoop.  The buffer named in a FIN means nothing.
CloseSelf(x) ==
    /\ sdie' = [sdie EXCEPT ![x] = TRUE]
    /\ rbuf' = [rbuf EXCEPT ![x] = 0]
    /\ queue' = [queue EXCEPT ![x] = Append(@, [cmd |-> "FIN", buf |-> ub[x]])]

\* Mutant: Close does not ask whether the stream is closed.
CloseStreamAgain(x) ==
    /\ main[x] = "stream"
    /\ CloseSelf(x)
    /\ main' = [main EXCEPT ![x] = "FIN"]
    /\ UNCHANGED <<scenario, sessVars, tcpVars, up, down, ub, mem, rst, foreign,
                   lost>>

\* The second Close of a stream returns at once.
CloseStream(x) ==
    /\ main[x] = "stream"
    /\ \/ /\ sdie[x]
          /\ Finish(x)
          /\ UNCHANGED <<sdie, rbuf, queue>>
       \/ /\ ~sdie[x]
          /\ CloseSelf(x)
          /\ main' = [main EXCEPT ![x] = "FIN"]
          /\ UNCHANGED tcp
    /\ UNCHANGED <<scenario, sessVars, left, hup, up, down, ub, mem, rst, foreign,
                   lost>>

\* writeFrame has its answer; when the session is closed it fails, or waits for
\* an answer that nobody gives.
CloseReturns(x) ==
    /\ main[x] = "FIN"
    /\ \/ /\ x[1] \in dead \/ ~Waiting(x, "FIN")
          /\ Finish(x)
       \/ /\ x[1] \in dead
          /\ main' = [main EXCEPT ![x] = "stuck"]
          /\ UNCHANGED tcp
    /\ UNCHANGED <<scenario, sessVars, left, hup, up, down, ub, mem, streamVars>>

-----------------------------------------------------------------------------
(* The copy from the TCP connection to the stream *)

\* TCP read into the buffer; then Write, which finds the stream closed or not.
UpRead(x) ==
    /\ up[x] = "read"
    /\ tcp[x] /\ left[x] > 0
    /\ left' = [left EXCEPT ![x] = @ - 1]
    /\ mem' = [mem EXCEPT ![x[1]][ub[x]] = x[2]]
    /\ up' = [up EXCEPT ![x] = IF sdie[x] THEN "gone" ELSE "write"]
    /\ UNCHANGED <<scenario, sessVars, hup, tcp, main, down, ub, streamVars>>

\* The end of the TCP connection, or it was closed at this end.
UpEnd(x) ==
    /\ up[x] = "read"
    /\ hup[x] \/ ~tcp[x]
    /\ up' = [up EXCEPT ![x] = "gone"]
    /\ UNCHANGED <<scenario, sessVars, tcpVars, main, down, ub, mem, streamVars>>

\* Mutant: Write does not wait for the frame to be sent.
UpWriteAsync(x) ==
    /\ up[x] = "write"
    /\ queue' = [queue EXCEPT ![x] = Append(@, [cmd |-> "PSH", buf |-> ub[x]])]
    /\ up' = [up EXCEPT ![x] = "read"]
    /\ UNCHANGED <<scenario, sessVars, tcpVars, main, down, ub, mem, sdie, rst, rbuf,
                   foreign, lost>>

\* sendLoop takes the frame, even if the stream has just been closed.
UpWrite(x) ==
    /\ up[x] = "write"
    /\ x[1] \notin dead
    /\ queue' = [queue EXCEPT ![x] = Append(@, [cmd |-> "PSH", buf |-> ub[x]])]
    /\ up' = [up EXCEPT ![x] = "sent"]
    /\ UNCHANGED <<scenario, sessVars, tcpVars, main, down, ub, mem, sdie, rst, rbuf,
                   foreign, lost>>

UpSent(x) ==
    /\ up[x] = "sent"
    /\ ~Waiting(x, "PSH")
    /\ up' = [up EXCEPT ![x] = "read"]
    /\ UNCHANGED <<scenario, sessVars, tcpVars, main, down, ub, mem, streamVars>>

\* The stream is closed: Write returns at once, the frame stays in its queue,
\* and the buffer goes back to the pool.
UpGivesUp(x) ==
    /\ up[x] \in {"write", "sent"}
    /\ sdie[x]
    /\ up' = [up EXCEPT ![x] = "gone"]
    /\ UNCHANGED <<scenario, sessVars, tcpVars, main, down, ub, mem, streamVars>>

-----------------------------------------------------------------------------
(* The copy from the stream to the TCP connection *)

DownGone(x) == down' = [down EXCEPT ![x] = "gone"]

\* A chunk is read.
DownCopy(x) ==
    /\ down[x] = "copy"
    /\ rbuf[x] > 0
    /\ rbuf' = [rbuf EXCEPT ![x] = @ - 1]
    /\ down' = [down EXCEPT ![x] = "write"]
    /\ UNCHANGED <<scenario, sessVars, tcpVars, main, up, ub, mem, sdie, rst, queue,
                   foreign, lost>>

\* It is written to the TCP connection, unless that has ended.
DownWritten(x) ==
    /\ down[x] = "write"
    /\ \/ tcp[x] /\ down' = [down EXCEPT ![x] = "copy"]
       \/ (hup[x] \/ ~tcp[x]) /\ DownGone(x)
    /\ UNCHANGED <<scenario, sessVars, tcpVars, main, up, ub, mem, streamVars>>

\* Read finds the end of the stream and closes it, or finds it closed.
DownEOF(x) ==
    /\ down[x] = "copy"
    /\ rbuf[x] = 0
    /\ \/ /\ sdie[x]
          /\ DownGone(x)
          /\ UNCHANGED <<sdie, rbuf, queue>>
       \/ /\ rst[x] /\ ~sdie[x]
          /\ CloseSelf(x)
          /\ down' = [down EXCEPT ![x] = "FIN"]
    /\ UNCHANGED <<scenario, sessVars, tcpVars, main, up, ub, mem, rst, foreign,
                   lost>>

DownCloseReturns(x) ==
    /\ down[x] = "FIN"
    /\ \/ (x[1] \in dead \/ ~Waiting(x, "FIN")) /\ DownGone(x)
       \/ x[1] \in dead /\ down' = [down EXCEPT ![x] = "stuck"]
    /\ UNCHANGED <<scenario, sessVars, tcpVars, main, up, ub, mem, streamVars>>

-----------------------------------------------------------------------------
(* The session and the TCP peers *)

\* The next frame of a stream is sent, with what its buffer holds now, and handled at
\* the other end.  A SYN puts the stream into the table and into chAccepts, and the
\* others are dropped unless it is there and open.  What was queued behind a FIN is
\* never sent.
Transmit(x) ==
    LET y == Other(x)
        frame == Head(queue[x])
        open == y[1] \notin dead /\ Registered(y) /\ ~sdie[y]
    IN
    /\ x[1] \notin dead
    /\ queue[x] # <<>>
    /\ \/ /\ frame.cmd = "SYN"
          /\ queue' = [queue EXCEPT ![x] = Tail(@)]
          /\ \/ main[y] = "none" /\ main' = [main EXCEPT ![y] = "accept"]
             \/ (y[1] \in dead \/ main[y] # "none") /\ UNCHANGED main
          /\ UNCHANGED <<rbuf, foreign, rst, lost>>
       \/ /\ frame.cmd = "PSH"
          /\ queue' = [queue EXCEPT ![x] = Tail(@)]
          /\ rbuf' = [rbuf EXCEPT ![y] = IF open THEN @ + 1 ELSE @]
          /\ foreign' = [foreign EXCEPT ![y] =
                            IF open /\ mem[x[1]][frame.buf] # x[2] THEN @ + 1 ELSE @]
          /\ UNCHANGED <<main, rst, lost>>
       \/ /\ frame.cmd = "FIN"
          /\ queue' = [queue EXCEPT ![x] = <<>>]
          /\ rst' = [rst EXCEPT ![y] = @ \/ open]
          /\ lost' = IF main[y] = "SYN" THEN lost \cup {y} ELSE lost
          /\ UNCHANGED <<main, rbuf, foreign>>
    /\ UNCHANGED <<scenario, sessVars, tcpVars, up, down, ub, mem, sdie>>

\* The session is closed ...
Die(e) ==
    /\ e \in scenario.dying \/ dead # {}
    /\ e \notin dead
    /\ dead' = dead \cup {e}
    /\ UNCHANGED <<scenario, swept, tcpVars, goVars, streamVars>>

\* ... and then, once, the streams that are in its table by now, and the connection.
\* For that it has to lock streamLock, which recvLoop may hold for ever.
Sweep(e) ==
    /\ e \in dead \ swept
    /\ swept' = swept \cup {e}
    /\ sdie' = [x \in Sides |-> sdie[x] \/ (x[1] = e /\ Registered(x))]
    /\ UNCHANGED <<scenario, dead, tcpVars, goVars, rst, rbuf, queue, foreign, lost>>

HangUp(x) ==
    /\ x \in scenario.ending
    /\ tcp[x] /\ ~hup[x]
    /\ hup' = [hup EXCEPT ![x] = TRUE]
    /\ UNCHANGED <<scenario, sessVars, left, tcp, goVars, streamVars>>

-----------------------------------------------------------------------------
HandleClient(x) ==
    \/ Select(x)
    \/ CloseStream(x)
    \/ CloseReturns(x)

Up(x) ==
    \/ UpRead(x)
    \/ UpEnd(x)
    \/ UpWrite(x)
    \/ UpSent(x)
    \/ UpGivesUp(x)

Down(x) == DownCopy(x) \/ DownWritten(x) \/ DownEOF(x) \/ DownCloseReturns(x)

Next ==
    \/ \E t \in Tunnels :
          \/ HandleUser(t)
          \/ Register(t)
          \/ OpenFails(t)
          \/ HandleStream(t)
    \/ \E x \in Sides :
          \/ HandleClient(x)
          \/ Up(x)
          \/ Down(x)
          \/ Transmit(x)
          \/ HangUp(x)
    \/ \E e \in Ends : Die(e) \/ Sweep(e)

\* The copy to TCP gets on: all the time while the TCP peer reads, and else when the
\* connection is closed at this end.
DownGoesOn(x) == Down(x) /\ (down[x] # "write" \/ x \notin scenario.slow \/ ~tcp[x])

\* Goroutines run, sendLoop serves every stream, the client accepts while its session
\* is open, and a session notices when the other end has closed the connection.
\* Nobody need connect, send, read or finish, and no close need get the lock.
Fairness ==
    /\ \A t \in Tunnels :
          /\ WF_vars(Register(t) \/ OpenFails(t))
          /\ WF_vars(client \notin dead /\ HandleStream(t))
    /\ \A x \in Sides :
          /\ WF_vars(HandleClient(x))
          /\ WF_vars(Up(x))
          /\ WF_vars(DownGoesOn(x))
          /\ WF_vars(Transmit(x))
    /\ \A e \in Ends : WF_vars(swept # {} /\ Die(e))

Spec == Init /\ [][Next]_vars /\ Fairness

-----------------------------------------------------------------------------
(* Properties *)

\* A Write that gives up leaves its slice behind in the send path, and the pool
\* hands the buffer to another tunnel, so a stream may carry data of another
\* one.  This happens to a stream only after it was closed at the sending end,
\* and with one chunk at most.
ForeignOnlyAfterClose ==
    \A x \in Sides : foreign[x] > 0 => foreign[x] = 1 /\ sdie[Other(x)]

\* Everything handleClient started at this end is over.
Over(x) ==
    /\ main[x] = "done" /\ ~tcp[x]
    /\ {up[x], down[x]} \subseteq {"none", "gone"}

\* A Close of this end's was in the middle of writing its FIN when the session died, or
\* OpenStream was waiting for its SYN or for the lock: the user stays connected, or the
\* goroutine that reads the stream stays.
Stuck(x) == x[1] \in dead /\ "stuck" \in {main[x], down[x]}

\* OpenStream registered the stream behind the close of its session, or recvLoop did,
\* so that it is never closed.
Orphan(x) == x[1] \in swept /\ main[x] = "select" /\ ~sdie[x]

\* The client has closed the stream before OpenStream registered it here.
Unheard(x) == x \in lost /\ main[x] = "select" /\ dead = {}

\* The TCP peer does not read what the stream has brought.
Unread(x) == x \in scenario.slow /\ main[x] = "select" /\ down[x] = "write"

\* When one of the four copies of a tunnel has ended, or a session dies, both
\* connections are closed and all four end, at both ends.  Only while its TCP peer does
\* not read, or when the end did not hear the other's FIN, has the tunnel to wait for
\* the user or the target to finish; and only when a session dies may an end get stuck,
\* have a stream that nobody closes, or never have heard of the tunnel.  All that is
\* provided that the Session.Close of the one that died gets on.
TunnelEnds ==
    \/ <>[](dead # swept)
    \/ \A t \in Tunnels :
          (\E x \in Ends \X {t} :
              x[1] \in dead \/ main[x] \in {"stream", "FIN", "done", "stuck"}) ~>
              \A x \in Ends \X {t} :
                 \/ Over(x) \/ Stuck(x) \/ Orphan(x) \/ Unheard(x) \/ Unread(x)
                 \/ dead # {} /\ main[x] \in {"none", "accept"}
=================================================================================
