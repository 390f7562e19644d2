------------------------------ MODULE StreamLife ------------------------------
(***************************************************************************)
(* The life of the streams of one smux connection, seen at both ends:      *)
(* OpenStream and AcceptStream, Write, Read, Stream.Close, Session.Close   *)
(* and the frames SYN, PSH and FIN that recvLoop handles                   *)
(* (src/lib/smux/session.go, stream.go).                                   *)
(*                                                                         *)
(* The frames of one end reach the other in the order in which writeFrame  *)
(* put them on the connection (the scheduling inside sendLoop is the       *)
(* subject of SendLoop).  A chunk is what one Write sends, one PSH frame,  *)
(* and chunks are numbered.  Tokens are left out (TokenBucket), and so are *)
(* flow control's decisions and its frames FUL and EMP (StreamFlow).  What *)
(* flow control adds to the life of a stream is that recvLoop may have to  *)
(* write a FUL before it gives up streamLock, and that this takes as long  *)
(* as the connection does not take it, or for ever.                        *)
(*                                                                         *)
(* streamLock is held by recvLoop across steps, exactly while recv is      *)
(* "queue", "FUL" or "notify"; every other critical section is one step.   *)
(***************************************************************************)
EXTENDS Naturals, Sequences, FiniteSets

CONSTANTS
    Ends,           \* the two ends of the connection
    Streams,        \* the stream ids
    Opener,         \* Opener[s]: the end that opens s (odd or even ids)
    Plans,          \* bound: what the users and the connection may do, below
    Backlog         \* defaultAcceptBacklog, the capacity of chAccepts

Peer(e) == CHOOSE p \in Ends : p # e
Handles == Ends \X Streams      \* one Stream object per end and id

ASSUME TwoEnds == IsFiniteSet(Ends) /\ Cardinality(Ends) = 2
ASSUME OpenersAreEnds == Opener \in [Streams -> Ends]

\* The streams that are opened, how many chunks each end writes on them, the
\* <<e, s>> whose user reads and those whose user calls Close unprompted, the
\* ends whose session is closed, or fails, first, and the ends whose streams
\* may be found too full (EnableStreamBuffer).
ASSUME PlansTyped ==
    /\ Backlog \in Nat \ {0}
    /\ \A p \in Plans :
          /\ p.streams \subseteq Streams
          /\ p.writes \in [Handles -> Nat]
          /\ p.closing \subseteq Handles
          /\ p.reading \subseteq Handles
          /\ p.failing \subseteq Ends
          /\ p.pausing \subseteq Ends

VARIABLES
    plan,       \* the plan of this behaviour
    wire,       \* wire[e]: the frames on their way to e
    connOpen,   \* connOpen[e]: whether e has not closed its connection
    die,        \* die[e]: whether Session.die of e is closed
    sess,       \* the program counter of Session.Close at e
    table,      \* table[e]: the keys of Session.streams
    accepts,    \* accepts[e]: the channel chAccepts
    recv,       \* the program counter of recvLoop at e
    app,        \* what the user of e has of the stream
    sdie,       \* whether Stream.die is closed
    rst,        \* Stream.rstflag
    buf,        \* Stream.buffer
    event,      \* whether chReadEvent holds its token
    reader,     \* the program counter of Read
    writer,     \* the program counter of Write
    closer,     \* the program counter of Stream.Close
    sent,       \* how many chunks were put on the wire
    finAt,      \* history: how many of them were sent before the FIN
    got,        \* the chunks Read returned, in order
    eof         \* whether Read returned io.EOF

objVars  == <<sdie, rst, buf, event>>
readVars == <<reader, got, eof>>
sentVars == <<sent, finAt>>
vars == <<plan, wire, connOpen, die, sess, table, accepts, recv, app, sdie, rst, buf,
          event, reader, writer, closer, sent, finAt, got, eof>>

Frame == [cmd : {"SYN", "PSH", "FIN"}, sid : Streams, chunk : Nat]

AppPC    == {"new", "register", "open", "failed"}
RecvPC   == {"frame", "queue", "FUL", "notify", "stopped"}
ReaderPC == {"idle", "buffer", "rstflag", "wait", "close", "EOF"}
WriterPC == {"idle", "send"}
CloserPC == {"none", "table", "FIN", "done"}
SessPC   == {"none", "streams", "conn", "done"}

TypeOK ==
    /\ plan \in Plans
    /\ wire \in [Ends -> Seq(Frame)]
    /\ connOpen \in [Ends -> BOOLEAN]
    /\ die \in [Ends -> BOOLEAN]
    /\ sess \in [Ends -> SessPC]
    /\ table \in [Ends -> SUBSET Streams]
    /\ accepts \in [Ends -> Seq(Streams)] /\ \A e \in Ends : Len(accepts[e]) <= Backlog
    /\ recv \in [Ends -> RecvPC]
    /\ app \in [Handles -> AppPC]
    /\ sdie \in [Handles -> BOOLEAN]
    /\ rst \in [Handles -> BOOLEAN]
    /\ buf \in [Handles -> Seq(Nat)]
    /\ event \in [Handles -> BOOLEAN]
    /\ reader \in [Handles -> ReaderPC]
    /\ writer \in [Handles -> WriterPC]
    /\ closer \in [Handles -> CloserPC]
    /\ sent \in [Handles -> Nat]
    /\ finAt \in [Handles -> Nat]
    /\ got \in [Handles -> Seq(Nat)]
    /\ eof \in [Handles -> BOOLEAN]

Init ==
    /\ plan \in Plans
    /\ wire = [e \in Ends |-> <<>>]
    /\ connOpen = [e \in Ends |-> TRUE]
    /\ die = [e \in Ends |-> FALSE]
    /\ sess = [e \in Ends |-> "none"]
    /\ table = [e \in Ends |-> {}]
    /\ accepts = [e \in Ends |-> <<>>]
    /\ recv = [e \in Ends |-> "frame"]
    /\ app = [h \in Handles |-> "new"]
    /\ sdie = [h \in Handles |-> FALSE]
    /\ rst = [h \in Handles |-> FALSE]
    /\ buf = [h \in Handles |-> <<>>]
    /\ event = [h \in Handles |-> FALSE]
    /\ reader = [h \in Handles |-> "idle"]
    /\ writer = [h \in Handles |-> "idle"]
    /\ closer = [h \in Handles |-> "none"]
    /\ sent = [h \in Handles |-> 0]
    /\ finAt = [h \in Handles |-> 0]
    /\ got = [h \in Handles |-> <<>>]
    /\ eof = [h \in Handles |-> FALSE]

\* Whether streamLock of e is free.
LockFree(e) == recv[e] \in {"frame", "stopped"}

\* writeFrame: the frame reaches the connection, or the write fails because
\* this end has closed it.
Put(e, cmd, s, n) ==
    wire' = IF connOpen[e]
              THEN [wire EXCEPT ![Peer(e)] =
                       Append(@, [cmd |-> cmd, sid |-> s, chunk |-> n])]
              ELSE wire

-----------------------------------------------------------------------------
(* OpenStream and AcceptStream *)

\* A new id, a new Stream, and its SYN is written.  On a closed session both
\* IsClosed and writeFrame make OpenStream fail.
OpenSYN(e, s) ==
    /\ Opener[s] = e
    /\ s \in plan.streams
    /\ app[<<e, s>>] = "new"
    /\ IF die[e]
         THEN /\ app' = [app EXCEPT ![<<e, s>>] = "failed"]
              /\ UNCHANGED wire
         ELSE /\ app' = [app EXCEPT ![<<e, s>>] = "register"]
              /\ Put(e, "SYN", s, 0)
    /\ UNCHANGED <<plan, connOpen, die, sess, table, accepts, recv, objVars, readVars,
                   writer, closer, sentVars>>

\* The session was closed meanwhile: writeFrame fails, or never returns.
OpenFail(e, s) ==
    /\ app[<<e, s>>] = "register"
    /\ die[e]
    /\ app' = [app EXCEPT ![<<e, s>>] = "failed"]
    /\ UNCHANGED <<plan, wire, connOpen, die, sess, table, accepts, recv, objVars,
                   readVars, writer, closer, sentVars>>

\* Only then is the stream put in the table and given to the caller.
OpenRegister(e, s) ==
    /\ app[<<e, s>>] = "register"
    /\ LockFree(e)
    /\ table' = [table EXCEPT ![e] = @ \cup {s}]
    /\ app' = [app EXCEPT ![<<e, s>>] = "open"]
    /\ UNCHANGED <<plan, wire, connOpen, die, sess, accepts, recv, objVars, readVars,
                   writer, closer, sentVars>>

\* AcceptStream takes the next stream; it may do so on a closed session too,
\* where its select has two cases ready.
AcceptStream(e) ==
    /\ accepts[e] # <<>>
    /\ accepts' = [accepts EXCEPT ![e] = Tail(@)]
    /\ app' = [app EXCEPT ![<<e, Head(accepts[e])>>] = "open"]
    /\ UNCHANGED <<plan, wire, connOpen, die, sess, table, recv, objVars, readVars,
                   writer, closer, sentVars>>

-----------------------------------------------------------------------------
(* Write *)

\* Write finds the stream open.
WriteStart(e, s) ==
    /\ app[<<e, s>>] = "open"
    /\ writer[<<e, s>>] = "idle"
    /\ ~sdie[<<e, s>>]
    /\ sent[<<e, s>>] < plan.writes[<<e, s>>]
    /\ writer' = [writer EXCEPT ![<<e, s>>] = "send"]
    /\ UNCHANGED <<plan, wire, connOpen, die, sess, table, accepts, recv, app,
                   objVars, readVars, closer, sentVars>>

\* The frame goes through sendLoop, which takes it even when the stream was
\* closed in the meantime: the select has two cases ready.
WriteSend(e, s) ==
    /\ writer[<<e, s>>] = "send"
    /\ connOpen[e]
    /\ Put(e, "PSH", s, sent[<<e, s>>] + 1)
    /\ sent' = [sent EXCEPT ![<<e, s>>] = @ + 1]
    /\ writer' = [writer EXCEPT ![<<e, s>>] = "idle"]
    /\ UNCHANGED <<plan, connOpen, die, sess, table, accepts, recv, app, objVars,
                   readVars, closer, finAt>>

\* Or Write gives up because the stream is closed, or the connection.
WriteAbort(e, s) ==
    /\ writer[<<e, s>>] = "send"
    /\ sdie[<<e, s>>] \/ ~connOpen[e]
    /\ writer' = [writer EXCEPT ![<<e, s>>] = "idle"]
    /\ UNCHANGED <<plan, wire, connOpen, die, sess, table, accepts, recv, app,
                   objVars, readVars, closer, sentVars>>

-----------------------------------------------------------------------------
(* Read *)

\* Mutant: what is copied out of the buffer stays in it as well.
ReadBufferKeeps(e, s) ==
    /\ <<e, s>> \in plan.reading
    /\ app[<<e, s>>] = "open"
    /\ reader[<<e, s>>] \in {"idle", "buffer"}
    /\ IF buf[<<e, s>>] = <<>>
         THEN /\ reader' = [reader EXCEPT ![<<e, s>>] = "rstflag"]
              /\ UNCHANGED <<buf, got>>
         ELSE \E k \in 1 .. Len(buf[<<e, s>>]) :
              /\ got' = [got EXCEPT ![<<e, s>>] = @ \o SubSeq(buf[<<e, s>>], 1, k)]
              /\ UNCHANGED buf
              /\ reader' = [reader EXCEPT ![<<e, s>>] = "idle"]
    /\ UNCHANGED <<plan, wire, connOpen, die, sess, table, accepts, recv, app, sdie,
                   rst, event, writer, closer, sentVars, eof>>

\* One look at the buffer, under bufferLock: k chunks fit in the caller's
\* slice, or there is nothing to read.
ReadBuffer(e, s) ==
    /\ <<e, s>> \in plan.reading
    /\ app[<<e, s>>] = "open"
    /\ reader[<<e, s>>] \in {"idle", "buffer"}
    /\ IF buf[<<e, s>>] = <<>>
         THEN /\ reader' = [reader EXCEPT ![<<e, s>>] = "rstflag"]
              /\ UNCHANGED <<buf, got>>
         ELSE \E k \in 1 .. Len(buf[<<e, s>>]) :
              /\ got' = [got EXCEPT ![<<e, s>>] = @ \o SubSeq(buf[<<e, s>>], 1, k)]
              /\ buf' = [buf EXCEPT ![<<e, s>>] = SubSeq(@, k + 1, Len(@))]
              /\ reader' = [reader EXCEPT ![<<e, s>>] = "idle"]
    /\ UNCHANGED <<plan, wire, connOpen, die, sess, table, accepts, recv, app, sdie,
                   rst, event, writer, closer, sentVars, eof>>

\* The buffer was empty: rstflag decides between the end of the stream, for
\* which Read calls Close, and the select.  On a stream that is closed already
\* Close returns at once.
ReadRstflag(e, s) ==
    /\ reader[<<e, s>>] = "rstflag"
    /\ \/ /\ ~rst[<<e, s>>]
          /\ reader' = [reader EXCEPT ![<<e, s>>] = "wait"]
          /\ UNCHANGED <<sdie, closer>>
       \/ /\ rst[<<e, s>>] /\ sdie[<<e, s>>]
          /\ reader' = [reader EXCEPT ![<<e, s>>] = "EOF"]
          /\ UNCHANGED <<sdie, closer>>
       \/ /\ rst[<<e, s>>] /\ ~sdie[<<e, s>>]
          /\ reader' = [reader EXCEPT ![<<e, s>>] = "close"]
          /\ sdie' = [sdie EXCEPT ![<<e, s>>] = TRUE]
          /\ closer' = [closer EXCEPT ![<<e, s>>] = "table"]
    /\ UNCHANGED <<plan, wire, connOpen, die, sess, table, accepts, recv, app, rst,
                   buf, event, writer, sentVars, got, eof>>

\* Close is over, Read returns io.EOF.
ReadEOF(e, s) ==
    /\ \/ reader[<<e, s>>] = "EOF"
       \/ reader[<<e, s>>] = "close" /\ closer[<<e, s>>] = "done"
    /\ reader' = [reader EXCEPT ![<<e, s>>] = "idle"]
    /\ eof' = [eof EXCEPT ![<<e, s>>] = TRUE]
    /\ UNCHANGED <<plan, wire, connOpen, die, sess, table, accepts, recv, app,
                   objVars, writer, closer, sentVars, got>>

\* <-s.chReadEvent: read again.
ReadEvent(e, s) ==
    /\ reader[<<e, s>>] = "wait"
    /\ event[<<e, s>>]
    /\ event' = [event EXCEPT ![<<e, s>>] = FALSE]
    /\ reader' = [reader EXCEPT ![<<e, s>>] = "buffer"]
    /\ UNCHANGED <<plan, wire, connOpen, die, sess, table, accepts, recv, app, sdie,
                   rst, buf, writer, closer, sentVars, got, eof>>

\* <-s.die: Read fails.
ReadBroken(e, s) ==
    /\ reader[<<e, s>>] = "wait"
    /\ sdie[<<e, s>>]
    /\ reader' = [reader EXCEPT ![<<e, s>>] = "idle"]
    /\ UNCHANGED <<plan, wire, connOpen, die, sess, table, accepts, recv, app,
                   objVars, writer, closer, sentVars, got, eof>>

-----------------------------------------------------------------------------
(* Stream.Close *)

\* Mutant: a second Close is not turned away.
CloseDieAgain(e, s) ==
    /\ <<e, s>> \in plan.closing
    /\ app[<<e, s>>] = "open"
    /\ closer[<<e, s>>] \in {"none", "done"}
    /\ sdie' = [sdie EXCEPT ![<<e, s>>] = TRUE]
    /\ closer' = [closer EXCEPT ![<<e, s>>] = "table"]
    /\ UNCHANGED <<plan, wire, connOpen, die, sess, table, accepts, recv, app, rst,
                   buf, event, readVars, writer, sentVars>>

\* The first Close closes the stream's die, every other one returns.
CloseDie(e, s) ==
    /\ <<e, s>> \in plan.closing
    /\ app[<<e, s>>] = "open"
    /\ ~sdie[<<e, s>>]
    /\ sdie' = [sdie EXCEPT ![<<e, s>>] = TRUE]
    /\ closer' = [closer EXCEPT ![<<e, s>>] = "table"]
    /\ UNCHANGED <<plan, wire, connOpen, die, sess, table, accepts, recv, app, rst,
                   buf, event, readVars, writer, sentVars>>

\* streamClosed: the buffer is cut off and the stream leaves the table.
CloseTable(e, s) ==
    /\ closer[<<e, s>>] = "table"
    /\ LockFree(e)
    /\ buf' = [buf EXCEPT ![<<e, s>>] = <<>>]
    /\ table' = [table EXCEPT ![e] = @ \ {s}]
    /\ closer' = [closer EXCEPT ![<<e, s>>] = "FIN"]
    /\ UNCHANGED <<plan, wire, connOpen, die, sess, accepts, recv, app, sdie, rst,
                   event, readVars, writer, sentVars>>

\* writeFrame(FIN), which may fail once the session is closed.
CloseFIN(e, s) ==
    /\ closer[<<e, s>>] = "FIN"
    /\ \/ Put(e, "FIN", s, 0)
       \/ die[e] /\ UNCHANGED wire
    /\ finAt' = [finAt EXCEPT ![<<e, s>>] = sent[<<e, s>>]]
    /\ closer' = [closer EXCEPT ![<<e, s>>] = "done"]
    /\ UNCHANGED <<plan, connOpen, die, sess, table, accepts, recv, app, objVars,
                   readVars, writer, sent>>

-----------------------------------------------------------------------------
(* recvLoop.  The frame in hand stays at the head of the wire until its     *)
(* handling is over.                                                        *)

Handling(e, cmd) ==
    /\ recv[e] = "frame"
    /\ connOpen[e]
    /\ wire[e] # <<>>
    /\ Head(wire[e]).cmd = cmd

InHand(e) == Head(wire[e]).sid

Handled(e) == wire' = [wire EXCEPT ![e] = Tail(@)]

\* A SYN for an unknown id makes a stream, which then queues for chAccepts.
RecvSYN(e) ==
    /\ Handling(e, "SYN")
    /\ IF InHand(e) \in table[e]
         THEN Handled(e) /\ UNCHANGED <<table, recv>>
         ELSE /\ table' = [table EXCEPT ![e] = @ \cup {InHand(e)}]
              /\ recv' = [recv EXCEPT ![e] = "queue"]
              /\ UNCHANGED wire
    /\ UNCHANGED <<plan, connOpen, die, sess, accepts, app, objVars, readVars, writer,
                   closer, sentVars>>

\* Mutant: the send on chAccepts does not look at die.
RecvQueueOnly(e) ==
    /\ recv[e] = "queue"
    /\ Len(accepts[e]) < Backlog
    /\ accepts' = [accepts EXCEPT ![e] = Append(@, InHand(e))]
    /\ recv' = [recv EXCEPT ![e] = "frame"]
    /\ Handled(e)
    /\ UNCHANGED <<plan, connOpen, die, sess, table, app, objVars, readVars, writer,
                   closer, sentVars>>

\* Mutant: the queue of accepted streams has no limit.
RecvQueueUnbounded(e) ==
    /\ recv[e] = "queue"
    /\ accepts' = [accepts EXCEPT ![e] = Append(@, InHand(e))]
    /\ recv' = [recv EXCEPT ![e] = "frame"]
    /\ Handled(e)
    /\ UNCHANGED <<plan, connOpen, die, sess, table, app, objVars, readVars, writer,
                   closer, sentVars>>

\* The select between chAccepts, which may be full, and die.
RecvQueue(e) ==
    /\ recv[e] = "queue"
    /\ \/ /\ Len(accepts[e]) < Backlog
          /\ accepts' = [accepts EXCEPT ![e] = Append(@, InHand(e))]
       \/ die[e] /\ UNCHANGED accepts
    /\ recv' = [recv EXCEPT ![e] = "frame"]
    /\ Handled(e)
    /\ UNCHANGED <<plan, connOpen, die, sess, table, app, objVars, readVars, writer,
                   closer, sentVars>>

\* A PSH is pushed to a stream in the table and dropped otherwise.  pushBytes
\* may call sendPause for a stream that is too full.
RecvPSH(e) ==
    /\ Handling(e, "PSH")
    /\ IF InHand(e) \in table[e]
         THEN /\ buf' = [buf EXCEPT ![<<e, InHand(e)>>] =
                            Append(@, Head(wire[e]).chunk)]
              /\ \/ recv' = [recv EXCEPT ![e] = "notify"]
                 \/ e \in plan.pausing /\ recv' = [recv EXCEPT ![e] = "FUL"]
              /\ UNCHANGED wire
         ELSE Handled(e) /\ UNCHANGED <<buf, recv>>
    /\ UNCHANGED <<plan, connOpen, die, sess, table, accepts, app, sdie, rst, event,
                   readVars, writer, closer, sentVars>>

\* writeFrame(FUL) returns: it was written, or the session is closed.
RecvPaused(e) ==
    /\ recv[e] = "FUL"
    /\ recv' = [recv EXCEPT ![e] = "notify"]
    /\ UNCHANGED <<plan, wire, connOpen, die, sess, table, accepts, app, objVars,
                   readVars, writer, closer, sentVars>>

\* Mutant: markRST without notifyReadEvent.
RecvFINSilent(e) ==
    /\ Handling(e, "FIN")
    /\ rst' = IF InHand(e) \in table[e]
                THEN [rst EXCEPT ![<<e, InHand(e)>>] = TRUE] ELSE rst
    /\ Handled(e)
    /\ UNCHANGED <<plan, connOpen, die, sess, table, accepts, recv, app, sdie, buf,
                   event, readVars, writer, closer, sentVars>>

\* A FIN marks a stream in the table and is dropped otherwise.
RecvFIN(e) ==
    /\ Handling(e, "FIN")
    /\ IF InHand(e) \in table[e]
         THEN /\ rst' = [rst EXCEPT ![<<e, InHand(e)>>] = TRUE]
              /\ recv' = [recv EXCEPT ![e] = "notify"]
              /\ UNCHANGED wire
         ELSE Handled(e) /\ UNCHANGED <<rst, recv>>
    /\ UNCHANGED <<plan, connOpen, die, sess, table, accepts, app, sdie, buf, event,
                   readVars, writer, closer, sentVars>>

\* notifyReadEvent, and the lock is released.
RecvNotify(e) ==
    /\ recv[e] = "notify"
    /\ event' = [event EXCEPT ![<<e, InHand(e)>>] = TRUE]
    /\ recv' = [recv EXCEPT ![e] = "frame"]
    /\ Handled(e)
    /\ UNCHANGED <<plan, connOpen, die, sess, table, accepts, app, sdie, rst, buf,
                   readVars, writer, closer, sentVars>>

\* The connection fails: recvLoop closes the session and returns.
RecvError(e) ==
    /\ recv[e] = "frame"
    /\ e \in plan.failing \/ FALSE \in {connOpen[x] : x \in Ends}
    /\ recv' = [recv EXCEPT ![e] = "stopped"]
    /\ die' = [die EXCEPT ![e] = TRUE]
    /\ sess' = [sess EXCEPT ![e] = IF die[e] THEN @ ELSE "streams"]
    /\ UNCHANGED <<plan, wire, connOpen, table, accepts, app, objVars, readVars,
                   writer, closer, sentVars>>

-----------------------------------------------------------------------------
(* Session.Close *)

SessionClose(e) ==
    /\ e \in plan.failing
    /\ ~die[e]
    /\ die' = [die EXCEPT ![e] = TRUE]
    /\ sess' = [sess EXCEPT ![e] = "streams"]
    /\ UNCHANGED <<plan, wire, connOpen, table, accepts, recv, app, objVars, readVars,
                   writer, closer, sentVars>>

\* sessionClose on every stream in the table, under streamLock.
CloseStreams(e) ==
    /\ sess[e] = "streams"
    /\ LockFree(e)
    /\ sdie' = [h \in Handles |-> sdie[h] \/ (h[1] = e /\ h[2] \in table[e])]
    /\ sess' = [sess EXCEPT ![e] = "conn"]
    /\ UNCHANGED <<plan, wire, connOpen, die, table, accepts, recv, app, rst, buf,
                   event, readVars, writer, closer, sentVars>>

CloseConn(e) ==
    /\ sess[e] = "conn"
    /\ sess' = [sess EXCEPT ![e] = "done"]
    /\ connOpen' = [connOpen EXCEPT ![e] = FALSE]
    /\ UNCHANGED <<plan, wire, die, table, accepts, recv, app, objVars, readVars,
                   writer, closer, sentVars>>

-----------------------------------------------------------------------------
Read(e, s) ==
    \/ ReadBuffer(e, s)
    \/ ReadRstflag(e, s)
    \/ ReadEOF(e, s)
    \/ ReadEvent(e, s)
    \/ ReadBroken(e, s)

FinishWrite(e, s) == WriteSend(e, s) \/ WriteAbort(e, s)
FinishClose(e, s) == CloseTable(e, s) \/ CloseFIN(e, s)

RecvLoop(e) ==
    \/ RecvSYN(e)
    \/ RecvQueue(e)
    \/ RecvPSH(e)
    \/ RecvFIN(e)
    \/ RecvNotify(e)

FinishSession(e) == CloseStreams(e) \/ CloseConn(e)

Next ==
    \E e \in Ends :
        \/ \E s \in Streams :
              \/ OpenSYN(e, s)
              \/ OpenFail(e, s)
              \/ OpenRegister(e, s)
              \/ WriteStart(e, s)
              \/ FinishWrite(e, s)
              \/ Read(e, s)
              \/ CloseDie(e, s)
              \/ FinishClose(e, s)
        \/ AcceptStream(e)
        \/ RecvLoop(e)
        \/ RecvPaused(e)
        \/ RecvError(e)
        \/ SessionClose(e)
        \/ FinishSession(e)

\* Goroutines that can run do run, the streams queued for it are accepted and
\* every stream accepted or opened is read until Read fails: the loops of
\* main and of cp (src/hub.go, src/client.go).  SF for those who want
\* streamLock, which a Go mutex hands over to a waiter that starves.  Not so
\* RecvPaused: the connection may be full for good, and once the writer has
\* seen die nobody answers a request that is queued.
Fairness ==
    \A e \in Ends :
        /\ WF_vars(RecvLoop(e))
        /\ WF_vars(~die[e] /\ AcceptStream(e))
        /\ SF_vars(FinishSession(e))
        /\ WF_vars(FALSE \in {connOpen[x] : x \in Ends} /\ RecvError(e))
        /\ \A s \in Streams :
              /\ SF_vars(OpenRegister(e, s))
              /\ WF_vars(~eof[<<e, s>>] /\ Read(e, s))
              /\ WF_vars(FinishWrite(e, s))
              /\ SF_vars(FinishClose(e, s))

Safety == Init /\ [][Next]_vars
Spec == Safety /\ Fairness

-----------------------------------------------------------------------------
(* Properties *)

\* The end that accepts a stream registers it before any of its data arrives,
\* so the direction from opener to acceptor keeps the promise of BytePipe:
\* whatever closes, fails or races, the acceptor reads the chunks in order,
\* without a hole, and is told the end only after the opener closed.
Outward == {<<Opener[s], s>> : s \in Streams}
Inward(h) == <<Peer(h[1]), h[2]>>

Pipe == INSTANCE BytePipe WITH
    Pipes  <- Outward,
    sent   <- [h \in Outward |-> sent[h]],
    got    <- [h \in Outward |-> got[Inward(h)]],
    closed <- {h \in Outward : closer[h] = "done"},
    ended  <- {h \in Outward : eof[Inward(h)]}

ImplementsPipe == Pipe!Spec

\* A Read that sleeps over a non-empty buffer or over the end of the stream
\* has an event in chReadEvent or on its way there, although Read looks at the
\* buffer, at rstflag and at the channel in three steps, with no lock across.
NoLostReadEvent ==
    \A h \in Handles :
        reader[h] = "wait" /\ (buf[h] # <<>> \/ rst[h]) =>
            \/ event[h]
            \/ recv[h[1]] \in {"FUL", "notify"} /\ InHand(h[1]) = h[2]
            \/ sdie[h]

\* Whoever calls streamClosed finds the stream in the table (the code would
\* dereference nil otherwise), and a stream that left the table never comes
\* back, whatever frames arrive late.
TableFollowsClose ==
    \A h \in Handles :
        /\ closer[h] = "table" => h[2] \in table[h[1]]
        /\ closer[h] \in {"FIN", "done"} => h[2] \notin table[h[1]]

\* recvLoop of e never gets its FUL written.
Stuck(e) == <>[](recv[e] = "FUL")


\* Session.Close gets as far as closing the connection, also while recvLoop
\* holds streamLock because chAccepts is full.  Only a recvLoop that holds it
\* over a FUL which is never written keeps Session.Close from the connection.
CloseReachesConn == \A e \in Ends : <>die[e] => <>~connOpen[e] \/ Stuck(e)

\* The other direction may lose its first chunks: OpenStream writes the SYN
\* before it registers the stream, and what the acceptor sends at once may be
\* dropped.  But from the first chunk that is read the rest follows without a
\* gap.
OpenerMissesOnlyTheStart ==
    \A h \in Outward :
        /\ \A i \in DOMAIN got[h] : got[h][i] = got[h][1] + i - 1
        /\ buf[h] # <<>> /\ got[h] # <<>> => buf[h][1] = got[h][Len(got[h])] + 1

\* FIN is the "EOF mark" (lib/smux/frame.go:14): a Read that returns io.EOF,
\* on a stream nobody closed at this end, has everything sent before the FIN
\* behind it.
EofAfterData ==
    \A h \in Outward :
        reader[Inward(h)] = "close" => Len(got[Inward(h)]) >= finAt[h]
===============================================================================
