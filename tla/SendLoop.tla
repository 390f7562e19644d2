------------------------------- MODULE SendLoop -------------------------------
(***************************************************************************)
(* The send side of one smux session (sendLoop, writeFrame, Stream.Write   *)
(* and Stream.Close in src/lib/smux): the callers hand their requests to   *)
(* sendLoop over the unbuffered channel Session.writes; sendLoop files     *)
(* them in a queue per stream; the scheduler goroutine takes one request   *)
(* per stream and round and passes it to the writer goroutine, which       *)
(* writes the frame to the connection and answers the caller.              *)
(*                                                                         *)
(* A queue that the scheduler deleted can still be in sendLoop's hands, so *)
(* a queue is named by its stream and a generation; current[s] is the      *)
(* entry of s in streamQueues, 0 if there is none.                         *)
(*                                                                         *)
(* The constants that bound the instance are PSHs, Controls, Deadlines and *)
(* Dying.                                                                  *)
(***************************************************************************)
EXTENDS Integers, Sequences, FiniteSets

CONSTANTS
    Streams,        \* the stream ids, as numbers: a round goes in their order
    Accepted,       \* the streams the peer opened; this end opens the others
    QueueSize,      \* Config.WriteRequestQueueSize, capacity of a stream's queue
    WritesSize,     \* capacity of the channel to the writer goroutine (32)
    PSHs,           \* bound: PSHs[s] chunks are written on s
    Controls,       \* bound: frames without a stream (NOP, ACK) that are sent
    Deadlines,      \* bound: whether Writes may time out
    Dying           \* bound: whether the session may be closed

ASSUME SendSizes ==
    /\ Streams \subseteq Nat \ {0} /\ IsFiniteSet(Streams)
    /\ Accepted \subseteq Streams
    /\ QueueSize \in Nat \ {0} /\ WritesSize \in Nat \ {0}
    /\ PSHs \in [Streams -> Nat] /\ Controls \in Nat
    /\ Deadlines \in BOOLEAN /\ Dying \in BOOLEAN

\* A goroutine that sends: the user of a stream (OpenStream, then Write), the
\* goroutine that closes it, and keepalive, as stream 0.
Writer(s) == <<"user", s>>
Closer(s) == <<"closer", s>>
Keepalive == <<"keepalive", 0>>
Callers   == {Writer(s) : s \in Streams} \cup {Closer(s) : s \in Streams}
                 \cup {Keepalive}

\* A SYN and every PSH may make a queue.
Generations == UNION {1 .. PSHs[s] + 1 : s \in Streams}
Queues      == Streams \X Generations

\* A request: the command, the stream, and n to tell requests apart.
Request == [cmd : {"SYN", "PSH", "FIN"}, sid : Streams, n : Nat]
               \cup [cmd : {"NOP"}, sid : {0}, n : Nat]
None    == [cmd |-> "none", sid |-> 0, n |-> 0]

VARIABLES
    die,            \* whether Session.die is closed
    sdie,           \* the streams whose Stream.die is closed
    opened,         \* the streams their user has
    count,          \* how many requests each caller has made
    pc,             \* callers: "idle", "offer" (at Session.writes), "result"
    req,            \* callers: the request being made
    \* sendLoop
    main,           \* its program counter
    inHand,         \* the request it is filing
    target,         \* the queue it found or made for that request
    pushedOut,      \* request2, taken from a full queue
    \* shared between the three goroutines
    current,        \* streamQueues: the generation of each stream's queue
    queue,          \* the contents of every queue made so far
    made,           \* how many queues were made for a stream
    reqCount,       \* the counter of the requests in the queues
    writeNotify,    \* whether the channel writeNotify holds its token
    writes,         \* the inner channel writes
    \* scheduler
    sched,          \* its program counter
    round,          \* the sids of this round that are still to be served
    picked,         \* the request it took from a queue
    \* writer goroutine
    writing,        \* whether it is still running
    wire,           \* wire[s]: the frames of s on the connection, in order
    answered        \* the requests whose result was sent

userVars  == <<die, sdie, opened, count>>
mainVars  == <<main, inHand, target, pushedOut>>
schedVars == <<sched, round, picked>>
outVars   == <<writing, wire, answered>>
vars == <<userVars, pc, req, mainVars, current, queue, made, reqCount,
          writeNotify, writes, schedVars, outVars>>

MainPC  == {"select", "put", "count", "swap", "swapput", "direct", "notify", "done"}
SchedPC == {"wait", "check", "list", "scan", "delete", "write", "dec", "done"}

TypeOK ==
    /\ die \in BOOLEAN /\ sdie \subseteq Streams /\ opened \subseteq Streams
    /\ count \in [Callers -> Nat]
    /\ pc \in [Callers -> {"idle", "offer", "result"}]
    /\ req \in [Callers -> Request \cup {None}]
    /\ main \in MainPC /\ inHand \in Request \cup {None}
    /\ target \in Queues \cup {<<0, 0>>} /\ pushedOut \in Request \cup {None}
    /\ current \in [Streams -> Generations \cup {0}]
    /\ queue \in [Queues -> Seq(Request)]
    /\ \A q \in Queues : Len(queue[q]) <= QueueSize
    /\ made \in [Streams -> Generations \cup {0}]
    /\ reqCount \in Int /\ writeNotify \in BOOLEAN
    /\ writes \in Seq(Request) /\ Len(writes) <= WritesSize
    /\ sched \in SchedPC /\ round \subseteq Streams
    /\ picked \in Request \cup {None}
    /\ writing \in BOOLEAN /\ wire \in [Streams \cup {0} -> Seq(Request)]
    /\ answered \subseteq Request

Init ==
    /\ die = FALSE /\ sdie = {} /\ opened = Accepted
    /\ count = [t \in Callers |-> 0]
    /\ pc = [t \in Callers |-> "idle"]
    /\ req = [t \in Callers |-> None]
    /\ main = "select" /\ inHand = None /\ target = <<0, 0>> /\ pushedOut = None
    /\ current = [s \in Streams |-> 0]
    /\ queue = [q \in Queues |-> <<>>]
    /\ made = [s \in Streams |-> 0]
    /\ reqCount = 0 /\ writeNotify = FALSE /\ writes = <<>>
    /\ sched = "wait" /\ round = {} /\ picked = None
    /\ writing = TRUE /\ wire = [s \in Streams \cup {0} |-> <<>>] /\ answered = {}

-----------------------------------------------------------------------------
(* The callers *)

\* Caller t goes to the channel Session.writes with a request.
Offer(t, cmd, s) ==
    /\ pc[t] = "idle"
    /\ pc' = [pc EXCEPT ![t] = "offer"]
    /\ req' = [req EXCEPT ![t] = [cmd |-> cmd, sid |-> s, n |-> count[t] + 1]]
    /\ count' = [count EXCEPT ![t] = @ + 1]
    /\ UNCHANGED <<die, mainVars, current, queue, made, reqCount, writeNotify,
                   writes, schedVars, outVars>>

OpenStream(s) ==
    /\ ~die
    /\ s \notin opened
    /\ count[Writer(s)] = 0
    /\ Offer(Writer(s), "SYN", s)
    /\ UNCHANGED <<sdie, opened>>

\* Write finds the stream open and sends its (only) frame.
Write(s) ==
    /\ s \in opened
    /\ s \notin sdie
    /\ count[Writer(s)] < PSHs[s] + (IF s \in Accepted THEN 0 ELSE 1)
    /\ Offer(Writer(s), "PSH", s)
    /\ UNCHANGED <<sdie, opened>>

\* Stream.Close, up to writeFrame(FIN).
CloseStream(s) ==
    /\ s \in opened
    /\ s \notin sdie
    /\ sdie' = sdie \cup {s}
    /\ Offer(Closer(s), "FIN", s)
    /\ UNCHANGED opened

SendControl ==
    /\ count[Keepalive] < Controls
    /\ Offer(Keepalive, "NOP", 0)
    /\ UNCHANGED <<sdie, opened>>

\* A Write returns early when its stream is closed or its deadline passes,
\* whether or not its request was taken.
WriteGivesUp(s) ==
    /\ pc[Writer(s)] # "idle"
    /\ req[Writer(s)].cmd = "PSH"
    /\ s \in sdie \/ Deadlines
    /\ pc' = [pc EXCEPT ![Writer(s)] = "idle"]
    /\ UNCHANGED <<userVars, req, mainVars, current, queue, made, reqCount,
                   writeNotify, writes, schedVars, outVars>>

\* writeFrame fails on a closed session, as long as its request is not taken.
WriteFrameFails(t) ==
    /\ pc[t] = "offer"
    /\ req[t].cmd # "PSH"
    /\ die
    /\ pc' = [pc EXCEPT ![t] = "idle"]
    /\ UNCHANGED <<userVars, req, mainVars, current, queue, made, reqCount,
                   writeNotify, writes, schedVars, outVars>>

\* <-req.result; OpenStream has the stream from then on, if the SYN was written.
Result(t) ==
    /\ pc[t] = "result"
    /\ req[t] \in answered
    /\ pc' = [pc EXCEPT ![t] = "idle"]
    /\ opened' = IF req[t].cmd = "SYN" /\ wire[req[t].sid] # <<>>
                    THEN opened \cup {req[t].sid} ELSE opened
    /\ UNCHANGED <<die, sdie, count, req, mainVars, current, queue, made,
                   reqCount, writeNotify, writes, schedVars, outVars>>

\* Session.Close closes its die and that of the streams.
SessionClose ==
    /\ Dying
    /\ ~die
    /\ die' = TRUE
    /\ sdie' = sdie \cup opened
    /\ UNCHANGED <<opened, count, pc, req, mainVars, current, queue, made,
                   reqCount, writeNotify, writes, schedVars, outVars>>

-----------------------------------------------------------------------------
(* sendLoop *)

\* request := <-s.writes, and the queue of its stream is looked up.  SYN and
\* PSH make the queue if there is none; a FIN without a queue, and any frame
\* that is not SYN, FIN or PSH, goes straight to the writer.
MainTake(t) ==
    /\ main = "select"
    /\ pc[t] = "offer"
    /\ pc' = [pc EXCEPT ![t] = "result"]
    /\ inHand' = req[t]
    /\ LET s == req[t].sid IN
       \/ /\ req[t].cmd = "NOP" \/ (req[t].cmd = "FIN" /\ current[s] = 0)
          /\ main' = "direct"
          /\ UNCHANGED <<target, current, made>>
       \/ /\ req[t].cmd \in {"SYN", "PSH", "FIN"} /\ current[s] # 0
          /\ main' = "put"
          /\ target' = <<s, current[s]>>
          /\ UNCHANGED <<current, made>>
       \/ /\ req[t].cmd \in {"SYN", "PSH"} /\ current[s] = 0
          /\ main' = "put"
          /\ target' = <<s, made[s] + 1>>
          /\ current' = [current EXCEPT ![s] = made[s] + 1]
          /\ made' = [made EXCEPT ![s] = @ + 1]
    /\ UNCHANGED <<userVars, req, pushedOut, queue, reqCount, writeNotify,
                   writes, schedVars, outVars>>

\* Mutant: the channel is treated as one without a capacity.
MainPutUnbounded ==
    /\ main = "put"
    /\ queue' = [queue EXCEPT ![target] = Append(@, inHand)]
    /\ main' = "count"
    /\ UNCHANGED <<userVars, pc, req, inHand, target, pushedOut, current, made,
                   reqCount, writeNotify, writes, schedVars, outVars>>

\* queue <- request when there is room.
MainPut ==
    /\ main = "put"
    /\ Len(queue[target]) < QueueSize
    /\ queue' = [queue EXCEPT ![target] = Append(@, inHand)]
    /\ main' = "count"
    /\ UNCHANGED <<userVars, pc, req, inHand, target, pushedOut, current, made,
                   reqCount, writeNotify, writes, schedVars, outVars>>

\* Mutant: the FIN case leaves with "continue", as the default case does.
MainCountContinues ==
    /\ main = "count"
    /\ reqCount' = reqCount + 1
    /\ main' = IF inHand.cmd = "FIN" THEN "select" ELSE "notify"
    /\ UNCHANGED <<userVars, pc, req, inHand, target, pushedOut, current, queue,
                   made, writeNotify, writes, schedVars, outVars>>

\* atomic.AddInt32(&reqCount, 1)
MainCount ==
    /\ main = "count"
    /\ reqCount' = reqCount + 1
    /\ main' = "notify"
    /\ UNCHANGED <<userVars, pc, req, inHand, target, pushedOut, current, queue,
                   made, writeNotify, writes, schedVars, outVars>>

\* The queue is full; a SYN would wait for room, a PSH or FIN makes room.
MainFull ==
    /\ main = "put"
    /\ inHand.cmd # "SYN"
    /\ Len(queue[target]) = QueueSize
    /\ main' = "swap"
    /\ UNCHANGED <<userVars, pc, req, inHand, target, pushedOut, current, queue,
                   made, reqCount, writeNotify, writes, schedVars, outVars>>

\* request2 := <-queue
MainSwapOut ==
    /\ main = "swap"
    /\ queue[target] # <<>>
    /\ pushedOut' = Head(queue[target])
    /\ queue' = [queue EXCEPT ![target] = Tail(@)]
    /\ main' = "swapput"
    /\ UNCHANGED <<userVars, pc, req, inHand, target, current, made, reqCount,
                   writeNotify, writes, schedVars, outVars>>

\* Mutant: the request that takes the place of another is counted as well.
MainSwapInCounted ==
    /\ main = "swapput"
    /\ Len(queue[target]) < QueueSize
    /\ queue' = [queue EXCEPT ![target] = Append(@, inHand)]
    /\ inHand' = pushedOut
    /\ pushedOut' = None
    /\ main' = "direct"
    /\ reqCount' = reqCount + 1
    /\ UNCHANGED <<userVars, pc, req, target, current, made,
                   writeNotify, writes, schedVars, outVars>>

\* queue <- request, and request2 is the one to go straight to the writer.
MainSwapIn ==
    /\ main = "swapput"
    /\ Len(queue[target]) < QueueSize
    /\ queue' = [queue EXCEPT ![target] = Append(@, inHand)]
    /\ inHand' = pushedOut
    /\ pushedOut' = None
    /\ main' = "direct"
    /\ UNCHANGED <<userVars, pc, req, target, current, made, reqCount,
                   writeNotify, writes, schedVars, outVars>>

\* Mutant: sendLoop does not wait for the writer and drops the request.
MainDirectDrops ==
    /\ main = "direct"
    /\ writes' = IF Len(writes) < WritesSize THEN Append(writes, inHand) ELSE writes
    /\ main' = IF inHand.cmd = "NOP" THEN "select" ELSE "notify"
    /\ UNCHANGED <<userVars, pc, req, inHand, target, pushedOut, current, queue,
                   made, reqCount, writeNotify, schedVars, outVars>>

\* writes <- request
MainDirect ==
    /\ main = "direct"
    /\ Len(writes) < WritesSize
    /\ writes' = Append(writes, inHand)
    /\ main' = IF inHand.cmd = "NOP" THEN "select" ELSE "notify"
    /\ UNCHANGED <<userVars, pc, req, inHand, target, pushedOut, current, queue,
                   made, reqCount, writeNotify, schedVars, outVars>>

MainNotify ==
    /\ main = "notify"
    /\ writeNotify' = TRUE
    /\ main' = "select"
    /\ UNCHANGED <<userVars, pc, req, inHand, target, pushedOut, current, queue,
                   made, reqCount, writes, schedVars, outVars>>

MainExit ==
    /\ main = "select"
    /\ die
    /\ main' = "done"
    /\ UNCHANGED <<userVars, pc, req, inHand, target, pushedOut, current, queue,
                   made, reqCount, writeNotify, writes, schedVars, outVars>>

-----------------------------------------------------------------------------
(* The scheduler *)

SchedWake ==
    /\ sched = "wait"
    /\ writeNotify
    /\ writeNotify' = FALSE
    /\ sched' = "check"
    /\ UNCHANGED <<userVars, pc, req, mainVars, current, queue, made, reqCount,
                   writes, round, picked, outVars>>

SchedExit ==
    /\ sched = "wait"
    /\ die
    /\ sched' = "done"
    /\ UNCHANGED <<userVars, pc, req, mainVars, current, queue, made, reqCount,
                   writeNotify, writes, round, picked, outVars>>

\* for reqCount > 0 ...
SchedCheck ==
    /\ sched = "check"
    /\ sched' = IF reqCount > 0 THEN "list" ELSE "wait"
    /\ UNCHANGED <<userVars, pc, req, mainVars, current, queue, made, reqCount,
                   writeNotify, writes, round, picked, outVars>>

\* ... a round over the streams that have a queue now.
SchedList ==
    /\ sched = "list"
    /\ sched' = "scan"
    /\ round' = {s \in Streams : current[s] # 0}
    /\ UNCHANGED <<userVars, pc, req, mainVars, current, queue, made, reqCount,
                   writeNotify, writes, picked, outVars>>

\* The next stream of the round: a request is taken if its queue is still
\* there and holds one.
SchedScan ==
    /\ sched = "scan"
    /\ round # {}
    /\ LET s == CHOOSE x \in round : \A y \in round : x <= y
           q == <<s, current[s]>>
       IN  /\ round' = round \ {s}
           /\ IF current[s] = 0 \/ (current[s] # 0 /\ queue[q] = <<>>)
                THEN UNCHANGED <<sched, picked, queue>>
                ELSE /\ picked' = Head(queue[q])
                     /\ queue' = [queue EXCEPT ![q] = Tail(@)]
                     /\ sched' = IF picked'.cmd = "FIN" THEN "delete" ELSE "write"
    /\ UNCHANGED <<userVars, pc, req, mainVars, current, made, reqCount,
                   writeNotify, writes, outVars>>

\* Mutant: one round per notice, "if" in place of "for reqCount > 0".
SchedRoundOnce ==
    /\ sched = "scan"
    /\ round = {}
    /\ sched' = "wait"
    /\ UNCHANGED <<userVars, pc, req, mainVars, current, queue, made, reqCount,
                   writeNotify, writes, round, picked, outVars>>

SchedRoundOver ==
    /\ sched = "scan"
    /\ round = {}
    /\ sched' = "check"
    /\ UNCHANGED <<userVars, pc, req, mainVars, current, queue, made, reqCount,
                   writeNotify, writes, round, picked, outVars>>

\* A FIN is the last of its stream: delete(streamQueues, sid).
SchedDelete ==
    /\ sched = "delete"
    /\ current' = [current EXCEPT ![picked.sid] = 0]
    /\ sched' = "write"
    /\ UNCHANGED <<userVars, pc, req, mainVars, queue, made, reqCount,
                   writeNotify, writes, round, picked, outVars>>

SchedWrite ==
    /\ sched = "write"
    /\ Len(writes) < WritesSize
    /\ writes' = Append(writes, picked)
    /\ picked' = None
    /\ sched' = "dec"
    /\ UNCHANGED <<userVars, pc, req, mainVars, current, queue, made, reqCount,
                   writeNotify, round, outVars>>

\* atomic.AddInt32(&reqCount, -1)
SchedDec ==
    /\ sched = "dec"
    /\ reqCount' = reqCount - 1
    /\ sched' = "scan"
    /\ UNCHANGED <<userVars, pc, req, mainVars, current, queue, made,
                   writeNotify, writes, round, picked, outVars>>

-----------------------------------------------------------------------------
(* The writer goroutine *)

\* conn.Write, which may fail, and the answer.
ConnWrite ==
    /\ writing
    /\ writes # <<>>
    /\ writes' = Tail(writes)
    /\ \/ wire' = [wire EXCEPT ![Head(writes).sid] = Append(@, Head(writes))]
       \/ UNCHANGED wire
    /\ answered' = answered \cup {Head(writes)}
    /\ UNCHANGED <<userVars, pc, req, mainVars, current, queue, made, reqCount,
                   writeNotify, schedVars, writing>>

WriterExit ==
    /\ writing
    /\ die
    /\ writing' = FALSE
    /\ UNCHANGED <<userVars, pc, req, mainVars, current, queue, made, reqCount,
                   writeNotify, writes, schedVars, wire, answered>>

-----------------------------------------------------------------------------
Main ==
    \/ \E t \in Callers : MainTake(t)
    \/ MainPut \/ MainCount \/ MainFull \/ MainSwapOut \/ MainSwapIn
    \/ MainDirect \/ MainNotify \/ MainExit

Scheduler ==
    \/ SchedWake \/ SchedExit \/ SchedCheck \/ SchedList \/ SchedScan
    \/ SchedRoundOver \/ SchedDelete \/ SchedWrite \/ SchedDec

ConnWriter == ConnWrite \/ WriterExit

Return(t) ==
    \/ Result(t)
    \/ WriteFrameFails(t)
    \/ \E s \in sdie : t = Writer(s) /\ WriteGivesUp(s)

Next ==
    \/ \E s \in Streams :
          OpenStream(s) \/ Write(s) \/ CloseStream(s) \/ WriteGivesUp(s)
    \/ \E t \in Callers : Result(t) \/ WriteFrameFails(t)
    \/ SendControl
    \/ SessionClose
    \/ Main
    \/ Scheduler
    \/ ConnWriter

\* The goroutines run, and so do the callers once they have something to
\* return with.  That a caller asks for anything is not assumed.
Fairness ==
    /\ WF_vars(Main) /\ WF_vars(Scheduler) /\ WF_vars(ConnWriter)
    /\ \A t \in Callers : WF_vars(Return(t))

Safety == Init /\ [][Next]_vars
Spec == Safety /\ Fairness

-----------------------------------------------------------------------------
(* Properties *)

\* Where a request can be.
QueuedAt     == UNION {{<<q, i>> : i \in DOMAIN queue[q]} : q \in Queues}
InMain(r)    == \/ r = inHand /\ main \in {"put", "swap", "swapput", "direct"}
                \/ r = pushedOut /\ main = "swapput"
InSched(r)   == r = picked /\ sched \in {"delete", "write"}
InQueues(r)  == {k \in QueuedAt : queue[k[1]][k[2]] = r}
InWrites(r)  == {i \in DOMAIN writes : writes[i] = r}

\* reqCount is the number of requests in queues, give or take the one that
\* sendLoop has put and not counted yet and the one the scheduler has taken
\* and not deducted yet; swapping a request for another leaves it as it is.
ReqCountExact ==
    reqCount = Cardinality(QueuedAt)
                 - (IF main = "count" THEN 1 ELSE 0)
                 + (IF main = "swapput" THEN 1 ELSE 0)
                 + (IF sched \in {"delete", "write", "dec"} THEN 1 ELSE 0)

\* A request that was taken is in exactly one place until it is answered,
\* however sendLoop, the scheduler and the writer interleave, and none is put
\* on the connection twice.
OnePlace ==
    /\ \A t \in Callers :
          pc[t] = "result" /\ req[t] \notin answered =>
              Cardinality(InQueues(req[t])) + Cardinality(InWrites(req[t]))
                + (IF InMain(req[t]) THEN 1 ELSE 0)
                + (IF InSched(req[t]) THEN 1 ELSE 0) = 1
    /\ \A s \in DOMAIN wire : \A i, j \in DOMAIN wire[s] :
          wire[s][i] = wire[s][j] => i = j

\* The scheduler does not sleep over a queue of streamQueues that holds a
\* request, although it checks reqCount, scans and waits without a common
\* lock with sendLoop: sendLoop counts before it notifies.
SchedulerAwake ==
    sched = "wait" /\ (\E s \in Streams : current[s] # 0 /\ queue[<<s, current[s]>>] # <<>>) =>
        writeNotify \/ main \in {"count", "notify", "direct", "swapput"}

\* Every request that is made is answered or given up, as long as the session
\* lives: the queues, the counter and the two channels never lock up.
CallsReturn == \A t \in Callers : pc[t] # "idle" ~> pc[t] = "idle" \/ die
===============================================================================
