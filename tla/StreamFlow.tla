------------------------------ MODULE StreamFlow ------------------------------
(***************************************************************************)
(* The flow control of one stream, with EnableStreamBuffer = true          *)
(* (src/lib/smux/stream.go: pushBytes, returnTokens, sendPause,            *)
(* sendResume, pauseWrite, resumeWrite and the start of Write; the setting *)
(* of hub.json and client.json).  A receiver that holds too much sends     *)
(* FUL, and EMP once it has been read empty; a writer that was sent FUL    *)
(* waits for a token in the stream's bucketNotify.                         *)
(*                                                                         *)
(* Both ends of the connection are modelled, each with its recvLoop, a     *)
(* reader and a writer.  A chunk is one Write of one frame and counts as   *)
(* one byte.  The connection holds Capacity frames in each direction;      *)
(* whoever puts one more waits.                                            *)
(***************************************************************************)
EXTENDS Integers, Sequences, FiniteSets

CONSTANTS
    Ends,               \* the two ends
    Traffic,            \* bound: how many chunks the two users may write
    MaxStreamBuffer,    \* Config.MaxStreamBuffer, in chunks
    MaxReceiveBuffer,   \* Config.MaxReceiveBuffer, in chunks
    Capacity,           \* what the connection and sendLoop hold, in frames
    Guessing            \* bound: whether rtt and boostTimeout play a part

Peer(e) == CHOOSE p \in Ends : p # e

ASSUME FlowSizes ==
    /\ Cardinality(Ends) = 2 /\ Traffic \subseteq [Ends -> Nat]
    /\ MaxStreamBuffer \in Nat \ {0} /\ MaxReceiveBuffer \in Nat \ {0}
    /\ Capacity \in Nat \ {0} /\ Guessing \in BOOLEAN

VARIABLES
    wire,           \* wire[e]: the frames on their way to e
    recv,           \* the program counter of recvLoop, inside pushBytes too
    buffer,         \* how many chunks Stream.buffer holds
    bucket,         \* Stream.bucket
    empflag,        \* Stream.empflag
    reader,         \* the program counter of Read, in returnTokens
    taken,          \* what Read took and has not returned to the bucket yet
    fulflag,        \* Stream.fulflag
    bucketNotify,   \* whether the stream's bucketNotify holds its token
    writer,         \* the program counter of Write
    left            \* how many chunks the user has yet to write

receiving == <<buffer, bucket, empflag, reader, taken>>
sending   == <<fulflag, bucketNotify, writer, left>>
vars      == <<wire, recv, receiving, sending>>

TypeOK ==
    /\ wire \in [Ends -> Seq({"PSH", "FUL", "EMP"})]
    /\ \A e \in Ends : Len(wire[e]) <= Capacity
    /\ recv \in [Ends -> {"frame", "add", "pause", "FUL", "clear"}]
    /\ buffer \in [Ends -> 0 .. MaxReceiveBuffer]
    /\ bucket \in [Ends -> Int]
    /\ empflag \in [Ends -> {0, 1}]
    /\ reader \in [Ends -> {"idle", "return", "resume", "EMP"}]
    /\ taken \in [Ends -> 0 .. MaxReceiveBuffer]
    /\ fulflag \in [Ends -> {0, 1}]
    /\ bucketNotify \in [Ends -> BOOLEAN]
    /\ writer \in [Ends -> {"idle", "wait", "send"}]
    /\ left \in [Ends -> Nat]

Init ==
    /\ wire = [e \in Ends |-> <<>>]
    /\ recv = [e \in Ends |-> "frame"]
    /\ buffer = [e \in Ends |-> 0]
    /\ bucket = [e \in Ends |-> 0]
    /\ empflag = [e \in Ends |-> 1]
    /\ reader = [e \in Ends |-> "idle"]
    /\ taken = [e \in Ends |-> 0]
    /\ fulflag = [e \in Ends |-> 0]
    /\ bucketNotify = [e \in Ends |-> FALSE]
    /\ writer = [e \in Ends |-> "idle"]
    /\ left \in Traffic

\* writeFrame, which waits for room on the connection.
Put(e, f) ==
    /\ Len(wire[Peer(e)]) < Capacity
    /\ wire' = [wire EXCEPT ![Peer(e)] = Append(@, f)]

-----------------------------------------------------------------------------
(* Write *)

\* A look at fulflag decides between the wait and the frame.
WriteStart(e) ==
    /\ writer[e] = "idle"
    /\ left[e] > 0
    /\ left' = [left EXCEPT ![e] = @ - 1]
    /\ writer' = [writer EXCEPT ![e] = IF fulflag[e] = 1 THEN "wait" ELSE "send"]
    /\ UNCHANGED <<wire, recv, receiving, fulflag, bucketNotify>>

\* <-s.bucketNotify
WriteWake(e) ==
    /\ writer[e] = "wait"
    /\ bucketNotify[e]
    /\ bucketNotify' = [bucketNotify EXCEPT ![e] = FALSE]
    /\ writer' = [writer EXCEPT ![e] = "send"]
    /\ UNCHANGED <<wire, recv, receiving, fulflag, left>>

WriteSend(e) ==
    /\ writer[e] = "send"
    /\ Put(e, "PSH")
    /\ writer' = [writer EXCEPT ![e] = "idle"]
    /\ UNCHANGED <<recv, receiving, fulflag, bucketNotify, left>>

-----------------------------------------------------------------------------
(* recvLoop and pushBytes *)

\* Mutant: recvLoop goes on without tokens.
HandlingUnpaid(e, f) ==
    /\ recv[e] = "frame"
    /\ wire[e] # <<>>
    /\ Head(wire[e]) = f
    /\ wire' = [wire EXCEPT ![e] = Tail(@)]

\* The next frame, whatever it is, is read only while the session has tokens.
Handling(e, f) ==
    /\ recv[e] = "frame"
    /\ buffer[e] < MaxReceiveBuffer
    /\ wire[e] # <<>>
    /\ Head(wire[e]) = f
    /\ wire' = [wire EXCEPT ![e] = Tail(@)]

\* pushBytes: the bytes are in the buffer ...
RecvPSH(e) ==
    /\ Handling(e, "PSH")
    /\ buffer' = [buffer EXCEPT ![e] = @ + 1]
    /\ recv' = [recv EXCEPT ![e] = "add"]
    /\ UNCHANGED <<bucket, empflag, reader, taken, sending>>

\* ... before they are in the stream's bucket.  Above MaxStreamBuffer the peer
\* is to pause, and sooner when guessBucket and boostTimeout say so.
RecvAdd(e) ==
    /\ recv[e] = "add"
    /\ bucket' = [bucket EXCEPT ![e] = @ + 1]
    /\ \/ bucket'[e] > MaxStreamBuffer /\ recv' = [recv EXCEPT ![e] = "pause"]
       \/ bucket'[e] <= MaxStreamBuffer /\ recv' = [recv EXCEPT ![e] = "frame"]
       \/ Guessing /\ recv' = [recv EXCEPT ![e] = "pause"]
    /\ UNCHANGED <<wire, buffer, empflag, reader, taken, sending>>

\* sendPause: FUL is owed if empflag was set.
SendPause(e) ==
    /\ recv[e] = "pause"
    /\ empflag' = [empflag EXCEPT ![e] = 0]
    /\ recv' = [recv EXCEPT ![e] = IF empflag[e] = 1 THEN "FUL" ELSE "frame"]
    /\ UNCHANGED <<wire, buffer, bucket, reader, taken, sending>>

\* Its writeFrame, after empflagLock is released.
PutFUL(e) ==
    /\ recv[e] = "FUL"
    /\ Put(e, "FUL")
    /\ recv' = [recv EXCEPT ![e] = "frame"]
    /\ UNCHANGED <<receiving, sending>>

\* pauseWrite
RecvFUL(e) ==
    /\ Handling(e, "FUL")
    /\ fulflag' = [fulflag EXCEPT ![e] = 1]
    /\ UNCHANGED <<recv, receiving, bucketNotify, writer, left>>


\* resumeWrite: the token first ...
RecvEMP(e) ==
    /\ Handling(e, "EMP")
    /\ bucketNotify' = [bucketNotify EXCEPT ![e] = @ \/ fulflag[e] = 1]
    /\ recv' = [recv EXCEPT ![e] = "clear"]
    /\ UNCHANGED <<receiving, fulflag, writer, left>>

\* ... and then the flag.
RecvClear(e) ==
    /\ recv[e] = "clear"
    /\ fulflag' = [fulflag EXCEPT ![e] = 0]
    /\ recv' = [recv EXCEPT ![e] = "frame"]
    /\ UNCHANGED <<wire, receiving, bucketNotify, writer, left>>

-----------------------------------------------------------------------------
(* Read and returnTokens *)

ReadBuffer(e) ==
    /\ reader[e] = "idle"
    /\ \E n \in 1 .. buffer[e] :
          /\ buffer' = [buffer EXCEPT ![e] = @ - n]
          /\ taken' = [taken EXCEPT ![e] = n]
    /\ reader' = [reader EXCEPT ![e] = "return"]
    /\ UNCHANGED <<wire, recv, bucket, empflag, sending>>

\* Mutant: with nothing to resume the tokens are not taken off the bucket.
ReturnTokensEarly(e) ==
    /\ reader[e] = "return"
    /\ bucket' = [bucket EXCEPT ![e] = IF empflag[e] = 1 THEN @ ELSE @ - taken[e]]
    /\ taken' = [taken EXCEPT ![e] = 0]
    /\ \/ bucket'[e] <= 0 /\ reader' = [reader EXCEPT ![e] = "resume"]
       \/ bucket'[e] > 0 /\ reader' = [reader EXCEPT ![e] = "idle"]
       \/ Guessing /\ reader' = [reader EXCEPT ![e] = "resume"]
    /\ UNCHANGED <<wire, recv, buffer, empflag, sending>>

\* An empty bucket calls for EMP, and a guess of what is needed may as well.
ReturnTokens(e) ==
    /\ reader[e] = "return"
    /\ bucket' = [bucket EXCEPT ![e] = @ - taken[e]]
    /\ taken' = [taken EXCEPT ![e] = 0]
    /\ \/ bucket'[e] <= 0 /\ reader' = [reader EXCEPT ![e] = "resume"]
       \/ bucket'[e] > 0 /\ reader' = [reader EXCEPT ![e] = "idle"]
       \/ Guessing /\ reader' = [reader EXCEPT ![e] = "resume"]
    /\ UNCHANGED <<wire, recv, buffer, empflag, sending>>

\* sendResume: EMP is owed if empflag was not set.
SendResume(e) ==
    /\ reader[e] = "resume"
    /\ empflag' = [empflag EXCEPT ![e] = 1]
    /\ reader' = [reader EXCEPT ![e] = IF empflag[e] = 0 THEN "EMP" ELSE "idle"]
    /\ UNCHANGED <<wire, recv, buffer, bucket, taken, sending>>

PutEMP(e) ==
    /\ reader[e] = "EMP"
    /\ Put(e, "EMP")
    /\ reader' = [reader EXCEPT ![e] = "idle"]
    /\ UNCHANGED <<recv, buffer, bucket, empflag, taken, sending>>

-----------------------------------------------------------------------------
RecvLoop(e) ==
    \/ RecvPSH(e) \/ RecvAdd(e) \/ SendPause(e) \/ PutFUL(e)
    \/ RecvFUL(e) \/ RecvEMP(e) \/ RecvClear(e)

Read(e)  == ReadBuffer(e) \/ ReturnTokens(e) \/ SendResume(e) \/ PutEMP(e)
Write(e) == WriteWake(e) \/ WriteSend(e)

Next == \E e \in Ends : WriteStart(e) \/ Write(e) \/ RecvLoop(e) \/ Read(e)

\* The goroutines run, what is in a buffer is read, and a Write goes on when
\* it can.  SF: the room on the connection is contended, and sendLoop serves
\* those who wait for it in turn.
Fairness ==
    \A e \in Ends :
        /\ SF_vars(RecvLoop(e)) /\ SF_vars(Read(e)) /\ SF_vars(Write(e))

Spec == Init /\ [][Next]_vars /\ Fairness

-----------------------------------------------------------------------------
(* Properties *)

\* Stream.bucket is what the buffer holds, give or take the chunk that is
\* pushed and not yet added and those that are read and not yet returned:
\* the two atomic additions and the two critical sections never drift apart.
StreamTokens ==
    \A e \in Ends :
        bucket[e] = buffer[e] + taken[e] - (IF recv[e] = "add" THEN 1 ELSE 0)

\* recvLoop of e takes no frame because the connection takes none from e: it
\* has a FUL to write itself, or it has no tokens and the reader that could
\* return some has an EMP to write.
Kept(e) ==
    /\ Len(wire[Peer(e)]) = Capacity
    /\ \/ recv[e] = "FUL"
       \/ recv[e] = "frame" /\ buffer[e] = MaxReceiveBuffer /\ reader[e] = "EMP"


\* "mark this stream has been resume write" (lib/smux/stream.go:319): a Write
\* that was told to pause goes on when the receiver has read everything.
PausedIsResumed == \A e \in Ends : writer[e] = "wait" ~> writer[e] # "wait"
===============================================================================
