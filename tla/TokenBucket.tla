----------------------------- MODULE TokenBucket -----------------------------
(***************************************************************************)
(* The receive side of one smux session (src/lib/smux/session.go and       *)
(* stream.go): recvLoop takes frames while the session's token bucket is   *)
(* positive, the streams' readers and closers put tokens back, and a       *)
(* one-slot channel, bucketNotify, wakes a recvLoop that found the bucket  *)
(* empty.  With EnableStreamBuffer recvLoop also writes: an ACK for a NOP, *)
(* and a FUL when a stream has too much (which is StreamFlow's to say),    *)
(* the latter with streamLock in its hands.  Such a write waits for        *)
(* sendLoop and the connection, and a closed session does not end the      *)
(* wait.                                                                   *)
(*                                                                         *)
(* The threads are recvLoop, one reader and one closer per stream, the     *)
(* goroutine that closes the session and the keepalive ticker.  A step is  *)
(* what happens between two points where another thread can interfere: an  *)
(* atomic operation, a channel operation, a critical section of            *)
(* streamLock or of bufferLock.                                            *)
(*                                                                         *)
(* Data is abstracted to memory cells: place[b] says which stream holds    *)
(* the byte b and how far it got, so that no byte is counted twice.  The   *)
(* order of the bytes in a stream is the concern of StreamLife.            *)
(***************************************************************************)
EXTENDS Integers, FiniteSets

CONSTANTS
    Streams,            \* the Stream objects of the session's life
    Bytes,              \* the memory cells that payload bytes occupy
    MaxReceiveBuffer,   \* Config.MaxReceiveBuffer
    MaxFrame,           \* the longest payload of a frame (65535 on the wire)
    Free,               \* the place of a cell that holds nothing
    EnableStreamBuffer  \* Config.EnableStreamBuffer

\* Where a byte can be: in the frame recvLoop is pushing, in the buffer of
\* the stream, in the hands of its reader (out of the buffer, token not yet
\* returned), or cut off by a recycleTokens that has not returned the tokens.
Places == {"frame", "buffer", "read", "recycled"} \X Streams

\* VerifyConfig lets no other value through, and a frame header is 16 bits.
ASSUME SizesPositive ==
    /\ MaxReceiveBuffer \in Nat \ {0}
    /\ MaxFrame \in Nat \ {0}

ASSUME FreeIsNoPlace == Free \notin Places

ASSUME StreamBufferOnOrOff == EnableStreamBuffer \in BOOLEAN

VARIABLES
    bucket,         \* Session.bucket
    bucketNotify,   \* whether the channel Session.bucketNotify holds its token
    die,            \* whether Session.die is closed
    streams,        \* the values of the map Session.streams
    sdie,           \* the streams whose Stream.die is closed
    streamLock,     \* who is in a critical section that another step can see
    place,          \* where each byte is
    recv,           \* the program counter of recvLoop
    reader,         \* the program counter of each stream's Read
    closer,         \* the program counter of each stream's Close
    closing         \* the program counter of Session.Close

vars == <<bucket, bucketNotify, die, streams, sdie, streamLock, place,
          recv, reader, closer, closing>>

RecvPC    == {"check", "closed?", "wait", "read", "push", "ACK", "FUL", "done"}
ReaderPC  == {"idle", "add", "notify"}
CloserPC  == {"none", "die", "return", "notify", "done"}
ClosingPC == {"none", "streams", "notify", "conn", "done"}

TypeOK ==
    /\ bucket \in Int /\ bucket <= MaxReceiveBuffer
    /\ bucketNotify \in BOOLEAN
    /\ die \in BOOLEAN
    /\ streams \in SUBSET Streams
    /\ sdie \in SUBSET Streams
    /\ streamLock \in {"free", "recvLoop", "streamClosed"}
    /\ place \in [Bytes -> Places \cup {Free}]
    /\ recv \in RecvPC
    /\ reader \in [Streams -> ReaderPC]
    /\ closer \in [Streams -> CloserPC]
    /\ closing \in ClosingPC

At(w, s) == {b \in Bytes : place[b] = <<w, s>>}
Held     == {b \in Bytes : place[b] # Free}
Room     == Bytes \ Held

Moved(cells, to) == [b \in Bytes |-> IF b \in cells THEN to ELSE place[b]]

-----------------------------------------------------------------------------
Init ==
    /\ bucket = MaxReceiveBuffer
    /\ bucketNotify = FALSE
    /\ die = FALSE
    /\ streams = {}
    /\ sdie = {}
    /\ streamLock = "free"
    /\ place = [b \in Bytes |-> Free]
    /\ recv = "check"
    /\ reader = [s \in Streams |-> "idle"]
    /\ closer = [s \in Streams |-> "none"]
    /\ closing = "none"

-----------------------------------------------------------------------------
(* recvLoop *)

\* Mutant: the condition of the wait loop lets an empty bucket through.
RecvCheckAtZero ==
    /\ recv = "check"
    /\ recv' = IF bucket >= 0 THEN "read" ELSE "closed?"
    /\ UNCHANGED <<bucket, bucketNotify, die, streams, sdie, streamLock,
                   place, reader, closer, closing>>

\* The load of the bucket in the condition of the wait loop.
RecvCheck ==
    /\ recv = "check"
    /\ recv' = IF bucket > 0 THEN "read" ELSE "closed?"
    /\ UNCHANGED <<bucket, bucketNotify, die, streams, sdie, streamLock,
                   place, reader, closer, closing>>

\* Mutant: recvLoop waits at most once and then reads, tokens or not.
RecvCheckClosedAlways ==
    /\ recv = "closed?"
    /\ recv' = "read"
    /\ UNCHANGED <<bucket, bucketNotify, die, streams, sdie, streamLock,
                   place, reader, closer, closing>>

\* IsClosed, the second half of that condition.
RecvCheckClosed ==
    /\ recv = "closed?"
    /\ recv' = IF die THEN "read" ELSE "wait"
    /\ UNCHANGED <<bucket, bucketNotify, die, streams, sdie, streamLock,
                   place, reader, closer, closing>>

\* <-s.bucketNotify
RecvWake ==
    /\ recv = "wait"
    /\ bucketNotify
    /\ bucketNotify' = FALSE
    /\ recv' = "check"
    /\ UNCHANGED <<bucket, die, streams, sdie, streamLock, place, reader,
                   closer, closing>>

\* A connection that Session.Close has closed yields no frame.
Readable == recv = "read" /\ closing # "done"

\* A SYN of the peer: the stream is registered and queued for AcceptStream.
RecvSYN(s) ==
    /\ Readable
    /\ streamLock = "free"
    /\ s \notin streams
    /\ closer[s] = "none"
    /\ s \notin sdie
    /\ streams' = streams \cup {s}
    /\ recv' = "check"
    /\ UNCHANGED <<bucket, bucketNotify, die, sdie, streamLock, place,
                   reader, closer, closing>>

\* Mutant: the tokens are not deducted.
RecvPSHFree(s, data) ==
    /\ Readable
    /\ streamLock = "free"
    /\ s \in streams
    /\ streamLock' = "recvLoop"
    /\ place' = Moved(data, <<"frame", s>>)
    /\ recv' = "push"
    /\ UNCHANGED <<bucket, bucketNotify, die, streams, sdie, reader, closer,
                   closing>>

\* A PSH for a stream that exists: recvLoop takes streamLock, finds the
\* stream and deducts the tokens.
RecvPSH(s, data) ==
    /\ Readable
    /\ streamLock = "free"
    /\ s \in streams
    /\ streamLock' = "recvLoop"
    /\ bucket' = bucket - Cardinality(data)
    /\ place' = Moved(data, <<"frame", s>>)
    /\ recv' = "push"
    /\ UNCHANGED <<bucketNotify, die, streams, sdie, reader, closer, closing>>

\* Still under streamLock: pushBytes.  Either that is all and the lock is
\* released, or sendPause writes a FUL and the lock stays.
RecvPushBytes(s) ==
    /\ recv = "push"
    /\ At("frame", s) # {}
    /\ place' = Moved(At("frame", s), <<"buffer", s>>)
    /\ \/ recv' = "check" /\ streamLock' = "free"
       \/ EnableStreamBuffer /\ recv' = "FUL" /\ UNCHANGED streamLock
    /\ UNCHANGED <<bucket, bucketNotify, die, streams, sdie, reader, closer,
                   closing>>

\* Any other frame, and a PSH or a SYN the stream table says to ignore.  A NOP
\* is answered with an ACK if EnableStreamBuffer is set.
RecvOther ==
    /\ Readable
    /\ \/ recv' = "check"
       \/ EnableStreamBuffer /\ recv' = "ACK"
    /\ UNCHANGED <<bucket, bucketNotify, die, streams, sdie, streamLock,
                   place, reader, closer, closing>>

\* recvLoop is in writeFrame.
RecvWriting == recv \in {"ACK", "FUL"}

\* writeFrame returns: the writer has answered (or the session was closed
\* before sendLoop took the request).  After a FUL streamLock is released.
RecvWritten ==
    /\ RecvWriting
    /\ recv' = "check"
    /\ streamLock' = IF recv = "FUL" THEN "free" ELSE streamLock
    /\ UNCHANGED <<bucket, bucketNotify, die, streams, sdie, place, reader,
                   closer, closing>>

\* The connection fails or the frame is unknown: recvLoop calls
\* Session.Close, which is a no-op on a closed session, and returns.
RecvError ==
    /\ recv = "read"
    /\ recv' = "done"
    /\ die' = TRUE
    /\ closing' = IF die THEN closing ELSE "streams"
    /\ UNCHANGED <<bucket, bucketNotify, streams, sdie, streamLock, place,
                   reader, closer>>

-----------------------------------------------------------------------------
(* The users of the streams *)

\* OpenStream puts a new stream in the table (its SYN is StreamLife's).
OpenStream(s) ==
    /\ streamLock = "free"
    /\ s \notin streams
    /\ closer[s] = "none"
    /\ s \notin sdie
    /\ streams' = streams \cup {s}
    /\ UNCHANGED <<bucket, bucketNotify, die, sdie, streamLock, place, recv,
                   reader, closer, closing>>

\* Read takes bytes out of the buffer, under bufferLock.
ReadBuffer(s, data) ==
    /\ reader[s] = "idle"
    /\ data # {}
    /\ place' = Moved(data, <<"read", s>>)
    /\ reader' = [reader EXCEPT ![s] = "add"]
    /\ UNCHANGED <<bucket, bucketNotify, die, streams, sdie, streamLock,
                   recv, closer, closing>>

\* Mutant: returnTokens looks at the bucket as it was before the addition.
AddTokensOldValue(s) ==
    /\ reader[s] = "add"
    /\ bucket' = bucket + Cardinality(At("read", s))
    /\ place' = Moved(At("read", s), Free)
    /\ reader' = [reader EXCEPT ![s] = IF bucket > 0 THEN "notify" ELSE "idle"]
    /\ UNCHANGED <<bucketNotify, die, streams, sdie, streamLock, recv, closer,
                   closing>>

\* returnTokens: the tokens go back; only a positive sum is worth a notice.
AddTokens(s) ==
    /\ reader[s] = "add"
    /\ bucket' = bucket + Cardinality(At("read", s))
    /\ place' = Moved(At("read", s), Free)
    /\ reader' = [reader EXCEPT ![s] = IF bucket' > 0 THEN "notify" ELSE "idle"]
    /\ UNCHANGED <<bucketNotify, die, streams, sdie, streamLock, recv, closer,
                   closing>>

\* notifyBucket, called by returnTokens.
NotifyAfterRead(s) ==
    /\ reader[s] = "notify"
    /\ bucketNotify' = TRUE
    /\ reader' = [reader EXCEPT ![s] = "idle"]
    /\ UNCHANGED <<bucket, die, streams, sdie, streamLock, place, recv,
                   closer, closing>>

\* Stream.Close closes the stream's die, unless it is closed already.
CloseStream(s) ==
    /\ closer[s] = "none"
    /\ s \in streams
    /\ s \notin sdie
    /\ sdie' = sdie \cup {s}
    /\ closer' = [closer EXCEPT ![s] = "die"]
    /\ UNCHANGED <<bucket, bucketNotify, die, streams, streamLock, place,
                   recv, reader, closing>>

\* Mutant: streamClosed drops the stream's bytes and keeps their tokens.
RecycleNoReturn(s) ==
    /\ closer[s] = "die"
    /\ streamLock = "free"
    /\ closer' = [closer EXCEPT ![s] = "done"]
    /\ streams' = streams \ {s}
    /\ place' = Moved(At("buffer", s), Free)
    /\ UNCHANGED <<bucket, bucketNotify, die, sdie, streamLock, recv, reader,
                   closing>>

\* Mutant: streamClosed deletes the stream without taking streamLock.
RecycleUnlocked(s) ==
    /\ closer[s] = "die"
    /\ IF At("buffer", s) = {}
         THEN /\ closer' = [closer EXCEPT ![s] = "done"]
              /\ streams' = streams \ {s}
              /\ UNCHANGED place
         ELSE /\ closer' = [closer EXCEPT ![s] = "return"]
              /\ place' = Moved(At("buffer", s), <<"recycled", s>>)
              /\ UNCHANGED streams
    /\ UNCHANGED <<bucket, bucketNotify, die, sdie, streamLock, recv, reader,
                   closing>>

\* streamClosed takes streamLock and recycleTokens cuts the buffer off.
\* With nothing to return it deletes the stream and leaves.
Recycle(s) ==
    /\ closer[s] = "die"
    /\ streamLock = "free"
    /\ IF At("buffer", s) = {}
         THEN /\ closer' = [closer EXCEPT ![s] = "done"]
              /\ streams' = streams \ {s}
              /\ UNCHANGED <<streamLock, place>>
         ELSE /\ closer' = [closer EXCEPT ![s] = "return"]
              /\ streamLock' = "streamClosed"
              /\ place' = Moved(At("buffer", s), <<"recycled", s>>)
              /\ UNCHANGED streams
    /\ UNCHANGED <<bucket, bucketNotify, die, sdie, recv, reader, closing>>

\* Mutant: streamClosed returns the tokens and tells nobody.
ReturnRecycledSilently(s) ==
    /\ closer[s] = "return"
    /\ bucket' = bucket + Cardinality(At("recycled", s))
    /\ place' = Moved(At("recycled", s), Free)
    /\ closer' = [closer EXCEPT ![s] = "done"]
    /\ streams' = streams \ {s}
    /\ streamLock' = "free"
    /\ UNCHANGED <<bucketNotify, die, sdie, recv, reader, closing>>

\* The tokens of the bytes cut off return to the bucket.
ReturnRecycled(s) ==
    /\ closer[s] = "return"
    /\ bucket' = bucket + Cardinality(At("recycled", s))
    /\ place' = Moved(At("recycled", s), Free)
    /\ IF bucket' > 0
         THEN /\ closer' = [closer EXCEPT ![s] = "notify"]
              /\ UNCHANGED <<streams, streamLock>>
         ELSE /\ closer' = [closer EXCEPT ![s] = "done"]
              /\ streams' = streams \ {s}
              /\ streamLock' = "free"
    /\ UNCHANGED <<bucketNotify, die, sdie, recv, reader, closing>>

\* notifyBucket, the delete and the unlock at the end of streamClosed.
NotifyAfterRecycle(s) ==
    /\ closer[s] = "notify"
    /\ bucketNotify' = TRUE
    /\ closer' = [closer EXCEPT ![s] = "done"]
    /\ streams' = streams \ {s}
    /\ streamLock' = "free"
    /\ UNCHANGED <<bucket, die, sdie, place, recv, reader, closing>>

-----------------------------------------------------------------------------
(* Session.Close, called by its user, by keepalive or by recvLoop *)

\* The first caller closes die; every later one returns at once.
SessionClose ==
    /\ ~die
    /\ die' = TRUE
    /\ closing' = "streams"
    /\ UNCHANGED <<bucket, bucketNotify, streams, sdie, streamLock, place,
                   recv, reader, closer>>

\* sessionClose on every stream in the table, under streamLock.
CloseStreams ==
    /\ closing = "streams"
    /\ streamLock = "free"
    /\ sdie' = sdie \cup streams
    /\ closing' = "notify"
    /\ UNCHANGED <<bucket, bucketNotify, die, streams, streamLock, place,
                   recv, reader, closer>>

\* Mutant: Session.Close forgets a recvLoop that waits for tokens.
NotifyAfterCloseForgotten ==
    /\ closing = "notify"
    /\ closing' = "conn"
    /\ UNCHANGED <<bucket, bucketNotify, die, streams, sdie, streamLock,
                   place, recv, reader, closer>>

\* notifyBucket, so that a recvLoop short of tokens sees the session closed.
NotifyAfterClose ==
    /\ closing = "notify"
    /\ bucketNotify' = TRUE
    /\ closing' = "conn"
    /\ UNCHANGED <<bucket, die, streams, sdie, streamLock, place, recv,
                   reader, closer>>

CloseConn ==
    /\ closing = "conn"
    /\ closing' = "done"
    /\ UNCHANGED <<bucket, bucketNotify, die, streams, sdie, streamLock,
                   place, recv, reader, closer>>

\* The ping tick of keepalive, "force a signal to the recvLoop".
KeepaliveNotify ==
    /\ ~die
    /\ bucketNotify' = TRUE
    /\ UNCHANGED <<bucket, die, streams, sdie, streamLock, place, recv,
                   reader, closer, closing>>

-----------------------------------------------------------------------------
RecvLoop ==
    \/ RecvCheck
    \/ RecvCheckClosed
    \/ RecvWake
    \/ \E s \in Streams : RecvPushBytes(s)

\* What the frames of the peer and the state of the connection decide.
Connection ==
    \/ \E s \in Streams : RecvSYN(s)
    \/ \E s \in Streams, data \in SUBSET Room :
          /\ IsFiniteSet(data)
          /\ Cardinality(data) \in 1 .. MaxFrame
          /\ RecvPSH(s, data)
    \/ RecvOther
    \/ RecvWritten
    \/ RecvError

ReturnTokens(s) == AddTokens(s) \/ NotifyAfterRead(s)
StreamClosed(s) == Recycle(s) \/ ReturnRecycled(s) \/ NotifyAfterRecycle(s)
FinishClose     == CloseStreams \/ NotifyAfterClose \/ CloseConn

\* Everything is over and every goroutine has returned.
Terminated ==
    /\ recv = "done"
    /\ closing = "done"
    /\ UNCHANGED vars

Next ==
    \/ RecvLoop
    \/ Connection
    \/ \E s \in Streams :
          \/ OpenStream(s)
          \/ \E data \in SUBSET At("buffer", s) : ReadBuffer(s, data)
          \/ ReturnTokens(s)
          \/ CloseStream(s)
          \/ StreamClosed(s)
    \/ SessionClose
    \/ FinishClose
    \/ KeepaliveNotify
    \/ Terminated

\* A goroutine that can run does run; a Go mutex is handed over in FIFO order
\* to a waiter that starves, so Session.Close gets streamLock in the end if it
\* is released again and again; a read on a closed connection returns.  Nothing
\* is assumed of the peer, of the users (they need not open, read or close
\* anything), of the ticker, or of the connection that RecvWritten waits for.
Fairness ==
    /\ WF_vars(RecvLoop)
    /\ WF_vars(closing = "done" /\ RecvError)
    /\ \A s \in Streams : WF_vars(ReturnTokens(s)) /\ WF_vars(StreamClosed(s))
    /\ SF_vars(FinishClose)

Safety == Init /\ [][Next]_vars
Spec == Safety /\ Fairness

-----------------------------------------------------------------------------
(* Properties *)

\* No token is lost or made: whatever the interleaving of recvLoop's
\* deduction, the reads and streamClosed, the bucket is the size of the
\* receive buffer less the bytes some stream still holds.
Conservation == bucket = MaxReceiveBuffer - Cardinality(Held)

\* Until the session is closed the streams together hold less than one frame
\* above MaxReceiveBuffer, although recvLoop looks at the bucket, reads a
\* frame and deducts in three separate steps.
MemoryBound == ~die => Cardinality(Held) < MaxReceiveBuffer + MaxFrame

\* Somebody is between putting tokens back and the notice that they are back.
NoticePending ==
    \E s \in Streams : reader[s] = "notify" \/ closer[s] = "notify"

\* recvLoop never sleeps on without a reason: when the bucket is positive a
\* notice lies in bucketNotify or is about to be put there (the check of the
\* bucket and the receive on the channel are two steps), and the same holds
\* when the session is closed.
NoLostWakeup ==
    recv = "wait" =>
        /\ bucket > 0 => bucketNotify \/ NoticePending
        /\ die => bucketNotify \/ closing \in {"streams", "notify"}

\* Every byte held has somebody who will, or can, return its token: a byte in
\* a buffer or on its way there belongs to a stream that is in the table, so
\* that a push cannot slip in behind the recycleTokens of its stream.
TokensHaveOwners ==
    \A s \in Streams :
        /\ s \notin streams => At("buffer", s) = {} /\ At("frame", s) = {}
        /\ At("frame", s) # {} => recv = "push"
        /\ At("read", s) # {} => reader[s] = "add"
        /\ At("recycled", s) # {} => closer[s] = "return"

\* Closing the session ends recvLoop, also when it waits for tokens that no
\* reader will ever return.  What can keep it is only a frame of its own that
\* the connection does not take, or that the writer left behind: writeFrame
\* does not look at die while it waits for its answer.
CloseEndsRecvLoop == <>die => <>(recv = "done") \/ <>[]RecvWriting

\* The bucket implements the budget.
Budget == INSTANCE ReceiveBudget WITH
    held     <- Cardinality(Held),
    receiver <- CASE recv = "read" -> "reading"
                  [] recv = "push" -> "handling"
                  [] RecvWriting   -> "writing"
                  [] recv = "done" -> "stopped"
                  [] OTHER         -> "idle",
    closing  <- die

\* Step by step, the threads do only what the budget allows.
ImplementsBudget == Budget!Safety

\* And recvLoop returns to the connection whenever there is room and it is not
\* kept by a frame of its own, with no help from the keepalive ticker.
ImplementsBudgetLive == Budget!Spec
=============================================================================
