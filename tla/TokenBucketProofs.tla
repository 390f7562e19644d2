-------------------------- MODULE TokenBucketProofs --------------------------
(***************************************************************************)
(* The safety properties of TokenBucket for every number of streams and    *)
(* bytes, every size of the receive buffer and every frame size.           *)
(*                                                                         *)
(* The inductive invariant is built in layers, each inductive given the    *)
(* ones before it: types, the count of the tokens, the budget, the owners  *)
(* of the bytes (which rests on streamLock), the notices.                  *)
(***************************************************************************)
EXTENDS TokenBucket, FiniteSetTheorems, TLAPS

-----------------------------------------------------------------------------
(* Cardinalities and moved cells *)

\* The size of a disjoint union (the bytes held and those of a new frame).
LEMMA DisjointUnion ==
    ASSUME NEW A, NEW B, IsFiniteSet(A), IsFiniteSet(B), A \cap B = {}
    PROVE  /\ IsFiniteSet(A \cup B)
           /\ Cardinality(A \cup B) = Cardinality(A) + Cardinality(B)
<1>1. /\ IsFiniteSet(A \cup B)
      /\ Cardinality(A \cup B) =
           Cardinality(A) + Cardinality(B) - Cardinality(A \cap B)
  BY FS_Union
<1>2. Cardinality(A \cap B) = 0
  BY FS_EmptySet
<1>3. Cardinality(A) \in Nat /\ Cardinality(B) \in Nat
  BY FS_CardinalityType
<1> QED BY <1>1, <1>2, <1>3

\* The size of what is left when a part leaves (tokens returned).
LEMMA RemovedPart ==
    ASSUME NEW A, NEW B \in SUBSET A, IsFiniteSet(A)
    PROVE  /\ IsFiniteSet(A \ B)
           /\ Cardinality(B) \in Nat
           /\ Cardinality(A \ B) = Cardinality(A) - Cardinality(B)
<1>1. IsFiniteSet(B) /\ IsFiniteSet(A \ B)
  BY FS_Subset
<1>2. (A \ B) \cap B = {} /\ (A \ B) \cup B = A
  OBVIOUS
<1>3. Cardinality(A) = Cardinality(A \ B) + Cardinality(B)
  BY <1>1, <1>2, DisjointUnion
<1>4. Cardinality(A \ B) \in Nat /\ Cardinality(B) \in Nat
  BY <1>1, FS_CardinalityType
<1> QED BY <1>1, <1>3, <1>4

\* Where the cells are after some of them moved.
LEMMA MovedCells ==
    ASSUME TypeOK, NEW cells \in SUBSET Bytes, NEW to,
           place' = Moved(cells, to)
    PROVE  /\ \A b \in Bytes : place'[b] = IF b \in cells THEN to ELSE place[b]
           /\ to # Free => Held' = Held \cup cells
           /\ to = Free => Held' = Held \ cells
BY DEF TypeOK, Moved, Held

\* A place of a stream is not the place of a free cell.
LEMMA PlacesTaken ==
    ASSUME NEW w \in {"frame", "buffer", "read", "recycled"}, NEW s \in Streams
    PROVE  <<w, s>> \in Places /\ <<w, s>> # Free
BY FreeIsNoPlace DEF Places

-----------------------------------------------------------------------------
(* Types, and only finitely many bytes are ever held *)

Finite == IsFiniteSet(Held)

\* The types hold at the start, when no bytes are held.
LEMMA TypeInit == Init => TypeOK /\ Finite
<1> SUFFICES ASSUME Init PROVE TypeOK /\ Finite
  OBVIOUS
<1>1. place \in [Bytes -> Places \cup {Free}] /\ Held = {}
  BY DEF Init, Held
<1>2. Finite
  BY <1>1, FS_EmptySet DEF Finite
<1>3. bucket \in Int /\ bucket <= MaxReceiveBuffer
  BY SizesPositive DEF Init
<1>4. reader \in [Streams -> ReaderPC] /\ closer \in [Streams -> CloserPC]
  BY DEF Init, ReaderPC, CloserPC
<1>5. TypeOK
  BY <1>1, <1>3, <1>4 DEF Init, TypeOK, RecvPC, ClosingPC
<1> QED BY <1>2, <1>5

\* The bytes in one place are part of the bytes held.
LEMMA PartOfHeld ==
    ASSUME Finite, NEW w \in {"frame", "buffer", "read", "recycled"},
           NEW s \in Streams
    PROVE  /\ At(w, s) \subseteq Held
           /\ IsFiniteSet(At(w, s))
           /\ Cardinality(At(w, s)) \in Nat
<1>1. At(w, s) \subseteq Held
  BY PlacesTaken DEF At, Held
<1> QED BY <1>1, FS_Subset, FS_CardinalityType DEF Finite

\* Tokens that return never overfill the bucket.
LEMMA ReturnFits ==
    ASSUME TypeOK, Finite, Conservation, NEW s \in Streams,
           NEW w \in {"frame", "buffer", "read", "recycled"}
    PROVE  /\ Cardinality(At(w, s)) \in Nat
           /\ bucket + Cardinality(At(w, s)) <= MaxReceiveBuffer
<1>1. Cardinality(At(w, s)) <= Cardinality(Held)
  BY PartOfHeld, FS_Subset DEF Finite
<1>2. Cardinality(At(w, s)) \in Nat /\ Cardinality(Held) \in Nat
  BY PartOfHeld, FS_CardinalityType DEF Finite
<1> QED BY <1>1, <1>2, SizesPositive DEF Conservation

\* Every step keeps the types.
LEMMA TypeStep == TypeOK /\ Finite /\ Conservation /\ [Next]_vars => TypeOK'
<1> SUFFICES ASSUME TypeOK, Finite, Conservation, [Next]_vars PROVE TypeOK'
  OBVIOUS
<1> USE DEF TypeOK, RecvPC, ReaderPC, CloserPC, ClosingPC
<1>1. CASE RecvCheck \/ RecvCheckClosed \/ RecvWake
  BY <1>1 DEF RecvCheck, RecvCheckClosed, RecvWake
<1>2. ASSUME NEW s \in Streams, RecvPushBytes(s) PROVE TypeOK'
  BY <1>2, PlacesTaken DEF RecvPushBytes, Moved
<1>3. ASSUME NEW s \in Streams, RecvSYN(s) \/ OpenStream(s) PROVE TypeOK'
  BY <1>3 DEF RecvSYN, OpenStream, Readable
<1>4. ASSUME NEW s \in Streams, NEW data \in SUBSET Room, IsFiniteSet(data),
             RecvPSH(s, data)
      PROVE  TypeOK'
  <2>1. Cardinality(data) \in Nat
    BY <1>4, FS_CardinalityType
  <2>2. bucket' \in Int /\ bucket' <= MaxReceiveBuffer
    BY <1>4, <2>1, SizesPositive DEF RecvPSH
  <2>3. place' \in [Bytes -> Places \cup {Free}]
    BY <1>4, PlacesTaken DEF RecvPSH, Moved
  <2> QED BY <1>4, <2>2, <2>3 DEF RecvPSH, Readable
<1>5. CASE RecvOther \/ RecvWritten \/ RecvError
  BY <1>5 DEF RecvOther, RecvWritten, RecvError, Readable
<1>6. ASSUME NEW s \in Streams, NEW data \in SUBSET At("buffer", s),
             ReadBuffer(s, data)
      PROVE  TypeOK'
  BY <1>6, PlacesTaken DEF ReadBuffer, Moved
<1>7. ASSUME NEW s \in Streams, AddTokens(s) PROVE TypeOK'
  <2>1. /\ Cardinality(At("read", s)) \in Nat
        /\ bucket + Cardinality(At("read", s)) <= MaxReceiveBuffer
    BY ReturnFits
  <2> QED BY <1>7, <2>1 DEF AddTokens, Moved
<1>8. ASSUME NEW s \in Streams, NotifyAfterRead(s) PROVE TypeOK'
  BY <1>8 DEF NotifyAfterRead
<1>9. ASSUME NEW s \in Streams, CloseStream(s) PROVE TypeOK'
  BY <1>9 DEF CloseStream
<1>10. ASSUME NEW s \in Streams, Recycle(s) PROVE TypeOK'
  BY <1>10, PlacesTaken DEF Recycle, Moved
<1>11. ASSUME NEW s \in Streams, ReturnRecycled(s) PROVE TypeOK'
  <2>1. /\ Cardinality(At("recycled", s)) \in Nat
        /\ bucket + Cardinality(At("recycled", s)) <= MaxReceiveBuffer
    BY ReturnFits
  <2> QED BY <1>11, <2>1 DEF ReturnRecycled, Moved
<1>12. ASSUME NEW s \in Streams, NotifyAfterRecycle(s) PROVE TypeOK'
  BY <1>12 DEF NotifyAfterRecycle
<1>13. CASE SessionClose \/ FinishClose \/ KeepaliveNotify \/ Terminated
           \/ UNCHANGED vars
  BY ZenonT(40), <1>13
  DEF SessionClose, FinishClose, CloseStreams, NotifyAfterClose, CloseConn,
      KeepaliveNotify, Terminated, vars
<1> QED
  BY <1>1, <1>2, <1>3, <1>4, <1>5, <1>6, <1>7, <1>8, <1>9, <1>10, <1>11,
     <1>12, <1>13
  DEF Next, RecvLoop, Connection, ReturnTokens, StreamClosed

-----------------------------------------------------------------------------
(* What a step does to the bytes held and to the bucket *)

HeldKept     == Held' = Held /\ bucket' = bucket
HeldGrows(n) == /\ recv = "read" /\ recv' = "push" /\ die' = die
                /\ Cardinality(Held') = Cardinality(Held) + n
                /\ bucket' = bucket - n
HeldDrops(n) == /\ recv' = recv /\ die' = die
                /\ n <= Cardinality(Held)
                /\ Cardinality(Held') = Cardinality(Held) - n
                /\ bucket' = bucket + n

\* Tokens that return are exactly the bytes that leave (AddTokens,
\* ReturnRecycled).
LEMMA Returned ==
    ASSUME TypeOK, Finite, NEW w \in {"read", "recycled"}, NEW s \in Streams,
           place' = Moved(At(w, s), Free), recv' = recv, die' = die,
           bucket' = bucket + Cardinality(At(w, s))
    PROVE  Finite' /\ \E n \in Nat : HeldDrops(n)
<1>1. At(w, s) \in SUBSET Held /\ At(w, s) \in SUBSET Bytes
  BY PartOfHeld DEF At
<1>2. Held' = Held \ At(w, s)
  BY <1>1, MovedCells
<1>3. /\ IsFiniteSet(Held')
      /\ Cardinality(At(w, s)) \in Nat
      /\ Cardinality(Held') = Cardinality(Held) - Cardinality(At(w, s))
  BY <1>1, <1>2, RemovedPart DEF Finite
<1>4. Cardinality(At(w, s)) <= Cardinality(Held)
  BY <1>1, FS_Subset DEF Finite
<1> QED BY <1>3, <1>4 DEF Finite, HeldDrops

\* Bytes that move from one place of a stream to another stay held.
LEMMA Shifted ==
    ASSUME TypeOK, Finite, NEW v \in {"frame", "buffer"},
           NEW w \in {"buffer", "read", "recycled"}, NEW s \in Streams,
           NEW cells \in SUBSET At(v, s),
           place' = Moved(cells, <<w, s>>), bucket' = bucket
    PROVE  Finite' /\ HeldKept
<1>1. cells \in SUBSET Held /\ cells \in SUBSET Bytes
  BY PartOfHeld DEF At
<1>2. Held' = Held \cup cells
  BY <1>1, MovedCells, PlacesTaken
<1> QED BY <1>1, <1>2 DEF Finite, HeldKept

\* Every step adds to the bucket what it takes from the bytes held.
LEMMA HeldStep ==
    ASSUME TypeOK, Finite, [Next]_vars
    PROVE  /\ Finite'
           /\ \/ HeldKept
              \/ \E n \in 1 .. MaxFrame : HeldGrows(n)
              \/ \E n \in Nat : HeldDrops(n)
<1> DEFINE Goal == /\ Finite'
                   /\ \/ HeldKept
                      \/ \E n \in 1 .. MaxFrame : HeldGrows(n)
                      \/ \E n \in Nat : HeldDrops(n)
<1>1. CASE UNCHANGED <<place, bucket>>
  BY <1>1 DEF HeldKept, Finite, Held
<1>2. ASSUME NEW s \in Streams, RecvPushBytes(s) PROVE Goal
  BY <1>2, Shifted DEF RecvPushBytes
<1>3. ASSUME NEW s \in Streams, NEW data \in SUBSET Room, IsFiniteSet(data),
             Cardinality(data) \in 1 .. MaxFrame, RecvPSH(s, data)
      PROVE  Goal
  <2>1. data \in SUBSET Bytes /\ Held \cap data = {}
    BY DEF Room
  <2>2. Held' = Held \cup data
    BY <1>3, <2>1, MovedCells, PlacesTaken DEF RecvPSH
  <2>3. /\ IsFiniteSet(Held')
        /\ Cardinality(Held') = Cardinality(Held) + Cardinality(data)
    BY <1>3, <2>1, <2>2, DisjointUnion DEF Finite
  <2>4. HeldGrows(Cardinality(data))
    BY <1>3, <2>3 DEF HeldGrows, RecvPSH, Readable
  <2> QED BY <1>3, <2>3, <2>4 DEF Finite
<1>4. ASSUME NEW s \in Streams, NEW data \in SUBSET At("buffer", s),
             ReadBuffer(s, data)
      PROVE  Goal
  BY <1>4, Shifted DEF ReadBuffer
<1>5. ASSUME NEW s \in Streams, AddTokens(s) PROVE Goal
  BY <1>5, Returned DEF AddTokens
<1>6. ASSUME NEW s \in Streams, Recycle(s) PROVE Goal
  <2>1. CASE At("buffer", s) = {}
    BY <1>1, <1>6, <2>1 DEF Recycle
  <2>2. CASE At("buffer", s) # {}
    BY <1>6, <2>2, Shifted DEF Recycle
  <2> QED BY <2>1, <2>2
<1>7. ASSUME NEW s \in Streams, ReturnRecycled(s) PROVE Goal
  BY <1>7, Returned DEF ReturnRecycled
<1>8. CASE \/ RecvCheck \/ RecvCheckClosed \/ RecvWake \/ RecvOther
           \/ RecvWritten \/ RecvError \/ SessionClose \/ FinishClose
           \/ KeepaliveNotify \/ Terminated \/ UNCHANGED vars
  BY <1>1, <1>8
  DEF RecvCheck, RecvCheckClosed, RecvWake, RecvOther, RecvWritten,
      RecvError, SessionClose, FinishClose, CloseStreams, NotifyAfterClose,
      CloseConn, KeepaliveNotify, Terminated, vars
<1>9. ASSUME NEW s \in Streams,
             \/ RecvSYN(s) \/ OpenStream(s) \/ NotifyAfterRead(s)
             \/ CloseStream(s) \/ NotifyAfterRecycle(s)
      PROVE  Goal
  BY <1>1, <1>9
  DEF RecvSYN, OpenStream, NotifyAfterRead, CloseStream, NotifyAfterRecycle
<1> QED
  BY <1>2, <1>3, <1>4, <1>5, <1>6, <1>7, <1>8, <1>9
  DEF Next, RecvLoop, Connection, ReturnTokens, StreamClosed

-----------------------------------------------------------------------------
(* The tokens are conserved *)

CountInv == TypeOK /\ Finite /\ Conservation

\* At the start the bucket is full and nothing is held.
LEMMA CountInit == Init => CountInv
<1> SUFFICES ASSUME Init PROVE Conservation
  BY TypeInit DEF CountInv
<1>1. Held = {} /\ bucket = MaxReceiveBuffer
  BY DEF Init, Held
<1> QED BY <1>1, FS_EmptySet, SizesPositive DEF Conservation

\* Every step keeps the count.
LEMMA CountStep == CountInv /\ [Next]_vars => CountInv'
<1> SUFFICES ASSUME CountInv, [Next]_vars PROVE Conservation'
  BY TypeStep, HeldStep DEF CountInv
<1>1. Cardinality(Held) \in Nat
  BY FS_CardinalityType DEF CountInv, Finite
<1>2. bucket = MaxReceiveBuffer - Cardinality(Held)
  BY DEF CountInv, Conservation
<1>3. bucket' = MaxReceiveBuffer - Cardinality(Held')
  BY <1>1, <1>2, HeldStep, SizesPositive
  DEF CountInv, HeldKept, HeldGrows, HeldDrops
<1> QED BY <1>3 DEF Conservation

\* Every reachable state is well-typed.
THEOREM TypeCorrect == Safety => []TypeOK
<1>1. CountInv => TypeOK
  BY DEF CountInv
<1> QED BY <1>1, CountInit, CountStep, PTL DEF Safety

\* The bucket is at all times the size of the receive buffer less the bytes
\* held: recvLoop's deduction, Read's returnTokens and streamClosed's
\* recycling never count a byte twice and never forget one.
THEOREM TokensConserved == Safety => []Conservation
<1>1. CountInv => Conservation
  BY DEF CountInv
<1> QED BY <1>1, CountInit, CountStep, PTL DEF Safety

-----------------------------------------------------------------------------
(* The bound on the bytes held *)

\* recvLoop is at the connection only with a positive bucket: it checked, and
\* nobody but recvLoop takes tokens.
CheckedBeforeReading == recv = "read" => bucket > 0 \/ die

BudgetInv == CountInv /\ CheckedBeforeReading /\ MemoryBound

\* At the start there is room for any frame.
LEMMA BudgetInit == Init => BudgetInv
<1> SUFFICES ASSUME Init PROVE CheckedBeforeReading /\ MemoryBound
  BY CountInit DEF BudgetInv
<1>1. Cardinality(Held) = 0
  BY FS_EmptySet DEF Init, Held
<1> QED BY <1>1, SizesPositive DEF Init, CheckedBeforeReading, MemoryBound

\* recvLoop goes to the connection from its two checks only.
LEMMA ReadStep ==
    ASSUME TypeOK, [Next]_vars, recv' = "read"
    PROVE  \/ recv = "read" /\ (die' = die \/ die')
           \/ bucket' > 0
           \/ die'
BY DEF TypeOK, Next, RecvLoop, Connection, ReturnTokens, StreamClosed,
       FinishClose, RecvCheck, RecvCheckClosed, RecvWake, RecvPushBytes,
       RecvSYN, RecvPSH, RecvOther, RecvWritten, RecvError, OpenStream,
       ReadBuffer,
       AddTokens, NotifyAfterRead, CloseStream, Recycle, ReturnRecycled,
       NotifyAfterRecycle, SessionClose, CloseStreams, NotifyAfterClose,
       CloseConn, KeepaliveNotify, Terminated, vars

\* A closed session stays closed.
LEMMA DieStep ==
    ASSUME TypeOK, [Next]_vars
    PROVE  die => die'
BY DEF TypeOK, Next, RecvLoop, Connection, ReturnTokens, StreamClosed,
       FinishClose, RecvCheck, RecvCheckClosed, RecvWake, RecvPushBytes,
       RecvSYN, RecvPSH, RecvOther, RecvWritten, RecvError, OpenStream,
       ReadBuffer,
       AddTokens, NotifyAfterRead, CloseStream, Recycle, ReturnRecycled,
       NotifyAfterRecycle, SessionClose, CloseStreams, NotifyAfterClose,
       CloseConn, KeepaliveNotify, Terminated, vars

\* Every step keeps the bound, since recvLoop checks before it reads.
LEMMA BudgetStep == BudgetInv /\ [Next]_vars => BudgetInv'
<1> SUFFICES ASSUME BudgetInv, [Next]_vars
             PROVE  CheckedBeforeReading' /\ MemoryBound'
  BY CountStep DEF BudgetInv
<1>1. TypeOK /\ TypeOK' /\ Finite /\ Finite' /\ Conservation
  BY CountStep DEF BudgetInv, CountInv
<1>2. Cardinality(Held) \in Nat /\ Cardinality(Held') \in Nat
  BY <1>1, FS_CardinalityType DEF Finite
<1>3. CheckedBeforeReading'
  <2> SUFFICES ASSUME recv' = "read" PROVE bucket' > 0 \/ die'
    BY DEF CheckedBeforeReading
  <2>1. CASE recv = "read"
    <3>1. bucket > 0 \/ die
      BY <2>1 DEF BudgetInv, CheckedBeforeReading
    <3>2. bucket' >= bucket
      BY <1>1, HeldStep DEF TypeOK, HeldKept, HeldGrows, HeldDrops
    <3> QED BY <1>1, <3>1, <3>2, DieStep DEF TypeOK
  <2>2. CASE recv # "read"
    BY <1>1, <2>2, ReadStep
  <2> QED BY <2>1, <2>2
<1>4. MemoryBound'
  <2> SUFFICES ASSUME ~die'
               PROVE  Cardinality(Held') < MaxReceiveBuffer + MaxFrame
    BY DEF MemoryBound
  <2>1. ~die
    BY <1>1, DieStep
  <2>2. Cardinality(Held) < MaxReceiveBuffer + MaxFrame
    BY <2>1 DEF BudgetInv, MemoryBound
  <2>3. CASE HeldKept
    BY <2>2, <2>3 DEF HeldKept
  <2>4. ASSUME NEW n \in 1 .. MaxFrame, HeldGrows(n)
        PROVE  Cardinality(Held') < MaxReceiveBuffer + MaxFrame
    <3>1. bucket > 0
      BY <2>1, <2>4 DEF HeldGrows, BudgetInv, CheckedBeforeReading
    <3>2. Cardinality(Held) < MaxReceiveBuffer
      BY <1>1, <1>2, <3>1, SizesPositive DEF Conservation
    <3> QED BY <1>2, <2>4, <3>2, SizesPositive DEF HeldGrows
  <2>5. ASSUME NEW n \in Nat, HeldDrops(n)
        PROVE  Cardinality(Held') < MaxReceiveBuffer + MaxFrame
    BY <1>2, <2>2, <2>5, SizesPositive DEF HeldDrops
  <2> QED BY <1>1, <2>3, <2>4, <2>5, HeldStep
<1> QED BY <1>3, <1>4

\* While the session is open its streams together hold less than one frame
\* more than MaxReceiveBuffer, with any number of streams and any frames.
THEOREM MemoryBounded == Safety => []MemoryBound
<1>1. BudgetInv => MemoryBound
  BY DEF BudgetInv
<1> QED BY <1>1, BudgetInit, BudgetStep, PTL DEF Safety

-----------------------------------------------------------------------------
(* The bucket implements the budget *)

\* The initial states map to initial states.
LEMMA BudgetRefinementInit == Init => Budget!Init
<1> SUFFICES ASSUME Init PROVE Budget!Init
  OBVIOUS
<1>1. Cardinality(Held) = 0
  BY FS_EmptySet DEF Init, Held
<1> QED BY <1>1 DEF Init, RecvWriting, Budget!Init

\* recvLoop's own steps, seen from the budget.
LEMMA ReceiverStep ==
    ASSUME TypeOK, Finite, Conservation, HeldKept, [Next]_vars
    PROVE  [Budget!Next]_Budget!vars
<1> USE DEF HeldKept, TypeOK, RecvPC
<1> DEFINE Goal == [Budget!Next]_Budget!vars
<1>1. Cardinality(Held) \in Nat /\ Cardinality(Held') = Cardinality(Held)
  BY FS_CardinalityType DEF Finite
<1>2. CASE recv' = recv /\ die' = die
  BY <1>1, <1>2 DEF Budget!vars
<1>3. CASE RecvCheck
  <2>1. bucket > 0 => Cardinality(Held) < MaxReceiveBuffer
    BY <1>1, SizesPositive DEF Conservation
  <2> QED BY <1>1, <1>3, <2>1
          DEF RecvCheck, RecvWriting, Budget!Next, Budget!Start, Budget!vars
<1>4. CASE RecvCheckClosed
  BY <1>1, <1>4
  DEF RecvCheckClosed, RecvWriting, Budget!Next, Budget!Start, Budget!vars
<1>5. CASE RecvWake
  BY <1>1, <1>5 DEF RecvWake, RecvWriting, Budget!vars
<1>6. ASSUME NEW s \in Streams, RecvPushBytes(s) PROVE Goal
  BY <1>1, <1>6
  DEF RecvPushBytes, RecvWriting, Budget!Next, Budget!Handle
<1>7. ASSUME NEW s \in Streams, RecvSYN(s) PROVE Goal
  BY <1>1, <1>7
  DEF RecvSYN, Readable, RecvWriting, Budget!Next, Budget!Pass
<1>8. CASE RecvOther
  BY <1>1, <1>8
  DEF RecvOther, Readable, RecvWriting, Budget!Next, Budget!Pass
<1>9. CASE RecvError
  BY <1>1, <1>9 DEF RecvError, RecvWriting, Budget!Next, Budget!Stop
<1>10. CASE SessionClose
  BY <1>1, <1>10 DEF SessionClose, Budget!Next, Budget!Close
<1>11. ASSUME NEW s \in Streams, NEW data \in SUBSET Room,
              Cardinality(data) \in 1 .. MaxFrame, RecvPSH(s, data)
       PROVE  Goal
  BY <1>11 DEF RecvPSH
<1>12. ASSUME NEW s \in Streams,
              \/ \E data \in SUBSET At("buffer", s) : ReadBuffer(s, data)
              \/ OpenStream(s) \/ ReturnTokens(s) \/ CloseStream(s)
              \/ StreamClosed(s)
       PROVE  recv' = recv /\ die' = die
  BY <1>12
  DEF ReadBuffer, OpenStream, ReturnTokens, AddTokens, NotifyAfterRead,
      CloseStream, StreamClosed, Recycle, ReturnRecycled, NotifyAfterRecycle
<1>13. CASE FinishClose \/ KeepaliveNotify \/ Terminated \/ UNCHANGED vars
  BY <1>2, <1>13
  DEF FinishClose, CloseStreams, NotifyAfterClose, CloseConn,
      KeepaliveNotify, Terminated, vars
<1>14. CASE RecvWritten
  BY <1>1, <1>14
  DEF RecvWritten, RecvWriting, Budget!Next, Budget!Written
<1> QED
  BY <1>2, <1>3, <1>4, <1>5, <1>6, <1>7, <1>8, <1>9, <1>10, <1>11, <1>12,
     <1>13, <1>14
  DEF Next, RecvLoop, Connection

\* Every step maps to a step of the budget or to a stutter.
LEMMA BudgetRefinementStep == BudgetInv /\ [Next]_vars => [Budget!Next]_Budget!vars
<1> SUFFICES ASSUME BudgetInv, [Next]_vars PROVE [Budget!Next]_Budget!vars
  OBVIOUS
<1>1. TypeOK /\ Finite /\ Conservation
  BY DEF BudgetInv, CountInv
<1>2. Cardinality(Held) \in Nat
  BY <1>1, FS_CardinalityType DEF Finite
<1>3. CASE HeldKept
  BY <1>1, <1>3, ReceiverStep
<1>4. ASSUME NEW n \in 1 .. MaxFrame, HeldGrows(n)
      PROVE  Budget!Admit(n)
  <2>1. bucket > 0 \/ die
    BY <1>4 DEF HeldGrows, BudgetInv, CheckedBeforeReading
  <2>2. Cardinality(Held) < MaxReceiveBuffer \/ die
    BY <1>1, <1>2, <2>1, SizesPositive DEF Conservation
  <2> QED BY <1>4, <2>2 DEF HeldGrows, RecvWriting, Budget!Admit
<1>5. ASSUME NEW n \in Nat, HeldDrops(n)
      PROVE  [Budget!Next]_Budget!vars
  <2>1. CASE n = 0
    BY <1>2, <1>5, <2>1 DEF HeldDrops, Budget!vars
  <2>2. CASE n # 0
    <3>1. n \in 1 .. Cardinality(Held)
      BY <1>2, <1>5, <2>2 DEF HeldDrops
    <3>2. Budget!Release(n)
      BY <1>5, <3>1 DEF HeldDrops, Budget!Release
    <3> QED BY <3>1, <3>2 DEF Budget!Next
  <2> QED BY <2>1, <2>2
<1> QED BY <1>1, <1>3, <1>4, <1>5, HeldStep DEF Budget!Next

\* Every behaviour of the threads is a behaviour of ReceiveBudget: recvLoop
\* admits bytes only while there is room or the session is closing.
THEOREM BucketImplementsBudget == Safety => ImplementsBudget
BY BudgetInit, BudgetStep, BudgetRefinementInit, BudgetRefinementStep, PTL
DEF Safety, ImplementsBudget, Budget!Safety

-----------------------------------------------------------------------------
(* The notices *)

\* recvLoop has seen the bucket at zero or below and did not yet look again.
Dozing == recv \in {"closed?", "wait"}

\* NoLostWakeup, extended to the step between the check and the wait.
NoticeInv ==
    /\ Dozing /\ bucket > 0 => bucketNotify \/ NoticePending
    /\ recv = "wait" /\ die => bucketNotify \/ closing \in {"streams", "notify"}

WakeInv == CountInv /\ NoticeInv

\* Nobody dozes at the start.
LEMMA WakeInit == Init => WakeInv
BY CountInit DEF Init, WakeInv, NoticeInv, Dozing

\* Every step keeps the notice on its way.
LEMMA WakeStep == WakeInv /\ [Next]_vars => WakeInv'
<1> SUFFICES ASSUME WakeInv, [Next]_vars PROVE NoticeInv'
  BY CountStep DEF WakeInv
<1> USE DEF NoticeInv, Dozing, NoticePending
<1>1. TypeOK /\ TypeOK' /\ Finite /\ NoticeInv
  BY CountStep DEF WakeInv, CountInv
<1>2. CASE RecvCheck \/ RecvCheckClosed
  BY <1>1, <1>2 DEF TypeOK, RecvCheck, RecvCheckClosed
<1>3. CASE RecvWake \/ RecvOther \/ RecvWritten \/ RecvError
  BY <1>1, <1>3 DEF RecvWake, RecvOther, RecvWritten, RecvError
<1>4. ASSUME NEW s \in Streams, RecvPushBytes(s) \/ RecvSYN(s)
      PROVE  NoticeInv'
  BY <1>4 DEF RecvPushBytes, RecvSYN
<1>5. ASSUME NEW s \in Streams, NEW data \in SUBSET Room, RecvPSH(s, data)
      PROVE  NoticeInv'
  BY <1>5 DEF RecvPSH
<1>6. ASSUME NEW s \in Streams, OpenStream(s) PROVE NoticeInv'
  BY <1>1, <1>6 DEF OpenStream
<1>7. ASSUME NEW s \in Streams, NEW data \in SUBSET At("buffer", s),
             ReadBuffer(s, data)
      PROVE  NoticeInv'
  <2>1. \A t \in Streams : reader[t] = "notify" => reader'[t] = "notify"
    BY <1>1, <1>7 DEF ReadBuffer, TypeOK
  <2> QED BY <1>1, <1>7, <2>1 DEF ReadBuffer
<1>8. ASSUME NEW s \in Streams, AddTokens(s) PROVE NoticeInv'
  <2>1. bucket' > 0 => reader'[s] = "notify"
    BY <1>1, <1>8 DEF AddTokens, TypeOK
  <2> QED BY <1>1, <1>8, <2>1 DEF AddTokens
<1>9. ASSUME NEW s \in Streams, NotifyAfterRead(s) \/ NotifyAfterRecycle(s)
      PROVE  NoticeInv'
  BY <1>9 DEF NotifyAfterRead, NotifyAfterRecycle
<1>10. ASSUME NEW s \in Streams, CloseStream(s) \/ Recycle(s)
       PROVE  NoticeInv'
  <2>1. \A t \in Streams : closer[t] = "notify" => closer'[t] = "notify"
    BY <1>1, <1>10 DEF CloseStream, Recycle, TypeOK
  <2> QED BY <1>1, <1>10, <2>1 DEF CloseStream, Recycle
<1>11. ASSUME NEW s \in Streams, ReturnRecycled(s) PROVE NoticeInv'
  <2>1. bucket' > 0 => closer'[s] = "notify"
    BY <1>1, <1>11 DEF ReturnRecycled, TypeOK
  <2> QED BY <1>1, <1>11, <2>1 DEF ReturnRecycled
<1>12. CASE SessionClose \/ FinishClose \/ KeepaliveNotify
  BY <1>1, <1>12
  DEF SessionClose, FinishClose, CloseStreams, NotifyAfterClose, CloseConn,
      KeepaliveNotify
<1>13. CASE Terminated \/ UNCHANGED vars
  BY <1>1, <1>13 DEF Terminated, vars
<1> QED
  BY <1>2, <1>3, <1>4, <1>5, <1>6, <1>7, <1>8, <1>9, <1>10, <1>11, <1>12,
     <1>13
  DEF Next, RecvLoop, Connection, ReturnTokens, StreamClosed

\* recvLoop is never left asleep over a positive bucket or a closed session:
\* the non-blocking send on a channel of one slot after the addition is enough
\* for any number of readers and closers.
THEOREM WakeupsArrive == Safety => []NoLostWakeup
<1>1. WakeInv => NoLostWakeup
  BY DEF WakeInv, NoticeInv, Dozing, NoLostWakeup
<1> QED BY <1>1, WakeInit, WakeStep, PTL DEF Safety

-----------------------------------------------------------------------------
(* Every byte has an owner *)

\* The closers inside streamClosed's critical section.
Recycling(s) == closer[s] \in {"return", "notify"}

\* Who is in a critical section, as streamLock records it.
LockInv ==
    /\ streamLock = "recvLoop" <=> recv \in {"push", "FUL"}
    /\ \A s \in Streams : Recycling(s) => streamLock = "streamClosed"
    /\ \A s, t \in Streams : Recycling(s) /\ Recycling(t) => s = t

\* What the holders of the lock have in their hands.
FrameInv ==
    /\ \A s, t \in Streams :
          At("frame", s) # {} /\ At("frame", t) # {} => s = t
    /\ \A s \in Streams : Recycling(s) => At("buffer", s) = {}

OwnInv == CountInv /\ LockInv /\ FrameInv /\ TokensHaveOwners

\* There are no bytes to own at the start.
LEMMA OwnInit == Init => OwnInv
<1> SUFFICES ASSUME Init PROVE OwnInv
  OBVIOUS
<1>1. \A s \in Streams, w \in {"frame", "buffer", "read", "recycled"} :
         At(w, s) = {}
  BY PlacesTaken DEF Init, At
<1> QED
  BY <1>1, CountInit
  DEF Init, OwnInv, LockInv, FrameInv, TokensHaveOwners, Recycling

\* streamLock is held by at most one of recvLoop and the closers.
LEMMA LockStep ==
    ASSUME TypeOK, LockInv, [Next]_vars
    PROVE  LockInv'
<1> USE DEF TypeOK, LockInv, Recycling
<1>1. ASSUME NEW s \in Streams,
             \/ RecvPushBytes(s) \/ RecvSYN(s)
             \/ \E data \in SUBSET Room : RecvPSH(s, data)
      PROVE  LockInv'
  BY <1>1 DEF RecvPushBytes, RecvSYN, RecvPSH, Readable
<1>2. ASSUME NEW s \in Streams,
             \/ OpenStream(s) \/ ReturnTokens(s)
             \/ \E data \in SUBSET At("buffer", s) : ReadBuffer(s, data)
      PROVE  LockInv'
  BY <1>2
  DEF OpenStream, ReturnTokens, AddTokens, NotifyAfterRead, ReadBuffer
<1>3. ASSUME NEW s \in Streams, CloseStream(s) PROVE LockInv'
  BY <1>3 DEF CloseStream
<1>4. ASSUME NEW s \in Streams, Recycle(s) PROVE LockInv'
  BY <1>4 DEF Recycle
<1>5. ASSUME NEW s \in Streams, ReturnRecycled(s) PROVE LockInv'
  <2>1. CASE bucket' > 0
    BY <1>5, <2>1 DEF ReturnRecycled
  <2>2. CASE ~(bucket' > 0)
    BY <1>5, <2>2 DEF ReturnRecycled
  <2> QED BY <2>1, <2>2
<1>6. ASSUME NEW s \in Streams, NotifyAfterRecycle(s) PROVE LockInv'
  BY <1>6 DEF NotifyAfterRecycle
<1>7. CASE \/ RecvCheck \/ RecvCheckClosed \/ RecvWake \/ RecvOther
           \/ RecvWritten \/ RecvError
  BY <1>7
  DEF RecvCheck, RecvCheckClosed, RecvWake, RecvOther, RecvWritten,
      RecvWriting, RecvError, Readable
<1>8. CASE SessionClose \/ FinishClose \/ KeepaliveNotify \/ Terminated
           \/ UNCHANGED vars
  BY <1>8
  DEF SessionClose, FinishClose, CloseStreams, NotifyAfterClose, CloseConn,
      KeepaliveNotify, Terminated, vars
<1> QED
  BY <1>1, <1>2, <1>3, <1>4, <1>5, <1>6, <1>7, <1>8
  DEF Next, RecvLoop, Connection, StreamClosed

\* What is where after cells moved to a place of a stream.
Arrived(cells, v, s) ==
    \A t \in Streams, w \in {"frame", "buffer", "read", "recycled"} :
       At(w, t)' = IF w = v /\ t = s THEN At(w, t) \cup cells
                                     ELSE At(w, t) \ cells

\* Where the cells of a stream are after some of them were moved.
LEMMA AtMoved ==
    ASSUME TypeOK, NEW cells \in SUBSET Bytes,
           NEW v \in {"frame", "buffer", "read", "recycled"}, NEW s \in Streams,
           place' = Moved(cells, <<v, s>>)
    PROVE  Arrived(cells, v, s)
<1> SUFFICES ASSUME NEW t \in Streams,
                    NEW w \in {"frame", "buffer", "read", "recycled"}
             PROVE  At(w, t)' = IF w = v /\ t = s THEN At(w, t) \cup cells
                                                  ELSE At(w, t) \ cells
  BY DEF Arrived
<1>1. \A b \in Bytes : place'[b] = IF b \in cells THEN <<v, s>> ELSE place[b]
  BY MovedCells
<1>2. <<w, t>> = <<v, s>> <=> w = v /\ t = s
  OBVIOUS
<1>3. At(w, t)' = {b \in Bytes : place'[b] = <<w, t>>}
  BY DEF At
<1> QED BY <1>1, <1>2, <1>3 DEF At

\* What is where after cells were freed.
LEMMA AtFreed ==
    ASSUME TypeOK, NEW cells \in SUBSET Bytes, place' = Moved(cells, Free)
    PROVE  \A t \in Streams, w \in {"frame", "buffer", "read", "recycled"} :
              At(w, t)' = At(w, t) \ cells
<1> SUFFICES ASSUME NEW t \in Streams,
                    NEW w \in {"frame", "buffer", "read", "recycled"}
             PROVE  At(w, t)' = At(w, t) \ cells
  OBVIOUS
<1>1. \A b \in Bytes : place'[b] = IF b \in cells THEN Free ELSE place[b]
  BY MovedCells
<1>2. At(w, t)' = {b \in Bytes : place'[b] = <<w, t>>}
  BY DEF At
<1> QED BY <1>1, <1>2, PlacesTaken DEF At

\* Bytes and table are untouched, and nobody who owns bytes moved on.
LEMMA OwnersKept ==
    ASSUME OwnInv, UNCHANGED place, streams \subseteq streams',
           recv = "push" => recv' = "push",
           \A s \in Streams : /\ reader[s] = "add" => reader'[s] = "add"
                              /\ closer[s] = "return" => closer'[s] = "return"
                              /\ Recycling(s)' => Recycling(s)
    PROVE  FrameInv' /\ TokensHaveOwners'
<1>1. \A s \in Streams, w \in {"frame", "buffer", "read", "recycled"} :
         At(w, s)' = At(w, s)
  BY DEF At
<1> QED BY <1>1 DEF OwnInv, FrameInv, TokensHaveOwners

\* Every step keeps the owners.
LEMMA OwnStep == OwnInv /\ [Next]_vars => OwnInv'
<1> SUFFICES ASSUME OwnInv, [Next]_vars PROVE FrameInv' /\ TokensHaveOwners'
  BY CountStep, LockStep DEF OwnInv, CountInv
<1> DEFINE Goal == FrameInv' /\ TokensHaveOwners'
<1>1. TypeOK /\ LockInv /\ FrameInv /\ TokensHaveOwners
  BY DEF OwnInv, CountInv
<1>2. CASE \/ RecvCheck \/ RecvCheckClosed \/ RecvWake \/ RecvOther
           \/ RecvWritten \/ RecvError \/ SessionClose \/ FinishClose
           \/ KeepaliveNotify \/ Terminated \/ UNCHANGED vars
  BY <1>2, OwnersKept
  DEF RecvCheck, RecvCheckClosed, RecvWake, RecvOther, RecvWritten,
      RecvWriting, RecvError, Readable, SessionClose, FinishClose,
      CloseStreams, NotifyAfterClose, CloseConn, KeepaliveNotify, Terminated,
      vars, Recycling
<1>3. ASSUME NEW s \in Streams, RecvSYN(s) \/ OpenStream(s) PROVE Goal
  BY <1>3, OwnersKept DEF RecvSYN, OpenStream, Readable, Recycling
<1>4. ASSUME NEW s \in Streams, NotifyAfterRead(s) \/ CloseStream(s)
      PROVE  Goal
  BY <1>1, <1>4, OwnersKept
  DEF NotifyAfterRead, CloseStream, Recycling, TypeOK
<1>5. ASSUME NEW s \in Streams, NEW data \in SUBSET Room, RecvPSH(s, data)
      PROVE  Goal
  <2>1. data \in SUBSET Bytes
    BY DEF Room
  <2>2. Arrived(data, "frame", s)
    <3>1. place' = Moved(data, <<"frame", s>>) /\ TypeOK
      BY <1>1, <1>5 DEF RecvPSH
    <3> QED BY <2>1, <3>1, AtMoved
  <2>3. \A t \in Streams : At("frame", t) = {}
    BY <1>1, <1>5 DEF RecvPSH, Readable, TokensHaveOwners
  <2>4. UNCHANGED <<streams, reader, closer>> /\ recv' = "push" /\ s \in streams
    BY <1>5 DEF RecvPSH
  <2> QED BY <1>1, <2>2, <2>3, <2>4
          DEF Arrived, FrameInv, TokensHaveOwners, Recycling
<1>6. ASSUME NEW s \in Streams, RecvPushBytes(s) PROVE Goal
  <2>1. At("frame", s) \in SUBSET Bytes
    BY DEF At
  <2>2. Arrived(At("frame", s), "buffer", s)
    <3>1. place' = Moved(At("frame", s), <<"buffer", s>>) /\ TypeOK
      BY <1>1, <1>6 DEF RecvPushBytes
    <3> QED BY <2>1, <3>1, AtMoved
  <2>3. \A t \in Streams : At("frame", t)' = {}
    BY <1>1, <1>6, <2>2 DEF Arrived, RecvPushBytes, FrameInv
  <2>4. s \in streams /\ \A t \in Streams : ~Recycling(t)
    BY <1>1, <1>6 DEF RecvPushBytes, TokensHaveOwners, LockInv
  <2>5. UNCHANGED <<streams, reader, closer>>
    BY <1>6 DEF RecvPushBytes
  <2> QED BY <1>1, <2>2, <2>3, <2>4, <2>5
          DEF Arrived, FrameInv, TokensHaveOwners, Recycling
<1>7. ASSUME NEW s \in Streams, NEW data \in SUBSET At("buffer", s),
             ReadBuffer(s, data)
      PROVE  Goal
  <2>1. data \in SUBSET Bytes
    BY DEF At
  <2>2. Arrived(data, "read", s)
    <3>1. place' = Moved(data, <<"read", s>>) /\ TypeOK
      BY <1>1, <1>7 DEF ReadBuffer
    <3> QED BY <2>1, <3>1, AtMoved
  <2>3. /\ reader'[s] = "add"
        /\ \A t \in Streams \ {s} : reader'[t] = reader[t]
        /\ UNCHANGED <<streams, closer, recv>>
    BY <1>1, <1>7 DEF ReadBuffer, TypeOK
  <2> QED BY <1>1, <2>2, <2>3 DEF Arrived, FrameInv, TokensHaveOwners, Recycling
<1>8. ASSUME NEW s \in Streams, AddTokens(s) PROVE Goal
  <2>1. At("read", s) \in SUBSET Bytes
    BY DEF At
  <2>2. \A t \in Streams, w \in {"frame", "buffer", "read", "recycled"} :
           At(w, t)' = At(w, t) \ At("read", s)
    BY <1>1, <1>8, <2>1, AtFreed DEF AddTokens
  <2>3. /\ \A t \in Streams \ {s} : reader'[t] = reader[t]
        /\ UNCHANGED <<streams, closer, recv>>
    BY <1>1, <1>8 DEF AddTokens, TypeOK
  <2> QED BY <1>1, <2>2, <2>3 DEF Arrived, FrameInv, TokensHaveOwners, Recycling
<1>9. ASSUME NEW s \in Streams, Recycle(s) PROVE Goal
  <2>1. recv # "push" /\ \A t \in Streams : At("frame", t) = {}
    BY <1>1, <1>9 DEF Recycle, LockInv, TokensHaveOwners
  <2>2. \A t \in Streams \ {s} : closer'[t] = closer[t]
    BY <1>1, <1>9 DEF Recycle, TypeOK
  <2>3. CASE At("buffer", s) = {}
    <3>1. /\ \A t \in Streams, w \in {"frame", "buffer", "read", "recycled"} :
                At(w, t)' = At(w, t)
          /\ UNCHANGED <<reader, recv>> /\ streams' = streams \ {s}
          /\ closer'[s] = "done" /\ closer[s] = "die"
      BY <1>1, <1>9, <2>3 DEF Recycle, At, TypeOK
    <3> QED BY <1>1, <2>1, <2>2, <2>3, <3>1
            DEF Arrived, FrameInv, TokensHaveOwners, Recycling
  <2>4. CASE At("buffer", s) # {}
    <3>1. At("buffer", s) \in SUBSET Bytes
      BY DEF At
    <3>2. Arrived(At("buffer", s), "recycled", s)
      <4>1. place' = Moved(At("buffer", s), <<"recycled", s>>) /\ TypeOK
        BY <1>1, <1>9, <2>4 DEF Recycle
      <4> QED BY <3>1, <4>1, AtMoved
    <3>3. UNCHANGED <<reader, recv, streams>> /\ closer'[s] = "return"
      BY <1>1, <1>9, <2>4 DEF Recycle, TypeOK
    <3> QED BY <1>1, <2>1, <2>2, <3>2, <3>3
            DEF Arrived, FrameInv, TokensHaveOwners, Recycling
  <2> QED BY <2>3, <2>4
<1>10. ASSUME NEW s \in Streams, ReturnRecycled(s) PROVE Goal
  <2>1. At("recycled", s) \in SUBSET Bytes
    BY DEF At
  <2>2. \A t \in Streams, w \in {"frame", "buffer", "read", "recycled"} :
           At(w, t)' = At(w, t) \ At("recycled", s)
    BY <1>1, <1>10, <2>1, AtFreed DEF ReturnRecycled
  <2>3. /\ \A t \in Streams \ {s} : closer'[t] = closer[t]
        /\ UNCHANGED <<reader, recv>>
        /\ streams' \in {streams, streams \ {s}}
    BY <1>1, <1>10 DEF ReturnRecycled, TypeOK
  <2>4. At("buffer", s) = {} /\ \A t \in Streams : At("frame", t) = {}
    BY <1>1, <1>10
    DEF ReturnRecycled, LockInv, FrameInv, TokensHaveOwners, Recycling
  <2> QED BY <1>1, <2>2, <2>3, <2>4
          DEF Arrived, FrameInv, TokensHaveOwners, Recycling
<1>11. ASSUME NEW s \in Streams, NotifyAfterRecycle(s) PROVE Goal
  <2>1. \A t \in Streams, w \in {"frame", "buffer", "read", "recycled"} :
           At(w, t)' = At(w, t)
    BY <1>11 DEF NotifyAfterRecycle, At
  <2>2. /\ \A t \in Streams \ {s} : closer'[t] = closer[t]
        /\ closer[s] = "notify" /\ closer'[s] = "done"
        /\ UNCHANGED <<reader, recv>>
        /\ streams' = streams \ {s}
    BY <1>1, <1>11 DEF NotifyAfterRecycle, TypeOK
  <2>3. At("buffer", s) = {} /\ \A t \in Streams : At("frame", t) = {}
    BY <1>1, <2>2 DEF LockInv, FrameInv, TokensHaveOwners, Recycling
  <2> QED BY <1>1, <2>1, <2>2, <2>3
          DEF Arrived, FrameInv, TokensHaveOwners, Recycling
<1> QED
  BY <1>2, <1>3, <1>4, <1>5, <1>6, <1>7, <1>8, <1>9, <1>10, <1>11
  DEF Next, RecvLoop, Connection, ReturnTokens, StreamClosed

\* Every byte held belongs to a thread, or to a stream in the table, that can
\* still return its token: no push slips in behind recycleTokens.
THEOREM OwnersKnown == Safety => []TokensHaveOwners
<1>1. OwnInv => TokensHaveOwners
  BY DEF OwnInv
<1> QED BY <1>1, OwnInit, OwnStep, PTL DEF Safety
=============================================================================
