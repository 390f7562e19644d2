--------------------------- MODULE StreamFlowProofs ---------------------------
(***************************************************************************)
(* Proofs about StreamFlow, for every size of the buffers and of the       *)
(* connection, whoever writes and whatever is guessed.                     *)
(***************************************************************************)
EXTENDS StreamFlow, TLAPS

\* Read holds chunks only until returnTokens has counted them.
TakenInv == \A e \in Ends : reader[e] # "return" => taken[e] = 0

\* The inductive invariant: StreamTokens is not preserved by a Read that starts
\* while chunks of the last one are still uncounted, which TakenInv rules out.
FlowInv == TypeOK /\ TakenInv /\ StreamTokens

\* Every session starts with an idle stream and an empty bucket at both ends.
LEMMA InitFlow == Init => FlowInv
BY FlowSizes DEF Init, FlowInv, TypeOK, TakenInv, StreamTokens

\* A frame put on the connection leaves it typed and within its capacity.
LEMMA PutTyped ==
    ASSUME NEW e, NEW f \in {"PSH", "FUL", "EMP"}, Put(e, f),
           wire \in [Ends -> Seq({"PSH", "FUL", "EMP"})],
           \A x \in Ends : Len(wire[x]) <= Capacity
    PROVE  /\ wire' \in [Ends -> Seq({"PSH", "FUL", "EMP"})]
           /\ \A x \in Ends : Len(wire'[x]) <= Capacity
<1> DEFINE p == Peer(e)
<1>1. /\ Len(wire[p]) < Capacity
      /\ wire' = [wire EXCEPT ![p] = Append(@, f)]
  BY DEF Put
<1> HIDE DEF p
<1>2. ASSUME p \in Ends PROVE Append(wire[p], f) \in Seq({"PSH", "FUL", "EMP"})
                            /\ Len(Append(wire[p], f)) <= Capacity
  BY <1>1, <1>2, FlowSizes
<1> QED
  BY <1>1, <1>2

\* No step of Write, recvLoop or Read, at either end, breaks the invariant.
LEMMA NextFlow == FlowInv /\ [Next]_vars => FlowInv'
<1> SUFFICES ASSUME FlowInv, [Next]_vars PROVE FlowInv'
  OBVIOUS
<1> USE FlowSizes DEF FlowInv, TypeOK, TakenInv, StreamTokens, receiving, sending
<1>1. CASE UNCHANGED vars
  BY <1>1 DEF vars
<1>2. ASSUME NEW e \in Ends, WriteStart(e) PROVE FlowInv'
  BY <1>2 DEF WriteStart
<1>3. ASSUME NEW e \in Ends, WriteWake(e) PROVE FlowInv'
  BY <1>3 DEF WriteWake
<1>4. ASSUME NEW e \in Ends, WriteSend(e) PROVE FlowInv'
  BY <1>4, PutTyped DEF WriteSend
<1>5. ASSUME NEW e \in Ends, RecvPSH(e) PROVE FlowInv'
  <2>0. bucket[e] = buffer[e] + taken[e] - (IF recv[e] = "add" THEN 1 ELSE 0)
    OBVIOUS
  <2> USE <1>5 DEF RecvPSH, Handling
  <2>1. wire' \in [Ends -> Seq({"PSH", "FUL", "EMP"})]
        /\ \A x \in Ends : Len(wire'[x]) <= Capacity
    OBVIOUS
  <2>2. buffer' \in [Ends -> 0 .. MaxReceiveBuffer]
    OBVIOUS
  <2>3. recv' \in [Ends -> {"frame", "add", "pause", "FUL", "clear"}]
    OBVIOUS
  <2>4. ASSUME NEW x \in Ends
        PROVE  bucket'[x] = buffer'[x] + taken'[x]
                              - (IF recv'[x] = "add" THEN 1 ELSE 0)
    <3>1. CASE x = e
      <4>1. /\ recv[e] = "frame" /\ recv'[e] = "add"
            /\ buffer'[e] = buffer[e] + 1
        OBVIOUS
      <4>2. bucket'[e] = bucket[e] /\ taken'[e] = taken[e]
        OBVIOUS
      <4>3. buffer[e] \in Int /\ taken[e] \in Int
        OBVIOUS
      <4>4. bucket[e] = buffer[e] + taken[e]
        BY ONLY <2>0, <4>1, <4>3
      <4> QED
        BY Z3, <3>1, <4>1, <4>2, <4>3, <4>4
    <3>2. CASE x # e
      BY <3>2
    <3> QED
      BY <3>1, <3>2
  <2> QED
    BY <2>1, <2>2, <2>3, <2>4
<1>6. ASSUME NEW e \in Ends, RecvAdd(e) PROVE FlowInv'
  <2> USE <1>6 DEF RecvAdd
  <2>1. bucket' \in [Ends -> Int]
    OBVIOUS
  <2>2. recv' \in [Ends -> {"frame", "add", "pause", "FUL", "clear"}]
        /\ recv'[e] # "add" /\ \A x \in Ends \ {e} : recv'[x] = recv[x]
    OBVIOUS
  <2>3. ASSUME NEW x \in Ends
        PROVE  bucket'[x] = buffer'[x] + taken'[x]
                              - (IF recv'[x] = "add" THEN 1 ELSE 0)
    <3>1. CASE x = e
      BY <2>2, <3>1
    <3>2. CASE x # e
      BY <2>2, <3>2
    <3> QED
      BY <3>1, <3>2
  <2> QED
    BY <2>1, <2>2, <2>3
<1>7. ASSUME NEW e \in Ends, SendPause(e) PROVE FlowInv'
  BY <1>7 DEF SendPause
<1>8. ASSUME NEW e \in Ends, PutFUL(e) PROVE FlowInv'
  BY <1>8, PutTyped DEF PutFUL
<1>9. ASSUME NEW e \in Ends, RecvFUL(e) PROVE FlowInv'
  BY <1>9 DEF RecvFUL, Handling
<1>10. ASSUME NEW e \in Ends, RecvEMP(e) PROVE FlowInv'
  BY <1>10 DEF RecvEMP, Handling
<1>11. ASSUME NEW e \in Ends, RecvClear(e) PROVE FlowInv'
  BY <1>11 DEF RecvClear
<1>12. ASSUME NEW e \in Ends, ReadBuffer(e) PROVE FlowInv'
  <2> USE <1>12 DEF ReadBuffer
  <2>1. taken[e] = 0
    OBVIOUS
  <2>2. PICK n \in 1 .. buffer[e] :
            /\ buffer' = [buffer EXCEPT ![e] = @ - n]
            /\ taken' = [taken EXCEPT ![e] = n]
    OBVIOUS
  <2>3. /\ buffer' \in [Ends -> 0 .. MaxReceiveBuffer]
        /\ taken' \in [Ends -> 0 .. MaxReceiveBuffer]
    BY <2>2
  <2>4. /\ reader' \in [Ends -> {"idle", "return", "resume", "EMP"}]
        /\ \A x \in Ends : reader'[x] # "return" => taken'[x] = 0
    BY <2>2
  <2>5. ASSUME NEW x \in Ends
        PROVE  bucket'[x] = buffer'[x] + taken'[x]
                              - (IF recv'[x] = "add" THEN 1 ELSE 0)
    <3>1. CASE x = e
      <4>1. buffer'[x] = buffer[x] - n /\ taken'[x] = n
        BY <2>2, <3>1
      <4> QED
        BY <2>1, <3>1, <4>1
    <3>2. CASE x # e
      <4>1. buffer'[x] = buffer[x] /\ taken'[x] = taken[x]
        BY <2>2, <3>2
      <4> QED
        BY <4>1
    <3> QED
      BY <3>1, <3>2
  <2> QED
    BY <2>3, <2>4, <2>5
<1>13. ASSUME NEW e \in Ends, ReturnTokens(e) PROVE FlowInv'
  <2> USE <1>13 DEF ReturnTokens
  <2>1. bucket' \in [Ends -> Int]
    OBVIOUS
  <2>2. taken' \in [Ends -> 0 .. MaxReceiveBuffer]
    OBVIOUS
  <2>3. /\ reader' \in [Ends -> {"idle", "return", "resume", "EMP"}]
        /\ \A x \in Ends : reader'[x] # "return" => taken'[x] = 0
    BY ZenonT(40)
  <2>4. \A x \in Ends : bucket'[x] - taken'[x] = bucket[x] - taken[x]
    OBVIOUS
  <2> QED
    BY SMTT(30), <2>1, <2>2, <2>3, <2>4
<1>14. ASSUME NEW e \in Ends, SendResume(e) PROVE FlowInv'
  BY <1>14 DEF SendResume
<1>15. ASSUME NEW e \in Ends, PutEMP(e) PROVE FlowInv'
  BY <1>15, PutTyped DEF PutEMP
<1> QED
  BY <1>1, <1>2, <1>3, <1>4, <1>5, <1>6, <1>7, <1>8, <1>9, <1>10, <1>11,
     <1>12, <1>13, <1>14, <1>15 DEF Next, Write, RecvLoop, Read

-----------------------------------------------------------------------------
\* The inductive invariant holds in every reachable state of the flow control.
THEOREM FlowInvariant == Spec => []FlowInv
<1> QED
  BY InitFlow, NextFlow, PTL DEF Spec

\* Every variable of the flow control keeps its type: no more frames on the
\* connection than it holds, no more chunks in a buffer than the session's
\* tokens pay for.
THEOREM FlowTyped == Spec => []TypeOK
<1>1. FlowInv => TypeOK
  BY DEF FlowInv
<1> QED
  BY <1>1, FlowInvariant, PTL

\* The stream's bucket is what the buffer holds, however pushBytes and
\* returnTokens interleave.
THEOREM StreamTokensExact == Spec => []StreamTokens
<1>1. FlowInv => StreamTokens
  BY DEF FlowInv
<1> QED
  BY <1>1, FlowInvariant, PTL
===============================================================================
