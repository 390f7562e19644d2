---------------------------- MODULE KeepaliveProofs ----------------------------
(***************************************************************************)
(* Proofs about Keepalive, for any sizes, tokens, pings to a timeout and   *)
(* scenarios.                                                              *)
(***************************************************************************)
EXTENDS Keepalive, SequenceTheorems, FiniteSetTheorems, TLAPS

\* The other end has a ping to send, or will have at once.
Coming(e) == "NOP" \in pend[Peer(e)] \/ "ping" \in due[Peer(e)]

\* One end: while the link is up and the peer not closed, a tick after the last timeout
\* a frame of the peer has come, or waits, or is about to; after a second one it has
\* come or waits.
EndAlive(e) ==
    link = "up" /\ ~die[Peer(e)] /\ since[e] >= 1 =>
        dataReady[e] \/ conn[e] # <<>> \/ (since[e] = 1 /\ Coming(e))

\* The inductive invariant.
AliveInv == TypeOK /\ \A e \in Ends : EndAlive(e)

-----------------------------------------------------------------------------
\* There are two ends.
LEMMA PeerFacts ==
    \A e \in Ends : /\ Peer(e) \in Ends /\ Peer(e) # e /\ Peer(Peer(e)) = e
                    /\ \A x \in Ends : x = e \/ x = Peer(e)
<1>1. ASSUME NEW e \in Ends
      PROVE  \E p : p # e /\ Ends = {e, p}
  <2>1. IsFiniteSet(Ends \ {e}) /\ Cardinality(Ends \ {e}) = 1
    BY TwoEnds, FS_RemoveElement
  <2>2. PICK p : Ends \ {e} = {p}
    BY <2>1, FS_Singleton
  <2> QED
    BY <2>2
<1> QED
  BY <1>1 DEF Peer

\* The PSH frames among some.
Data(frames) == {i \in DOMAIN frames : frames[i] = "PSH"}

\* There are finitely many.
LEMMA DataFinite ==
    ASSUME NEW q \in Seq(Cmds)
    PROVE  IsFiniteSet(Data(q)) /\ Cardinality(Data(q)) \in Nat
<1>1. DOMAIN q = 1 .. Len(q) /\ Len(q) \in Nat
  BY LenProperties
<1>2. IsFiniteSet(1 .. Len(q))
  BY <1>1, FS_Interval
<1>3. IsFiniteSet(Data(q))
  BY <1>1, <1>2, FS_Subset DEF Data
<1> QED
  BY <1>3, FS_CardinalityType

\* A frame at the end takes its size.
LEMMA UsedAppend ==
    ASSUME NEW q \in Seq(Cmds), NEW cmd \in Cmds
    PROVE  /\ Append(q, cmd) \in Seq(Cmds)
           /\ Used(Append(q, cmd)) = Used(q) + Size(cmd)
<1> DEFINE p == Append(q, cmd)
<1>1. /\ p \in Seq(Cmds) /\ Len(p) = Len(q) + 1 /\ Len(q) \in Nat
      /\ DOMAIN q = 1 .. Len(q) /\ DOMAIN p = 1 .. Len(q) + 1
      /\ p[Len(q) + 1] = cmd
      /\ \A i \in DOMAIN q : p[i] = q[i]
  BY AppendProperties, LenProperties
<1> HIDE DEF p
<1>2. Chunk \in Nat
  BY SizesNat
<1>3. IsFiniteSet(Data(q)) /\ Cardinality(Data(q)) \in Nat
  BY DataFinite
<1>4. CASE cmd = "PSH"
  <2>1. Data(p) = Data(q) \cup {Len(q) + 1} /\ Len(q) + 1 \notin Data(q)
    BY <1>1, <1>4 DEF Data
  <2>2. Cardinality(Data(p)) = Cardinality(Data(q)) + 1
    BY <1>3, <2>1, FS_AddElement
  <2>3. (Chunk - 1) * (Cardinality(Data(q)) + 1) = (Chunk - 1) * Cardinality(Data(q)) + (Chunk - 1)
    BY <1>2, <1>3
  <2>4. (Chunk - 1) * Cardinality(Data(q)) \in Int
    BY <1>2, <1>3
  <2>5. Used(p) = Len(q) + 1 + ((Chunk - 1) * Cardinality(Data(q)) + (Chunk - 1))
    BY <1>1, <2>2, <2>3 DEF Used, Data
  <2>6. Used(q) = Len(q) + (Chunk - 1) * Cardinality(Data(q)) /\ Size(cmd) = Chunk
    BY <1>4 DEF Used, Data, Size
  <2> QED
    BY <1>1, <1>2, <2>4, <2>5, <2>6 DEF p
<1>5. CASE cmd # "PSH"
  <2>1. Data(p) = Data(q)
    BY <1>1, <1>5 DEF Data
  <2>2. (Chunk - 1) * Cardinality(Data(q)) \in Int
    BY <1>2, <1>3
  <2>3. /\ Used(p) = Len(q) + 1 + (Chunk - 1) * Cardinality(Data(q))
        /\ Used(q) = Len(q) + (Chunk - 1) * Cardinality(Data(q)) /\ Size(cmd) = 1
    BY <1>1, <1>5, <2>1 DEF Used, Data, Size
  <2> QED
    BY <1>1, <2>2, <2>3 DEF p
<1> QED
  BY <1>4, <1>5

\* What is left when the first frame is read takes no more than before.
LEMMA UsedTail ==
    ASSUME NEW q \in Seq(Cmds), q # <<>>
    PROVE  /\ Tail(q) \in Seq(Cmds) /\ Head(q) \in Cmds
           /\ Used(Tail(q)) <= Used(q)
           /\ Used(q) \in Int /\ Used(Tail(q)) \in Int
<1> DEFINE p == Tail(q)
<1>1. /\ p \in Seq(Cmds) /\ Head(q) \in Cmds /\ Len(p) = Len(q) - 1 /\ Len(q) \in Nat
      /\ Len(p) \in Nat
      /\ \A i \in DOMAIN p : i + 1 \in DOMAIN q /\ p[i] = q[i + 1] /\ i \in Nat
  BY HeadTailProperties, LenProperties
<1> HIDE DEF p
<1>2. Chunk - 1 \in Nat
  BY SizesNat
<1>3. /\ IsFiniteSet(Data(q)) /\ Cardinality(Data(q)) \in Nat
      /\ IsFiniteSet(Data(p)) /\ Cardinality(Data(p)) \in Nat
  BY <1>1, DataFinite
<1>4. Cardinality(Data(p)) <= Cardinality(Data(q))
  <2> DEFINE f == [i \in Data(p) |-> i + 1]
  <2>1. f \in Injection(Data(p), Data(q))
    <3>1. \A i \in Data(p) : i + 1 \in Data(q) /\ i \in Nat
      BY <1>1 DEF Data
    <3>2. \A i, j \in Data(p) : i + 1 = j + 1 => i = j
      BY <3>1
    <3> QED
      BY <3>1, <3>2 DEF Injection, IsInjective
  <2> HIDE DEF f
  <2> QED
    BY <1>3, <2>1, FS_Injection
<1>5. /\ (Chunk - 1) * Cardinality(Data(p)) <= (Chunk - 1) * Cardinality(Data(q))
      /\ (Chunk - 1) * Cardinality(Data(p)) \in Int
      /\ (Chunk - 1) * Cardinality(Data(q)) \in Int
  BY <1>2, <1>3, <1>4
<1>6. /\ Used(p) = Len(p) + (Chunk - 1) * Cardinality(Data(p))
      /\ Used(q) = Len(q) + (Chunk - 1) * Cardinality(Data(q))
  BY DEF Used, Data
<1> QED
  BY <1>1, <1>5, <1>6 DEF p

\* An empty connection has room for a ping.
LEMMA UsedEmpty == <<>> \in Seq(Cmds) /\ Used(<<>>) = 0
<1>1. <<>> \in Seq(Cmds) /\ Len(<<>>) = 0 /\ DOMAIN <<>> = {}
  BY EmptySeq
<1>2. Data(<<>>) = {}
  BY <1>1 DEF Data
<1>3. Cardinality({}) = 0 /\ (Chunk - 1) * 0 = 0
  BY FS_EmptySet, SizesNat
<1> QED
  BY <1>1, <1>2, <1>3 DEF Used, Data

-----------------------------------------------------------------------------
\* At the start each end has a ping to send.
LEMMA AliveInit ==
    ASSUME Init
    PROVE  AliveInv
<1>1. Tokens \in Nat /\ Pings \in Nat \ {0} /\ Capacity \in Nat
  BY SizesNat
<1>2. /\ conn \in [Ends -> Seq(Cmds)] /\ \A e \in Ends : Used(conn[e]) <= Capacity
  BY <1>1, UsedEmpty DEF Init
<1>3. pend \in [Ends -> SUBSET Cmds] /\ due \in [Ends -> SUBSET {"ping", "timeout"}]
  BY DEF Init, Cmds
<1>4. /\ reading \in [Ends -> BOOLEAN] /\ dataReady \in [Ends -> BOOLEAN]
      /\ die \in [Ends -> BOOLEAN]
  BY DEF Init
<1>5. /\ held \in [Ends -> 0 .. Tokens] /\ since \in [Ends -> 0 .. Pings]
      /\ tick \in 0 .. Pings - 1
  BY <1>1 DEF Init
<1>6. scenario \in Scenarios /\ link \in {"up", "cut", "closed"} /\ wrote \in [Ends -> Nat]
  BY DEF Init
<1>7. TypeOK
  BY <1>2, <1>3, <1>4, <1>5, <1>6 DEF TypeOK
<1>8. \A e \in Ends : EndAlive(e)
  BY DEF Init, EndAlive
<1> QED
  BY <1>7, <1>8 DEF AliveInv

\* A frame gets on its way, and a ping is no longer to come but there; on a closed
\* connection it is gone.
LEMMA SendKeeps ==
    ASSUME AliveInv, NEW e \in Ends, NEW cmd \in Cmds, Send(e, cmd)
    PROVE  AliveInv'
<1> DEFINE p == Peer(e)
<1> DEFINE q == conn[p]
<1>1. p \in Ends /\ p # e /\ q \in Seq(Cmds)
  BY PeerFacts DEF AliveInv, TypeOK
<1>2. pend' \in [Ends -> SUBSET Cmds]
  BY DEF AliveInv, TypeOK, Send
<1>3. CASE link = "closed"
  <2>1. UNCHANGED conn /\ link' = "closed"
    BY <1>3 DEF Send
  <2>2. TypeOK'
    BY <1>2, <2>1 DEF AliveInv, TypeOK, Send
  <2> QED
    BY <2>1, <2>2 DEF AliveInv, EndAlive
<1>4. CASE link # "closed"
  <2>1. Used(q) + Size(cmd) <= Capacity
    BY <1>4 DEF Send, CanSend, Room
  <2>2. Append(q, cmd) \in Seq(Cmds) /\ Used(Append(q, cmd)) <= Capacity
    BY <1>1, <2>1, UsedAppend
  <2>3. Append(q, cmd) # <<>>
    BY <1>1
  <2>4. conn' = [conn EXCEPT ![p] = Append(q, cmd)]
    BY <1>4 DEF Send
  <2> HIDE DEF p, q
  <2>5. /\ conn'[p] # <<>> /\ \A x \in Ends : x # p => conn'[x] = conn[x]
        /\ conn' \in [Ends -> Seq(Cmds)] /\ \A x \in Ends : Used(conn'[x]) <= Capacity
    BY <1>1, <2>2, <2>3, <2>4 DEF AliveInv, TypeOK
  <2>6. TypeOK'
    BY <1>2, <2>5 DEF AliveInv, TypeOK, Send
  <2>7. ASSUME NEW x \in Ends PROVE EndAlive(x)'
    <3>1. UNCHANGED <<die, link, since, dataReady, due>>
      BY DEF Send
    <3>2. CASE x = p
      BY <2>5, <3>1, <3>2 DEF AliveInv, EndAlive
    <3>3. CASE x # p
      <4>1. Peer(x) \in Ends /\ Peer(x) # e
        BY <3>3, PeerFacts DEF p
      <4>2. pend'[Peer(x)] = pend[Peer(x)]
        BY <4>1 DEF AliveInv, TypeOK, Send
      <4> QED
        BY <2>5, <3>1, <3>3, <4>2 DEF AliveInv, EndAlive, Coming
    <3> QED
      BY <3>2, <3>3
  <2> QED
    BY <2>6, <2>7 DEF AliveInv
<1> QED
  BY <1>3, <1>4

\* A frame is read, and dataReady says so.
LEMMA RecvKeeps ==
    ASSUME AliveInv, NEW e \in Ends, Recv(e)
    PROVE  AliveInv'
<1> DEFINE q == conn[e]
<1>1. q \in Seq(Cmds) /\ q # <<>> /\ Used(q) <= Capacity
  BY DEF AliveInv, TypeOK, Recv, CanRecv
<1>2. Tail(q) \in Seq(Cmds) /\ Used(Tail(q)) <= Capacity
  BY <1>1, UsedTail, SizesNat
<1>3. conn' = [conn EXCEPT ![e] = Tail(q)]
  BY DEF Recv
<1> HIDE DEF q
<1>4. /\ \A x \in Ends : x # e => conn'[x] = conn[x]
      /\ conn' \in [Ends -> Seq(Cmds)] /\ \A x \in Ends : Used(conn'[x]) <= Capacity
  BY <1>2, <1>3 DEF AliveInv, TypeOK
<1>5. held' \in [Ends -> 0 .. Tokens]
  <2>1. held[e] \in 0 .. Tokens /\ Tokens \in Nat /\ (~die[e] => held[e] < Tokens)
    BY SizesNat DEF AliveInv, TypeOK, Recv, CanRecv
  <2>2. ~die[e] => held[e] + 1 \in 0 .. Tokens
    BY <2>1
  <2>3. \/ ~die[e] /\ held' = [held EXCEPT ![e] = held[e] + 1]
        \/ held' = [held EXCEPT ![e] = held[e]]
    BY DEF Recv
  <2> QED
    BY <2>1, <2>2, <2>3 DEF AliveInv, TypeOK
<1>6. pend' \in [Ends -> SUBSET Cmds] /\ \A x \in Ends : pend[x] \subseteq pend'[x]
  <2>1. PICK more \in SUBSET Cmds : pend' = [pend EXCEPT ![e] = pend[e] \cup more]
    <3>1. Answers(e) \subseteq SUBSET Cmds
      BY DEF Answers, Cmds
    <3>2. \E more \in Answers(e) : pend' = [pend EXCEPT ![e] = pend[e] \cup more]
      BY DEF Recv
    <3> QED
      BY <3>1, <3>2
  <2>2. pend \in [Ends -> SUBSET Cmds]
    BY DEF AliveInv, TypeOK
  <2> QED
    BY <2>1, <2>2
<1>7. /\ dataReady' \in [Ends -> BOOLEAN] /\ dataReady'[e]
      /\ \A x \in Ends : dataReady[x] => dataReady'[x]
  BY DEF AliveInv, TypeOK, Recv
<1>8. TypeOK'
  BY <1>4, <1>5, <1>6, <1>7 DEF AliveInv, TypeOK, Recv
<1>9. ASSUME NEW x \in Ends PROVE EndAlive(x)'
  <2>1. UNCHANGED <<die, link, since, due>>
    BY DEF Recv
  <2>2. CASE x = e
    BY <1>7, <2>1, <2>2 DEF AliveInv, EndAlive
  <2>3. CASE x # e
    <3>1. Coming(x) => Coming(x)'
      BY <1>6, <2>1, PeerFacts DEF Coming
    <3> QED
      BY <1>4, <1>7, <2>1, <2>3, <3>1 DEF AliveInv, EndAlive
  <2> QED
    BY <2>2, <2>3
<1> QED
  BY <1>8, <1>9 DEF AliveInv

\* Reading gives a token back.
LEMMA ReadKeeps ==
    ASSUME AliveInv, NEW e \in Ends, Read(e)
    PROVE  AliveInv'
<1>1. held[e] \in 0 .. Tokens /\ held[e] > 0 /\ Tokens \in Nat
  BY SizesNat DEF AliveInv, TypeOK, Read, CanRead
<1>2. held[e] - 1 \in 0 .. Tokens
  BY <1>1
<1>3. held' \in [Ends -> 0 .. Tokens]
  BY <1>2 DEF AliveInv, TypeOK, Read
<1>4. TypeOK'
  BY <1>3 DEF AliveInv, TypeOK, Read
<1> QED
  BY <1>4 DEF AliveInv, EndAlive, Coming, Read

\* The ping that was due is to be sent.
LEMMA PingKeeps ==
    ASSUME AliveInv, NEW e \in Ends, Ping(e)
    PROVE  AliveInv'
<1>1. /\ due' = [due EXCEPT ![e] = due[e] \ {"ping"}]
      /\ pend' = [pend EXCEPT ![e] = pend[e] \cup {"NOP"}]
      /\ UNCHANGED <<scenario, link, conn, held, reading, dataReady, die, tick, wrote, since>>
  BY DEF Ping
<1>2. /\ due' \in [Ends -> SUBSET {"ping", "timeout"}] /\ pend' \in [Ends -> SUBSET Cmds]
      /\ "NOP" \in pend'[e]
      /\ \A x \in Ends : x # e => due'[x] = due[x] /\ pend'[x] = pend[x]
  BY <1>1 DEF AliveInv, TypeOK, Cmds
<1>3. TypeOK'
  BY <1>1, <1>2 DEF AliveInv, TypeOK
<1>4. \A x \in Ends : Coming(x) => Coming(x)'
  BY <1>2, PeerFacts DEF Coming
<1> QED
  BY <1>1, <1>3, <1>4 DEF AliveInv, EndAlive

\* A close begins at one end, and an end that is closed stays so.
LEMMA CloseFacts ==
    ASSUME TypeOK, NEW e \in Ends, Close(e) \/ UNCHANGED die
    PROVE  /\ die' \in [Ends -> BOOLEAN]
           /\ \A x \in Ends : die[x] => die'[x]
           /\ \A x \in Ends : x # e => die'[x] = die[x]
BY DEF TypeOK, Close

\* The timeout closes the session, or begins to count again.
LEMMA TimeoutKeeps ==
    ASSUME AliveInv, NEW e \in Ends, Timeout(e)
    PROVE  AliveInv'
<1>1. /\ due' = [due EXCEPT ![e] = due[e] \ {"timeout"}]
      /\ dataReady' = [dataReady EXCEPT ![e] = FALSE]
      /\ since' = [since EXCEPT ![e] = 0]
      /\ UNCHANGED <<scenario, link, conn, held, reading, pend, tick, wrote>>
      /\ Close(e) \/ UNCHANGED die
  BY DEF Timeout
<1>2. die' \in [Ends -> BOOLEAN] /\ \A x \in Ends : die[x] => die'[x]
  BY <1>1, CloseFacts DEF AliveInv
<1>3. Pings \in Nat
  BY SizesNat
<1>4. /\ due' \in [Ends -> SUBSET {"ping", "timeout"}] /\ dataReady' \in [Ends -> BOOLEAN]
      /\ since' \in [Ends -> 0 .. Pings] /\ since'[e] = 0
      /\ \A x \in Ends : x # e => since'[x] = since[x] /\ dataReady'[x] = dataReady[x]
      /\ \A x \in Ends : "ping" \in due[x] => "ping" \in due'[x]
  BY <1>1, <1>3 DEF AliveInv, TypeOK
<1>5. TypeOK'
  BY <1>1, <1>2, <1>4 DEF AliveInv, TypeOK
<1>6. \A x \in Ends : Coming(x) => Coming(x)'
  BY <1>1, <1>4, PeerFacts DEF Coming
<1>7. ASSUME NEW x \in Ends PROVE EndAlive(x)'
  <2>1. CASE x = e
    BY <1>4, <2>1 DEF EndAlive
  <2>2. CASE x # e
    BY <1>1, <1>2, <1>4, <1>6, <2>2, PeerFacts DEF AliveInv, EndAlive
  <2> QED
    BY <2>1, <2>2
<1> QED
  BY <1>5, <1>7 DEF AliveInv

\* The peer's close is noticed.
LEMMA NoticeKeeps ==
    ASSUME AliveInv, NEW e \in Ends, Notice(e)
    PROVE  AliveInv'
<1>1. die' \in [Ends -> BOOLEAN]
  BY CloseFacts DEF AliveInv, Notice
<1>2. TypeOK' /\ link' = "closed"
  BY <1>1 DEF AliveInv, TypeOK, Notice, CanNotice
<1> QED
  BY <1>2 DEF AliveInv, EndAlive

\* A connection that is closed is not up.
LEMMA CloseConnKeeps ==
    ASSUME AliveInv, NEW e \in Ends, CloseConn(e)
    PROVE  AliveInv'
<1>1. TypeOK' /\ link' = "closed"
  BY DEF AliveInv, TypeOK, CloseConn
<1> QED
  BY <1>1 DEF AliveInv, EndAlive

\* Time passes: by now every ping that was to come has come, and the next is due.
LEMMA TickKeeps ==
    ASSUME AliveInv, Tick
    PROVE  AliveInv'
<1>1. /\ due' = [e \in Ends |-> due[e] \cup {"ping"} \cup
                                (IF tick' = 0 THEN {"timeout"} ELSE {})]
      /\ tick' = (tick + 1) % Pings
      /\ reading' \in [Ends -> BOOLEAN] /\ wrote' = [e \in Ends |-> 0]
      /\ since' = [e \in Ends |-> IF since[e] < Pings THEN since[e] + 1 ELSE Pings]
      /\ UNCHANGED <<scenario, link, conn, held, pend, dataReady, die>>
  BY DEF Tick
<1>2. Pings \in Nat \ {0} /\ Capacity \in Nat \ {0}
  BY SizesNat
<1>3. /\ due' \in [Ends -> SUBSET {"ping", "timeout"}]
      /\ \A e \in Ends : "ping" \in due'[e]
  BY <1>1 DEF AliveInv, TypeOK
<1>4. tick' \in 0 .. Pings - 1
  BY <1>1, <1>2 DEF AliveInv, TypeOK
<1>5. /\ since' \in [Ends -> 0 .. Pings]
      /\ \A e \in Ends : since'[e] >= 1 /\ (since'[e] # 1 => since[e] >= 1)
  <2> DEFINE later(n) == IF n < Pings THEN n + 1 ELSE Pings
  <2>1. \A n \in 0 .. Pings :
           later(n) \in 0 .. Pings /\ later(n) >= 1 /\ (later(n) # 1 => n >= 1)
    BY <1>2
  <2>2. since' = [e \in Ends |-> later(since[e])]
    BY <1>1
  <2>3. \A e \in Ends : since[e] \in 0 .. Pings
    BY DEF AliveInv, TypeOK
  <2> HIDE DEF later
  <2> QED
    BY <2>1, <2>2, <2>3
<1>6. TypeOK'
  BY <1>1, <1>3, <1>4, <1>5 DEF AliveInv, TypeOK
<1>7. ASSUME NEW e \in Ends, ~die[Peer(e)], Coming(e), conn[e] = <<>> PROVE FALSE
  <2>1. Peer(e) \in Ends /\ Peer(Peer(e)) = e
    BY PeerFacts
  <2>2. ~die[Peer(e)]
    BY <1>7
  <2>3. Room(Peer(e), "NOP")
    BY <1>2, <1>7, <2>1, UsedEmpty DEF Room, Size
  <2>4. CASE "NOP" \in pend[Peer(e)]
    <3>1. CanSend(Peer(e), "NOP") /\ "NOP" \in Cmds
      BY <2>2, <2>3, <2>4 DEF CanSend, Cmds
    <3> QED
      BY <2>1, <2>2, <3>1 DEF Tick
  <2>5. CASE "NOP" \notin pend[Peer(e)]
    <3>1. CanWake(Peer(e))
      BY <1>7, <2>2, <2>5 DEF Coming, CanWake
    <3> QED
      BY <2>1, <3>1 DEF Tick
  <2> QED
    BY <2>4, <2>5
<1>8. ASSUME NEW e \in Ends PROVE EndAlive(e)'
  <2>1. Coming(e)'
    BY <1>3, PeerFacts DEF Coming
  <2>2. ASSUME link = "up", ~die[Peer(e)], since'[e] # 1 PROVE dataReady[e] \/ conn[e] # <<>>
    BY <1>5, <1>7, <2>2 DEF AliveInv, EndAlive
  <2> QED
    BY <1>1, <2>1, <2>2 DEF AliveInv, EndAlive
<1> QED
  BY <1>6, <1>8 DEF AliveInv

\* Users write, and the link is cut.
LEMMA WriteKeeps ==
    ASSUME AliveInv, NEW e \in Ends, Write(e)
    PROVE  AliveInv'
<1>1. /\ pend' = [pend EXCEPT ![e] = pend[e] \cup {"PSH"}] /\ wrote' \in [Ends -> Nat]
      /\ UNCHANGED <<scenario, link, conn, held, reading, due, dataReady, die, tick, since>>
  BY DEF AliveInv, TypeOK, Write
<1>2. /\ pend' \in [Ends -> SUBSET Cmds] /\ \A x \in Ends : pend[x] \subseteq pend'[x]
  BY <1>1 DEF AliveInv, TypeOK, Cmds
<1>3. TypeOK'
  BY <1>1, <1>2 DEF AliveInv, TypeOK
<1>4. \A x \in Ends : Coming(x) => Coming(x)'
  BY <1>1, <1>2, PeerFacts DEF Coming
<1> QED
  BY <1>1, <1>3, <1>4 DEF AliveInv, EndAlive

\* A link that is cut is not up.
LEMMA CutKeeps ==
    ASSUME AliveInv, Cut
    PROVE  AliveInv'
<1>1. TypeOK' /\ link' # "up"
  BY DEF AliveInv, TypeOK, Cut
<1> QED
  BY <1>1 DEF AliveInv, EndAlive

\* Every step keeps the invariant.
LEMMA AliveNext ==
    ASSUME AliveInv, [Next]_vars
    PROVE  AliveInv'
<1>1. ASSUME NEW e \in Ends, Session(e) PROVE AliveInv'
  BY <1>1, SendKeeps, RecvKeeps, ReadKeeps, PingKeeps, TimeoutKeeps, NoticeKeeps,
     CloseConnKeeps
  DEF Session
<1>2. ASSUME NEW e \in Ends, Write(e) PROVE AliveInv'
  BY <1>2, WriteKeeps
<1>3. CASE Tick
  BY <1>3, TickKeeps
<1>4. CASE Cut
  BY <1>4, CutKeeps
<1>5. CASE UNCHANGED vars
  BY <1>5 DEF AliveInv, TypeOK, EndAlive, Coming, vars
<1> QED
  BY <1>1, <1>2, <1>3, <1>4, <1>5 DEF Next

\* The inductive invariant holds in every state of every behaviour.
THEOREM AliveInvariant == Spec => []AliveInv
<1>1. Init => AliveInv
  BY AliveInit
<1>2. AliveInv /\ [Next]_vars => AliveInv'
  BY AliveNext
<1> QED
  BY <1>1, <1>2, PTL DEF Spec

\* Every variable keeps its type; so the connection never holds more than it takes,
\* and recvLoop never has more than its tokens pay for.
THEOREM KeepaliveTyped == Spec => []TypeOK
<1>1. AliveInv => TypeOK
  BY DEF AliveInv
<1> QED
  BY <1>1, AliveInvariant, PTL

\* Over a link that works, to a peer that is not closed, a session is timed out only
\* with frames that it has not read, or right after another timeout.
THEOREM TimeoutsExplained == Spec => TimeoutUnreadOrHurried
<1>1. ASSUME AliveInv, [Next]_vars, NEW e \in Ends, ~die[e], die'[e], link = "up",
             ~die[Peer(e)]
      PROVE  conn[e] # <<>> \/ since[e] <= 1
  <2>1. Timeout(e) /\ ~dataReady[e]
    <3>1. ASSUME NEW x \in Ends, Timeout(x) \/ Notice(x) PROVE Timeout(e) /\ ~dataReady[e]
      <4>1. Timeout(x) /\ ~dataReady[x] /\ Close(x)
        BY <1>1, <3>1 DEF Timeout, Notice, CanNotice
      <4>2. x = e
        BY <1>1, <4>1, CloseFacts DEF AliveInv
      <4> QED
        BY <4>1, <4>2
    <3>2. ASSUME NEW x \in Ends, NEW cmd \in Cmds, Send(x, cmd) PROVE FALSE
      BY <1>1, <3>2 DEF Send
    <3>3. ASSUME NEW x \in Ends, Recv(x) \/ Read(x) \/ Ping(x) \/ Write(x) \/ CloseConn(x)
          PROVE  FALSE
      BY <1>1, <3>3 DEF Recv, Read, Ping, Write, CloseConn
    <3>4. CASE Tick \/ Cut \/ UNCHANGED vars
      BY <1>1, <3>4 DEF Tick, Cut, vars
    <3> QED
      BY <1>1, <3>1, <3>2, <3>3, <3>4 DEF Next, Session
  <2>2. since[e] >= 1 => conn[e] # <<>> \/ since[e] = 1
    BY <1>1, <2>1 DEF AliveInv, EndAlive
  <2>3. since[e] \in Nat
    BY <1>1, SizesNat DEF AliveInv, TypeOK
  <2> QED
    BY <2>2, <2>3
<1>2. AliveInv /\ [Next]_vars =>
        [\A e \in Ends :
            ~die[e] /\ die'[e] /\ link = "up" /\ ~die[Peer(e)] =>
               conn[e] # <<>> \/ since[e] <= 1]_vars
  BY <1>1
<1> QED
  BY <1>2, AliveInvariant, PTL DEF Spec, TimeoutUnreadOrHurried

===============================================================================
