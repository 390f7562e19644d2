----------------------------- MODULE TunnelProofs -----------------------------
(***************************************************************************)
(* Proofs about Tunnel, for any number of tunnels, buffers and chunks and  *)
(* any scenarios.                                                          *)
(***************************************************************************)
EXTENDS Tunnel, SequenceTheorems, FiniteSetTheorems, TLAPS

\* The frames of a queue: whether there is one of a kind, or no more than one,
\* and whether the data of all is in one buffer.
Has(q, cmd)    == \E i \in DOMAIN q : q[i].cmd = cmd
Single(q, cmd) == \A i, j \in DOMAIN q : q[i].cmd = cmd /\ q[j].cmd = cmd => i = j
In(q, b)       == \A i \in DOMAIN q : q[i].cmd = "PSH" => q[i].buf = b

\* Where the goroutines can be, and where handleClient is before it copies.
Places     == {"none", "SYN", "accept", "select", "stream", "FIN", "done", "stuck"}
DownPlaces == {"none", "copy", "write", "FIN", "gone", "stuck"}
Idle       == {"none", "SYN", "accept"}

\* One side of a tunnel: the copy from TCP has at most one chunk on its way, which is
\* in its buffer until it gives up; it gives up only on a closed stream; and a stream
\* that is not closed has sent no FIN.
SideInv(x) ==
    /\ main[x] \in Idle => up[x] = "none"
    /\ up[x] \in {"none", "read", "write"} => ~Has(queue[x], "PSH")
    /\ Single(queue[x], "PSH")
    /\ up[x] = "sent" => In(queue[x], ub[x])
    /\ up[x] = "gone" /\ Has(queue[x], "PSH") => sdie[x]
    /\ Has(queue[x], "FIN") => sdie[x]

FramesInv == \A x \in Sides : SideInv(x)

\* A goroutine that has a buffer.
Live(x) == up[x] \notin {"none", "gone"}

\* No two of them have the same buffer, so what one has read stays there until it
\* was sent.
BuffersInv ==
    /\ \A x, y \in Sides :
          x # y /\ x[1] = y[1] /\ Live(x) /\ Live(y) => ub[x] # ub[y]
    /\ \A x \in Sides : up[x] \in {"write", "sent"} => mem[x[1]][ub[x]] = x[2]

\* Once a chunk of another tunnel was sent there is no more to come.
SpentInv(x) ==
    foreign[Other(x)] > 0 =>
        /\ foreign[Other(x)] = 1
        /\ sdie[x]
        /\ up[x] = "gone"
        /\ ~Has(queue[x], "PSH")

ForeignInv == \A x \in Sides : SpentInv(x)

\* The inductive invariant.
TunnelInv ==
    /\ TypeOK
    /\ FramesInv
    /\ BuffersInv
    /\ ForeignInv

-----------------------------------------------------------------------------
\* The sides come in pairs.
LEMMA SideFacts ==
    /\ hub \in Ends /\ client \in Ends /\ hub # client
    /\ \A e \in Ends : Peer(e) \in Ends /\ Peer(Peer(e)) = e /\ Peer(e) # e
    /\ \A e \in Ends, t \in Tunnels :
          <<e, t>> \in Sides /\ <<e, t>>[1] = e /\ <<e, t>>[2] = t
    /\ \A x \in Sides : x = <<x[1], x[2]>> /\ x[1] \in Ends /\ x[2] \in Tunnels
    /\ \A x \in Sides : Other(x) \in Sides /\ Other(Other(x)) = x
BY TwoEnds DEF Sides, Ends, Peer, Other

\* What a frame at the end adds to a queue.
LEMMA FrameQueued ==
    ASSUME NEW q \in Seq(Frame), NEW f \in Frame
    PROVE  /\ Append(q, f) \in Seq(Frame)
           /\ \A cmd : Has(Append(q, f), cmd) <=> Has(q, cmd) \/ f.cmd = cmd
           /\ \A cmd : Single(q, cmd) /\ (f.cmd = cmd => ~Has(q, cmd)) =>
                          Single(Append(q, f), cmd)
           /\ \A b : In(q, b) /\ (f.cmd = "PSH" => f.buf = b) => In(Append(q, f), b)
           /\ \A b : ~Has(q, "PSH") /\ f.buf = b => In(Append(q, f), b)
<1> DEFINE p == Append(q, f)
<1>1. /\ p \in Seq(Frame) /\ Len(q) \in Nat
      /\ Len(q) + 1 \in DOMAIN p /\ p[Len(q) + 1] = f
      /\ \A i \in DOMAIN q : i \in DOMAIN p /\ p[i] = q[i]
      /\ \A i \in DOMAIN p : i \in DOMAIN q \/ i = Len(q) + 1
  BY AppendProperties, LenProperties
<1> HIDE DEF p
<1>2. \A cmd : Has(p, cmd) <=> Has(q, cmd) \/ f.cmd = cmd
  BY <1>1 DEF Has
<1>3. ASSUME NEW cmd, Single(q, cmd), f.cmd = cmd => ~Has(q, cmd)
      PROVE  Single(p, cmd)
  BY <1>1, <1>3 DEF Single, Has
<1>4. ASSUME NEW b, In(q, b), f.cmd = "PSH" => f.buf = b PROVE In(p, b)
  BY <1>1, <1>4 DEF In
<1>5. ASSUME NEW b, ~Has(q, "PSH"), f.buf = b PROVE In(p, b)
  BY <1>1, <1>5 DEF In, Has
<1> QED
  BY <1>1, <1>2, <1>3, <1>4, <1>5 DEF p

\* What the first frame leaves behind.
LEMMA FrameSent ==
    ASSUME NEW q \in Seq(Frame), q # <<>>
    PROVE  /\ Tail(q) \in Seq(Frame) /\ Head(q) \in Frame
           /\ Has(q, Head(q).cmd)
           /\ \A cmd : Has(Tail(q), cmd) => Has(q, cmd)
           /\ \A cmd : Single(q, cmd) =>
                 Single(Tail(q), cmd) /\ (Head(q).cmd = cmd => ~Has(Tail(q), cmd))
           /\ \A b : In(q, b) => /\ In(Tail(q), b)
                                 /\ Head(q).cmd = "PSH" => Head(q).buf = b
<1> DEFINE p == Tail(q)
<1>1. /\ p \in Seq(Frame) /\ Head(q) \in Frame /\ Head(q) = q[1] /\ 1 \in DOMAIN q
      /\ \A i \in DOMAIN p : /\ i + 1 \in DOMAIN q /\ p[i] = q[i + 1]
                             /\ i \in Nat /\ i + 1 # 1
  BY HeadTailProperties, LenProperties
<1> HIDE DEF p
<1>2. \A cmd : Has(p, cmd) => Has(q, cmd)
  BY <1>1 DEF Has
<1>3. Has(q, Head(q).cmd)
  BY <1>1 DEF Has
<1>4. ASSUME NEW cmd, Single(q, cmd)
      PROVE  Single(p, cmd) /\ (Head(q).cmd = cmd => ~Has(p, cmd))
  <2>1. ASSUME NEW i \in DOMAIN p, NEW j \in DOMAIN p, p[i].cmd = cmd, p[j].cmd = cmd
        PROVE  i = j
    <3>1. /\ i + 1 \in DOMAIN q /\ q[i + 1].cmd = cmd /\ i \in Nat
          /\ j + 1 \in DOMAIN q /\ q[j + 1].cmd = cmd /\ j \in Nat
      BY <1>1, <2>1
    <3>2. i + 1 = j + 1
      BY <1>4, <3>1 DEF Single
    <3> QED
      BY <3>1, <3>2
  <2>2. ASSUME Head(q).cmd = cmd, NEW i \in DOMAIN p, p[i].cmd = cmd PROVE FALSE
    BY <1>1, <1>4, <2>2 DEF Single
  <2> QED
    BY <2>1, <2>2 DEF Single, Has
<1>5. ASSUME NEW b, In(q, b)
      PROVE  In(p, b) /\ (Head(q).cmd = "PSH" => Head(q).buf = b)
  BY <1>1, <1>5 DEF In
<1> QED
  BY <1>1, <1>2, <1>3, <1>4, <1>5 DEF p

\* An empty queue.
LEMMA NoFrames ==
    /\ <<>> \in Seq(Frame)
    /\ \A cmd : ~Has(<<>>, cmd) /\ Single(<<>>, cmd)
    /\ \A b : In(<<>>, b)
BY EmptySeq DEF Has, Single, In

\* A nonempty set of buffers has a least one: all below one are finitely many, and
\* one of these sets has no smaller.
LEMMA LeastBuffer ==
    ASSUME NEW S, IsFiniteSet(S), S \subseteq Nat, S # {}
    PROVE  \E x \in S : \A y \in S : x <= y
<1> DEFINE Below(x) == {y \in S : y < x}
<1> DEFINE T == {Below(x) : x \in S}
<1> DEFINE R == StrictSubsetOrdering(S)
<1>1. T \subseteq FiniteSubsetsOf(S) /\ T # {}
  <2>1. FiniteSubsetsOf(S) = SUBSET S
    BY FS_FiniteSubsetsOfFinite
  <2>2. \A x \in S : Below(x) \in SUBSET S
    OBVIOUS
  <2>3. T \subseteq SUBSET S
    BY <2>2
  <2>4. PICK x : x \in S
    OBVIOUS
  <2>5. Below(x) \in T
    BY <2>4
  <2> QED
    BY <2>1, <2>3, <2>5
<1>2. IsWellFoundedOn(R, FiniteSubsetsOf(S))
  BY FS_StrictSubsetOrderingWellFounded
<1>3. \E b \in T : \A c \in T : ~(<<c, b>> \in R)
  <2> HIDE DEF T, R
  <2> QED
    BY <1>1, <1>2, WFMin
<1>4. PICK x \in S : \A y \in S : ~(<<Below(y), Below(x)>> \in R)
  BY <1>3
<1>5. ASSUME NEW y \in S, y < x PROVE FALSE
  <2>1. /\ \A z \in S : z < y => z < x
        /\ ~(y < y)
    BY <1>5
  <2>2. Below(y) \subseteq Below(x) /\ y \in Below(x) /\ y \notin Below(y)
    BY <1>5, <2>1
  <2>3. <<Below(y), Below(x)>> \in R
    BY <2>2 DEF StrictSubsetOrdering
  <2> QED
    BY <1>4, <2>3
<1> QED
  BY <1>5

\* There is a buffer for every tunnel, and so one for the next.
LEMMA PoolNotEmpty ==
    ASSUME TypeOK, NEW x \in Sides, ~Live(x)
    PROVE  /\ Pool(x[1]) \subseteq Buffers
           /\ (CHOOSE b \in Pool(x[1]) : \A c \in Pool(x[1]) : b <= c) \in Pool(x[1])
           /\ \A y \in Sides : y[1] = x[1] /\ Live(y) => ub[y] \notin Pool(x[1])
<1> DEFINE e == x[1]
<1> DEFINE t == x[2]
<1> DEFINE L == {s \in Tunnels : Live(<<e, s>>)}
<1> DEFINE I == {ub[<<e, s>>] : s \in L}
<1>0. e \in Ends /\ t \in Tunnels /\ x = <<e, t>> /\ ~Live(<<e, t>>)
  BY SideFacts
<1>1. Pool(e) = Buffers \ I
  <2>1. ASSUME NEW y \in Sides, y[1] = e, up[y] \notin {"none", "gone"}
        PROVE  ub[y] \in I
    <3>1. y[2] \in Tunnels /\ y = <<e, y[2]>>
      BY <2>1, SideFacts
    <3>2. y[2] \in L
      BY <2>1, <3>1 DEF Live
    <3> QED
      BY <3>1, <3>2
  <2>2. ASSUME NEW s \in L
        PROVE  <<e, s>> \in Sides /\ <<e, s>>[1] = e /\ up[<<e, s>>] \notin {"none", "gone"}
    BY <1>0, SideFacts DEF Live
  <2>3. {ub[y] : y \in {z \in Sides : z[1] = e /\ up[z] \notin {"none", "gone"}}} = I
    BY <2>1, <2>2
  <2> HIDE DEF I
  <2> QED
    BY <2>3 DEF Pool
<1>2. L \subseteq Tunnels \ {t} /\ IsFiniteSet(Tunnels) /\ IsFiniteSet(Tunnels \ {t})
  BY <1>0, EnoughBuffers, FS_RemoveElement
<1>3. /\ IsFiniteSet(L) /\ Cardinality(L) <= Cardinality(Tunnels \ {t})
  BY <1>2, FS_Subset
<1>4. Cardinality(Tunnels \ {t}) = Cardinality(Tunnels) - 1
  BY <1>0, <1>2, FS_RemoveElement
<1>5. IsFiniteSet(I) /\ Cardinality(I) <= Cardinality(L)
  <2> HIDE DEF L
  <2>1. DEFINE f == [s \in L |-> ub[<<e, s>>]]
  <2>2. f \in Surjection(L, I)
    BY DEF Surjection
  <2> HIDE DEF f, I
  <2> QED
    BY <1>3, <2>2, FS_Surjection
<1>6. /\ Cardinality(Tunnels) \in Nat /\ Cardinality(L) \in Nat /\ Cardinality(I) \in Nat
      /\ Cardinality(Buffers) \in Nat
  BY <1>2, <1>3, <1>5, EnoughBuffers, FS_CardinalityType
<1>7. Cardinality(I) < Cardinality(Buffers)
  <2> HIDE DEF L, I
  <2> QED
    BY <1>3, <1>4, <1>5, <1>6, EnoughBuffers
<1>8. Buffers \ I # {}
  <2>1. SUFFICES ASSUME Buffers \subseteq I PROVE FALSE
    OBVIOUS
  <2>2. Cardinality(Buffers) <= Cardinality(I)
    BY <1>5, <2>1, FS_Subset
  <2> QED
    BY <1>6, <1>7, <2>2
<1>9. IsFiniteSet(Pool(e)) /\ Pool(e) \subseteq Nat /\ Pool(e) \subseteq Buffers
  BY <1>1, EnoughBuffers, FS_Subset
<1>10. \E b \in Pool(e) : \A c \in Pool(e) : b <= c
  BY <1>1, <1>8, <1>9, LeastBuffer
<1>11. ASSUME NEW y \in Sides, y[1] = e, Live(y) PROVE ub[y] \notin Pool(e)
  <2>1. y = <<e, y[2]>> /\ y[2] \in Tunnels
    BY <1>11, SideFacts
  <2>2. y[2] \in L
    BY <1>11, <2>1
  <2> QED
    BY <1>1, <2>1, <2>2
<1> QED
  BY <1>9, <1>10, <1>11

-----------------------------------------------------------------------------
\* handleClient goes on.
LEMMA SelectKeeps ==
    ASSUME TunnelInv, NEW x \in Sides, Select(x)
    PROVE  TunnelInv'
<1>1. TypeOK'
  BY DEF TunnelInv, TypeOK, Places, DownPlaces, sessVars, Select, tcpVars, goVars,
     streamVars
<1>2. FramesInv'
  BY DEF TunnelInv, FramesInv, SideInv, Idle, Select, sessVars, tcpVars, goVars,
     streamVars
<1>3. BuffersInv'
  BY DEF TunnelInv, BuffersInv, Live, Select, sessVars, tcpVars, goVars, streamVars
<1>4. ForeignInv'
  BY DEF TunnelInv, ForeignInv, SpentInv, Select, sessVars, tcpVars, goVars, streamVars
<1> QED
  BY <1>1, <1>2, <1>3, <1>4 DEF TunnelInv

\* The FIN of a Close is out.
LEMMA CloseReturnsKeeps ==
    ASSUME TunnelInv, NEW x \in Sides, CloseReturns(x)
    PROVE  TunnelInv'
<1>1. TypeOK'
  BY DEF TunnelInv, TypeOK, Places, DownPlaces, sessVars, CloseReturns, Finish,
     tcpVars, goVars, streamVars
<1>2. FramesInv'
  <2>1. /\ \A z \in Sides : main'[z] \in Idle => main[z] \in Idle
        /\ up' = up /\ queue' = queue /\ ub' = ub /\ sdie' = sdie
    <3>1. main' = [main EXCEPT ![x] = "done"] \/ main' = [main EXCEPT ![x] = "stuck"]
      BY DEF CloseReturns, Finish
    <3>2. \A z \in Sides : main'[z] \in Idle => main[z] \in Idle
      BY <3>1 DEF TunnelInv, TypeOK, Idle
    <3> QED
      BY <3>2 DEF CloseReturns, streamVars
  <2> QED
    BY <2>1 DEF TunnelInv, FramesInv, SideInv, Idle
<1>3. BuffersInv'
  BY DEF TunnelInv, BuffersInv, Live, CloseReturns, Finish, sessVars, tcpVars, goVars,
     streamVars
<1>4. ForeignInv'
  BY DEF TunnelInv, ForeignInv, SpentInv, CloseReturns, Finish, tcpVars, goVars,
     streamVars
<1> QED
  BY <1>1, <1>2, <1>3, <1>4 DEF TunnelInv

\* The copy ends between two chunks.
LEMMA UpEndKeeps ==
    ASSUME TunnelInv, NEW x \in Sides, UpEnd(x)
    PROVE  TunnelInv'
<1>1. TypeOK'
  BY DEF TunnelInv, TypeOK, Places, DownPlaces, sessVars, UpEnd, tcpVars, goVars,
     streamVars
<1>2. FramesInv'
  BY DEF TunnelInv, FramesInv, SideInv, Idle, UpEnd, sessVars, tcpVars, goVars, streamVars
<1>3. BuffersInv'
  BY DEF TunnelInv, BuffersInv, Live, UpEnd, sessVars, tcpVars, goVars, streamVars
<1>4. ForeignInv'
  BY DEF TunnelInv, ForeignInv, SpentInv, UpEnd, sessVars, tcpVars, goVars, streamVars
<1> QED
  BY <1>1, <1>2, <1>3, <1>4 DEF TunnelInv

\* A chunk is read: the buffer is nobody else's.
LEMMA UpReadKeeps ==
    ASSUME TunnelInv, NEW x \in Sides, UpRead(x)
    PROVE  TunnelInv'
<1>1. TypeOK'
  <2>1. /\ x[1] \in Ends /\ x[2] \in Tunnels /\ ub[x] \in Buffers
        /\ left[x] \in Nat /\ left[x] > 0
    BY SideFacts DEF TunnelInv, TypeOK, Places, DownPlaces, sessVars, UpRead
  <2>2. left[x] - 1 \in Nat
    BY <2>1
  <2>3. left' \in [Sides -> Nat]
    BY <2>2 DEF TunnelInv, TypeOK, Places, DownPlaces, sessVars, UpRead
  <2>4. mem' \in [Ends -> [Buffers -> Tunnels]]
    BY <2>1 DEF TunnelInv, TypeOK, Places, DownPlaces, sessVars, UpRead
  <2>5. up' \in [Sides -> {"none", "read", "write", "sent", "gone"}]
    BY DEF TunnelInv, TypeOK, Places, DownPlaces, sessVars, UpRead
  <2> QED
    BY <2>3, <2>4, <2>5 DEF TunnelInv, TypeOK, Places, DownPlaces, sessVars, UpRead,
       streamVars
<1>2. FramesInv'
  BY DEF TunnelInv, FramesInv, SideInv, Idle, UpRead, sessVars, tcpVars, goVars,
     streamVars
<1>3. BuffersInv'
  <2>1. /\ x[1] \in Ends /\ x[2] \in Tunnels /\ ub[x] \in Buffers /\ Live(x)
        /\ \A z \in Sides : Live(z)' => Live(z)
        /\ \A z \in Sides : z # x => up'[z] = up[z]
        /\ ub' = ub
    <3>1. /\ x[1] \in Ends /\ x[2] \in Tunnels /\ ub[x] \in Buffers
          /\ up[x] = "read" /\ Live(x) /\ ub' = ub
      BY SideFacts DEF TunnelInv, TypeOK, Places, DownPlaces, sessVars, UpRead, Live
    <3>2. \A z \in Sides : z # x => up'[z] = up[z]
      BY DEF TunnelInv, TypeOK, Places, DownPlaces, sessVars, UpRead
    <3>3. \A z \in Sides : Live(z)' => Live(z)
      BY <3>1, <3>2 DEF Live
    <3> QED
      BY <3>1, <3>2, <3>3
  <2>2. /\ mem'[x[1]][ub[x]] = x[2]
        /\ \A e \in Ends, b \in Buffers :
              <<e, b>> # <<x[1], ub[x]>> => mem'[e][b] = mem[e][b]
    BY <2>1 DEF TunnelInv, TypeOK, Places, DownPlaces, sessVars, UpRead
  <2>3. ASSUME NEW z \in Sides, up'[z] \in {"write", "sent"}
        PROVE  mem'[z[1]][ub'[z]] = z[2]
    <3>1. CASE z = x
      BY <2>1, <2>2, <3>1
    <3>2. CASE z # x
      <4>1. Live(z) /\ up[z] \in {"write", "sent"} /\ mem[z[1]][ub[z]] = z[2]
        BY <2>1, <2>3, <3>2 DEF Live, TunnelInv, BuffersInv
      <4>2. z[1] \in Ends /\ ub[z] \in Buffers /\ <<z[1], ub[z]>> # <<x[1], ub[x]>>
        BY <2>1, <3>2, <4>1, SideFacts DEF TunnelInv, TypeOK, Places, DownPlaces,
           sessVars, BuffersInv
      <4> QED
        BY <2>1, <2>2, <4>1, <4>2
    <3> QED
      BY <3>1, <3>2
  <2> QED
    BY <2>1, <2>3 DEF TunnelInv, BuffersInv
<1>4. ForeignInv'
  BY DEF TunnelInv, ForeignInv, SpentInv, UpRead, sessVars, tcpVars, goVars, streamVars
<1> QED
  BY <1>1, <1>2, <1>3, <1>4 DEF TunnelInv

\* Write returns when the frame is out.
LEMMA UpSentKeeps ==
    ASSUME TunnelInv, NEW x \in Sides, UpSent(x)
    PROVE  TunnelInv'
<1>1. TypeOK'
  BY DEF TunnelInv, TypeOK, Places, DownPlaces, sessVars, UpSent, Waiting, Has,
     tcpVars, goVars, streamVars
<1>2. FramesInv'
  BY DEF TunnelInv, FramesInv, SideInv, Idle, UpSent, Waiting, Has, tcpVars, goVars,
     streamVars
<1>3. BuffersInv'
  BY DEF TunnelInv, BuffersInv, Live, UpSent, Waiting, Has, sessVars, tcpVars, goVars,
     streamVars
<1>4. ForeignInv'
  BY DEF TunnelInv, ForeignInv, SpentInv, UpSent, Waiting, Has, tcpVars, goVars,
     streamVars
<1> QED
  BY <1>1, <1>2, <1>3, <1>4 DEF TunnelInv

\* Write returns on a closed stream.
LEMMA UpGivesUpKeeps ==
    ASSUME TunnelInv, NEW x \in Sides, UpGivesUp(x)
    PROVE  TunnelInv'
<1>1. TypeOK'
  BY DEF TunnelInv, TypeOK, Places, DownPlaces, sessVars, UpGivesUp, tcpVars, goVars,
     streamVars
<1>2. FramesInv'
  BY DEF TunnelInv, FramesInv, SideInv, Idle, UpGivesUp, sessVars, tcpVars, goVars,
     streamVars
<1>3. BuffersInv'
  BY DEF TunnelInv, BuffersInv, Live, UpGivesUp, sessVars, tcpVars, goVars, streamVars
<1>4. ForeignInv'
  BY DEF TunnelInv, ForeignInv, SpentInv, UpGivesUp, sessVars, tcpVars, goVars, streamVars
<1> QED
  BY <1>1, <1>2, <1>3, <1>4 DEF TunnelInv

\* Nothing but the place of the goroutines changes.
LEMMA MovesKeep ==
    ASSUME TunnelInv, TypeOK',
           UNCHANGED <<up, ub, mem, sdie, queue, foreign>>,
           \A z \in Sides : main'[z] \in Idle => main[z] \in Idle
    PROVE  TunnelInv'
BY DEF TunnelInv, FramesInv, SideInv, BuffersInv, Live, ForeignInv, SpentInv

\* The other copy goes on.
LEMMA DownCopyKeeps ==
    ASSUME TunnelInv, NEW x \in Sides, DownCopy(x)
    PROVE  TunnelInv'
<1>1. TypeOK'
  <2>1. rbuf[x] \in Nat /\ rbuf[x] > 0
    BY DEF TunnelInv, TypeOK, DownCopy
  <2>2. rbuf[x] - 1 \in Nat
    BY <2>1
  <2>3. rbuf' \in [Sides -> Nat]
    BY <2>2 DEF TunnelInv, TypeOK, DownCopy
  <2>4. down' \in [Sides -> {"none", "copy", "write", "FIN", "gone", "stuck"}]
    BY DEF TunnelInv, TypeOK, DownCopy
  <2> QED
    BY <2>3, <2>4 DEF TunnelInv, TypeOK, DownCopy, sessVars, tcpVars
<1>2. UNCHANGED <<up, ub, mem, sdie, queue, foreign, main>>
  BY DEF DownCopy
<1> QED
  BY <1>1, <1>2, MovesKeep

\* What it read is written.
LEMMA DownWrittenKeeps ==
    ASSUME TunnelInv, NEW x \in Sides, DownWritten(x)
    PROVE  TunnelInv'
<1>1. down' \in [Sides -> {"none", "copy", "write", "FIN", "gone", "stuck"}]
  BY DEF TunnelInv, TypeOK, DownWritten, DownGone
<1>2. TypeOK'
  BY <1>1 DEF TunnelInv, TypeOK, DownWritten, sessVars, tcpVars, streamVars
<1>3. UNCHANGED <<up, ub, mem, sdie, queue, foreign, main>>
  BY DEF DownWritten, streamVars
<1> QED
  BY <1>2, <1>3, MovesKeep

\* The FIN of a Close in Read is out.
LEMMA DownCloseReturnsKeeps ==
    ASSUME TunnelInv, NEW x \in Sides, DownCloseReturns(x)
    PROVE  TunnelInv'
<1>1. TypeOK'
  BY DEF TunnelInv, TypeOK, Places, DownPlaces, sessVars, DownCloseReturns, DownGone,
     tcpVars, goVars, streamVars
<1>2. FramesInv'
  BY DEF TunnelInv, FramesInv, SideInv, Idle, DownCloseReturns, DownGone, tcpVars, goVars,
     streamVars
<1>3. BuffersInv'
  BY DEF TunnelInv, BuffersInv, Live, DownCloseReturns, DownGone, tcpVars, goVars,
     streamVars
<1>4. ForeignInv'
  BY DEF TunnelInv, ForeignInv, SpentInv, DownCloseReturns, DownGone, tcpVars, goVars,
     streamVars
<1> QED
  BY <1>1, <1>2, <1>3, <1>4 DEF TunnelInv

\* A session dies.
LEMMA DieKeeps ==
    ASSUME TunnelInv, NEW e \in Ends, Die(e)
    PROVE  TunnelInv'
<1>1. TypeOK'
  BY DEF TunnelInv, TypeOK, Die, tcpVars, goVars, streamVars
<1>2. UNCHANGED <<up, ub, mem, sdie, queue, foreign, main>>
  BY DEF Die, goVars, streamVars
<1> QED
  BY <1>1, <1>2, MovesKeep

\* More streams are closed.
LEMMA SweepKeeps ==
    ASSUME TunnelInv, NEW e \in Ends, Sweep(e)
    PROVE  TunnelInv'
<1>1. /\ UNCHANGED <<up, ub, mem, queue, foreign, main>>
      /\ \A z \in Sides : sdie[z] => sdie'[z]
  BY DEF TunnelInv, TypeOK, Sweep, goVars
<1>2. sdie' \in [Sides -> BOOLEAN] /\ dead' \subseteq Ends /\ swept' \subseteq dead'
  <2>1. sdie \in [Sides -> BOOLEAN] /\ dead \subseteq Ends /\ swept \subseteq dead
    BY DEF TunnelInv, TypeOK
  <2>2. \A z \in Sides : (sdie[z] \/ (z[1] = e /\ Registered(z))) \in BOOLEAN
    BY <2>1
  <2> QED
    BY <2>1, <2>2 DEF Sweep
<1>3. TypeOK'
  BY <1>1, <1>2 DEF TunnelInv, TypeOK, Sweep, tcpVars, goVars
<1>4. FramesInv'
  BY <1>1 DEF TunnelInv, FramesInv, SideInv, Idle
<1>5. BuffersInv'
  BY <1>1 DEF TunnelInv, BuffersInv, Live
<1>6. ForeignInv'
  BY <1>1 DEF TunnelInv, ForeignInv, SpentInv
<1> QED
  BY <1>3, <1>4, <1>5, <1>6 DEF TunnelInv

\* A TCP peer finishes.
LEMMA HangUpKeeps ==
    ASSUME TunnelInv, NEW x \in Sides, HangUp(x)
    PROVE  TunnelInv'
<1>1. TypeOK'
  BY DEF TunnelInv, TypeOK, Places, DownPlaces, sessVars, HangUp, tcpVars, goVars,
     streamVars
<1>2. FramesInv'
  BY DEF TunnelInv, FramesInv, SideInv, Idle, HangUp, sessVars, tcpVars, goVars,
     streamVars
<1>3. BuffersInv'
  BY DEF TunnelInv, BuffersInv, Live, HangUp, sessVars, tcpVars, goVars, streamVars
<1>4. ForeignInv'
  BY DEF TunnelInv, ForeignInv, SpentInv, HangUp, sessVars, tcpVars, goVars, streamVars
<1> QED
  BY <1>1, <1>2, <1>3, <1>4 DEF TunnelInv

\* There is one FIN in a queue.
LEMMA OneFin ==
    ASSUME TypeOK
    PROVE  \A x \in Sides : Single(queue[x], "FIN")
BY DEF TypeOK, Single

\* A tunnel starts at one end, with a buffer that is nobody else's.
LEMMA StartKeeps ==
    ASSUME TunnelInv, NEW x \in Sides, main[x] \in Idle, StartCopying(x),
           tcp' = tcp \/ tcp' = [tcp EXCEPT ![x] = TRUE],
           UNCHANGED <<scenario, sessVars, left, hup, streamVars>>
    PROVE  TunnelInv'
<1> DEFINE b == CHOOSE c \in Pool(x[1]) : \A d \in Pool(x[1]) : c <= d
<1>1. up[x] = "none" /\ ~Live(x)
  BY DEF TunnelInv, FramesInv, SideInv, Idle, Live
<1>2. /\ b \in Buffers
      /\ \A y \in Sides : y[1] = x[1] /\ Live(y) => ub[y] # b
  BY <1>1, PoolNotEmpty DEF TunnelInv
<1>3. ub' = [ub EXCEPT ![x] = b]
  BY DEF StartCopying
<1> HIDE DEF b
<1>4. /\ up' = [up EXCEPT ![x] = "read"] /\ main' = [main EXCEPT ![x] = "select"]
      /\ mem' = mem
  BY DEF StartCopying
<1>5. TypeOK'
  <2>1. ub' \in [Sides -> Buffers]
        /\ up' \in [Sides -> {"none", "read", "write", "sent", "gone"}]
    BY <1>2, <1>3, <1>4 DEF TunnelInv, TypeOK, Places, DownPlaces, sessVars
  <2>2. /\ main' \in [Sides -> Places]
        /\ down' \in [Sides -> DownPlaces]
        /\ tcp' \in [Sides -> BOOLEAN]
    BY DEF TunnelInv, TypeOK, Places, DownPlaces, sessVars, StartCopying
  <2> QED
    BY <1>4, <2>1, <2>2 DEF TunnelInv, TypeOK, Places, DownPlaces, sessVars, streamVars
<1>6. FramesInv'
  BY <1>1, <1>3, <1>4 DEF TunnelInv, TypeOK, FramesInv, SideInv, Idle, streamVars
<1>7. BuffersInv'
  <2>1. /\ ub'[x] = b
        /\ \A z \in Sides : z # x => ub'[z] = ub[z] /\ up'[z] = up[z]
        /\ up'[x] = "read"
    BY <1>3, <1>4 DEF TunnelInv, TypeOK, Places, DownPlaces, sessVars
  <2>2. \A z \in Sides : z # x => (Live(z)' <=> Live(z))
    BY <2>1 DEF Live
  <2>3. ASSUME NEW z \in Sides, NEW y \in Sides, z # y, z[1] = y[1], Live(z)', Live(y)'
        PROVE  ub'[z] # ub'[y]
    BY <1>2, <2>1, <2>2, <2>3 DEF TunnelInv, BuffersInv
  <2>4. ASSUME NEW z \in Sides, up'[z] \in {"write", "sent"}
        PROVE  mem'[z[1]][ub'[z]] = z[2]
    BY <1>4, <2>1, <2>4 DEF TunnelInv, BuffersInv
  <2> QED
    BY <2>3, <2>4 DEF BuffersInv
<1>8. ForeignInv'
  BY <1>1, <1>4 DEF TunnelInv, TypeOK, Places, DownPlaces, sessVars, ForeignInv,
     SpentInv, streamVars
<1> QED
  BY <1>5, <1>6, <1>7, <1>8 DEF TunnelInv

\* A user comes, and a SYN is queued.
LEMMA HandleUserKeeps ==
    ASSUME TunnelInv, NEW t \in Tunnels, HandleUser(t)
    PROVE  TunnelInv'
<1> DEFINE x == <<hub, t>>
<1> DEFINE f == [cmd |-> "SYN", buf |-> ub[x]]
<1> DEFINE q == queue[x]
<1> DEFINE p == Append(q, f)
<1>1. /\ x \in Sides /\ main[x] = "none" /\ up[x] = "none"
      /\ main' = [main EXCEPT ![x] = "SYN"]
      /\ tcp' = [tcp EXCEPT ![x] = TRUE]
      /\ queue' = [queue EXCEPT ![x] = p]
      /\ UNCHANGED <<scenario, sessVars, left, hup, up, down, ub, mem, sdie, rst, rbuf,
                     foreign, lost>>
  BY SideFacts DEF HandleUser, TunnelInv, FramesInv, SideInv, Idle
<1>2. q \in Seq(Frame) /\ f \in Frame /\ f.cmd = "SYN"
  BY <1>1 DEF TunnelInv, TypeOK, Frame
<1> HIDE DEF f
<1>3. /\ p \in Seq(Frame)
      /\ Has(p, "PSH") <=> Has(q, "PSH")
      /\ Has(p, "FIN") <=> Has(q, "FIN")
      /\ Single(q, "PSH") => Single(p, "PSH")
      /\ Single(q, "FIN") => Single(p, "FIN")
  BY <1>2, FrameQueued
<1> HIDE DEF p, x
<1>4. /\ queue'[x] = p /\ main'[x] = "SYN"
      /\ \A z \in Sides : z # x => queue'[z] = queue[z] /\ main'[z] = main[z]
  BY <1>1 DEF TunnelInv, TypeOK
<1>5. TypeOK'
  <2>1. /\ queue' \in [Sides -> Seq(Frame)] /\ tcp' \in [Sides -> BOOLEAN]
        /\ main' \in [Sides -> Places]
    BY <1>1, <1>3 DEF TunnelInv, TypeOK, Places
  <2>2. \A z \in Sides : Single(queue'[z], "FIN")
    BY <1>3, <1>4, OneFin DEF TunnelInv
  <2> QED
    BY <1>1, <2>1, <2>2 DEF TunnelInv, TypeOK, Places, Single, sessVars
<1>6. FramesInv'
  BY <1>1, <1>3, <1>4 DEF TunnelInv, FramesInv, SideInv, Idle
<1>7. BuffersInv'
  BY <1>1 DEF TunnelInv, BuffersInv, Live
<1>8. ForeignInv'
  BY <1>1, <1>3, <1>4 DEF TunnelInv, ForeignInv, SpentInv
<1> QED
  BY <1>5, <1>6, <1>7, <1>8 DEF TunnelInv

\* Its stream is registered.
LEMMA RegisterKeeps ==
    ASSUME TunnelInv, NEW t \in Tunnels, Register(t)
    PROVE  TunnelInv'
BY StartKeeps, SideFacts DEF Register, Idle, tcpVars

\* Or OpenStream fails.
LEMMA OpenFailsKeeps ==
    ASSUME TunnelInv, NEW t \in Tunnels, OpenFails(t)
    PROVE  TunnelInv'
<1> DEFINE x == <<hub, t>>
<1>1. /\ main' = [main EXCEPT ![x] = "done"] \/ main' = [main EXCEPT ![x] = "stuck"]
      /\ tcp' = [tcp EXCEPT ![x] = FALSE] \/ tcp' = tcp
      /\ UNCHANGED <<scenario, sessVars, left, hup, up, down, ub, mem, streamVars>>
  BY DEF OpenFails
<1> HIDE DEF x
<1>2. TypeOK'
  BY <1>1 DEF TunnelInv, TypeOK, sessVars, streamVars
<1>3. \A z \in Sides : main'[z] \in Idle => main[z] \in Idle
  BY <1>1 DEF TunnelInv, TypeOK, Idle
<1> QED
  BY <1>1, <1>2, <1>3, MovesKeep DEF streamVars

\* The client may close the stream at once; then it has not sent anything.
LEMMA HandleStreamKeeps ==
    ASSUME TunnelInv, NEW t \in Tunnels, HandleStream(t)
    PROVE  TunnelInv'
<1> DEFINE x == <<client, t>>
<1>1. x \in Sides /\ main[x] \in Idle /\ up[x] = "none"
  BY SideFacts DEF HandleStream, TunnelInv, FramesInv, SideInv, Idle
<1>2. CASE StartCopying(x)
  BY <1>1, <1>2, StartKeeps DEF HandleStream
<1>3. CASE ~StartCopying(x)
  <2>1. /\ main' = [main EXCEPT ![x] = "stream"]
        /\ up' = [up EXCEPT ![x] = "gone"]
        /\ down' = [down EXCEPT ![x] = "gone"]
        /\ UNCHANGED <<scenario, sessVars, left, hup, tcp, ub, mem, streamVars>>
    BY <1>3 DEF HandleStream
  <2> HIDE DEF x
  <2>2. TypeOK'
    BY <1>1, <2>1 DEF TunnelInv, TypeOK, Places, DownPlaces, sessVars, streamVars
  <2>3. FramesInv'
    BY <1>1, <2>1 DEF TunnelInv, TypeOK, FramesInv, SideInv, Idle, streamVars
  <2>4. BuffersInv'
    BY <1>1, <2>1 DEF TunnelInv, TypeOK, Places, DownPlaces, sessVars, BuffersInv, Live
  <2>5. ForeignInv'
    BY <1>1, <2>1 DEF TunnelInv, TypeOK, Places, DownPlaces, sessVars, ForeignInv,
       SpentInv, streamVars
  <2> QED
    BY <2>2, <2>3, <2>4, <2>5 DEF TunnelInv
<1> QED
  BY <1>2, <1>3

\* A stream that was open is closed, and its FIN is the only one.
LEMMA CloseSelfKeeps ==
    ASSUME TunnelInv, NEW x \in Sides, ~sdie[x], CloseSelf(x),
           UNCHANGED <<scenario, sessVars, tcpVars, up, ub, mem, rst, foreign, lost>>,
           main' = main \/ (main[x] = "stream" /\ main' = [main EXCEPT ![x] = "FIN"]),
           down' = down \/ down' = [down EXCEPT ![x] = "FIN"]
    PROVE  TunnelInv'
<1> DEFINE f == [cmd |-> "FIN", buf |-> ub[x]]
<1> DEFINE q == queue[x]
<1> DEFINE p == Append(q, f)
<1>1. q \in Seq(Frame) /\ f \in Frame /\ ~Has(q, "FIN")
  BY DEF TunnelInv, TypeOK, FramesInv, SideInv, Idle, Frame
<1>2. f.cmd = "FIN"
  OBVIOUS
<1>3. /\ queue' = [queue EXCEPT ![x] = p]
      /\ sdie' = [sdie EXCEPT ![x] = TRUE]
      /\ rbuf' = [rbuf EXCEPT ![x] = 0]
  BY DEF CloseSelf
<1> HIDE DEF f
<1>4. /\ p \in Seq(Frame)
      /\ Has(p, "PSH") <=> Has(q, "PSH")
      /\ Single(q, "PSH") => Single(p, "PSH")
      /\ Single(q, "FIN") => Single(p, "FIN")
      /\ \A b : In(q, b) => In(p, b)
  BY <1>1, <1>2, FrameQueued
<1> HIDE DEF p
<1>5. /\ queue'[x] = p /\ sdie'[x]
      /\ \A z \in Sides : z # x => queue'[z] = queue[z] /\ sdie'[z] = sdie[z]
      /\ \A z \in Sides : main'[z] \in Idle => main[z] \in Idle
      /\ up' = up /\ ub' = ub /\ mem' = mem /\ foreign' = foreign
  BY <1>3 DEF TunnelInv, TypeOK, Idle
<1>6. TypeOK'
  <2>1. queue' \in [Sides -> Seq(Frame)] /\ sdie' \in [Sides -> BOOLEAN]
        /\ rbuf' \in [Sides -> Nat]
    BY <1>3, <1>4 DEF TunnelInv, TypeOK, Places, DownPlaces, sessVars
  <2>2. \A z \in Sides : Single(queue'[z], "FIN")
    BY <1>4, <1>5, OneFin DEF TunnelInv
  <2>3. main' \in [Sides -> Places]
        /\ down' \in [Sides -> DownPlaces]
    BY DEF TunnelInv, TypeOK, Places, DownPlaces, sessVars
  <2> QED
    BY <2>1, <2>2, <2>3 DEF TunnelInv, TypeOK, Places, DownPlaces, sessVars, Single,
       tcpVars
<1>7. FramesInv'
  BY <1>4, <1>5 DEF TunnelInv, FramesInv, SideInv, Idle
<1>8. BuffersInv'
  BY <1>5 DEF TunnelInv, BuffersInv, Live
<1>9. ForeignInv'
  BY <1>4, <1>5 DEF TunnelInv, ForeignInv, SpentInv
<1> QED
  BY <1>6, <1>7, <1>8, <1>9 DEF TunnelInv

\* handleClient closes the stream.
LEMMA CloseStreamKeeps ==
    ASSUME TunnelInv, NEW x \in Sides, CloseStream(x)
    PROVE  TunnelInv'
<1>1. CASE sdie[x]
  <2>1. TypeOK'
    BY <1>1 DEF TunnelInv, TypeOK, Places, DownPlaces, sessVars, CloseStream, Finish
  <2>2. \A z \in Sides : main'[z] \in Idle => main[z] \in Idle
    BY <1>1 DEF TunnelInv, TypeOK, CloseStream, Finish, Idle
  <2>3. UNCHANGED <<up, ub, mem, sdie, queue, foreign>>
    BY <1>1 DEF CloseStream
  <2> QED
    BY <2>1, <2>2, <2>3, MovesKeep
<1>2. CASE ~sdie[x]
  BY <1>2, CloseSelfKeeps DEF CloseStream, tcpVars
<1> QED
  BY <1>1, <1>2

\* Read finds the end of the stream.
LEMMA DownEOFKeeps ==
    ASSUME TunnelInv, NEW x \in Sides, DownEOF(x)
    PROVE  TunnelInv'
<1>1. CASE sdie[x]
  <2>1. TypeOK'
    BY <1>1 DEF TunnelInv, TypeOK, Places, DownPlaces, sessVars, DownEOF, DownGone,
       tcpVars
  <2>2. UNCHANGED <<up, ub, mem, sdie, queue, foreign, main>>
    BY <1>1 DEF DownEOF
  <2> QED
    BY <2>1, <2>2, MovesKeep
<1>2. CASE ~sdie[x]
  BY <1>2, CloseSelfKeeps DEF DownEOF
<1> QED
  BY <1>1, <1>2

\* A frame is handed to sendLoop: there is no other of its stream.
LEMMA UpWriteKeeps ==
    ASSUME TunnelInv, NEW x \in Sides, UpWrite(x)
    PROVE  TunnelInv'
<1> DEFINE f == [cmd |-> "PSH", buf |-> ub[x]]
<1> DEFINE q == queue[x]
<1> DEFINE p == Append(q, f)
<1>1. /\ q \in Seq(Frame) /\ f \in Frame /\ ~Has(q, "PSH") /\ up[x] = "write"
  BY DEF TunnelInv, TypeOK, FramesInv, SideInv, Idle, Frame, UpWrite
<1>2. f.cmd = "PSH" /\ f.buf = ub[x]
  OBVIOUS
<1>3. /\ queue' = [queue EXCEPT ![x] = p]
      /\ up' = [up EXCEPT ![x] = "sent"]
      /\ UNCHANGED <<scenario, sessVars, tcpVars, main, down, ub, mem, sdie, rst, rbuf,
                     foreign, lost>>
  BY DEF UpWrite
<1> HIDE DEF f
<1>4. /\ p \in Seq(Frame)
      /\ Has(p, "FIN") <=> Has(q, "FIN")
      /\ Single(q, "PSH") => Single(p, "PSH")
      /\ Single(q, "FIN") => Single(p, "FIN")
      /\ In(p, ub[x])
  BY <1>1, <1>2, FrameQueued
<1> HIDE DEF p
<1>5. /\ queue'[x] = p /\ up'[x] = "sent"
      /\ \A z \in Sides : z # x => queue'[z] = queue[z] /\ up'[z] = up[z]
      /\ main' = main /\ ub' = ub /\ mem' = mem /\ sdie' = sdie /\ foreign' = foreign
  BY <1>3 DEF TunnelInv, TypeOK, Places, DownPlaces, sessVars
<1>6. TypeOK'
  <2>1. queue' \in [Sides -> Seq(Frame)]
        /\ up' \in [Sides -> {"none", "read", "write", "sent", "gone"}]
    BY <1>3, <1>4 DEF TunnelInv, TypeOK, Places, DownPlaces, sessVars
  <2>2. \A z \in Sides : Single(queue'[z], "FIN")
    BY <1>4, <1>5, OneFin DEF TunnelInv
  <2> QED
    BY <1>3, <2>1, <2>2 DEF TunnelInv, TypeOK, Places, DownPlaces, sessVars, Single,
       tcpVars
<1>7. FramesInv'
  BY <1>1, <1>4, <1>5 DEF TunnelInv, FramesInv, SideInv, Idle
<1>8. BuffersInv'
  BY <1>1, <1>5 DEF TunnelInv, BuffersInv, Live
<1>9. ForeignInv'
  BY <1>1, <1>5 DEF TunnelInv, ForeignInv, SpentInv
<1> QED
  BY <1>6, <1>7, <1>8, <1>9 DEF TunnelInv

\* A chunk is sent: it is the tunnel's own unless the Write it is of has given up,
\* and then it is the last.
LEMMA SendKeeps ==
    ASSUME TunnelInv, NEW x \in Sides, Transmit(x), Head(queue[x]).cmd = "PSH"
    PROVE  TunnelInv'
<1> DEFINE y == Other(x)
<1> DEFINE q == queue[x]
<1> DEFINE f == Head(q)
<1> DEFINE p == Tail(q)
<1>1. q \in Seq(Frame) /\ q # <<>> /\ Single(q, "PSH") /\ y \in Sides
  BY SideFacts DEF TunnelInv, TypeOK, FramesInv, SideInv, Idle, Transmit
<1>2. /\ queue' = [queue EXCEPT ![x] = p]
      /\ rbuf' = [rbuf EXCEPT ![y] = @ + 1] \/ rbuf' = [rbuf EXCEPT ![y] = @]
      /\ \/ foreign' = [foreign EXCEPT ![y] = @ + 1] /\ mem[x[1]][f.buf] # x[2]
         \/ foreign' = [foreign EXCEPT ![y] = @]
      /\ UNCHANGED <<scenario, sessVars, tcpVars, goVars, sdie, rst, lost>>
  BY DEF Transmit, goVars
<1> HIDE DEF f, p
<1>3. /\ p \in Seq(Frame) /\ Has(q, "PSH") /\ ~Has(p, "PSH") /\ f.cmd = "PSH"
      /\ Has(p, "FIN") => Has(q, "FIN")
      /\ Single(q, "FIN") => Single(p, "FIN")
      /\ \A b : In(q, b) => f.buf = b
      /\ \A b : In(q, b) => In(p, b)
      /\ Single(p, "PSH")
  BY <1>1, FrameSent DEF f, p
<1>4. /\ queue'[x] = p
      /\ \A z \in Sides : z # x => queue'[z] = queue[z]
      /\ main' = main /\ up' = up /\ ub' = ub /\ mem' = mem /\ sdie' = sdie
  BY <1>2 DEF TunnelInv, TypeOK, Places, DownPlaces, sessVars, goVars
<1>5. TypeOK'
  <2>1. /\ queue' \in [Sides -> Seq(Frame)]
        /\ rbuf' \in [Sides -> Nat] /\ foreign' \in [Sides -> Nat]
    <3>1. queue' \in [Sides -> Seq(Frame)]
      BY <1>2, <1>3 DEF TunnelInv, TypeOK, Places, DownPlaces, sessVars
    <3>2. rbuf[y] \in Nat /\ foreign[y] \in Nat
      BY <1>1 DEF TunnelInv, TypeOK, Places, DownPlaces, sessVars
    <3>3. rbuf[y] + 1 \in Nat /\ foreign[y] + 1 \in Nat
      BY <3>2
    <3>4. rbuf' \in [Sides -> Nat]
      BY <1>2, <3>2, <3>3 DEF TunnelInv, TypeOK, Places, DownPlaces, sessVars
    <3>5. foreign' \in [Sides -> Nat]
      BY <1>2, <3>2, <3>3 DEF TunnelInv, TypeOK, Places, DownPlaces, sessVars
    <3> QED
      BY <3>1, <3>4, <3>5
  <2>2. \A z \in Sides : Single(queue'[z], "FIN")
    BY <1>3, <1>4, OneFin DEF TunnelInv
  <2> QED
    BY <1>2, <2>1, <2>2 DEF TunnelInv, TypeOK, Places, DownPlaces, sessVars, Single,
       tcpVars, goVars
<1>6. FramesInv'
  BY <1>3, <1>4 DEF TunnelInv, FramesInv, SideInv, Idle
<1>7. BuffersInv'
  BY <1>4 DEF TunnelInv, BuffersInv, Live
<1>8. ForeignInv'
  <2>1. ASSUME foreign'[y] > 0
        PROVE  foreign'[y] = 1 /\ sdie[x] /\ up[x] = "gone"
    <3>1. foreign[y] = 0
      <4>1. foreign[y] \in Nat /\ (foreign[y] > 0 => ~Has(q, "PSH"))
        BY <1>1 DEF TunnelInv, TypeOK, Places, DownPlaces, sessVars, ForeignInv, SpentInv
      <4> QED
        BY <1>3, <4>1
    <3>2. foreign'[y] = 1 /\ mem[x[1]][f.buf] # x[2]
      BY <1>1, <1>2, <2>1, <3>1 DEF TunnelInv, TypeOK, Places, DownPlaces, sessVars
    <3>3. up[x] # "sent"
      <4>1. ASSUME up[x] = "sent" PROVE f.buf = ub[x] /\ mem[x[1]][ub[x]] = x[2]
        BY <1>3, <4>1 DEF TunnelInv, FramesInv, SideInv, Idle, BuffersInv
      <4> QED
        BY <3>2, <4>1
    <3>4. up[x] = "gone"
      BY <1>3, <3>3 DEF TunnelInv, TypeOK, FramesInv, SideInv, Idle
    <3> QED
      BY <1>3, <3>2, <3>4 DEF TunnelInv, FramesInv, SideInv, Idle
  <2>2. ASSUME NEW z \in Sides PROVE SpentInv(z)'
    <3>1. CASE z = x
      BY <1>3, <1>4, <2>1, <3>1 DEF SpentInv
    <3>2. CASE z # x
      <4>1. Other(z) \in Sides /\ Other(z) # y
        BY <3>2, SideFacts
      <4>2. foreign'[Other(z)] = foreign[Other(z)]
        BY <1>2, <4>1 DEF TunnelInv, TypeOK, Places, DownPlaces, sessVars
      <4> QED
        BY <1>4, <3>2, <4>2 DEF TunnelInv, ForeignInv, SpentInv
    <3> QED
      BY <3>1, <3>2
  <2> QED
    BY <2>2 DEF ForeignInv
<1> QED
  BY <1>5, <1>6, <1>7, <1>8 DEF TunnelInv

\* A SYN is sent: the client has a stream to accept.
LEMMA SendSynKeeps ==
    ASSUME TunnelInv, NEW x \in Sides, Transmit(x), Head(queue[x]).cmd = "SYN"
    PROVE  TunnelInv'
<1> DEFINE y == Other(x)
<1> DEFINE q == queue[x]
<1> DEFINE p == Tail(q)
<1>1. /\ y \in Sides /\ q \in Seq(Frame) /\ q # <<>>
      /\ queue' = [queue EXCEPT ![x] = p]
      /\ \/ main[y] = "none" /\ main' = [main EXCEPT ![y] = "accept"]
         \/ main' = main
      /\ UNCHANGED <<scenario, sessVars, tcpVars, up, down, ub, mem, sdie, rst, rbuf,
                     foreign, lost>>
  BY SideFacts DEF TunnelInv, TypeOK, Transmit
<1>2. /\ p \in Seq(Frame)
      /\ \A cmd : Has(p, cmd) => Has(q, cmd)
      /\ \A cmd : Single(q, cmd) => Single(p, cmd)
      /\ \A b : In(q, b) => In(p, b)
  BY <1>1, FrameSent
<1> HIDE DEF p, y
<1>3. /\ queue'[x] = p
      /\ \A z \in Sides : z # x => queue'[z] = queue[z]
      /\ \A z \in Sides : main'[z] \in Idle => main[z] \in Idle
  BY <1>1 DEF TunnelInv, TypeOK, Idle
<1>4. TypeOK'
  <2>1. queue' \in [Sides -> Seq(Frame)] /\ main' \in [Sides -> Places]
    BY <1>1, <1>2 DEF TunnelInv, TypeOK, Places
  <2>2. \A z \in Sides : Single(queue'[z], "FIN")
    BY <1>2, <1>3, OneFin DEF TunnelInv
  <2> QED
    BY <1>1, <2>1, <2>2 DEF TunnelInv, TypeOK, Places, Single, sessVars, tcpVars
<1>5. FramesInv'
  BY <1>1, <1>2, <1>3 DEF TunnelInv, FramesInv, SideInv
<1>6. BuffersInv'
  BY <1>1 DEF TunnelInv, BuffersInv, Live
<1>7. ForeignInv'
  BY <1>1, <1>2, <1>3 DEF TunnelInv, ForeignInv, SpentInv
<1> QED
  BY <1>4, <1>5, <1>6, <1>7 DEF TunnelInv

\* A FIN is sent: what is behind it goes nowhere.
LEMMA SendFinKeeps ==
    ASSUME TunnelInv, NEW x \in Sides, Transmit(x), Head(queue[x]).cmd = "FIN"
    PROVE  TunnelInv'
<1> DEFINE y == Other(x)
<1>1. /\ queue' = [queue EXCEPT ![x] = <<>>]
      /\ rst' = [rst EXCEPT ![y] = TRUE] \/ rst' = rst
      /\ lost' \subseteq Sides
      /\ UNCHANGED <<scenario, sessVars, tcpVars, goVars, sdie, rbuf, foreign>>
  <2>1. y \in Sides /\ rst[y] \in BOOLEAN /\ rst \in [Sides -> BOOLEAN]
    BY SideFacts DEF TunnelInv, TypeOK, Places, DownPlaces, sessVars
  <2>2. \/ rst' = [rst EXCEPT ![y] = TRUE]
        \/ rst' = [rst EXCEPT ![y] = rst[y]]
    BY <2>1 DEF Transmit
  <2> HIDE DEF y
  <2>3. [rst EXCEPT ![y] = rst[y]] = rst
    BY <2>1
  <2>4. /\ queue' = [queue EXCEPT ![x] = <<>>]
        /\ UNCHANGED <<scenario, sessVars, tcpVars, goVars, sdie, rbuf, foreign>>
        /\ lost' = lost \/ lost' = lost \cup {y}
    BY DEF Transmit, goVars, y
  <2>5. lost' \subseteq Sides
    BY <2>1, <2>4 DEF TunnelInv, TypeOK
  <2> QED
    BY <2>2, <2>3, <2>4, <2>5
<1>2. /\ queue'[x] = <<>>
      /\ \A z \in Sides : z # x => queue'[z] = queue[z]
      /\ main' = main /\ up' = up /\ ub' = ub /\ mem' = mem
  BY <1>1 DEF TunnelInv, TypeOK, Places, DownPlaces, sessVars, goVars
<1>3. TypeOK'
  <2>1. queue' \in [Sides -> Seq(Frame)] /\ rst' \in [Sides -> BOOLEAN]
    BY <1>1, NoFrames, SideFacts DEF TunnelInv, TypeOK, Places, DownPlaces, sessVars
  <2>2. \A z \in Sides : Single(queue'[z], "FIN")
    BY <1>2, NoFrames, OneFin DEF TunnelInv
  <2> QED
    BY <1>1, <2>1, <2>2 DEF TunnelInv, TypeOK, Places, DownPlaces, sessVars, Single,
       tcpVars, goVars
<1>4. FramesInv'
  BY <1>1, <1>2, NoFrames DEF TunnelInv, FramesInv, SideInv, Idle
<1>5. BuffersInv'
  BY <1>2 DEF TunnelInv, BuffersInv, Live
<1>6. ForeignInv'
  BY <1>1, <1>2, NoFrames DEF TunnelInv, ForeignInv, SpentInv
<1> QED
  BY <1>3, <1>4, <1>5, <1>6 DEF TunnelInv

\* Nobody has come.
LEMMA TunnelInit ==
    ASSUME Init
    PROVE  TunnelInv
<1> DEFINE b0 == CHOOSE b \in Buffers : TRUE
<1> DEFINE t0 == CHOOSE t \in Tunnels : TRUE
<1>1. b0 \in Buffers /\ t0 \in Tunnels
  <2>1. Tunnels # {}
    BY EnoughBuffers
  <2>2. Buffers # {}
    <3>1. Cardinality(Tunnels) \in Nat /\ Cardinality(Tunnels) # 0
      BY EnoughBuffers, FS_CardinalityType, FS_EmptySet
    <3>2. Cardinality({}) = 0
      BY FS_EmptySet
    <3>3. Cardinality(Buffers) \in Nat /\ Cardinality(Buffers) >= Cardinality(Tunnels)
      BY EnoughBuffers, FS_CardinalityType
    <3>4. Cardinality(Buffers) # 0
      BY <3>1, <3>3
    <3> QED
      BY <3>2, <3>4
  <2> QED
    BY <2>1, <2>2
<1>2. \A x \in Sides : /\ queue[x] = <<>> /\ up[x] = "none" /\ foreign[x] = 0
  BY DEF Init
<1>3. TypeOK
  <2>1. left \in [Sides -> Nat] /\ scenario \in Scenarios /\ dead \subseteq Ends
        /\ swept \subseteq dead /\ lost \subseteq Sides
    BY ScenariosTyped DEF Init
  <2>2. ub = [x \in Sides |-> b0] /\ mem = [e \in Ends |-> [b \in Buffers |-> t0]]
    BY DEF Init
  <2>3. ub \in [Sides -> Buffers] /\ mem \in [Ends -> [Buffers -> Tunnels]]
    <3> HIDE DEF b0, t0
    <3> QED
      BY <1>1, <2>2
  <2>4. /\ main \in [Sides -> Places]
        /\ up \in [Sides -> {"none", "read", "write", "sent", "gone"}]
        /\ down \in [Sides -> DownPlaces]
    BY DEF Init, Places, DownPlaces
  <2>5. /\ hup \in [Sides -> BOOLEAN] /\ tcp \in [Sides -> BOOLEAN]
        /\ sdie \in [Sides -> BOOLEAN] /\ rst \in [Sides -> BOOLEAN]
    BY DEF Init
  <2>6. rbuf \in [Sides -> Nat] /\ foreign \in [Sides -> Nat]
    BY DEF Init
  <2>7. queue \in [Sides -> Seq(Frame)] /\ \A x \in Sides : DOMAIN queue[x] = {}
    BY NoFrames DEF Init
  <2> QED
    BY <2>1, <2>3, <2>4, <2>5, <2>6, <2>7 DEF TypeOK, Places, DownPlaces
<1>4. FramesInv
  BY <1>2, NoFrames DEF FramesInv, SideInv
<1>5. BuffersInv
  BY <1>2 DEF BuffersInv, Live
<1>6. ForeignInv
  <2>1. \A x \in Sides : foreign[Other(x)] = 0
    BY <1>2, SideFacts
  <2> QED
    BY <2>1 DEF ForeignInv, SpentInv
<1> QED
  BY <1>3, <1>4, <1>5, <1>6 DEF TunnelInv

\* Every step keeps the invariant.
LEMMA TunnelNext ==
    ASSUME TunnelInv, [Next]_vars
    PROVE  TunnelInv'
<1>1. ASSUME NEW t \in Tunnels,
             HandleUser(t) \/ Register(t) \/ OpenFails(t) \/ HandleStream(t)
      PROVE  TunnelInv'
  BY <1>1, HandleUserKeeps, RegisterKeeps, OpenFailsKeeps, HandleStreamKeeps
<1>2. ASSUME NEW x \in Sides, HandleClient(x)
      PROVE  TunnelInv'
  BY <1>2, SelectKeeps, CloseStreamKeeps, CloseReturnsKeeps DEF HandleClient
<1>3. ASSUME NEW x \in Sides, Up(x)
      PROVE  TunnelInv'
  BY <1>3, UpReadKeeps, UpEndKeeps, UpWriteKeeps, UpSentKeeps, UpGivesUpKeeps DEF Up
<1>4. ASSUME NEW x \in Sides, Down(x)
      PROVE  TunnelInv'
  BY <1>4, DownCopyKeeps, DownWrittenKeeps, DownEOFKeeps, DownCloseReturnsKeeps DEF Down
<1>5. ASSUME NEW x \in Sides, Transmit(x)
      PROVE  TunnelInv'
  <2>1. Head(queue[x]).cmd \in {"SYN", "PSH", "FIN"}
    BY <1>5 DEF Transmit
  <2> QED
    BY <1>5, <2>1, SendSynKeeps, SendKeeps, SendFinKeeps
<1>6. ASSUME NEW x \in Sides, HangUp(x)
      PROVE  TunnelInv'
  BY <1>6, HangUpKeeps
<1>7. ASSUME NEW e \in Ends, Die(e) \/ Sweep(e)
      PROVE  TunnelInv'
  BY <1>7, DieKeeps, SweepKeeps
<1>8. CASE UNCHANGED vars
  <2>1. TypeOK'
    BY <1>8 DEF TunnelInv, TypeOK, Places, DownPlaces, sessVars, vars, tcpVars, goVars,
       streamVars
  <2> QED
    BY <1>8, <2>1, MovesKeep DEF vars, goVars, streamVars
<1> QED
  BY <1>1, <1>2, <1>3, <1>4, <1>5, <1>6, <1>7, <1>8 DEF Next

\* The inductive invariant holds in every state of every behaviour.
THEOREM TunnelInvariant == Spec => []TunnelInv
<1>1. Init => TunnelInv
  BY TunnelInit
<1>2. TunnelInv /\ [Next]_vars => TunnelInv'
  BY TunnelNext
<1> QED
  BY <1>1, <1>2, PTL DEF Spec

\* Every variable keeps its type; so there is always a buffer for the next tunnel, and
\* a stream sends one FIN although two goroutines and the session may close it.
THEOREM TunnelTyped == Spec => []TypeOK
<1>1. TunnelInv => TypeOK
  BY DEF TunnelInv
<1> QED
  BY <1>1, TunnelInvariant, PTL

\* A stream receives data of another tunnel only after it was closed at the end that
\* sends, and then one chunk of it: however many tunnels share the pool.
THEOREM ForeignAfterClose == Spec => []ForeignOnlyAfterClose
<1>1. ASSUME TunnelInv PROVE ForeignOnlyAfterClose
  <2>1. ASSUME NEW x \in Sides, foreign[x] > 0
        PROVE  foreign[x] = 1 /\ sdie[Other(x)]
    <3>1. Other(x) \in Sides /\ Other(Other(x)) = x
      BY SideFacts
    <3>2. SpentInv(Other(x))
      BY <1>1, <3>1 DEF TunnelInv, ForeignInv
    <3> QED
      BY <2>1, <3>1, <3>2 DEF SpentInv
  <2> QED
    BY <2>1 DEF ForeignOnlyAfterClose
<1> QED
  BY <1>1, TunnelInvariant, PTL

===============================================================================
