--------------------------- MODULE StreamLifeProofs ---------------------------
(***************************************************************************)
(* Proofs about StreamLife, for any number of streams, any plan, any       *)
(* backlog and any number of chunks.                                       *)
(***************************************************************************)
EXTENDS StreamLife, SequenceTheorems, FiniteSetTheorems, TLAPS

\* The frames recvLoop has not looked at yet: the one in hand, if there is one,
\* is the head of the wire.
ahead == [e \in Ends |-> IF recv[e] \in {"queue", "FUL", "notify"} THEN Tail(wire[e])
                                                            ELSE wire[e]]

\* The steps of the frames ahead: f is one more for e, or the first one is taken.
Adds(e, f) == ahead' = [ahead EXCEPT ![e] = Append(@, f)]
Takes(e)   == ahead' = [ahead EXCEPT ![e] = Tail(@)]

\* Whether the SYN, and whether the FIN, of a stream is on its way to the object h.
SynAhead(h) ==
    \E i \in DOMAIN ahead[h[1]] :
        ahead[h[1]][i].cmd = "SYN" /\ ahead[h[1]][i].sid = h[2]

FinAhead(h) ==
    \E i \in DOMAIN ahead[h[1]] :
        ahead[h[1]][i].cmd = "FIN" /\ ahead[h[1]][i].sid = h[2]

\* For an object of the acceptor: its end has not heard of the stream yet.
Unborn(h) == app[Inward(h)] = "new" \/ SynAhead(h)

Opening(h)   == Opener[h[2]] = h[1]
Accepting(h) == Opener[h[2]] # h[1]
InTable(h)   == h[2] \in table[h[1]]
Notifying(h) == recv[h[1]] \in {"FUL", "notify"} /\ InHand(h[1]) = h[2]

\* The object waits for its place in chAccepts, or has it.
Queueing(h) == recv[h[1]] = "queue" /\ InHand(h[1]) = h[2]
Queued(h)   == \E i \in DOMAIN accepts[h[1]] : accepts[h[1]][i] = h[2]

\* The frame in hand is there, and its stream is in the table as long as
\* streamLock is held.
HandInv ==
    /\ \A e \in Ends : recv[e] \in {"queue", "FUL", "notify"} => wire[e] # <<>>
    /\ \A h \in Handles : Queueing(h) \/ Notifying(h) => InTable(h)

\* A stream on its way to AcceptStream came from the peer and is not used yet.
AcceptsInv ==
    \A h \in Handles :
        /\ Queueing(h) \/ Queued(h) => Accepting(h) /\ app[h] = "new" /\ InTable(h)
        /\ Queueing(h) => ~Queued(h)

\* No stream is in chAccepts twice.
OnceInv ==
    \A e \in Ends : \A i, j \in DOMAIN accepts[e] : accepts[e][i] = accepts[e][j] => i = j

\* A SYN goes to the end that does not open the stream, before every other frame
\* of the stream.
SynInv ==
    \A e \in Ends : \A i \in DOMAIN ahead[e] :
        ahead[e][i].cmd = "SYN" =>
            /\ Opener[ahead[e][i].sid] # e
            /\ \A j \in DOMAIN ahead[e] :
                  ahead[e][j].sid = ahead[e][i].sid => i <= j

\* A stream is born once at either end: the opener registers it, and before its
\* SYN there is nothing of it, on the wire or at the acceptor.
BirthInv ==
    \A h \in Handles :
        /\ Opening(h) /\ app[h] # "open" => ~InTable(h)
        /\ Accepting(h) /\ app[Inward(h)] = "new" =>
              \A i \in DOMAIN ahead[h[1]] : ahead[h[1]][i].sid # h[2]
        /\ Accepting(h) /\ Unborn(h) => app[h] = "new" /\ ~InTable(h)

\* Nobody uses a stream that was not given to him, only the opener registers it,
\* and Stream.Close closes die before anything else.
UseInv ==
    \A h \in Handles :
        /\ app[h] # "open" =>
              /\ closer[h] = "none" /\ reader[h] = "idle" /\ writer[h] = "idle"
              /\ sent[h] = 0 /\ got[h] = <<>>
        /\ app[h] \in {"register", "failed"} => Opening(h)
        /\ closer[h] # "none" => sdie[h]

\* An open stream is in the table until Close takes it out, and what is not in
\* the table has nothing buffered.
TableInv ==
    \A h \in Handles :
        /\ closer[h] = "table" => InTable(h)
        /\ closer[h] \in {"FIN", "done"} => ~InTable(h)
        /\ app[h] = "open" /\ closer[h] = "none" => InTable(h)
        /\ ~InTable(h) => buf[h] = <<>>

\* Something will wake a Read that sleeps: the event, recvLoop on its way to send
\* it, or the stream's die.
Awake(h) == event[h] \/ Notifying(h) \/ sdie[h]

\* NoLostReadEvent and one step earlier: Read found the buffer empty and is about
\* to look at rstflag.
EventInv ==
    \A h \in Handles :
        /\ reader[h] = "wait" /\ (buf[h] # <<>> \/ rst[h]) => Awake(h)
        /\ reader[h] = "rstflag" /\ buf[h] # <<>> => Awake(h)

\* The FIN of a stream, and all that follows from it, comes after Close of the
\* peer.
EndInv ==
    \A h \in Handles :
        /\ FinAhead(h) \/ rst[h] => closer[Inward(h)] = "done"
        /\ eof[h] \/ reader[h] \in {"close", "EOF"} => rst[h]

\* Frame i ahead carries chunk n for the object h.
Carries(h, i, n) ==
    /\ ahead[h[1]][i].cmd = "PSH" /\ ahead[h[1]][i].sid = h[2]
    /\ ahead[h[1]][i].chunk = n

\* Whether chunk n is on its way to h.
Ahead(h, n) == \E i \in DOMAIN ahead[h[1]] : Carries(h, i, n)

\* The PSH frames of a stream are in order, and after one of them all the later
\* chunks follow.
WireInv ==
    \A h \in Handles : \A i \in DOMAIN ahead[h[1]] : \A n \in Nat :
        Carries(h, i, n) =>
            /\ n \in 1 .. sent[Inward(h)]
            /\ \A m \in n .. sent[Inward(h)] : Ahead(h, m)
            /\ \A j \in DOMAIN ahead[h[1]], m \in Nat :
                  Carries(h, j, m) /\ j < i => m < n

\* Consecutive numbers, up to the last one sent.
Run(q, h) ==
    \A i \in DOMAIN q : q[i] = q[1] + i - 1 /\ q[i] \in 1 .. sent[Inward(h)]

\* The chunk that recvLoop took last, 0 before the first one.
LastChunk(h) == IF buf[h] # <<>> THEN buf[h][Len(buf[h])]
                ELSE IF got[h] # <<>> THEN got[h][Len(got[h])]
                ELSE 0

\* The acceptor expects every chunk, from the time before the stream's birth
\* until it closes the stream; the opener those after the first it got.
Expects(h) ==
    \/ Accepting(h) /\ (InTable(h) \/ Unborn(h))
    \/ InTable(h) /\ (buf[h] # <<>> \/ got[h] # <<>>)

\* What was read and what is buffered are consecutive, for the acceptor from the
\* first chunk on.
ReadInv ==
    \A h \in Handles :
        /\ Run(got[h], h) /\ Run(buf[h], h)
        /\ buf[h] # <<>> /\ got[h] # <<>> => buf[h][1] = got[h][Len(got[h])] + 1
        /\ Accepting(h) =>
              /\ got[h] # <<>> => got[h][1] = 1
              /\ buf[h] # <<>> /\ got[h] = <<>> => buf[h][1] = 1

\* What is on its way to somebody who expects it is exactly the rest.
RestInv ==
    \A h \in Handles : Expects(h) =>
        \A n \in 1 .. sent[Inward(h)] : n > LastChunk(h) <=> Ahead(h, n)

\* The inductive invariant.
LifeInv ==
    /\ TypeOK
    /\ HandInv
    /\ AcceptsInv
    /\ OnceInv
    /\ SynInv
    /\ BirthInv
    /\ UseInv
    /\ TableInv
    /\ EventInv
    /\ EndInv
    /\ WireInv
    /\ ReadInv
    /\ RestInv

-----------------------------------------------------------------------------
\* There is one peer.
LEMMA Peers ==
    /\ \A e \in Ends : Peer(e) \in Ends /\ Peer(e) # e /\ Peer(Peer(e)) = e
    /\ \A e, x \in Ends : x = e \/ x = Peer(e)
<1>1. ASSUME NEW e \in Ends PROVE \E p \in Ends : p # e /\ Ends = {e, p}
  <2>1. IsFiniteSet(Ends \ {e}) /\ Cardinality(Ends \ {e}) = 1
    BY TwoEnds, FS_RemoveElement
  <2>2. PICK p : Ends \ {e} = {p}
    BY <2>1, FS_Singleton
  <2> QED
    BY <2>2
<1>2. ASSUME NEW e \in Ends PROVE Peer(e) \in Ends /\ Peer(e) # e
  BY <1>1 DEF Peer
<1> QED
  BY <1>1, <1>2

\* An object belongs to one end and one stream, and has one opposite.
LEMMA HandleFacts ==
    /\ \A h \in Handles :
          /\ h[1] \in Ends /\ h[2] \in Streams /\ h = <<h[1], h[2]>>
          /\ Inward(h) \in Handles /\ Inward(Inward(h)) = h /\ Inward(h) # h
          /\ Inward(h)[1] = Peer(h[1]) /\ Inward(h)[2] = h[2]
          /\ Opening(h) <=> Accepting(Inward(h))
          /\ Opening(h) <=> ~Accepting(h)
    /\ \A e \in Ends, s \in Streams :
          <<e, s>> \in Handles /\ <<e, s>>[1] = e /\ <<e, s>>[2] = s
    /\ \A h, k \in Handles : h[1] = k[1] /\ h[2] = k[2] => h = k
<1>1. ASSUME NEW h \in Handles
      PROVE  /\ h[1] \in Ends /\ h[2] \in Streams /\ h = <<h[1], h[2]>>
             /\ Peer(h[1]) \in Ends /\ Peer(h[1]) # h[1] /\ Peer(Peer(h[1])) = h[1]
             /\ Opener[h[2]] = h[1] \/ Opener[h[2]] = Peer(h[1])
  BY Peers, OpenersAreEnds DEF Handles
<1>2. ASSUME NEW e \in Ends, NEW s \in Streams
      PROVE  <<e, s>> \in Handles /\ <<e, s>>[1] = e /\ <<e, s>>[2] = s
  BY DEF Handles
<1>3. \A h, k \in Handles : h[1] = k[1] /\ h[2] = k[2] => h = k
  BY <1>1
<1> QED
  BY <1>1, <1>2, <1>3 DEF Inward, Opening, Accepting

\* What the first element of a queue leaves behind.
LEMMA HeadAndTail ==
    ASSUME NEW S, NEW q \in Seq(S), q # <<>>
    PROVE  /\ Head(q) \in S /\ Head(q) = q[1] /\ 1 \in DOMAIN q
           /\ Tail(q) \in Seq(S) /\ Len(Tail(q)) = Len(q) - 1
           /\ \A i \in DOMAIN Tail(q) : i + 1 \in DOMAIN q /\ Tail(q)[i] = q[i + 1]
                                        /\ i \in Nat /\ i # 0
           /\ \A i \in DOMAIN q : i = 1 \/ (i - 1 \in DOMAIN Tail(q) /\ i \in Nat)
BY HeadTailProperties, LenProperties

\* What the last element of a queue adds.
LEMMA AppendedTo ==
    ASSUME NEW S, NEW q \in Seq(S), NEW x \in S
    PROVE  /\ Append(q, x) \in Seq(S) /\ Len(Append(q, x)) = Len(q) + 1
           /\ Len(q) + 1 \in DOMAIN Append(q, x) /\ Append(q, x)[Len(q) + 1] = x
           /\ \A i \in DOMAIN q : /\ i \in DOMAIN Append(q, x)
                                  /\ Append(q, x)[i] = q[i] /\ i \in Nat /\ i <= Len(q)
           /\ \A i \in DOMAIN Append(q, x) : i \in DOMAIN q \/ i = Len(q) + 1
BY AppendProperties, LenProperties

\* The frames ahead are frames.
LEMMA AheadTyped ==
    ASSUME TypeOK, HandInv
    PROVE  ahead \in [Ends -> Seq(Frame)]
<1>1. ASSUME NEW e \in Ends, recv[e] \in {"queue", "FUL", "notify"}
      PROVE  Tail(wire[e]) \in Seq(Frame)
  BY <1>1, HeadAndTail DEF TypeOK, HandInv
<1> QED
  BY <1>1 DEF ahead, TypeOK

\* What happens neither on the wire nor in recvLoop leaves the frames ahead.
LEMMA AheadKept == UNCHANGED <<wire, recv>> => ahead' = ahead
BY DEF ahead

\* Then so is what is ahead for every object.
LEMMA SameAhead ==
    ASSUME ahead' = ahead
    PROVE  \A h \in Handles :
              /\ SynAhead(h)' <=> SynAhead(h)
              /\ FinAhead(h)' <=> FinAhead(h)
              /\ \A n \in Nat : Ahead(h, n)' <=> Ahead(h, n)
BY DEF SynAhead, FinAhead, Ahead, Carries

\* What recvLoop has in hand and what is queued for AcceptStream is the same as
\* long as neither moves.
LEMMA SameHand ==
    ASSUME UNCHANGED <<recv, wire>>
    PROVE  \A h \in Handles : (Queueing(h)' <=> Queueing(h)) /\ (Notifying(h)' <=> Notifying(h))
BY DEF Queueing, Notifying, InHand

\* Who is queued in chAccepts depends on chAccepts alone.
LEMMA SameQueue == UNCHANGED accepts => \A h \in Handles : Queued(h)' <=> Queued(h)
BY DEF Queued

\* The last chunk depends on the data alone.
LEMMA SameLast ==
    UNCHANGED <<buf, got>> => \A h \in Handles : LastChunk(h)' = LastChunk(h)
BY DEF LastChunk

\* recvLoop is done with the frame in hand: those ahead are what they were.
LEMMA AheadDone ==
    ASSUME TypeOK, NEW e \in Ends, recv[e] \in {"queue", "FUL", "notify"},
           recv' = [recv EXCEPT ![e] = "frame"], Handled(e)
    PROVE  ahead' = ahead
BY DEF ahead, Handled, TypeOK, RecvPC

\* recvLoop takes a frame in hand, or drops it.
LEMMA AheadTaken ==
    ASSUME TypeOK, HandInv, NEW e \in Ends, NEW cmd, Handling(e, cmd),
           \/ Handled(e) /\ recv' = recv
           \/ /\ wire' = wire
              /\ \E pc \in {"queue", "FUL", "notify"} : recv' = [recv EXCEPT ![e] = pc]
    PROVE  /\ Takes(e)
           /\ ahead[e] = wire[e] /\ ahead[e] # <<>> /\ ahead[e][1] = Head(wire[e])
           /\ ahead[e][1] \in Frame /\ ahead[e][1].cmd = cmd
           /\ InHand(e) = ahead[e][1].sid
           /\ wire' = wire => \A x \in Ends : InHand(x)' = InHand(x)
           /\ Handled(e) => \A x \in Ends \ {e} : InHand(x)' = InHand(x)
<1>1. ahead[e] = wire[e] /\ recv[e] = "frame" /\ wire[e] # <<>>
  BY DEF ahead, Handling
<1>2. Takes(e)
  BY <1>1 DEF Takes, ahead, Handled, TypeOK, RecvPC
<1>3. Head(wire[e]) = wire[e][1] /\ Head(wire[e]) \in Frame
  BY <1>1, HeadAndTail DEF TypeOK
<1> QED
  BY <1>1, <1>2, <1>3 DEF Handling, InHand, Handled, TypeOK

\* writeFrame adds a frame at the end, or none, and touches no frame in hand.
LEMMA AheadPut ==
    ASSUME TypeOK, HandInv, NEW e \in Ends, NEW s \in Streams, NEW n \in Nat,
           NEW cmd \in {"SYN", "PSH", "FIN"}, Put(e, cmd, s, n), recv' = recv
    PROVE  /\ \/ ~connOpen[e] /\ ahead' = ahead
              \/ /\ connOpen[e]
                 /\ Adds(Peer(e), [cmd |-> cmd, sid |-> s, chunk |-> n])
           /\ [cmd |-> cmd, sid |-> s, chunk |-> n] \in Frame
           /\ wire' \in [Ends -> Seq(Frame)]
           /\ \A x \in Ends : wire[x] # <<>> => wire'[x] # <<>> /\ InHand(x)' = InHand(x)
<1> DEFINE f == [cmd |-> cmd, sid |-> s, chunk |-> n]
<1>1. f \in Frame
  BY DEF Frame
<1>2. CASE ~connOpen[e]
  BY <1>1, <1>2 DEF Put, ahead, InHand, TypeOK
<1>3. CASE connOpen[e]
  <2>1. /\ wire' = [wire EXCEPT ![Peer(e)] = Append(@, f)]
        /\ Peer(e) \in Ends
    BY <1>3, Peers DEF Put
  <2> HIDE DEF f
  <2>2. ASSUME NEW q \in Seq(Frame)
        PROVE  /\ Append(q, f) \in Seq(Frame) /\ Append(q, f) # <<>>
               /\ q # <<>> => Head(Append(q, f)) = Head(q)
               /\ q # <<>> => Tail(Append(q, f)) = Append(Tail(q), f)
    BY <1>1, AppendProperties, HeadTailAppend
  <2>3. wire' \in [Ends -> Seq(Frame)]
    BY <2>1, <2>2 DEF TypeOK
  <2>4. \A x \in Ends : wire[x] # <<>> => wire'[x] # <<>> /\ InHand(x)' = InHand(x)
    BY <2>1, <2>2 DEF TypeOK, InHand
  <2>5. Adds(Peer(e), f)
    <3>1. ASSUME NEW x \in Ends
          PROVE  ahead'[x] = IF x = Peer(e) THEN Append(ahead[x], f) ELSE ahead[x]
      BY <2>1, <2>2, <3>1 DEF ahead, TypeOK, HandInv
    <3> QED
      BY <3>1, <2>1 DEF ahead, Adds
  <2> QED
    BY <1>1, <1>3, <2>3, <2>4, <2>5 DEF f
<1> QED
  BY <1>2, <1>3

\* The same, frame by frame.
LEMMA AheadAppended ==
    ASSUME ahead \in [Ends -> Seq(Frame)], NEW p \in Ends, NEW f \in Frame,
           Adds(p, f)
    PROVE  /\ \A x \in Ends \ {p} : ahead'[x] = ahead[x]
           /\ \A i \in DOMAIN ahead[p] : /\ i \in DOMAIN ahead'[p]
                                         /\ ahead'[p][i] = ahead[p][i]
                                         /\ i \in Nat /\ i < Len(ahead[p]) + 1
           /\ \A i \in DOMAIN ahead'[p] : i \in DOMAIN ahead[p] \/ i = Len(ahead[p]) + 1
           /\ Len(ahead[p]) + 1 \in DOMAIN ahead'[p]
           /\ ahead'[p][Len(ahead[p]) + 1] = f
           /\ Len(ahead[p]) \in Nat
BY AppendedTo, LenProperties DEF Adds

\* And without the first one.
LEMMA AheadTailed ==
    ASSUME ahead \in [Ends -> Seq(Frame)], NEW p \in Ends, ahead[p] # <<>>,
           Takes(p)
    PROVE  /\ \A x \in Ends \ {p} : ahead'[x] = ahead[x]
           /\ 1 \in DOMAIN ahead[p]
           /\ \A i \in DOMAIN ahead'[p] : /\ i + 1 \in DOMAIN ahead[p]
                                          /\ ahead'[p][i] = ahead[p][i + 1]
                                          /\ i \in Nat /\ i # 0
           /\ \A i \in DOMAIN ahead[p] : i = 1 \/ (i - 1 \in DOMAIN ahead'[p] /\ i \in Nat)
BY HeadAndTail DEF Takes

\* The channel of accepted streams, without its first element.
LEMMA QueueTailed ==
    ASSUME TypeOK, OnceInv, NEW e \in Ends, accepts[e] # <<>>,
           accepts' = [accepts EXCEPT ![e] = Tail(@)]
    PROVE  /\ accepts' \in [Ends -> Seq(Streams)]
           /\ \A x \in Ends : Len(accepts'[x]) <= Backlog
           /\ OnceInv'
           /\ \A h \in Handles : h[1] = e /\ h[2] = Head(accepts[e]) => Queued(h) /\ ~Queued(h)'
           /\ \A h \in Handles : Queued(h)' => Queued(h)
<1>1. ASSUME NEW x \in Ends
      PROVE  /\ accepts[x] \in Seq(Streams) /\ Len(accepts[x]) \in Nat
             /\ Len(accepts[x]) <= Backlog
             /\ accepts'[x] = IF x = e THEN Tail(accepts[e]) ELSE accepts[x]
  BY LenProperties DEF TypeOK
<1>2. /\ Head(accepts[e]) = accepts[e][1] /\ 1 \in DOMAIN accepts[e]
      /\ Tail(accepts[e]) \in Seq(Streams)
      /\ Len(Tail(accepts[e])) = Len(accepts[e]) - 1
      /\ \A i \in DOMAIN Tail(accepts[e]) :
            /\ i + 1 \in DOMAIN accepts[e] /\ Tail(accepts[e])[i] = accepts[e][i + 1]
            /\ i \in Nat /\ i # 0
  BY <1>1, HeadAndTail
<1>3. accepts' \in [Ends -> Seq(Streams)] /\ \A x \in Ends : Len(accepts'[x]) <= Backlog
  <2>1. accepts' \in [Ends -> Seq(Streams)]
    BY <1>2 DEF TypeOK
  <2>2. ASSUME NEW x \in Ends PROVE Len(accepts'[x]) <= Backlog
    BY <1>1, <1>2, PlansTyped
  <2> QED
    BY <2>1, <2>2
<1>4. OnceInv'
  <2> SUFFICES ASSUME NEW x \in Ends, NEW i \in DOMAIN accepts'[x], NEW j \in DOMAIN accepts'[x],
                      accepts'[x][i] = accepts'[x][j]
               PROVE  i = j
    BY DEF OnceInv
  <2>1. CASE x = e
    BY <1>1, <1>2, <2>1 DEF OnceInv
  <2>2. CASE x # e
    BY <1>1, <2>2 DEF OnceInv
  <2> QED
    BY <2>1, <2>2
<1>5. ASSUME NEW h \in Handles PROVE Queued(h)' => Queued(h)
  BY <1>1, <1>2, HandleFacts DEF Queued
<1>6. ASSUME NEW h \in Handles, h[1] = e, h[2] = Head(accepts[e])
      PROVE  Queued(h) /\ ~Queued(h)'
  <2>1. Queued(h)
    BY <1>2, <1>6 DEF Queued
  <2>2. ASSUME NEW i \in DOMAIN Tail(accepts[e]), Tail(accepts[e])[i] = accepts[e][1]
        PROVE  FALSE
    BY <1>2, <2>2 DEF OnceInv
  <2> QED
    BY ZenonT(40), <1>1, <1>2, <1>6, <2>1, <2>2 DEF Queued
<1> QED
  BY <1>3, <1>4, <1>5, <1>6

\* And with one more at its end, which was not in it.
LEMMA QueueAppended ==
    ASSUME TypeOK, OnceInv, NEW g \in Handles, Len(accepts[g[1]]) < Backlog, ~Queued(g),
           accepts' = [accepts EXCEPT ![g[1]] = Append(@, g[2])]
    PROVE  /\ accepts' \in [Ends -> Seq(Streams)]
           /\ \A x \in Ends : Len(accepts'[x]) <= Backlog
           /\ OnceInv'
           /\ \A h \in Handles : Queued(h)' <=> h = g \/ Queued(h)
<1> DEFINE e == g[1]
<1> DEFINE q == accepts[e]
<1>0. e \in Ends /\ g[2] \in Streams
  BY HandleFacts
<1>1. ASSUME NEW x \in Ends
      PROVE  /\ accepts[x] \in Seq(Streams) /\ Len(accepts[x]) \in Nat
             /\ Len(accepts[x]) <= Backlog
             /\ accepts'[x] = IF x = e THEN Append(q, g[2]) ELSE accepts[x]
  BY <1>0, LenProperties DEF TypeOK
<1>2. /\ Append(q, g[2]) \in Seq(Streams) /\ Len(Append(q, g[2])) = Len(q) + 1
      /\ Len(q) + 1 \in DOMAIN Append(q, g[2]) /\ Append(q, g[2])[Len(q) + 1] = g[2]
      /\ \A i \in DOMAIN q : /\ i \in DOMAIN Append(q, g[2])
                             /\ Append(q, g[2])[i] = q[i] /\ i \in Nat /\ i <= Len(q)
      /\ \A i \in DOMAIN Append(q, g[2]) : i \in DOMAIN q \/ i = Len(q) + 1
  BY <1>0, <1>1, AppendedTo
<1>3. accepts' \in [Ends -> Seq(Streams)] /\ \A x \in Ends : Len(accepts'[x]) <= Backlog
  <2>1. accepts' \in [Ends -> Seq(Streams)]
    BY <1>2 DEF TypeOK
  <2>2. ASSUME NEW x \in Ends PROVE Len(accepts'[x]) <= Backlog
    BY <1>0, <1>1, <1>2, PlansTyped
  <2> QED
    BY <2>1, <2>2
<1>4. OnceInv'
  <2> SUFFICES ASSUME NEW x \in Ends, NEW i \in DOMAIN accepts'[x], NEW j \in DOMAIN accepts'[x],
                      accepts'[x][i] = accepts'[x][j]
               PROVE  i = j
    BY DEF OnceInv
  <2>1. CASE x = e
    <3>1. \A k \in DOMAIN q : q[k] # g[2]
      BY DEF Queued
    <3> QED
      BY <1>0, <1>1, <1>2, <2>1, <3>1 DEF OnceInv
  <2>2. CASE x # e
    BY <1>1, <2>2 DEF OnceInv
  <2> QED
    BY <2>1, <2>2
<1>5. ASSUME NEW h \in Handles PROVE Queued(h)' <=> h = g \/ Queued(h)
  <2>1. CASE h[1] = e
    <3>1. h = g <=> h[2] = g[2]
      BY <2>1, HandleFacts
    <3> HIDE DEF q
    <3>2. Queued(h)' <=> \E i \in DOMAIN Append(q, g[2]) : Append(q, g[2])[i] = h[2]
      BY <1>0, <1>1, <2>1 DEF Queued
    <3>3. Queued(h) <=> \E i \in DOMAIN q : q[i] = h[2]
      BY <2>1 DEF Queued, q
    <3> QED
      BY <1>2, <3>1, <3>2, <3>3
  <2>2. CASE h[1] # e
    BY <1>1, <2>2, HandleFacts DEF Queued
  <2> QED
    BY <2>1, <2>2
<1> QED
  BY <1>3, <1>4, <1>5

\* A frame more on the wire is one more ahead of the object it is for.
LEMMA AheadGrown ==
    ASSUME ahead \in [Ends -> Seq(Frame)], NEW p \in Ends, NEW f \in Frame,
           Adds(p, f)
    PROVE  \A h \in Handles :
              /\ SynAhead(h)' <=> SynAhead(h) \/ (h[1] = p /\ f.cmd = "SYN" /\ f.sid = h[2])
              /\ FinAhead(h)' <=> FinAhead(h) \/ (h[1] = p /\ f.cmd = "FIN" /\ f.sid = h[2])
              /\ \A n \in Nat : Ahead(h, n)' <=>
                    \/ Ahead(h, n)
                    \/ h[1] = p /\ f.cmd = "PSH" /\ f.sid = h[2] /\ f.chunk = n
<1>1. SUFFICES ASSUME NEW h \in Handles
      PROVE  /\ SynAhead(h)' <=> SynAhead(h) \/ (h[1] = p /\ f.cmd = "SYN" /\ f.sid = h[2])
             /\ FinAhead(h)' <=> FinAhead(h) \/ (h[1] = p /\ f.cmd = "FIN" /\ f.sid = h[2])
             /\ \A n \in Nat : Ahead(h, n)' <=>
                   \/ Ahead(h, n)
                   \/ h[1] = p /\ f.cmd = "PSH" /\ f.sid = h[2] /\ f.chunk = n
  OBVIOUS
<1>2. CASE h[1] # p
  <2>1. ahead'[h[1]] = ahead[h[1]]
    BY <1>2, HandleFacts, AheadAppended
  <2> QED
    BY <1>2, <2>1 DEF SynAhead, FinAhead, Ahead, Carries
<1>3. CASE h[1] = p
  <2> DEFINE q == ahead[p]
  <2> DEFINE r == ahead'[p]
  <2>1. /\ \A i \in DOMAIN q : i \in DOMAIN r /\ r[i] = q[i]
        /\ \A i \in DOMAIN r : i \in DOMAIN q \/ i = Len(q) + 1
        /\ Len(q) + 1 \in DOMAIN r /\ r[Len(q) + 1] = f
    BY AheadAppended
  <2>2. /\ SynAhead(h) <=> \E i \in DOMAIN q : q[i].cmd = "SYN" /\ q[i].sid = h[2]
        /\ SynAhead(h)' <=> \E i \in DOMAIN r : r[i].cmd = "SYN" /\ r[i].sid = h[2]
    BY <1>3 DEF SynAhead
  <2>3. /\ FinAhead(h) <=> \E i \in DOMAIN q : q[i].cmd = "FIN" /\ q[i].sid = h[2]
        /\ FinAhead(h)' <=> \E i \in DOMAIN r : r[i].cmd = "FIN" /\ r[i].sid = h[2]
    BY <1>3 DEF FinAhead
  <2>4. ASSUME NEW n \in Nat
        PROVE  /\ Ahead(h, n) <=> \E i \in DOMAIN q :
                     q[i].cmd = "PSH" /\ q[i].sid = h[2] /\ q[i].chunk = n
               /\ Ahead(h, n)' <=> \E i \in DOMAIN r :
                     r[i].cmd = "PSH" /\ r[i].sid = h[2] /\ r[i].chunk = n
    BY <1>3 DEF Ahead, Carries
  <2> HIDE DEF q, r
  <2>5. SynAhead(h)' <=> SynAhead(h) \/ (f.cmd = "SYN" /\ f.sid = h[2])
    BY <2>1, <2>2
  <2>6. FinAhead(h)' <=> FinAhead(h) \/ (f.cmd = "FIN" /\ f.sid = h[2])
    BY <2>1, <2>3
  <2>7. ASSUME NEW n \in Nat
        PROVE  Ahead(h, n)' <=>
                  Ahead(h, n) \/ (f.cmd = "PSH" /\ f.sid = h[2] /\ f.chunk = n)
    <3>1. ASSUME Ahead(h, n)'
          PROVE  Ahead(h, n) \/ (f.cmd = "PSH" /\ f.sid = h[2] /\ f.chunk = n)
      BY <2>1, <2>4, <3>1
    <3>2. Ahead(h, n) => Ahead(h, n)'
      BY <2>1, <2>4
    <3>3. f.cmd = "PSH" /\ f.sid = h[2] /\ f.chunk = n => Ahead(h, n)'
      BY <2>1, <2>4
    <3> QED
      BY <3>1, <3>2, <3>3
  <2> QED
    BY <1>3, <2>5, <2>6, <2>7
<1> QED
  BY <1>2, <1>3

\* The frame that recvLoop looks at was the first one ahead of the object it is for.
LEMMA AheadShrunk ==
    ASSUME ahead \in [Ends -> Seq(Frame)], NEW p \in Ends, ahead[p] # <<>>,
           Takes(p)
    PROVE  LET f == ahead[p][1] IN \A h \in Handles :
              /\ SynAhead(h) <=> SynAhead(h)' \/ (h[1] = p /\ f.cmd = "SYN" /\ f.sid = h[2])
              /\ FinAhead(h) <=> FinAhead(h)' \/ (h[1] = p /\ f.cmd = "FIN" /\ f.sid = h[2])
              /\ \A n \in Nat : Ahead(h, n) <=>
                    \/ Ahead(h, n)'
                    \/ h[1] = p /\ f.cmd = "PSH" /\ f.sid = h[2] /\ f.chunk = n
<1> DEFINE f == ahead[p][1]
<1>1. SUFFICES ASSUME NEW h \in Handles
      PROVE  /\ SynAhead(h) <=> SynAhead(h)' \/ (h[1] = p /\ f.cmd = "SYN" /\ f.sid = h[2])
             /\ FinAhead(h) <=> FinAhead(h)' \/ (h[1] = p /\ f.cmd = "FIN" /\ f.sid = h[2])
             /\ \A n \in Nat : Ahead(h, n) <=>
                   \/ Ahead(h, n)'
                   \/ h[1] = p /\ f.cmd = "PSH" /\ f.sid = h[2] /\ f.chunk = n
  OBVIOUS
<1>2. CASE h[1] # p
  <2>1. ahead'[h[1]] = ahead[h[1]]
    BY <1>2, HandleFacts, AheadTailed
  <2> QED
    BY <1>2, <2>1 DEF SynAhead, FinAhead, Ahead, Carries
<1>3. CASE h[1] = p
  <2> DEFINE q == ahead[p]
  <2> DEFINE r == ahead'[p]
  <2>1. /\ \A i \in DOMAIN r : \E j \in DOMAIN q : q[j] = r[i]
        /\ \A i \in DOMAIN q : q[i] = f \/ \E j \in DOMAIN r : r[j] = q[i]
        /\ \E i \in DOMAIN q : q[i] = f
    <3>1. 1 \in DOMAIN q /\ \A i \in DOMAIN r : /\ i + 1 \in DOMAIN q /\ r[i] = q[i + 1]
                                                /\ i \in Nat /\ i # 0
      BY AheadTailed
    <3>2. ASSUME NEW i \in DOMAIN q, i # 1 PROVE i - 1 \in DOMAIN r /\ r[i - 1] = q[i]
      <4>1. i - 1 \in DOMAIN r /\ i \in Nat
        BY <3>2, AheadTailed
      <4> HIDE DEF q, r
      <4>2. (i - 1) + 1 = i
        BY <4>1
      <4> QED
        BY <3>1, <4>1, <4>2
    <3>3. q[1] = f
      OBVIOUS
    <3> HIDE DEF q, r
    <3> QED
      BY <3>1, <3>2, <3>3
  <2>2. /\ SynAhead(h) <=> \E i \in DOMAIN q : q[i].cmd = "SYN" /\ q[i].sid = h[2]
        /\ SynAhead(h)' <=> \E i \in DOMAIN r : r[i].cmd = "SYN" /\ r[i].sid = h[2]
    BY <1>3 DEF SynAhead
  <2>3. /\ FinAhead(h) <=> \E i \in DOMAIN q : q[i].cmd = "FIN" /\ q[i].sid = h[2]
        /\ FinAhead(h)' <=> \E i \in DOMAIN r : r[i].cmd = "FIN" /\ r[i].sid = h[2]
    BY <1>3 DEF FinAhead
  <2>4. ASSUME NEW n \in Nat
        PROVE  /\ Ahead(h, n) <=> \E i \in DOMAIN q :
                     q[i].cmd = "PSH" /\ q[i].sid = h[2] /\ q[i].chunk = n
               /\ Ahead(h, n)' <=> \E i \in DOMAIN r :
                     r[i].cmd = "PSH" /\ r[i].sid = h[2] /\ r[i].chunk = n
    BY <1>3 DEF Ahead, Carries
  <2> HIDE DEF q, r
  <2>5. SynAhead(h) <=> SynAhead(h)' \/ (f.cmd = "SYN" /\ f.sid = h[2])
    <3>1. ASSUME SynAhead(h) PROVE SynAhead(h)' \/ (f.cmd = "SYN" /\ f.sid = h[2])
      <4>1. PICK i \in DOMAIN q : q[i].cmd = "SYN" /\ q[i].sid = h[2]
        BY <2>2, <3>1
      <4>2. q[i] = f \/ \E j \in DOMAIN r : r[j] = q[i]
        BY <2>1
      <4> QED
        BY <2>2, <4>1, <4>2
    <3>2. SynAhead(h)' => SynAhead(h)
      BY <2>1, <2>2
    <3>3. f.cmd = "SYN" /\ f.sid = h[2] => SynAhead(h)
      BY <2>1, <2>2
    <3> QED
      BY <3>1, <3>2, <3>3
  <2>6. FinAhead(h) <=> FinAhead(h)' \/ (f.cmd = "FIN" /\ f.sid = h[2])
    <3>1. ASSUME FinAhead(h) PROVE FinAhead(h)' \/ (f.cmd = "FIN" /\ f.sid = h[2])
      <4>1. PICK i \in DOMAIN q : q[i].cmd = "FIN" /\ q[i].sid = h[2]
        BY <2>3, <3>1
      <4>2. q[i] = f \/ \E j \in DOMAIN r : r[j] = q[i]
        BY <2>1
      <4> QED
        BY <2>3, <4>1, <4>2
    <3>2. FinAhead(h)' => FinAhead(h)
      BY <2>1, <2>3
    <3>3. f.cmd = "FIN" /\ f.sid = h[2] => FinAhead(h)
      BY <2>1, <2>3
    <3> QED
      BY <3>1, <3>2, <3>3
  <2>7. ASSUME NEW n \in Nat
        PROVE  Ahead(h, n) <=>
                  Ahead(h, n)' \/ (f.cmd = "PSH" /\ f.sid = h[2] /\ f.chunk = n)
    <3>1. ASSUME Ahead(h, n) PROVE Ahead(h, n)' \/ (f.cmd = "PSH" /\ f.sid = h[2] /\ f.chunk = n)
      <4>1. PICK i \in DOMAIN q : q[i].cmd = "PSH" /\ q[i].sid = h[2] /\ q[i].chunk = n
        BY <2>4, <3>1
      <4>2. q[i] = f \/ \E j \in DOMAIN r : r[j] = q[i]
        BY <2>1
      <4> QED
        BY <2>4, <4>1, <4>2
    <3>2. Ahead(h, n)' => Ahead(h, n)
      BY <2>1, <2>4
    <3>3. f.cmd = "PSH" /\ f.sid = h[2] /\ f.chunk = n => Ahead(h, n)
      BY <2>1, <2>4
    <3> QED
      BY <3>1, <3>2, <3>3
  <2> QED
    BY <1>3, <2>5, <2>6, <2>7
<1> QED
  BY <1>2, <1>3

\* Each part of the invariant depends on a few variables only: a step that leaves
\* those alone leaves the part.
LEMMA Untouched ==
    ASSUME LifeInv
    PROVE  /\ UNCHANGED <<recv, wire, table>> => HandInv'
           /\ UNCHANGED <<accepts, app, table, recv, wire>> => AcceptsInv'
           /\ UNCHANGED <<accepts>> => OnceInv'
           /\ UNCHANGED <<ahead>> => SynInv'
           /\ UNCHANGED <<app, table, ahead>> => BirthInv'
           /\ UNCHANGED <<app, closer, reader, writer, sent, got, sdie>> => UseInv'
           /\ UNCHANGED <<closer, table, app, buf>> => TableInv'
           /\ UNCHANGED <<reader, buf, rst, event, recv, wire, sdie>> => EventInv'
           /\ UNCHANGED <<ahead, closer, rst, eof, reader>> => EndInv'
           /\ UNCHANGED <<ahead, sent>> => WireInv'
           /\ UNCHANGED <<got, buf, sent>> => ReadInv'
           /\ UNCHANGED <<got, buf, sent, table, app, ahead>> => RestInv'
<1>1. UNCHANGED <<recv, wire, table>> => HandInv'
  BY DEF LifeInv, HandInv, Queueing, Notifying, InTable, InHand
<1>2. UNCHANGED <<accepts, app, table, recv, wire>> => AcceptsInv'
  BY DEF LifeInv, AcceptsInv, Queueing, Queued, InTable, InHand
<1>3. UNCHANGED <<accepts>> => OnceInv'
  BY DEF LifeInv, OnceInv
<1>4. UNCHANGED <<ahead>> => SynInv'
  BY DEF LifeInv, SynInv
<1>5. UNCHANGED <<app, table, ahead>> => BirthInv'
  BY DEF LifeInv, BirthInv, Unborn, InTable, SynAhead
<1>6. UNCHANGED <<app, closer, reader, writer, sent, got, sdie>> => UseInv'
  BY DEF LifeInv, UseInv
<1>7. UNCHANGED <<closer, table, app, buf>> => TableInv'
  BY DEF LifeInv, TableInv, InTable
<1>8. UNCHANGED <<reader, buf, rst, event, recv, wire, sdie>> => EventInv'
  BY DEF LifeInv, EventInv, Awake, Notifying, InHand
<1>9. UNCHANGED <<ahead, closer, rst, eof, reader>> => EndInv'
  BY DEF LifeInv, EndInv, FinAhead
<1>10. UNCHANGED <<ahead, sent>> => WireInv'
  BY DEF LifeInv, WireInv, Ahead, Carries
<1>11. UNCHANGED <<got, buf, sent>> => ReadInv'
  BY DEF LifeInv, ReadInv, Run
<1>12. UNCHANGED <<got, buf, sent, table, app, ahead>> => RestInv'
  BY DEF LifeInv, RestInv, Expects, LastChunk, Ahead, Carries, Unborn, SynAhead,
         InTable
<1> QED
  BY <1>1, <1>2, <1>3, <1>4, <1>5, <1>6, <1>7, <1>8, <1>9, <1>10, <1>11, <1>12

\* OpenStream gives up: the stream was never in anybody's hands.
LEMMA OpenFailKeeps ==
    ASSUME LifeInv, NEW e \in Ends, NEW s \in Streams, OpenFail(e, s) PROVE LifeInv'
<1> DEFINE g == <<e, s>>
<1> USE HandleFacts
<1>0. /\ TypeOK /\ HandInv /\ AcceptsInv /\ OnceInv /\ SynInv /\ BirthInv /\ UseInv
      /\ TableInv /\ EventInv /\ EndInv /\ WireInv /\ ReadInv /\ RestInv
  BY DEF LifeInv
<1>1. /\ g \in Handles /\ g[1] = e /\ g[2] = s
      /\ app[g] = "register"
      /\ app' = [app EXCEPT ![g] = "failed"]
      /\ UNCHANGED <<plan, wire, connOpen, die, sess, table, accepts, recv, sdie, rst,
                    buf, event, reader, writer, closer, sent, finAt, got,
                    eof>>
  BY DEF OpenFail, objVars, readVars, sentVars, LockFree
<1>2. ahead' = ahead
  BY <1>1, AheadKept
<1> HIDE DEF g
<1>3. \A h \in Handles : app'[h] = IF h = g THEN "failed" ELSE app[h]
  BY <1>0, <1>1 DEF TypeOK
<1>4. TypeOK'
  <2>1. app' \in [Handles -> AppPC]
    BY <1>0, <1>1 DEF TypeOK, AppPC
  <2> QED
    BY <1>0, <1>1, <2>1 DEF TypeOK
<1>5. AcceptsInv'
  BY SameHand, SameQueue, <1>0, <1>1, <1>2, <1>3
  DEF AcceptsInv, InTable, UseInv, Opening
<1>6. BirthInv'
  BY SMTT(30), SameAhead, <1>0, <1>1, <1>2, <1>3 DEF BirthInv, Unborn, InTable, UseInv
<1>7. UseInv'
  BY <1>0, <1>1, <1>2, <1>3 DEF UseInv
<1>8. TableInv'
  BY <1>0, <1>1, <1>2, <1>3 DEF TableInv, InTable
<1>9. RestInv'
  BY SameAhead, SameLast, <1>0, <1>1, <1>2, <1>3 DEF RestInv, Expects, Unborn, InTable
<1>10. HandInv' /\ OnceInv' /\ SynInv' /\ EventInv' /\ EndInv' /\ WireInv' /\ ReadInv'
  BY <1>1, <1>2, Untouched
<1> QED
  BY <1>4, <1>5, <1>6, <1>7, <1>8, <1>9, <1>10 DEF LifeInv

\* OpenStream puts the stream in the table.
LEMMA OpenRegisterKeeps ==
    ASSUME LifeInv, NEW e \in Ends, NEW s \in Streams, OpenRegister(e, s) PROVE LifeInv'
<1> DEFINE g == <<e, s>>
<1> USE HandleFacts
<1>0. /\ TypeOK /\ HandInv /\ AcceptsInv /\ OnceInv /\ SynInv /\ BirthInv /\ UseInv
      /\ TableInv /\ EventInv /\ EndInv /\ WireInv /\ ReadInv /\ RestInv
  BY DEF LifeInv
<1>1. /\ g \in Handles /\ g[1] = e /\ g[2] = s
      /\ app[g] = "register"
      /\ table' = [table EXCEPT ![e] = @ \cup {s}]
      /\ app' = [app EXCEPT ![g] = "open"]
      /\ UNCHANGED <<plan, wire, connOpen, die, sess, accepts, recv, sdie, rst, buf,
                    event, reader, writer, closer, sent, finAt, got, eof>>
  BY DEF OpenRegister, objVars, readVars, sentVars, LockFree
<1>2. ahead' = ahead
  BY <1>1, AheadKept
<1> HIDE DEF g
<1>3. /\ \A h \in Handles : InTable(h)' <=> h = g \/ InTable(h)
      /\ \A h \in Handles : app'[h] = IF h = g THEN "open" ELSE app[h]
  <2>1. \A h \in Handles : InTable(h)' <=> h = g \/ InTable(h)
    BY SMTT(30), <1>0, <1>1 DEF TypeOK, InTable
  <2>2. \A h \in Handles : app'[h] = IF h = g THEN "open" ELSE app[h]
    BY <1>0, <1>1 DEF TypeOK
  <2> QED
    BY <2>1, <2>2
<1>4. Opening(g) /\ \A h \in Handles : Unborn(h)' => Unborn(h)
  BY SameAhead, <1>0, <1>1, <1>2, <1>3 DEF UseInv, Unborn
<1>5. TypeOK'
  <2>1. table' \in [Ends -> SUBSET Streams]
    BY <1>0, <1>1 DEF TypeOK
  <2>2. app' \in [Handles -> AppPC]
    BY <1>0, <1>1 DEF TypeOK, AppPC
  <2> QED
    BY <1>0, <1>1, <2>1, <2>2 DEF TypeOK
<1>6. HandInv'
  BY SameHand, <1>0, <1>1, <1>2, <1>3, <1>4 DEF HandInv
<1>7. AcceptsInv'
  BY SameHand, SameQueue, <1>0, <1>1, <1>2, <1>3, <1>4 DEF AcceptsInv, UseInv
<1>8. BirthInv'
  BY SameAhead, <1>0, <1>1, <1>2, <1>3, <1>4 DEF BirthInv, Unborn
<1>9. UseInv'
  BY <1>0, <1>1, <1>2, <1>3, <1>4 DEF UseInv
<1>10. TableInv'
  BY <1>0, <1>1, <1>2, <1>3, <1>4 DEF TableInv, UseInv
<1>11. RestInv'
  BY SameAhead, SameLast, <1>0, <1>1, <1>2, <1>3, <1>4
  DEF RestInv, Expects, Unborn, UseInv, TableInv
<1>12. OnceInv' /\ SynInv' /\ EventInv' /\ EndInv' /\ WireInv' /\ ReadInv'
  BY <1>1, <1>2, Untouched
<1> QED
  BY <1>5, <1>6, <1>7, <1>8, <1>9, <1>10, <1>11, <1>12 DEF LifeInv

\* Write starts.
LEMMA WriteStartKeeps ==
    ASSUME LifeInv, NEW e \in Ends, NEW s \in Streams, WriteStart(e, s) PROVE LifeInv'
<1> DEFINE g == <<e, s>>
<1> USE HandleFacts
<1>0. /\ TypeOK /\ HandInv /\ AcceptsInv /\ OnceInv /\ SynInv /\ BirthInv /\ UseInv
      /\ TableInv /\ EventInv /\ EndInv /\ WireInv /\ ReadInv /\ RestInv
  BY DEF LifeInv
<1>1. /\ g \in Handles /\ g[1] = e /\ g[2] = s
      /\ app[g] = "open"
      /\ writer' = [writer EXCEPT ![g] = "send"]
      /\ UNCHANGED <<plan, wire, connOpen, die, sess, table, accepts, recv, app, sdie,
                    rst, buf, event, reader, closer, sent, finAt, got, eof>>
  BY DEF WriteStart, objVars, readVars, sentVars, LockFree
<1>2. ahead' = ahead
  BY <1>1, AheadKept
<1> HIDE DEF g
<1>3. \A h \in Handles : writer'[h] = IF h = g THEN "send" ELSE writer[h]
  BY <1>0, <1>1 DEF TypeOK
<1>4. TypeOK'
  <2>1. writer' \in [Handles -> WriterPC]
    BY <1>0, <1>1 DEF TypeOK, WriterPC
  <2> QED
    BY <1>0, <1>1, <2>1 DEF TypeOK
<1>5. UseInv'
  BY <1>0, <1>1, <1>2, <1>3 DEF UseInv
<1>6. HandInv' /\ AcceptsInv' /\ OnceInv' /\ SynInv' /\ BirthInv' /\ TableInv'
      /\ EventInv' /\ EndInv' /\ WireInv' /\ ReadInv' /\ RestInv'
  BY <1>1, <1>2, Untouched
<1> QED
  BY <1>4, <1>5, <1>6 DEF LifeInv

\* Write gives up.
LEMMA WriteAbortKeeps ==
    ASSUME LifeInv, NEW e \in Ends, NEW s \in Streams, WriteAbort(e, s) PROVE LifeInv'
<1> DEFINE g == <<e, s>>
<1> USE HandleFacts
<1>0. /\ TypeOK /\ HandInv /\ AcceptsInv /\ OnceInv /\ SynInv /\ BirthInv /\ UseInv
      /\ TableInv /\ EventInv /\ EndInv /\ WireInv /\ ReadInv /\ RestInv
  BY DEF LifeInv
<1>1. /\ g \in Handles /\ g[1] = e /\ g[2] = s
      /\ writer' = [writer EXCEPT ![g] = "idle"]
      /\ UNCHANGED <<plan, wire, connOpen, die, sess, table, accepts, recv, app, sdie,
                    rst, buf, event, reader, closer, sent, finAt, got, eof>>
  BY DEF WriteAbort, objVars, readVars, sentVars, LockFree
<1>2. ahead' = ahead
  BY <1>1, AheadKept
<1> HIDE DEF g
<1>3. \A h \in Handles : writer'[h] = IF h = g THEN "idle" ELSE writer[h]
  BY <1>0, <1>1 DEF TypeOK
<1>4. TypeOK'
  <2>1. writer' \in [Handles -> WriterPC]
    BY <1>0, <1>1 DEF TypeOK, WriterPC
  <2> QED
    BY <1>0, <1>1, <2>1 DEF TypeOK
<1>5. UseInv'
  BY <1>0, <1>1, <1>2, <1>3 DEF UseInv
<1>6. HandInv' /\ AcceptsInv' /\ OnceInv' /\ SynInv' /\ BirthInv' /\ TableInv'
      /\ EventInv' /\ EndInv' /\ WireInv' /\ ReadInv' /\ RestInv'
  BY <1>1, <1>2, Untouched
<1> QED
  BY <1>4, <1>5, <1>6 DEF LifeInv

\* Read returns io.EOF.
LEMMA ReadEOFKeeps ==
    ASSUME LifeInv, NEW e \in Ends, NEW s \in Streams, ReadEOF(e, s) PROVE LifeInv'
<1> DEFINE g == <<e, s>>
<1> USE HandleFacts
<1>0. /\ TypeOK /\ HandInv /\ AcceptsInv /\ OnceInv /\ SynInv /\ BirthInv /\ UseInv
      /\ TableInv /\ EventInv /\ EndInv /\ WireInv /\ ReadInv /\ RestInv
  BY DEF LifeInv
<1>1. /\ g \in Handles /\ g[1] = e /\ g[2] = s
      /\ reader[g] \in {"EOF", "close"}
      /\ reader' = [reader EXCEPT ![g] = "idle"]
      /\ eof' = [eof EXCEPT ![g] = TRUE]
      /\ UNCHANGED <<plan, wire, connOpen, die, sess, table, accepts, recv, app, sdie,
                    rst, buf, event, writer, closer, sent, finAt, got>>
  BY DEF ReadEOF, objVars, readVars, sentVars, LockFree
<1>2. ahead' = ahead
  BY <1>1, AheadKept
<1> HIDE DEF g
<1>3. /\ \A h \in Handles : reader'[h] = IF h = g THEN "idle" ELSE reader[h]
      /\ \A h \in Handles : eof'[h] <=> h = g \/ eof[h]
  <2>1. \A h \in Handles : reader'[h] = IF h = g THEN "idle" ELSE reader[h]
    BY <1>0, <1>1 DEF TypeOK
  <2>2. \A h \in Handles : eof'[h] <=> h = g \/ eof[h]
    BY <1>0, <1>1 DEF TypeOK
  <2> QED
    BY <2>1, <2>2
<1>4. TypeOK'
  <2>1. reader' \in [Handles -> ReaderPC]
    BY <1>0, <1>1 DEF TypeOK, ReaderPC
  <2>2. eof' \in [Handles -> BOOLEAN]
    BY <1>0, <1>1 DEF TypeOK
  <2> QED
    BY <1>0, <1>1, <2>1, <2>2 DEF TypeOK
<1>5. UseInv'
  BY <1>0, <1>1, <1>2, <1>3 DEF UseInv
<1>6. EventInv'
  BY SameHand, <1>0, <1>1, <1>2, <1>3 DEF EventInv, Awake
<1>7. EndInv'
  BY SameAhead, <1>0, <1>1, <1>2, <1>3 DEF EndInv
<1>8. HandInv' /\ AcceptsInv' /\ OnceInv' /\ SynInv' /\ BirthInv' /\ TableInv'
      /\ WireInv' /\ ReadInv' /\ RestInv'
  BY <1>1, <1>2, Untouched
<1> QED
  BY <1>4, <1>5, <1>6, <1>7, <1>8 DEF LifeInv

\* Read takes the event.
LEMMA ReadEventKeeps ==
    ASSUME LifeInv, NEW e \in Ends, NEW s \in Streams, ReadEvent(e, s) PROVE LifeInv'
<1> DEFINE g == <<e, s>>
<1> USE HandleFacts
<1>0. /\ TypeOK /\ HandInv /\ AcceptsInv /\ OnceInv /\ SynInv /\ BirthInv /\ UseInv
      /\ TableInv /\ EventInv /\ EndInv /\ WireInv /\ ReadInv /\ RestInv
  BY DEF LifeInv
<1>1. /\ g \in Handles /\ g[1] = e /\ g[2] = s
      /\ reader[g] = "wait"
      /\ event' = [event EXCEPT ![g] = FALSE]
      /\ reader' = [reader EXCEPT ![g] = "buffer"]
      /\ UNCHANGED <<plan, wire, connOpen, die, sess, table, accepts, recv, app, sdie,
                    rst, buf, writer, closer, sent, finAt, got, eof>>
  BY DEF ReadEvent, objVars, readVars, sentVars, LockFree
<1>2. ahead' = ahead
  BY <1>1, AheadKept
<1> HIDE DEF g
<1>3. /\ \A h \in Handles : event'[h] <=> h # g /\ event[h]
      /\ \A h \in Handles : reader'[h] = IF h = g THEN "buffer" ELSE reader[h]
  <2>1. \A h \in Handles : event'[h] <=> h # g /\ event[h]
    BY <1>0, <1>1 DEF TypeOK
  <2>2. \A h \in Handles : reader'[h] = IF h = g THEN "buffer" ELSE reader[h]
    BY <1>0, <1>1 DEF TypeOK
  <2> QED
    BY <2>1, <2>2
<1>4. TypeOK'
  <2>1. event' \in [Handles -> BOOLEAN]
    BY <1>0, <1>1 DEF TypeOK
  <2>2. reader' \in [Handles -> ReaderPC]
    BY <1>0, <1>1 DEF TypeOK, ReaderPC
  <2> QED
    BY <1>0, <1>1, <2>1, <2>2 DEF TypeOK
<1>5. UseInv'
  BY <1>0, <1>1, <1>2, <1>3 DEF UseInv
<1>6. EventInv'
  BY SameHand, <1>0, <1>1, <1>2, <1>3 DEF EventInv, Awake
<1>7. EndInv'
  BY SameAhead, <1>0, <1>1, <1>2, <1>3 DEF EndInv
<1>8. HandInv' /\ AcceptsInv' /\ OnceInv' /\ SynInv' /\ BirthInv' /\ TableInv'
      /\ WireInv' /\ ReadInv' /\ RestInv'
  BY <1>1, <1>2, Untouched
<1> QED
  BY <1>4, <1>5, <1>6, <1>7, <1>8 DEF LifeInv

\* Read fails on die.
LEMMA ReadBrokenKeeps ==
    ASSUME LifeInv, NEW e \in Ends, NEW s \in Streams, ReadBroken(e, s) PROVE LifeInv'
<1> DEFINE g == <<e, s>>
<1> USE HandleFacts
<1>0. /\ TypeOK /\ HandInv /\ AcceptsInv /\ OnceInv /\ SynInv /\ BirthInv /\ UseInv
      /\ TableInv /\ EventInv /\ EndInv /\ WireInv /\ ReadInv /\ RestInv
  BY DEF LifeInv
<1>1. /\ g \in Handles /\ g[1] = e /\ g[2] = s
      /\ reader' = [reader EXCEPT ![g] = "idle"]
      /\ UNCHANGED <<plan, wire, connOpen, die, sess, table, accepts, recv, app, sdie,
                    rst, buf, event, writer, closer, sent, finAt, got, eof>>
  BY DEF ReadBroken, objVars, readVars, sentVars, LockFree
<1>2. ahead' = ahead
  BY <1>1, AheadKept
<1> HIDE DEF g
<1>3. \A h \in Handles : reader'[h] = IF h = g THEN "idle" ELSE reader[h]
  BY <1>0, <1>1 DEF TypeOK
<1>4. TypeOK'
  <2>1. reader' \in [Handles -> ReaderPC]
    BY <1>0, <1>1 DEF TypeOK, ReaderPC
  <2> QED
    BY <1>0, <1>1, <2>1 DEF TypeOK
<1>5. UseInv'
  BY <1>0, <1>1, <1>2, <1>3 DEF UseInv
<1>6. EventInv'
  BY SameHand, <1>0, <1>1, <1>2, <1>3 DEF EventInv, Awake
<1>7. EndInv'
  BY SameAhead, <1>0, <1>1, <1>2, <1>3 DEF EndInv
<1>8. HandInv' /\ AcceptsInv' /\ OnceInv' /\ SynInv' /\ BirthInv' /\ TableInv'
      /\ WireInv' /\ ReadInv' /\ RestInv'
  BY <1>1, <1>2, Untouched
<1> QED
  BY <1>4, <1>5, <1>6, <1>7, <1>8 DEF LifeInv

\* Close closes die.
LEMMA CloseDieKeeps ==
    ASSUME LifeInv, NEW e \in Ends, NEW s \in Streams, CloseDie(e, s) PROVE LifeInv'
<1> DEFINE g == <<e, s>>
<1> USE HandleFacts
<1>0. /\ TypeOK /\ HandInv /\ AcceptsInv /\ OnceInv /\ SynInv /\ BirthInv /\ UseInv
      /\ TableInv /\ EventInv /\ EndInv /\ WireInv /\ ReadInv /\ RestInv
  BY DEF LifeInv
<1>1. /\ g \in Handles /\ g[1] = e /\ g[2] = s
      /\ app[g] = "open"
      /\ ~sdie[g]
      /\ sdie' = [sdie EXCEPT ![g] = TRUE]
      /\ closer' = [closer EXCEPT ![g] = "table"]
      /\ UNCHANGED <<plan, wire, connOpen, die, sess, table, accepts, recv, app, rst,
                    buf, event, reader, writer, sent, finAt, got, eof>>
  BY DEF CloseDie, objVars, readVars, sentVars, LockFree
<1>2. ahead' = ahead
  BY <1>1, AheadKept
<1> HIDE DEF g
<1>3. /\ \A h \in Handles : sdie'[h] <=> h = g \/ sdie[h]
      /\ \A h \in Handles : closer'[h] = IF h = g THEN "table" ELSE closer[h]
  <2>1. \A h \in Handles : sdie'[h] <=> h = g \/ sdie[h]
    BY <1>0, <1>1 DEF TypeOK
  <2>2. \A h \in Handles : closer'[h] = IF h = g THEN "table" ELSE closer[h]
    BY <1>0, <1>1 DEF TypeOK
  <2> QED
    BY <2>1, <2>2
<1>4. TypeOK'
  <2>1. sdie' \in [Handles -> BOOLEAN]
    BY <1>0, <1>1 DEF TypeOK
  <2>2. closer' \in [Handles -> CloserPC]
    BY <1>0, <1>1 DEF TypeOK, CloserPC
  <2> QED
    BY <1>0, <1>1, <2>1, <2>2 DEF TypeOK
<1>5. UseInv'
  BY <1>0, <1>1, <1>2, <1>3 DEF UseInv
<1>6. TableInv'
  BY <1>0, <1>1, <1>2, <1>3 DEF TableInv, InTable, UseInv
<1>7. EventInv'
  BY SameHand, <1>0, <1>1, <1>2, <1>3 DEF EventInv, Awake
<1>8. EndInv'
  BY SameAhead, <1>0, <1>1, <1>2, <1>3 DEF EndInv, UseInv
<1>9. HandInv' /\ AcceptsInv' /\ OnceInv' /\ SynInv' /\ BirthInv' /\ WireInv'
      /\ ReadInv' /\ RestInv'
  BY <1>1, <1>2, Untouched
<1> QED
  BY <1>4, <1>5, <1>6, <1>7, <1>8, <1>9 DEF LifeInv

\* streamClosed takes the stream out of the table.
LEMMA CloseTableKeeps ==
    ASSUME LifeInv, NEW e \in Ends, NEW s \in Streams, CloseTable(e, s) PROVE LifeInv'
<1> DEFINE g == <<e, s>>
<1> USE HandleFacts
<1>0. /\ TypeOK /\ HandInv /\ AcceptsInv /\ OnceInv /\ SynInv /\ BirthInv /\ UseInv
      /\ TableInv /\ EventInv /\ EndInv /\ WireInv /\ ReadInv /\ RestInv
  BY DEF LifeInv
<1>1. /\ g \in Handles /\ g[1] = e /\ g[2] = s
      /\ closer[g] = "table"
      /\ recv[e] \in {"frame", "stopped"}
      /\ buf' = [buf EXCEPT ![g] = <<>>]
      /\ table' = [table EXCEPT ![e] = @ \ {s}]
      /\ closer' = [closer EXCEPT ![g] = "FIN"]
      /\ UNCHANGED <<plan, wire, connOpen, die, sess, accepts, recv, app, sdie, rst,
                    event, reader, writer, sent, finAt, got, eof>>
  BY DEF CloseTable, objVars, readVars, sentVars, LockFree
<1>2. ahead' = ahead
  BY <1>1, AheadKept
<1> HIDE DEF g
<1>3. /\ \A h \in Handles : buf'[h] = IF h = g THEN <<>> ELSE buf[h]
      /\ \A h \in Handles : InTable(h)' <=> h # g /\ InTable(h)
      /\ \A h \in Handles : closer'[h] = IF h = g THEN "FIN" ELSE closer[h]
  <2>1. \A h \in Handles : buf'[h] = IF h = g THEN <<>> ELSE buf[h]
    BY <1>0, <1>1 DEF TypeOK
  <2>2. \A h \in Handles : InTable(h)' <=> h # g /\ InTable(h)
    BY SMTT(30), <1>0, <1>1 DEF TypeOK, InTable
  <2>3. \A h \in Handles : closer'[h] = IF h = g THEN "FIN" ELSE closer[h]
    BY <1>0, <1>1 DEF TypeOK
  <2> QED
    BY <2>1, <2>2, <2>3
<1>4. ~Queueing(g) /\ ~Notifying(g) /\ app[g] = "open"
  BY <1>0, <1>1 DEF Queueing, Notifying, UseInv
<1>5. \A h \in Handles : h # g => LastChunk(h)' = LastChunk(h)
  BY <1>1, <1>3 DEF LastChunk
<1>6. TypeOK'
  <2>1. buf' \in [Handles -> Seq(Nat)]
    BY <1>0, <1>1 DEF TypeOK
  <2>2. table' \in [Ends -> SUBSET Streams]
    BY <1>0, <1>1 DEF TypeOK
  <2>3. closer' \in [Handles -> CloserPC]
    BY <1>0, <1>1 DEF TypeOK, CloserPC
  <2> QED
    BY <1>0, <1>1, <2>1, <2>2, <2>3 DEF TypeOK
<1>7. HandInv'
  BY SameHand, <1>0, <1>1, <1>2, <1>3, <1>4, <1>5 DEF HandInv
<1>8. AcceptsInv'
  BY SameHand, SameQueue, <1>0, <1>1, <1>2, <1>3, <1>4, <1>5 DEF AcceptsInv, UseInv
<1>9. BirthInv'
  BY SameAhead, <1>0, <1>1, <1>2, <1>3, <1>4, <1>5 DEF BirthInv, Unborn, UseInv
<1>10. UseInv'
  BY <1>0, <1>1, <1>2, <1>3, <1>4, <1>5 DEF UseInv
<1>11. TableInv'
  BY <1>0, <1>1, <1>2, <1>3, <1>4, <1>5 DEF TableInv
<1>12. EventInv'
  BY SameHand, <1>0, <1>1, <1>2, <1>3, <1>4, <1>5 DEF EventInv, Awake
<1>13. EndInv'
  BY SameAhead, <1>0, <1>1, <1>2, <1>3, <1>4, <1>5 DEF EndInv
<1>14. ReadInv'
  BY <1>0, <1>1, <1>2, <1>3, <1>4, <1>5 DEF ReadInv, Run
<1>15. RestInv'
  BY SameAhead, SameLast, <1>0, <1>1, <1>2, <1>3, <1>4, <1>5
  DEF RestInv, Expects, Unborn, UseInv, BirthInv
<1>16. OnceInv' /\ SynInv' /\ WireInv'
  BY <1>1, <1>2, Untouched
<1> QED
  BY <1>6, <1>7, <1>8, <1>9, <1>10, <1>11, <1>12, <1>13, <1>14, <1>15, <1>16
  DEF LifeInv

\* Session.Close closes die of the session.
LEMMA SessionCloseKeeps ==
    ASSUME LifeInv, NEW e \in Ends, SessionClose(e) PROVE LifeInv'
<1> USE HandleFacts
<1>0. /\ TypeOK /\ HandInv /\ AcceptsInv /\ OnceInv /\ SynInv /\ BirthInv /\ UseInv
      /\ TableInv /\ EventInv /\ EndInv /\ WireInv /\ ReadInv /\ RestInv
  BY DEF LifeInv
<1>1. /\ die' = [die EXCEPT ![e] = TRUE]
      /\ sess' = [sess EXCEPT ![e] = "streams"]
      /\ UNCHANGED <<plan, wire, connOpen, table, accepts, recv, app, sdie, rst, buf,
                    event, reader, writer, closer, sent, finAt, got, eof>>
  BY DEF SessionClose, objVars, readVars, sentVars, LockFree
<1>2. ahead' = ahead
  BY <1>1, AheadKept
<1>4. TypeOK'
  <2>1. die' \in [Ends -> BOOLEAN]
    BY <1>0, <1>1 DEF TypeOK
  <2>2. sess' \in [Ends -> SessPC]
    BY <1>0, <1>1 DEF TypeOK, SessPC
  <2> QED
    BY <1>0, <1>1, <2>1, <2>2 DEF TypeOK
<1>5. HandInv' /\ AcceptsInv' /\ OnceInv' /\ SynInv' /\ BirthInv' /\ UseInv'
      /\ TableInv' /\ EventInv' /\ EndInv' /\ WireInv' /\ ReadInv' /\ RestInv'
  BY <1>1, <1>2, Untouched
<1> QED
  BY <1>4, <1>5 DEF LifeInv

\* Session.Close closes die of every stream in the table.
LEMMA CloseStreamsKeeps ==
    ASSUME LifeInv, NEW e \in Ends, CloseStreams(e) PROVE LifeInv'
<1> USE HandleFacts
<1>0. /\ TypeOK /\ HandInv /\ AcceptsInv /\ OnceInv /\ SynInv /\ BirthInv /\ UseInv
      /\ TableInv /\ EventInv /\ EndInv /\ WireInv /\ ReadInv /\ RestInv
  BY DEF LifeInv
<1>1. /\ sdie' = [h \in Handles |-> sdie[h] \/ (h[1] = e /\ h[2] \in table[e])]
      /\ sess' = [sess EXCEPT ![e] = "conn"]
      /\ UNCHANGED <<plan, wire, connOpen, die, table, accepts, recv, app, rst, buf,
                    event, reader, writer, closer, sent, finAt, got, eof>>
  BY DEF CloseStreams, objVars, readVars, sentVars, LockFree
<1>2. ahead' = ahead
  BY <1>1, AheadKept
<1>4. TypeOK'
  <2>1. sdie' \in [Handles -> BOOLEAN]
    BY <1>0, <1>1 DEF TypeOK
  <2>2. sess' \in [Ends -> SessPC]
    BY <1>0, <1>1 DEF TypeOK, SessPC
  <2> QED
    BY <1>0, <1>1, <2>1, <2>2 DEF TypeOK
<1>5. UseInv'
  BY <1>0, <1>1, <1>2 DEF UseInv
<1>6. EventInv'
  BY SameHand, <1>0, <1>1, <1>2 DEF EventInv, Awake
<1>7. HandInv' /\ AcceptsInv' /\ OnceInv' /\ SynInv' /\ BirthInv' /\ TableInv'
      /\ EndInv' /\ WireInv' /\ ReadInv' /\ RestInv'
  BY <1>1, <1>2, Untouched
<1> QED
  BY <1>4, <1>5, <1>6, <1>7 DEF LifeInv

\* Session.Close closes the connection.
LEMMA CloseConnKeeps ==
    ASSUME LifeInv, NEW e \in Ends, CloseConn(e) PROVE LifeInv'
<1> USE HandleFacts
<1>0. /\ TypeOK /\ HandInv /\ AcceptsInv /\ OnceInv /\ SynInv /\ BirthInv /\ UseInv
      /\ TableInv /\ EventInv /\ EndInv /\ WireInv /\ ReadInv /\ RestInv
  BY DEF LifeInv
<1>1. /\ connOpen' = [connOpen EXCEPT ![e] = FALSE]
      /\ sess' = [sess EXCEPT ![e] = "done"]
      /\ UNCHANGED <<plan, wire, die, table, accepts, recv, app, sdie, rst, buf, event,
                    reader, writer, closer, sent, finAt, got, eof>>
  BY DEF CloseConn, objVars, readVars, sentVars, LockFree
<1>2. ahead' = ahead
  BY <1>1, AheadKept
<1>4. TypeOK'
  <2>1. connOpen' \in [Ends -> BOOLEAN]
    BY <1>0, <1>1 DEF TypeOK
  <2>2. sess' \in [Ends -> SessPC]
    BY <1>0, <1>1 DEF TypeOK, SessPC
  <2> QED
    BY <1>0, <1>1, <2>1, <2>2 DEF TypeOK
<1>5. HandInv' /\ AcceptsInv' /\ OnceInv' /\ SynInv' /\ BirthInv' /\ UseInv'
      /\ TableInv' /\ EventInv' /\ EndInv' /\ WireInv' /\ ReadInv' /\ RestInv'
  BY <1>1, <1>2, Untouched
<1> QED
  BY <1>4, <1>5 DEF LifeInv

\* AcceptStream gives the first stream in chAccepts to the caller.
LEMMA AcceptStreamKeeps ==
    ASSUME LifeInv, NEW e \in Ends, AcceptStream(e) PROVE LifeInv'
<1> DEFINE g == <<e, Head(accepts[e])>>
<1> USE HandleFacts
<1>0. /\ TypeOK /\ HandInv /\ AcceptsInv /\ OnceInv /\ SynInv /\ BirthInv /\ UseInv
      /\ TableInv /\ EventInv /\ EndInv /\ WireInv /\ ReadInv /\ RestInv
  BY DEF LifeInv
<1>1. /\ g \in Handles /\ g[1] = e
      /\ accepts[e] # <<>> /\ g[2] = Head(accepts[e])
      /\ accepts' = [accepts EXCEPT ![e] = Tail(@)]
      /\ app' = [app EXCEPT ![g] = "open"]
      /\ UNCHANGED <<plan, wire, connOpen, die, sess, table, recv, sdie, rst, buf,
                    event, reader, writer, closer, sent, finAt, got, eof>>
  BY <1>0 DEF AcceptStream, objVars, readVars, sentVars, LockFree, TypeOK, AcceptsInv
<1>2. ahead' = ahead
  BY <1>1, AheadKept
<1> HIDE DEF g
<1>3. \A h \in Handles : app'[h] = IF h = g THEN "open" ELSE app[h]
  BY <1>0, <1>1 DEF TypeOK
<1>4. /\ accepts' \in [Ends -> Seq(Streams)] /\ \A x \in Ends : Len(accepts'[x]) <= Backlog
      /\ OnceInv' /\ Queued(g) /\ \A h \in Handles : Queued(h)' => Queued(h) /\ h # g
  BY <1>0, <1>1, QueueTailed
<1>5. Accepting(g) /\ InTable(g) /\ \A h \in Handles : Unborn(h)' => Unborn(h)
  BY SameAhead, <1>0, <1>1, <1>2, <1>3, <1>4 DEF AcceptsInv, Unborn
<1>6. \A h \in Handles : InTable(h)' <=> InTable(h)
  BY <1>1 DEF InTable
<1>7. TypeOK'
  <2>1. accepts' \in [Ends -> Seq(Streams)] /\ \A x \in Ends : Len(accepts'[x]) <= Backlog
    BY <1>4
  <2>2. app' \in [Handles -> AppPC]
    BY <1>0, <1>1 DEF TypeOK, AppPC
  <2> QED
    BY <1>0, <1>1, <2>1, <2>2 DEF TypeOK
<1>8. AcceptsInv'
  BY SameHand, <1>0, <1>1, <1>2, <1>3, <1>4, <1>5, <1>6 DEF AcceptsInv, InTable
<1>9. OnceInv'
  BY <1>0, <1>1, <1>2, <1>3, <1>4, <1>5, <1>6 DEF OnceInv
<1>10. BirthInv'
  <2> SUFFICES ASSUME NEW h \in Handles
               PROVE  /\ Opening(h) /\ app'[h] # "open" => ~InTable(h)
                      /\ Accepting(h) /\ app'[Inward(h)] = "new" =>
                            \A i \in DOMAIN ahead[h[1]] : ahead[h[1]][i].sid # h[2]
                      /\ Accepting(h) /\ Unborn(h)' => app'[h] = "new" /\ ~InTable(h)
    BY <1>2, <1>6 DEF BirthInv
  <2> QED
    BY <1>0, <1>3, <1>5 DEF BirthInv
<1>11. UseInv'
  BY <1>0, <1>1, <1>2, <1>3, <1>4, <1>5, <1>6 DEF UseInv
<1>12. TableInv'
  BY <1>0, <1>1, <1>2, <1>3, <1>4, <1>5, <1>6 DEF TableInv, InTable, AcceptsInv
<1>13. RestInv'
  BY SameAhead, SameLast, <1>0, <1>1, <1>2, <1>3, <1>4, <1>5, <1>6
  DEF RestInv, Expects, Unborn, InTable, AcceptsInv
<1>14. HandInv' /\ SynInv' /\ EventInv' /\ EndInv' /\ WireInv' /\ ReadInv'
  BY <1>1, <1>2, Untouched
<1> QED
  BY <1>7, <1>8, <1>9, <1>10, <1>11, <1>12, <1>13, <1>14 DEF LifeInv

\* recvLoop stops.
LEMMA RecvErrorKeeps ==
    ASSUME LifeInv, NEW e \in Ends, RecvError(e) PROVE LifeInv'
<1> USE HandleFacts
<1>0. /\ TypeOK /\ HandInv /\ AcceptsInv /\ OnceInv /\ SynInv /\ BirthInv /\ UseInv
      /\ TableInv /\ EventInv /\ EndInv /\ WireInv /\ ReadInv /\ RestInv
  BY DEF LifeInv
<1>1. /\ recv[e] = "frame"
      /\ recv' = [recv EXCEPT ![e] = "stopped"]
      /\ die' = [die EXCEPT ![e] = TRUE]
      /\ sess' = [sess EXCEPT ![e] = IF die[e] THEN @ ELSE "streams"]
      /\ UNCHANGED <<plan, wire, connOpen, table, accepts, app, sdie, rst, buf, event,
                    reader, writer, closer, sent, finAt, got, eof>>
  BY DEF RecvError, objVars, readVars, sentVars, LockFree
<1>2. ahead' = ahead
  BY <1>0, <1>1 DEF ahead, TypeOK
<1>4. \A h \in Handles : (Queueing(h)' <=> Queueing(h)) /\ (Notifying(h)' <=> Notifying(h))
  BY <1>0, <1>1 DEF Queueing, Notifying, InHand, TypeOK
<1>5. TypeOK'
  <2>1. recv' \in [Ends -> RecvPC]
    BY <1>0, <1>1 DEF TypeOK, RecvPC
  <2>2. die' \in [Ends -> BOOLEAN]
    BY <1>0, <1>1 DEF TypeOK
  <2>3. sess' \in [Ends -> SessPC]
    BY <1>0, <1>1 DEF TypeOK, SessPC
  <2> QED
    BY <1>0, <1>1, <2>1, <2>2, <2>3 DEF TypeOK
<1>6. HandInv'
  <2>1. \A x \in Ends : recv'[x] \in {"queue", "FUL", "notify"} => recv[x] \in {"queue", "FUL", "notify"}
    BY <1>0, <1>1 DEF TypeOK
  <2> QED
    BY <1>0, <1>1, <1>4, <2>1 DEF HandInv, InTable
<1>7. AcceptsInv'
  BY SameQueue, <1>0, <1>1, <1>2, <1>4 DEF AcceptsInv, InTable
<1>8. EventInv'
  BY <1>0, <1>1, <1>2, <1>4 DEF EventInv, Awake
<1>9. OnceInv' /\ SynInv' /\ BirthInv' /\ UseInv' /\ TableInv' /\ EndInv' /\ WireInv'
      /\ ReadInv' /\ RestInv'
  BY <1>1, <1>2, Untouched
<1> QED
  BY <1>5, <1>6, <1>7, <1>8, <1>9 DEF LifeInv

\* What is ahead stays in order when recvLoop takes the first frame.
LEMMA SynShrunk ==
    ASSUME ahead \in [Ends -> Seq(Frame)], NEW p \in Ends, ahead[p] # <<>>,
           Takes(p), SynInv
    PROVE  SynInv'
<1> SUFFICES ASSUME NEW e \in Ends, NEW i \in DOMAIN ahead'[e],
                    ahead'[e][i].cmd = "SYN"
             PROVE  /\ Opener[ahead'[e][i].sid] # e
                    /\ \A j \in DOMAIN ahead'[e] :
                          ahead'[e][j].sid = ahead'[e][i].sid => i <= j
  BY DEF SynInv
<1>1. CASE e # p
  BY <1>1, AheadTailed DEF SynInv
<1>2. CASE e = p
  <2> DEFINE q == ahead[p]
  <2> DEFINE r == ahead'[p]
  <2>1. \A k \in DOMAIN r : k + 1 \in DOMAIN q /\ r[k] = q[k + 1] /\ k \in Nat
    BY AheadTailed
  <2>2. \A k \in DOMAIN q : q[k].cmd = "SYN" =>
           /\ Opener[q[k].sid] # p
           /\ \A j \in DOMAIN q : q[j].sid = q[k].sid => k <= j
    BY DEF SynInv
  <2>3. i \in DOMAIN r /\ r[i].cmd = "SYN"
    BY <1>2
  <2> HIDE DEF q, r
  <2>4. /\ Opener[r[i].sid] # p
        /\ \A j \in DOMAIN r : r[j].sid = r[i].sid => i + 1 <= j + 1
    BY <2>1, <2>2, <2>3
  <2>5. \A j \in DOMAIN r : i + 1 <= j + 1 => i <= j
    BY <2>1, <2>3
  <2> QED
    BY <1>2, <2>4, <2>5 DEF r
<1> QED
  BY <1>1, <1>2

\* A frame less on the wire leaves the promises about the others.
LEMMA WireShrunk ==
    ASSUME ahead \in [Ends -> Seq(Frame)], NEW p \in Ends, ahead[p] # <<>>,
           Takes(p), WireInv, TypeOK, sent' = sent
    PROVE  WireInv'
<1> SUFFICES ASSUME NEW h \in Handles, NEW i \in DOMAIN ahead'[h[1]], NEW n \in Nat,
                    Carries(h, i, n)'
             PROVE  /\ n \in 1 .. sent[Inward(h)]
                    /\ \A m \in n .. sent[Inward(h)] : Ahead(h, m)'
                    /\ \A j \in DOMAIN ahead'[h[1]], m \in Nat :
                          Carries(h, j, m)' /\ j < i => m < n
  BY DEF WireInv
<1>1. CASE h[1] # p
  <2>1. /\ ahead'[h[1]] = ahead[h[1]]
        /\ \A j \in DOMAIN ahead[h[1]], m \in Nat : Carries(h, j, m)' <=> Carries(h, j, m)
        /\ \A m \in Nat : Ahead(h, m)' <=> Ahead(h, m)
    BY <1>1, HandleFacts, AheadTailed DEF Carries, Ahead
  <2>2. sent[Inward(h)] \in Nat
    BY HandleFacts DEF TypeOK
  <2>3. /\ n \in 1 .. sent[Inward(h)]
        /\ \A m \in n .. sent[Inward(h)] : Ahead(h, m)
        /\ \A j \in DOMAIN ahead[h[1]], m \in Nat : Carries(h, j, m) /\ j < i => m < n
    BY <2>1 DEF WireInv
  <2>4. \A m \in n .. sent[Inward(h)] : m \in Nat
    BY <2>2
  <2> QED
    BY <2>1, <2>3, <2>4
<1>2. CASE h[1] = p
  <2>1. /\ \A k \in DOMAIN ahead'[p] : /\ k + 1 \in DOMAIN ahead[p] /\ k \in Nat /\ k # 0
                                       /\ \A m \in Nat : Carries(h, k, m)' <=>
                                                         Carries(h, k + 1, m)
        /\ \A k \in DOMAIN ahead[p] : k = 1 \/ (k - 1 \in DOMAIN ahead'[p] /\ k \in Nat)
        /\ \A m \in Nat : Ahead(h, m) <=> \E k \in DOMAIN ahead[p] : Carries(h, k, m)
        /\ \A m \in Nat : Ahead(h, m)' <=> \E k \in DOMAIN ahead'[p] : Carries(h, k, m)'
    BY <1>2, AheadTailed DEF Carries, Ahead
  <2>2. sent[Inward(h)] \in Nat
    BY HandleFacts DEF TypeOK
  <2>3. i \in DOMAIN ahead'[p] /\ Carries(h, i + 1, n) /\ i + 1 \in DOMAIN ahead[p]
    BY <1>2, <2>1
  <2>4. /\ n \in 1 .. sent[Inward(h)]
        /\ \A m \in n .. sent[Inward(h)] : Ahead(h, m)
        /\ \A j \in DOMAIN ahead[p], m \in Nat : Carries(h, j, m) /\ j < i + 1 => m < n
    BY <1>2, <2>3 DEF WireInv
  <2>5. ASSUME NEW m \in n .. sent[Inward(h)] PROVE Ahead(h, m)'
    <3>1. m \in Nat /\ n <= m
      BY <2>2
    <3>2. CASE m = n
      BY <2>1, <2>3, <3>1, <3>2
    <3>3. CASE m # n
      <4>1. PICK k \in DOMAIN ahead[p] : Carries(h, k, m)
        BY <2>1, <2>4, <3>1
      <4>2. k # 1
        BY <2>1, <2>3, <2>4, <3>1, <3>3, <4>1
      <4>3. k - 1 \in DOMAIN ahead'[p] /\ (k - 1) + 1 = k
        BY <2>1, <4>1, <4>2
      <4>4. Carries(h, k - 1, m)'
        BY <2>1, <3>1, <4>1, <4>3
      <4> QED
        BY <2>1, <3>1, <4>3, <4>4
    <3> QED
      BY <3>2, <3>3
  <2>6. ASSUME NEW j \in DOMAIN ahead'[p], NEW m \in Nat, Carries(h, j, m)', j < i
        PROVE  m < n
    <3>1. Carries(h, j + 1, m) /\ j + 1 \in DOMAIN ahead[p] /\ j + 1 < i + 1
      BY <2>1, <2>3, <2>6
    <3> QED
      BY <2>4, <3>1
  <2> QED
    BY <1>2, <2>4, <2>5, <2>6
<1> QED
  BY <1>1, <1>2

\* recvLoop lets go of the frame in hand.
LEMMA HandDone ==
    ASSUME TypeOK, HandInv, NEW e \in Ends, recv[e] \in {"queue", "FUL", "notify"},
           recv' = [recv EXCEPT ![e] = "frame"], Handled(e)
    PROVE  /\ InHand(e) \in Streams
           /\ wire' \in [Ends -> Seq(Frame)] /\ recv' \in [Ends -> RecvPC]
           /\ \A x \in Ends : recv'[x] \in {"queue", "FUL", "notify"} => wire'[x] # <<>>
           /\ \A h \in Handles : /\ Notifying(h)' <=> Notifying(h) /\ h[1] # e
                                 /\ Queueing(h)' <=> Queueing(h) /\ h[1] # e
<1>1. wire[e] \in Seq(Frame) /\ wire[e] # <<>>
  BY DEF TypeOK, HandInv
<1>2. Head(wire[e]) \in Frame /\ Tail(wire[e]) \in Seq(Frame)
  BY <1>1, HeadAndTail
<1>3. ASSUME NEW x \in Ends
      PROVE  /\ recv'[x] = IF x = e THEN "frame" ELSE recv[x]
             /\ wire'[x] = IF x = e THEN Tail(wire[e]) ELSE wire[x]
  BY DEF TypeOK, Handled
<1>4. wire' \in [Ends -> Seq(Frame)] /\ recv' \in [Ends -> RecvPC]
  BY <1>2 DEF TypeOK, Handled, RecvPC
<1>5. ASSUME NEW x \in Ends, recv'[x] \in {"queue", "FUL", "notify"} PROVE wire'[x] # <<>>
  BY <1>3, <1>5 DEF HandInv
<1>6. ASSUME NEW h \in Handles
      PROVE  /\ Notifying(h)' <=> Notifying(h) /\ h[1] # e
             /\ Queueing(h)' <=> Queueing(h) /\ h[1] # e
  BY <1>3, HandleFacts DEF Notifying, Queueing, InHand
<1> QED
  BY <1>2, <1>4, <1>5, <1>6 DEF InHand, Frame

\* recvLoop takes a frame, and either drops it or holds the lock for it.
LEMMA HandTaken ==
    ASSUME TypeOK, HandInv, NEW e \in Ends, NEW cmd, Handling(e, cmd)
    PROVE  /\ InHand(e) \in Streams
           /\ Handled(e) /\ recv' = recv =>
                 /\ wire' \in [Ends -> Seq(Frame)]
                 /\ \A x \in Ends : recv'[x] \in {"queue", "FUL", "notify"} => wire'[x] # <<>>
                 /\ \A h \in Handles : /\ Notifying(h)' <=> Notifying(h)
                                       /\ Queueing(h)' <=> Queueing(h)
           /\ \A pc \in {"queue", "FUL", "notify"} :
                 wire' = wire /\ recv' = [recv EXCEPT ![e] = pc] =>
                    /\ recv' \in [Ends -> RecvPC]
                    /\ \A x \in Ends : recv'[x] \in {"queue", "FUL", "notify"} => wire'[x] # <<>>
                    /\ \A h \in Handles :
                          /\ Notifying(h)' <=>
                                \/ Notifying(h)
                                \/ pc \in {"FUL", "notify"} /\ h[1] = e /\ h[2] = InHand(e)
                          /\ Queueing(h)' <=>
                                \/ Queueing(h)
                                \/ pc = "queue" /\ h[1] = e /\ h[2] = InHand(e)
<1>1. wire[e] \in Seq(Frame) /\ wire[e] # <<>> /\ recv[e] = "frame"
  BY DEF TypeOK, Handling
<1>2. Head(wire[e]) \in Frame /\ Tail(wire[e]) \in Seq(Frame)
  BY <1>1, HeadAndTail
<1>3. ASSUME Handled(e), recv' = recv
      PROVE  /\ wire' \in [Ends -> Seq(Frame)]
             /\ \A x \in Ends : recv'[x] \in {"queue", "FUL", "notify"} => wire'[x] # <<>>
             /\ \A h \in Handles : /\ Notifying(h)' <=> Notifying(h)
                                   /\ Queueing(h)' <=> Queueing(h)
  <2>1. \A x \in Ends : wire'[x] = IF x = e THEN Tail(wire[e]) ELSE wire[x]
    BY <1>3 DEF TypeOK, Handled
  <2>2. wire' \in [Ends -> Seq(Frame)]
    BY <1>2, <1>3 DEF TypeOK, Handled
  <2>3. ASSUME NEW h \in Handles
        PROVE  /\ Notifying(h)' <=> Notifying(h)
               /\ Queueing(h)' <=> Queueing(h)
    BY <1>1, <1>3, <2>1, HandleFacts DEF Notifying, Queueing, InHand
  <2> QED
    BY <1>1, <1>3, <2>1, <2>2, <2>3 DEF HandInv
<1>4. ASSUME NEW pc \in {"queue", "FUL", "notify"}, wire' = wire, recv' = [recv EXCEPT ![e] = pc]
      PROVE  /\ recv' \in [Ends -> RecvPC]
             /\ \A x \in Ends : recv'[x] \in {"queue", "FUL", "notify"} => wire'[x] # <<>>
             /\ \A h \in Handles :
                   /\ Notifying(h)' <=>
                         \/ Notifying(h)
                         \/ pc \in {"FUL", "notify"} /\ h[1] = e /\ h[2] = InHand(e)
                   /\ Queueing(h)' <=>
                         \/ Queueing(h)
                         \/ pc = "queue" /\ h[1] = e /\ h[2] = InHand(e)
  <2>1. \A x \in Ends : recv'[x] = IF x = e THEN pc ELSE recv[x]
    BY <1>4 DEF TypeOK
  <2>2. recv' \in [Ends -> RecvPC]
    BY <1>4 DEF TypeOK, RecvPC
  <2>3. ASSUME NEW h \in Handles
        PROVE  /\ Notifying(h)' <=>
                     \/ Notifying(h)
                     \/ pc \in {"FUL", "notify"} /\ h[1] = e /\ h[2] = InHand(e)
               /\ Queueing(h)' <=>
                     \/ Queueing(h)
                     \/ pc = "queue" /\ h[1] = e /\ h[2] = InHand(e)
    BY <1>1, <1>4, <2>1, HandleFacts DEF Notifying, Queueing, InHand
  <2> QED
    BY <1>1, <1>4, <2>1, <2>2, <2>3 DEF HandInv
<1> QED
  BY <1>2, <1>3, <1>4 DEF InHand, Frame

\* A frame more keeps the order, if a SYN is the first frame of its stream.
LEMMA SynGrown ==
    ASSUME ahead \in [Ends -> Seq(Frame)], NEW p \in Ends, NEW f \in Frame,
           Adds(p, f), SynInv,
           f.cmd = "SYN" =>
              /\ Opener[f.sid] # p
              /\ \A j \in DOMAIN ahead[p] : ahead[p][j].sid # f.sid
    PROVE  SynInv'
<1> SUFFICES ASSUME NEW e \in Ends, NEW i \in DOMAIN ahead'[e],
                    ahead'[e][i].cmd = "SYN"
             PROVE  /\ Opener[ahead'[e][i].sid] # e
                    /\ \A j \in DOMAIN ahead'[e] :
                          ahead'[e][j].sid = ahead'[e][i].sid => i <= j
  BY DEF SynInv
<1>1. CASE e # p
  BY <1>1, AheadAppended DEF SynInv
<1>2. CASE e = p
  <2> DEFINE q == ahead[p]
  <2> DEFINE r == ahead'[p]
  <2>1. /\ \A k \in DOMAIN q : k \in DOMAIN r /\ r[k] = q[k] /\ k \in Nat /\ k < Len(q) + 1
        /\ \A k \in DOMAIN r : k \in DOMAIN q \/ k = Len(q) + 1
        /\ r[Len(q) + 1] = f /\ Len(q) \in Nat
    BY AheadAppended
  <2>2. \A k \in DOMAIN q : q[k].cmd = "SYN" =>
           /\ Opener[q[k].sid] # p
           /\ \A j \in DOMAIN q : q[j].sid = q[k].sid => k <= j
    BY DEF SynInv
  <2>3. /\ i \in DOMAIN r /\ r[i].cmd = "SYN"
        /\ f.cmd = "SYN" => Opener[f.sid] # p /\ \A j \in DOMAIN q : q[j].sid # f.sid
    BY <1>2
  <2> HIDE DEF q, r
  <2>4. CASE i \in DOMAIN q
    <3>1. /\ Opener[r[i].sid] # p
          /\ \A j \in DOMAIN q : r[j].sid = r[i].sid => i <= j
      BY <2>1, <2>2, <2>3, <2>4
    <3>2. i <= Len(q) + 1
      BY <2>1, <2>4
    <3> QED
      BY <1>2, <2>1, <3>1, <3>2 DEF r
  <2>5. CASE i = Len(q) + 1
    <3>1. /\ Opener[r[i].sid] # p
          /\ \A j \in DOMAIN q : r[j].sid # r[i].sid
      BY <2>1, <2>3, <2>5
    <3> QED
      BY <1>2, <2>1, <2>5, <3>1 DEF r
  <2> QED
    BY <2>1, <2>3, <2>4, <2>5
<1> QED
  BY <1>1, <1>2

\* The PSH frames stay in order when Write adds the next one, or anybody a frame
\* that is no PSH.
LEMMA WireGrown ==
    ASSUME ahead \in [Ends -> Seq(Frame)], NEW f \in Frame, NEW k \in Handles, f.sid = k[2],
           Adds(k[1], f), WireInv, TypeOK,
           f.cmd = "PSH" => f.chunk = sent[Inward(k)] + 1,
           \A h \in Handles : sent'[Inward(h)] = IF h = k /\ f.cmd = "PSH"
                                                  THEN sent[Inward(h)] + 1
                                                  ELSE sent[Inward(h)]
    PROVE  WireInv'
<1> USE HandleFacts
<1> SUFFICES ASSUME NEW h \in Handles, NEW i \in DOMAIN ahead'[h[1]], NEW n \in Nat,
                    Carries(h, i, n)'
             PROVE  /\ n \in 1 .. sent'[Inward(h)]
                    /\ \A m \in n .. sent'[Inward(h)] : Ahead(h, m)'
                    /\ \A j \in DOMAIN ahead'[h[1]], m \in Nat :
                          Carries(h, j, m)' /\ j < i => m < n
  BY DEF WireInv
<1> DEFINE new == h = k /\ f.cmd = "PSH"
<1> DEFINE l == Len(ahead[h[1]]) + 1
<1>0. PICK top \in Nat : top = sent[Inward(h)]
  BY DEF TypeOK
<1>1. /\ \A j \in DOMAIN ahead[h[1]] : /\ j \in Nat /\ j < l
                                      /\ j \in DOMAIN ahead'[h[1]]
                                      /\ ahead'[h[1]][j] = ahead[h[1]][j]
      /\ \A j \in DOMAIN ahead'[h[1]] :
            j \in DOMAIN ahead[h[1]] \/ (h[1] = k[1] /\ j = l /\ ahead'[h[1]][j] = f)
      /\ l \in Nat
  <2>1. CASE h[1] = k[1]
    BY <2>1, AheadAppended
  <2>2. CASE h[1] # k[1]
    <3>1. ahead'[h[1]] = ahead[h[1]] /\ ahead[h[1]] \in Seq(Frame)
      BY <2>2, AheadAppended
    <3> QED
      BY <3>1, LenProperties
  <2> QED
    BY <2>1, <2>2
<1>2. top \in Nat /\ sent'[Inward(h)] = IF new THEN top + 1 ELSE top
  BY <1>0
<1>3. new => f.chunk = top + 1 /\ Ahead(h, top + 1)'
  <2> SUFFICES ASSUME new PROVE f.chunk = top + 1 /\ Ahead(h, top + 1)'
    OBVIOUS
  <2>1. f.chunk = top + 1 /\ f.chunk \in Nat /\ h[1] = k[1] /\ f.sid = h[2] /\ f.cmd = "PSH"
    BY <1>0 DEF Frame
  <2>2. Ahead(h, f.chunk)'
    BY <2>1, AheadGrown
  <2> QED
    BY <2>1, <2>2
<1>4. \A m \in Nat : Ahead(h, m) => Ahead(h, m)'
  BY AheadGrown
<1>5. \A j \in DOMAIN ahead'[h[1]], m \in Nat : Carries(h, j, m)' =>
         \/ j \in DOMAIN ahead[h[1]] /\ Carries(h, j, m)
         \/ new /\ j = l /\ m = f.chunk
  BY SMTT(30), <1>1 DEF Carries
<1>6. \A j \in DOMAIN ahead[h[1]], m \in Nat : Carries(h, j, m) =>
         /\ m \in 1 .. top
         /\ \A x \in m .. top : Ahead(h, x)
         /\ \A y \in DOMAIN ahead[h[1]], x \in Nat : Carries(h, y, x) /\ y < j => x < m
  BY <1>0 DEF WireInv
<1> HIDE DEF new, l
<1>7. CASE i \in DOMAIN ahead[h[1]] /\ Carries(h, i, n)
  <2>1. n \in 1 .. top /\ \A x \in n .. top : Ahead(h, x)
    BY <1>6, <1>7
  <2>2. ASSUME NEW m \in n .. sent'[Inward(h)] PROVE Ahead(h, m)'
    <3>1. m \in Nat /\ (m \in n .. top \/ (new /\ m = top + 1))
      BY <1>2
    <3>2. CASE m \in n .. top
      BY <1>4, <2>1, <3>1, <3>2
    <3>3. CASE new /\ m = top + 1
      BY <1>3, <3>3
    <3> QED
      BY <3>1, <3>2, <3>3
  <2>3. ASSUME NEW j \in DOMAIN ahead'[h[1]], NEW m \in Nat, Carries(h, j, m)', j < i
        PROVE  m < n
    <3>1. j # l
      BY <1>1, <1>7, <2>3
    <3> QED
      BY <1>5, <1>6, <1>7, <2>3, <3>1
  <2>4. n \in 1 .. sent'[Inward(h)]
    BY <1>2, <2>1
  <2> QED
    BY <2>2, <2>3, <2>4
<1>8. CASE new /\ i = l /\ n = f.chunk
  <2>1. n = top + 1 /\ sent'[Inward(h)] = top + 1
    BY <1>2, <1>3, <1>8
  <2>2. ASSUME NEW j \in DOMAIN ahead'[h[1]], NEW m \in Nat, Carries(h, j, m)', j < i
        PROVE  m < n
    <3>1. j # l
      BY <1>1, <1>8, <2>2
    <3>2. m \in 1 .. top
      BY <1>5, <1>6, <2>2, <3>1
    <3> QED
      BY <1>2, <2>1, <3>2
  <2>3. n \in 1 .. sent'[Inward(h)] /\ \A m \in n .. sent'[Inward(h)] : m = top + 1
    BY <1>2, <2>1
  <2>4. ASSUME NEW m \in n .. sent'[Inward(h)] PROVE Ahead(h, m)'
    BY <1>3, <1>8, <2>3
  <2> QED
    BY <2>2, <2>3, <2>4
<1> QED
  BY <1>5, <1>7, <1>8

\* A frame more on a wire leaves those in hand.
LEMMA HandPut ==
    ASSUME TypeOK, HandInv, recv' = recv,
           \A x \in Ends : wire[x] # <<>> => wire'[x] # <<>> /\ InHand(x)' = InHand(x)
    PROVE  /\ \A x \in Ends : recv'[x] \in {"queue", "FUL", "notify"} => wire'[x] # <<>>
           /\ \A h \in Handles : /\ Notifying(h)' <=> Notifying(h)
                                 /\ Queueing(h)' <=> Queueing(h)
<1>1. \A x \in Ends : recv[x] \in {"queue", "FUL", "notify"} => wire[x] # <<>>
  BY DEF HandInv
<1> QED
  BY <1>1, HandleFacts DEF Notifying, Queueing

\* writeFrame, seen by the object of the other end: there is one frame more ahead of
\* it, or none.
LEMMA PutAhead ==
    ASSUME TypeOK, HandInv, SynInv, NEW e \in Ends, NEW s \in Streams, NEW n \in Nat,
           NEW cmd \in {"SYN", "PSH", "FIN"}, Put(e, cmd, s, n) \/ wire' = wire,
           recv' = recv,
           NEW k \in Handles, k = Inward(<<e, s>>),
           cmd = "SYN" =>
              /\ Accepting(k)
              /\ \A j \in DOMAIN ahead[k[1]] : ahead[k[1]][j].sid # k[2]
    PROVE  /\ wire' \in [Ends -> Seq(Frame)]
           /\ \A x \in Ends : recv'[x] \in {"queue", "FUL", "notify"} => wire'[x] # <<>>
           /\ \A h \in Handles : /\ Notifying(h)' <=> Notifying(h)
                                 /\ Queueing(h)' <=> Queueing(h)
           /\ SynInv'
           /\ \A h \in Handles :
                 /\ SynAhead(h)' => SynAhead(h) \/ h = k
                 /\ FinAhead(h)' => FinAhead(h) \/ h = k
                 /\ cmd # "SYN" => (SynAhead(h)' <=> SynAhead(h))
                 /\ cmd # "FIN" => (FinAhead(h)' <=> FinAhead(h))
           /\ \A h \in Handles \ {k} :
                 \A i \in DOMAIN ahead'[h[1]] : ahead'[h[1]][i].sid = h[2] =>
                    \E j \in DOMAIN ahead[h[1]] : ahead[h[1]][j].sid = h[2]
           /\ cmd # "PSH" /\ sent' = sent /\ WireInv =>
                 WireInv' /\ \A h \in Handles, m \in Nat : Ahead(h, m)' <=> Ahead(h, m)
<1> DEFINE f == [cmd |-> cmd, sid |-> s, chunk |-> n]
<1>1. /\ ahead \in [Ends -> Seq(Frame)] /\ wire' \in [Ends -> Seq(Frame)] /\ f \in Frame
      /\ ahead' = ahead \/ Adds(k[1], f)
      /\ \A x \in Ends : wire[x] # <<>> => wire'[x] # <<>> /\ InHand(x)' = InHand(x)
  <2>1. CASE wire' = wire
    BY <2>1, AheadKept, AheadTyped DEF TypeOK, InHand, Frame
  <2>2. CASE Put(e, cmd, s, n)
    <3>1. k[1] = Peer(e)
      BY HandleFacts
    <3>2. /\ ahead' = ahead \/ Adds(Peer(e), f)
          /\ f \in Frame /\ wire' \in [Ends -> Seq(Frame)]
          /\ \A x \in Ends : wire[x] # <<>> => wire'[x] # <<>> /\ InHand(x)' = InHand(x)
      <4>1. ahead' = ahead \/ Adds(Peer(e), f)
        BY <2>2, AheadPut
      <4>2. f \in Frame
        BY DEF Frame
      <4>3. wire' \in [Ends -> Seq(Frame)]
        BY <2>2, AheadPut
      <4>4. \A x \in Ends : wire[x] # <<>> => wire'[x] # <<>> /\ InHand(x)' = InHand(x)
        BY <2>2, AheadPut
      <4> QED
        BY <4>1, <4>2, <4>3, <4>4
    <3> QED
      BY <3>1, <3>2, AheadTyped
  <2> QED
    BY <2>1, <2>2
<1>2. k[2] = s /\ f.sid = k[2] /\ f.cmd = cmd /\ k[1] \in Ends
  BY HandleFacts
<1> HIDE DEF f
<1>3. /\ \A x \in Ends : recv'[x] \in {"queue", "FUL", "notify"} => wire'[x] # <<>>
      /\ \A h \in Handles : /\ Notifying(h)' <=> Notifying(h)
                            /\ Queueing(h)' <=> Queueing(h)
  BY <1>1, HandPut
<1>4. CASE ahead' = ahead
  <2>1. SynInv' /\ (sent' = sent /\ WireInv => WireInv')
    BY SMTT(30), <1>4 DEF SynInv, WireInv, Carries, Ahead
  <2> QED
    BY <1>1, <1>3, <1>4, <2>1, SameAhead
<1>5. CASE Adds(k[1], f)
  <2>1. SynInv'
    <3>1. /\ k[1] \in Ends
          /\ f.cmd = "SYN" => Opener[f.sid] # k[1]
                              /\ \A j \in DOMAIN ahead[k[1]] : ahead[k[1]][j].sid # f.sid
      BY <1>2 DEF Accepting
    <3> QED
      BY <1>1, <1>5, <3>1, SynGrown
  <2>2. \A h \in Handles :
           /\ SynAhead(h)' <=> SynAhead(h) \/ (h = k /\ cmd = "SYN")
           /\ FinAhead(h)' <=> FinAhead(h) \/ (h = k /\ cmd = "FIN")
           /\ \A m \in Nat : cmd # "PSH" => (Ahead(h, m)' <=> Ahead(h, m))
    <3>1. \A h \in Handles :
             /\ SynAhead(h)' <=>
                   SynAhead(h) \/ (h[1] = k[1] /\ f.cmd = "SYN" /\ f.sid = h[2])
             /\ FinAhead(h)' <=>
                   FinAhead(h) \/ (h[1] = k[1] /\ f.cmd = "FIN" /\ f.sid = h[2])
             /\ \A m \in Nat : Ahead(h, m)' <=>
                   \/ Ahead(h, m)
                   \/ h[1] = k[1] /\ f.cmd = "PSH" /\ f.sid = h[2] /\ f.chunk = m
      <4>1. ahead \in [Ends -> Seq(Frame)] /\ f \in Frame
        BY <1>1
      <4> QED
        BY <1>2, <1>5, <4>1, AheadGrown
    <3>2. \A h \in Handles : h[1] = k[1] /\ f.sid = h[2] <=> h = k
      BY <1>2, HandleFacts
    <3> QED
      BY <1>2, <3>1, <3>2
  <2>3. ASSUME NEW h \in Handles \ {k}, NEW i \in DOMAIN ahead'[h[1]],
               ahead'[h[1]][i].sid = h[2]
        PROVE  \E j \in DOMAIN ahead[h[1]] : ahead[h[1]][j].sid = h[2]
    <3>1. CASE h[1] = k[1]
      <4>1. i \in DOMAIN ahead[k[1]] /\ ahead'[k[1]][i] = ahead[k[1]][i]
        BY <1>1, <1>2, <1>5, <2>3, <3>1, AheadAppended, HandleFacts
      <4> QED
        BY <2>3, <3>1, <4>1
    <3>2. CASE h[1] # k[1]
      BY <1>1, <1>5, <2>3, <3>2, AheadAppended, HandleFacts
    <3> QED
      BY <3>1, <3>2
  <2>4. ASSUME cmd # "PSH", sent' = sent, WireInv PROVE WireInv'
    BY <1>1, <1>2, <1>5, <2>4, WireGrown, HandleFacts
  <2> QED
    BY <1>1, <1>3, <2>1, <2>2, <2>3, <2>4
<1> QED
  BY <1>1, <1>4, <1>5

\* Taking a frame puts nothing ahead of anybody.
LEMMA NothingTaken ==
    ASSUME ahead \in [Ends -> Seq(Frame)], NEW p \in Ends, ahead[p] # <<>>, Takes(p),
           NEW h \in Handles, \A j \in DOMAIN ahead[h[1]] : ahead[h[1]][j].sid # h[2]
    PROVE  \A i \in DOMAIN ahead'[h[1]] : ahead'[h[1]][i].sid # h[2]
<1>1. h[1] \in Ends
  BY HandleFacts
<1> QED
  BY SMTT(30), <1>1, AheadTailed

\* The SYN of a stream is ahead of the acceptor once.
LEMMA SynTaken ==
    ASSUME ahead \in [Ends -> Seq(Frame)], NEW p \in Ends, ahead[p] # <<>>, Takes(p), SynInv,
           NEW h \in Handles, h[1] = p, h[2] = ahead[p][1].sid
    PROVE  ~SynAhead(h)'
<1> SUFFICES ASSUME SynAhead(h)' PROVE FALSE
  OBVIOUS
<1>1. PICK i \in DOMAIN ahead'[p] : ahead'[p][i].cmd = "SYN" /\ ahead'[p][i].sid = h[2]
  BY DEF SynAhead
<1>2. /\ i + 1 \in DOMAIN ahead[p] /\ 1 \in DOMAIN ahead[p] /\ i \in Nat /\ i # 0
      /\ ahead[p][i + 1].cmd = "SYN" /\ ahead[p][i + 1].sid = ahead[p][1].sid
  BY <1>1, AheadTailed
<1>3. i + 1 <= 1
  BY <1>2 DEF SynInv
<1> QED
  BY <1>2, <1>3

\* notifyReadEvent.
LEMMA RecvNotifyKeeps ==
    ASSUME LifeInv, NEW e \in Ends, RecvNotify(e) PROVE LifeInv'
<1> DEFINE g == <<e, InHand(e)>>
<1> USE HandleFacts
<1>0. /\ TypeOK /\ HandInv /\ AcceptsInv /\ OnceInv /\ SynInv /\ BirthInv /\ UseInv
      /\ TableInv /\ EventInv /\ EndInv /\ WireInv /\ ReadInv /\ RestInv
  BY DEF LifeInv
<1>1. /\ recv[e] = "notify" /\ Handled(e)
      /\ recv' = [recv EXCEPT ![e] = "frame"]
      /\ event' = [event EXCEPT ![g] = TRUE]
      /\ UNCHANGED <<plan, connOpen, die, sess, table, accepts, app, sdie, rst, buf,
                     reader, writer, closer, sent, finAt, got, eof>>
  BY DEF RecvNotify, readVars, sentVars
<1>2. ahead' = ahead
  BY <1>0, <1>1, AheadDone
<1>3. /\ g \in Handles /\ g[1] = e
      /\ wire' \in [Ends -> Seq(Frame)] /\ recv' \in [Ends -> RecvPC]
      /\ \A x \in Ends : recv'[x] \in {"queue", "FUL", "notify"} => wire'[x] # <<>>
      /\ \A h \in Handles : /\ Notifying(h)' <=> Notifying(h) /\ h[1] # e
                            /\ Queueing(h)' <=> Queueing(h) /\ h[1] # e
  BY <1>0, <1>1, HandDone
<1>4. \A h \in Handles : Notifying(h) /\ h[1] = e => h = g
  BY <1>3 DEF Notifying
<1> HIDE DEF g
<1>5. event' \in [Handles -> BOOLEAN] /\ \A h \in Handles : event'[h] <=> h = g \/ event[h]
  BY SMTT(30), <1>0, <1>1, <1>3 DEF TypeOK
<1>6. TypeOK'
  BY <1>0, <1>1, <1>3, <1>5 DEF TypeOK
<1>7. HandInv'
  BY <1>0, <1>1, <1>3 DEF HandInv, InTable
<1>8. AcceptsInv'
  BY <1>0, <1>1, <1>3, SameQueue DEF AcceptsInv, InTable
<1>9. EventInv'
  BY <1>0, <1>1, <1>3, <1>4, <1>5 DEF EventInv, Awake
<1>10. /\ OnceInv' /\ SynInv' /\ BirthInv' /\ UseInv' /\ TableInv' /\ EndInv' /\ WireInv'
       /\ ReadInv' /\ RestInv'
  BY <1>1, <1>2, Untouched
<1> QED
  BY <1>6, <1>7, <1>8, <1>9, <1>10 DEF LifeInv

\* recvLoop has written its FUL: it still holds the lock and the frame.
LEMMA RecvPausedKeeps ==
    ASSUME LifeInv, NEW e \in Ends, RecvPaused(e) PROVE LifeInv'
<1> USE HandleFacts
<1>0. /\ TypeOK /\ HandInv /\ AcceptsInv /\ EventInv
  BY DEF LifeInv
<1>1. /\ recv[e] = "FUL"
      /\ recv' = [recv EXCEPT ![e] = "notify"]
      /\ UNCHANGED <<plan, wire, connOpen, die, sess, table, accepts, app, sdie, rst, buf,
                     event, reader, writer, closer, sent, finAt, got, eof>>
  BY DEF RecvPaused, objVars, readVars, sentVars
<1>2. \A x \in Ends : recv'[x] = IF x = e THEN "notify" ELSE recv[x]
  BY <1>0, <1>1 DEF TypeOK
<1>3. ahead' = ahead
  BY <1>1, <1>2 DEF ahead
<1>4. \A h \in Handles : (Queueing(h)' <=> Queueing(h)) /\ (Notifying(h)' <=> Notifying(h))
  BY <1>1, <1>2 DEF Queueing, Notifying, InHand
<1>5. TypeOK'
  <2>1. recv' \in [Ends -> RecvPC]
    BY <1>0, <1>1 DEF TypeOK, RecvPC
  <2> QED
    BY <1>0, <1>1, <2>1 DEF TypeOK
<1>6. HandInv'
  BY <1>0, <1>1, <1>2, <1>4 DEF HandInv, InTable
<1>7. AcceptsInv'
  BY SameQueue, <1>0, <1>1, <1>4 DEF AcceptsInv, InTable
<1>8. EventInv'
  BY <1>0, <1>1, <1>4 DEF EventInv, Awake
<1>9. OnceInv' /\ SynInv' /\ BirthInv' /\ UseInv' /\ TableInv' /\ EndInv' /\ WireInv'
      /\ ReadInv' /\ RestInv'
  BY <1>1, <1>3, Untouched
<1> QED
  BY <1>5, <1>6, <1>7, <1>8, <1>9 DEF LifeInv

\* recvLoop sends the stream to chAccepts, or finds die closed.
LEMMA RecvQueueKeeps ==
    ASSUME LifeInv, NEW e \in Ends, RecvQueue(e) PROVE LifeInv'
<1> DEFINE g == <<e, InHand(e)>>
<1> USE HandleFacts
<1>0. /\ TypeOK /\ HandInv /\ AcceptsInv /\ OnceInv /\ SynInv /\ BirthInv /\ UseInv
      /\ TableInv /\ EventInv /\ EndInv /\ WireInv /\ ReadInv /\ RestInv
  BY DEF LifeInv
<1>1. /\ recv[e] = "queue" /\ Handled(e)
      /\ recv' = [recv EXCEPT ![e] = "frame"]
      /\ \/ /\ Len(accepts[e]) < Backlog
            /\ accepts' = [accepts EXCEPT ![e] = Append(@, InHand(e))]
         \/ accepts' = accepts
      /\ UNCHANGED <<plan, connOpen, die, sess, table, app, sdie, rst, buf, event,
                     reader, writer, closer, sent, finAt, got, eof>>
  BY DEF RecvQueue, objVars, readVars, sentVars
<1>2. ahead' = ahead
  BY <1>0, <1>1, AheadDone
<1>3. /\ g \in Handles /\ g[1] = e /\ g[2] = InHand(e)
      /\ wire' \in [Ends -> Seq(Frame)] /\ recv' \in [Ends -> RecvPC]
      /\ \A x \in Ends : recv'[x] \in {"queue", "FUL", "notify"} => wire'[x] # <<>>
      /\ \A h \in Handles : /\ Notifying(h)' <=> Notifying(h) /\ h[1] # e
                            /\ Queueing(h)' <=> Queueing(h) /\ h[1] # e
  BY <1>0, <1>1, HandDone
<1>4. Queueing(g) /\ \A h \in Handles : ~(Notifying(h) /\ h[1] = e)
  BY <1>1, <1>3 DEF Notifying, Queueing
<1> HIDE DEF g
<1>5. /\ accepts' \in [Ends -> Seq(Streams)] /\ OnceInv'
      /\ \A x \in Ends : Len(accepts'[x]) <= Backlog
      /\ \A h \in Handles : Queued(h)' => h = g \/ Queued(h)
  <2>1. CASE accepts' = accepts
    BY <1>0, <2>1, SameQueue DEF TypeOK, OnceInv
  <2>2. CASE /\ Len(accepts[e]) < Backlog
             /\ accepts' = [accepts EXCEPT ![e] = Append(@, InHand(e))]
    <3>1. ~Queued(g)
      BY <1>0, <1>3, <1>4 DEF AcceptsInv
    <3> QED
      BY <1>0, <1>3, <2>2, <3>1, QueueAppended
  <2> QED
    BY <1>1, <2>1, <2>2
<1>6. TypeOK'
  BY <1>0, <1>1, <1>3, <1>5 DEF TypeOK
<1>7. HandInv'
  BY <1>0, <1>1, <1>3 DEF HandInv, InTable
<1>8. AcceptsInv'
  BY <1>0, <1>1, <1>3, <1>4, <1>5 DEF AcceptsInv, InTable
<1>9. EventInv'
  BY <1>0, <1>1, <1>3, <1>4 DEF EventInv, Awake
<1>10. /\ SynInv' /\ BirthInv' /\ UseInv' /\ TableInv' /\ EndInv' /\ WireInv'
       /\ ReadInv' /\ RestInv'
  BY <1>1, <1>2, Untouched
<1> QED
  BY <1>5, <1>6, <1>7, <1>8, <1>9, <1>10 DEF LifeInv

\* A SYN: by BirthInv its stream is unknown, so it is always put in the table.
LEMMA RecvSYNKeeps ==
    ASSUME LifeInv, NEW e \in Ends, RecvSYN(e) PROVE LifeInv'
<1> USE HandleFacts
<1>0. /\ TypeOK /\ HandInv /\ AcceptsInv /\ OnceInv /\ SynInv /\ BirthInv /\ UseInv
      /\ TableInv /\ EventInv /\ EndInv /\ WireInv /\ ReadInv /\ RestInv
  BY DEF LifeInv
<1>1. /\ Handling(e, "SYN")
      /\ \/ /\ InHand(e) \in table[e] /\ Handled(e)
            /\ UNCHANGED <<table, recv>>
         \/ /\ table' = [table EXCEPT ![e] = @ \cup {InHand(e)}]
            /\ recv' = [recv EXCEPT ![e] = "queue"]
            /\ UNCHANGED wire
      /\ UNCHANGED <<plan, connOpen, die, sess, accepts, app, sdie, rst, buf, event,
                     reader, writer, closer, sent, finAt, got, eof>>
  BY DEF RecvSYN, objVars, readVars, sentVars
<1>2. /\ ahead \in [Ends -> Seq(Frame)]
      /\ Takes(e)
      /\ ahead[e] # <<>> /\ ahead[e][1] \in Frame /\ ahead[e][1].cmd = "SYN"
      /\ InHand(e) = ahead[e][1].sid /\ InHand(e) \in Streams
      /\ 1 \in DOMAIN ahead[e]
  BY <1>0, <1>1, AheadTaken, AheadTyped, HandTaken, AheadTailed
<1>3. PICK f \in Frame : f = ahead[e][1] /\ f.cmd = "SYN" /\ InHand(e) = f.sid
  BY <1>2
<1>4. PICK g \in Handles : g[1] = e /\ g[2] = f.sid
  <2>1. /\ <<e, f.sid>> \in Handles
        /\ <<e, f.sid>>[1] = e /\ <<e, f.sid>>[2] = f.sid
    BY <1>2, <1>3
  <2> QED
    BY <2>1
<1>5. /\ Accepting(g) /\ SynAhead(g)
      /\ \A j \in DOMAIN ahead[e] : ahead[e][j].cmd = "SYN" /\ ahead[e][j].sid = g[2] => j = 1
  BY <1>0, <1>2, <1>3, <1>4 DEF SynInv, Accepting, SynAhead
<1>6. app[g] = "new" /\ ~InTable(g) /\ app[Inward(g)] # "new"
  BY <1>0, <1>2, <1>3, <1>4, <1>5 DEF BirthInv, Unborn
<1>7. /\ table' = [table EXCEPT ![e] = @ \cup {InHand(e)}]
      /\ recv' = [recv EXCEPT ![e] = "queue"]
      /\ wire' = wire
  BY <1>1, <1>3, <1>4, <1>6 DEF InTable
<1>8. /\ recv' \in [Ends -> RecvPC]
      /\ \A x \in Ends : recv'[x] \in {"queue", "FUL", "notify"} => wire'[x] # <<>>
      /\ \A h \in Handles : /\ Notifying(h)' <=> Notifying(h)
                            /\ Queueing(h)' => Queueing(h) \/ h = g
  <2>1. /\ recv' \in [Ends -> RecvPC]
        /\ \A x \in Ends : recv'[x] \in {"queue", "FUL", "notify"} => wire'[x] # <<>>
        /\ \A h \in Handles :
              /\ Notifying(h)' <=> Notifying(h)
              /\ Queueing(h)' => Queueing(h) \/ (h[1] = e /\ h[2] = InHand(e))
    BY <1>0, <1>1, <1>7, HandTaken
  <2> QED
    BY <1>3, <1>4, <2>1
<1>9. /\ table' \in [Ends -> SUBSET Streams]
      /\ \A h \in Handles : InTable(h)' <=> h = g \/ InTable(h)
  <2>1. \A x \in Ends : table'[x] = IF x = e THEN table[e] \cup {g[2]} ELSE table[x]
    BY <1>0, <1>2, <1>3, <1>4, <1>7 DEF TypeOK
  <2>2. table' \in [Ends -> SUBSET Streams]
    BY SMTT(30), <1>0, <1>2, <1>3, <1>4, <1>7 DEF TypeOK
  <2> QED
    BY <1>4, <2>1, <2>2 DEF InTable
<1>10. /\ SynInv' /\ WireInv'
       /\ \A h \in Handles :
             /\ SynAhead(h) <=> SynAhead(h)' \/ h = g
             /\ FinAhead(h) <=> FinAhead(h)'
             /\ \A n \in Nat : Ahead(h, n) <=> Ahead(h, n)'
  <2>1. SynInv' /\ WireInv'
    BY <1>0, <1>1, <1>2, SynShrunk, WireShrunk
  <2>2. \A h \in Handles :
           /\ SynAhead(h) <=> SynAhead(h)' \/ (h[1] = e /\ f.sid = h[2])
           /\ FinAhead(h) <=> FinAhead(h)'
           /\ \A n \in Nat : Ahead(h, n) <=> Ahead(h, n)'
    <3>1. \A h \in Handles :
             /\ SynAhead(h) <=> SynAhead(h)' \/ (h[1] = e /\ f.cmd = "SYN" /\ f.sid = h[2])
             /\ FinAhead(h) <=> FinAhead(h)' \/ (h[1] = e /\ f.cmd = "FIN" /\ f.sid = h[2])
             /\ \A n \in Nat : Ahead(h, n) <=>
                   \/ Ahead(h, n)'
                   \/ h[1] = e /\ f.cmd = "PSH" /\ f.sid = h[2] /\ f.chunk = n
      BY <1>2, <1>3, AheadShrunk
    <3> QED
      BY <1>3, <3>1
  <2> QED
    BY <1>3, <1>4, <2>1, <2>2
<1>11. ~SynAhead(g)'
  BY <1>0, <1>2, <1>3, <1>4, SynTaken
<1>12. \A h \in Handles : Unborn(h)' <=> Unborn(h) /\ h # g
  <2> SUFFICES ASSUME NEW h \in Handles PROVE Unborn(h)' <=> Unborn(h) /\ h # g
    OBVIOUS
  <2>1. /\ SynAhead(h) <=> SynAhead(h)' \/ h = g
        /\ app'[Inward(h)] = app[Inward(h)]
    BY <1>1, <1>10
  <2> QED
    BY <1>6, <1>11, <2>1 DEF Unborn
<1>13. TypeOK'
  BY <1>0, <1>1, <1>7, <1>8, <1>9 DEF TypeOK
<1>14. HandInv'
  BY <1>0, <1>8, <1>9 DEF HandInv
<1>15. AcceptsInv'
  BY <1>0, <1>1, <1>5, <1>6, <1>8, <1>9, SameQueue DEF AcceptsInv
<1>16. BirthInv'
  <2>1. ASSUME NEW h \in Handles, Opening(h), app[h] # "open" PROVE ~InTable(h)'
    BY <1>0, <1>5, <1>9, <2>1 DEF BirthInv
  <2>2. ASSUME NEW h \in Handles, Accepting(h), app[Inward(h)] = "new",
               NEW i \in DOMAIN ahead'[h[1]]
        PROVE  ahead'[h[1]][i].sid # h[2]
    <3>1. \A j \in DOMAIN ahead[h[1]] : ahead[h[1]][j].sid # h[2]
      BY <1>0, <2>2 DEF BirthInv
    <3> QED
      BY <1>2, <2>2, <3>1, NothingTaken
  <2>3. ASSUME NEW h \in Handles, Accepting(h), Unborn(h)'
        PROVE  app[h] = "new" /\ ~InTable(h)'
    BY <1>0, <1>9, <1>12, <2>3 DEF BirthInv
  <2> QED
    BY <1>1, <2>1, <2>2, <2>3 DEF BirthInv
<1>17. TableInv'
  BY <1>0, <1>1, <1>6, <1>9 DEF TableInv, UseInv
<1>18. EventInv'
  BY <1>0, <1>1, <1>8 DEF EventInv, Awake
<1>19. EndInv'
  BY <1>0, <1>1, <1>10 DEF EndInv
<1>20. RestInv'
  <2>1. \A h \in Handles : Expects(h)' => Expects(h)
    BY <1>1, <1>5, <1>9, <1>12, <1>6, <1>10 DEF Expects, Unborn
  <2> SUFFICES ASSUME NEW h \in Handles, Expects(h)',
                      NEW n \in 1 .. sent[Inward(h)]
               PROVE  n > LastChunk(h)' <=> Ahead(h, n)'
    BY <1>1 DEF RestInv
  <2>2. n \in Nat
    BY <1>0 DEF TypeOK
  <2> QED
    BY <1>0, <1>1, <1>10, <2>1, <2>2, SameLast DEF RestInv
<1>21. OnceInv' /\ UseInv' /\ ReadInv'
  BY <1>1, Untouched
<1> QED
  BY <1>10, <1>13, <1>14, <1>15, <1>16, <1>17, <1>18, <1>19, <1>20, <1>21 DEF LifeInv

\* A FIN: the stream is marked, if it is in the table.
LEMMA RecvFINKeeps ==
    ASSUME LifeInv, NEW e \in Ends, RecvFIN(e) PROVE LifeInv'
<1> USE HandleFacts
<1>0. /\ TypeOK /\ HandInv /\ AcceptsInv /\ OnceInv /\ SynInv /\ BirthInv /\ UseInv
      /\ TableInv /\ EventInv /\ EndInv /\ WireInv /\ ReadInv /\ RestInv
  BY DEF LifeInv
<1>1. /\ Handling(e, "FIN")
      /\ \/ /\ InHand(e) \in table[e]
            /\ rst' = [rst EXCEPT ![<<e, InHand(e)>>] = TRUE]
            /\ recv' = [recv EXCEPT ![e] = "notify"]
            /\ wire' = wire
         \/ /\ InHand(e) \notin table[e] /\ Handled(e)
            /\ rst' = rst /\ recv' = recv
      /\ UNCHANGED <<plan, connOpen, die, sess, table, accepts, app, sdie, buf, event,
                     reader, writer, closer, sent, finAt, got, eof>>
  BY DEF RecvFIN, readVars, sentVars
<1>2. /\ ahead \in [Ends -> Seq(Frame)]
      /\ Takes(e)
      /\ ahead[e] # <<>> /\ ahead[e][1] \in Frame /\ ahead[e][1].cmd = "FIN"
      /\ InHand(e) = ahead[e][1].sid /\ InHand(e) \in Streams
      /\ 1 \in DOMAIN ahead[e]
  BY <1>0, <1>1, AheadTaken, AheadTyped, HandTaken, AheadTailed
<1>3. PICK f \in Frame : f = ahead[e][1] /\ f.cmd = "FIN" /\ InHand(e) = f.sid
  BY <1>2
<1>4. PICK g \in Handles : g[1] = e /\ g[2] = f.sid
  <2>1. /\ <<e, f.sid>> \in Handles
        /\ <<e, f.sid>>[1] = e /\ <<e, f.sid>>[2] = f.sid
    BY <1>2, <1>3
  <2> QED
    BY <2>1
<1>5. /\ recv' \in [Ends -> RecvPC] /\ wire' \in [Ends -> Seq(Frame)]
      /\ \A x \in Ends : recv'[x] \in {"queue", "FUL", "notify"} => wire'[x] # <<>>
      /\ \A h \in Handles : /\ Notifying(h)' <=> Notifying(h) \/ (h = g /\ InTable(g))
                            /\ Queueing(h)' <=> Queueing(h)
  <2>1. CASE InHand(e) \in table[e]
    <3>1. recv' = [recv EXCEPT ![e] = "notify"] /\ wire' = wire
      BY <1>1, <2>1
    <3>2. /\ recv' \in [Ends -> RecvPC]
          /\ \A x \in Ends : recv'[x] \in {"queue", "FUL", "notify"} => wire'[x] # <<>>
          /\ \A h \in Handles :
                /\ Notifying(h)' <=> Notifying(h) \/ (h[1] = e /\ h[2] = InHand(e))
                /\ Queueing(h)' <=> Queueing(h)
      BY <1>0, <1>1, <3>1, HandTaken
    <3>3. InTable(g) /\ wire' \in [Ends -> Seq(Frame)]
      BY <1>0, <1>3, <1>4, <2>1, <3>1 DEF InTable, TypeOK
    <3>4. \A h \in Handles : (h[1] = e /\ h[2] = InHand(e)) <=> h = g
      BY <1>3, <1>4
    <3> QED
      BY Zenon, <3>2, <3>3, <3>4
  <2>2. CASE InHand(e) \notin table[e]
    <3>1. Handled(e) /\ recv' = recv
      BY <1>1, <2>2
    <3>2. ~InTable(g) /\ recv' \in [Ends -> RecvPC]
      BY <1>0, <1>3, <1>4, <2>2, <3>1 DEF InTable, TypeOK
    <3> QED
      BY <1>0, <1>1, <3>1, <3>2, HandTaken
  <2> QED
    BY <2>1, <2>2
<1>6. /\ rst' \in [Handles -> BOOLEAN]
      /\ \A h \in Handles : rst'[h] <=> rst[h] \/ (h = g /\ InTable(g))
  <2>1. InHand(e) \in table[e] <=> InTable(g)
    BY <1>3, <1>4 DEF InTable
  <2>2. <<e, InHand(e)>> = g
    BY <1>3, <1>4
  <2>3. CASE InTable(g)
    <3>1. rst' = [rst EXCEPT ![g] = TRUE]
      BY <1>1, <2>1, <2>2, <2>3
    <3> QED
      BY <1>0, <2>3, <3>1 DEF TypeOK
  <2>4. CASE ~InTable(g)
    BY <1>0, <1>1, <2>1, <2>4 DEF TypeOK
  <2> QED
    BY <2>3, <2>4
<1>7. /\ SynInv' /\ WireInv'
      /\ \A h \in Handles :
            /\ SynAhead(h) <=> SynAhead(h)'
            /\ FinAhead(h) <=> FinAhead(h)' \/ h = g
            /\ \A n \in Nat : Ahead(h, n) <=> Ahead(h, n)'
  <2>1. SynInv' /\ WireInv'
    BY <1>0, <1>1, <1>2, SynShrunk, WireShrunk
  <2>2. \A h \in Handles :
           /\ SynAhead(h) <=> SynAhead(h)' \/ (h[1] = e /\ f.cmd = "SYN" /\ f.sid = h[2])
           /\ FinAhead(h) <=> FinAhead(h)' \/ (h[1] = e /\ f.cmd = "FIN" /\ f.sid = h[2])
           /\ \A n \in Nat : Ahead(h, n) <=>
                 \/ Ahead(h, n)'
                 \/ h[1] = e /\ f.cmd = "PSH" /\ f.sid = h[2] /\ f.chunk = n
    BY <1>2, <1>3, AheadShrunk
  <2> QED
    BY <1>3, <1>4, <2>1, <2>2
<1>8. \A h \in Handles : (Unborn(h)' <=> Unborn(h)) /\ (InTable(h)' <=> InTable(h))
  BY <1>1, <1>7 DEF Unborn, InTable
<1>9. TypeOK'
  BY <1>0, <1>1, <1>5, <1>6 DEF TypeOK
<1>10. HandInv'
  BY <1>0, <1>5, <1>8 DEF HandInv
<1>11. AcceptsInv'
  BY <1>0, <1>1, <1>5, <1>8, SameQueue DEF AcceptsInv
<1>12. BirthInv'
  <2>1. ASSUME NEW h \in Handles, Accepting(h), app[Inward(h)] = "new",
               NEW i \in DOMAIN ahead'[h[1]]
        PROVE  ahead'[h[1]][i].sid # h[2]
    <3>1. \A j \in DOMAIN ahead[h[1]] : ahead[h[1]][j].sid # h[2]
      BY <1>0, <2>1 DEF BirthInv
    <3> QED
      BY <1>2, <2>1, <3>1, NothingTaken
  <2> QED
    BY <1>0, <1>1, <1>8, <2>1 DEF BirthInv
<1>13. EventInv'
  BY <1>0, <1>1, <1>5, <1>6 DEF EventInv, Awake
<1>14. EndInv'
  BY <1>0, <1>1, <1>6, <1>7 DEF EndInv
<1>15. RestInv'
  <2> SUFFICES ASSUME NEW h \in Handles, Expects(h)',
                      NEW n \in 1 .. sent[Inward(h)]
               PROVE  n > LastChunk(h)' <=> Ahead(h, n)'
    BY <1>1 DEF RestInv
  <2>1. Expects(h)
    BY <1>1, <1>8 DEF Expects
  <2>2. n \in Nat
    BY <1>0 DEF TypeOK
  <2> QED
    BY <1>0, <1>1, <1>7, <2>1, <2>2, SameLast DEF RestInv
<1>16. OnceInv' /\ UseInv' /\ TableInv' /\ ReadInv'
  BY <1>1, Untouched
<1> QED
  BY <1>7, <1>9, <1>10, <1>11, <1>12, <1>13, <1>14, <1>15, <1>16 DEF LifeInv

\* A PSH: the chunk goes to the buffer, if the stream is in the table.
LEMMA RecvPSHKeeps ==
    ASSUME LifeInv, NEW e \in Ends, RecvPSH(e) PROVE LifeInv'
<1> USE HandleFacts
<1>0. /\ TypeOK /\ HandInv /\ AcceptsInv /\ OnceInv /\ SynInv /\ BirthInv /\ UseInv
      /\ TableInv /\ EventInv /\ EndInv /\ WireInv /\ ReadInv /\ RestInv
  BY DEF LifeInv
<1>1. /\ Handling(e, "PSH")
      /\ \/ /\ InHand(e) \in table[e]
            /\ buf' = [buf EXCEPT ![<<e, InHand(e)>>] = Append(@, Head(wire[e]).chunk)]
            /\ \E pc \in {"FUL", "notify"} : recv' = [recv EXCEPT ![e] = pc]
            /\ wire' = wire
         \/ /\ InHand(e) \notin table[e] /\ Handled(e)
            /\ buf' = buf /\ recv' = recv
      /\ UNCHANGED <<plan, connOpen, die, sess, table, accepts, app, sdie, rst, event,
                     reader, writer, closer, sent, finAt, got, eof>>
  BY DEF RecvPSH, readVars, sentVars
<1>2. /\ ahead \in [Ends -> Seq(Frame)]
      /\ Takes(e)
      /\ ahead[e] # <<>> /\ ahead[e][1] \in Frame /\ ahead[e][1].cmd = "PSH"
      /\ InHand(e) = ahead[e][1].sid /\ InHand(e) \in Streams
      /\ 1 \in DOMAIN ahead[e]
  BY <1>0, <1>1, AheadTaken, AheadTyped, HandTaken, AheadTailed
<1>3. PICK f \in Frame : f = ahead[e][1] /\ f.cmd = "PSH" /\ InHand(e) = f.sid
  BY <1>2
<1>4. PICK g \in Handles : g[1] = e /\ g[2] = f.sid
  <2>1. /\ <<e, f.sid>> \in Handles
        /\ <<e, f.sid>>[1] = e /\ <<e, f.sid>>[2] = f.sid
    BY <1>2, <1>3
  <2> QED
    BY <2>1
<1>5. /\ recv' \in [Ends -> RecvPC] /\ wire' \in [Ends -> Seq(Frame)]
      /\ \A x \in Ends : recv'[x] \in {"queue", "FUL", "notify"} => wire'[x] # <<>>
      /\ \A h \in Handles : /\ Notifying(h)' <=> Notifying(h) \/ (h = g /\ InTable(g))
                            /\ Queueing(h)' <=> Queueing(h)
  <2>1. CASE InHand(e) \in table[e]
    <3>1. wire' = wire /\ \E pc \in {"FUL", "notify"} : recv' = [recv EXCEPT ![e] = pc]
      BY <1>1, <2>1
    <3>2. /\ recv' \in [Ends -> RecvPC]
          /\ \A x \in Ends : recv'[x] \in {"queue", "FUL", "notify"} => wire'[x] # <<>>
          /\ \A h \in Handles :
                /\ Notifying(h)' <=> Notifying(h) \/ (h[1] = e /\ h[2] = InHand(e))
                /\ Queueing(h)' <=> Queueing(h)
      BY <1>0, <1>1, <3>1, HandTaken
    <3>3. InTable(g) /\ wire' \in [Ends -> Seq(Frame)]
      BY <1>0, <1>3, <1>4, <2>1, <3>1 DEF InTable, TypeOK
    <3>4. \A h \in Handles : (h[1] = e /\ h[2] = InHand(e)) <=> h = g
      BY <1>3, <1>4
    <3> QED
      BY Zenon, <3>2, <3>3, <3>4
  <2>2. CASE InHand(e) \notin table[e]
    <3>1. Handled(e) /\ recv' = recv
      BY <1>1, <2>2
    <3>2. ~InTable(g) /\ recv' \in [Ends -> RecvPC]
      BY <1>0, <1>3, <1>4, <2>2, <3>1 DEF InTable, TypeOK
    <3> QED
      BY <1>0, <1>1, <3>1, <3>2, HandTaken
  <2> QED
    BY <2>1, <2>2
<1>6. /\ buf' \in [Handles -> Seq(Nat)]
      /\ \A h \in Handles :
            buf'[h] = IF h = g /\ InTable(g) THEN Append(buf[g], f.chunk) ELSE buf[h]
  <2>1. InHand(e) \in table[e] <=> InTable(g)
    BY <1>3, <1>4 DEF InTable
  <2>2. <<e, InHand(e)>> = g /\ Head(wire[e]) = f
    BY <1>0, <1>1, <1>3, <1>4, AheadTaken
  <2>3. f.chunk \in Nat /\ Append(buf[g], f.chunk) \in Seq(Nat)
    BY <1>0, AppendedTo DEF Frame, TypeOK
  <2>4. CASE InTable(g)
    <3>1. buf' = [buf EXCEPT ![g] = Append(@, f.chunk)]
      BY <1>1, <2>1, <2>2, <2>4
    <3> QED
      BY <1>0, <2>3, <2>4, <3>1 DEF TypeOK
  <2>5. CASE ~InTable(g)
    BY <1>0, <1>1, <2>1, <2>5 DEF TypeOK
  <2> QED
    BY <2>4, <2>5
<1>7. /\ SynInv' /\ WireInv'
      /\ \A h \in Handles :
            /\ SynAhead(h) <=> SynAhead(h)'
            /\ FinAhead(h) <=> FinAhead(h)'
            /\ \A n \in Nat : Ahead(h, n) <=> Ahead(h, n)' \/ (h = g /\ n = f.chunk)
  <2>1. SynInv' /\ WireInv'
    BY <1>0, <1>1, <1>2, SynShrunk, WireShrunk
  <2>2. \A h \in Handles :
           /\ SynAhead(h) <=> SynAhead(h)' \/ (h[1] = e /\ f.cmd = "SYN" /\ f.sid = h[2])
           /\ FinAhead(h) <=> FinAhead(h)' \/ (h[1] = e /\ f.cmd = "FIN" /\ f.sid = h[2])
           /\ \A n \in Nat : Ahead(h, n) <=>
                 \/ Ahead(h, n)'
                 \/ h[1] = e /\ f.cmd = "PSH" /\ f.sid = h[2] /\ f.chunk = n
    <3>1. \A h \in Handles :
             /\ SynAhead(h) <=>
                   SynAhead(h)' \/ (h[1] = e /\ ahead[e][1].cmd = "SYN" /\ ahead[e][1].sid = h[2])
             /\ FinAhead(h) <=>
                   FinAhead(h)' \/ (h[1] = e /\ ahead[e][1].cmd = "FIN" /\ ahead[e][1].sid = h[2])
      BY <1>2, AheadShrunk
    <3>2. \A h \in Handles, n \in Nat : Ahead(h, n) <=>
             \/ Ahead(h, n)'
             \/ h[1] = e /\ ahead[e][1].cmd = "PSH" /\ ahead[e][1].sid = h[2]
                /\ ahead[e][1].chunk = n
      BY <1>2, AheadShrunk
    <3> QED
      BY <1>3, <3>1, <3>2
  <2> QED
    BY <1>3, <1>4, <2>1, <2>2
<1>8. \A h \in Handles : (Unborn(h)' <=> Unborn(h)) /\ (InTable(h)' <=> InTable(h))
  BY <1>1, <1>7 DEF Unborn, InTable
<1> DEFINE c == f.chunk
<1> DEFINE last == LastChunk(g)
<1> DEFINE top == sent[Inward(g)]
<1>9. c \in Nat /\ Carries(g, 1, c)
  BY <1>2, <1>3, <1>4 DEF Frame, Carries
<1>10. /\ top \in Nat /\ c \in 1 .. top
       /\ \A m \in c .. top : Ahead(g, m)
       /\ \A j \in DOMAIN ahead[e], m \in Nat : Carries(g, j, m) /\ j # 1 => c < m
  <2>1. top \in Nat
    BY <1>0 DEF TypeOK
  <2>2. c \in 1 .. top /\ \A m \in c .. top : Ahead(g, m)
    BY <1>0, <1>2, <1>4, <1>9 DEF WireInv
  <2>3. ASSUME NEW j \in DOMAIN ahead[e], NEW m \in Nat, Carries(g, j, m), j # 1
        PROVE  c < m
    <3>1. j \in Nat /\ 1 < j
      BY <1>2, <2>3, LenProperties
    <3> QED
      BY <1>0, <1>2, <1>4, <1>9, <2>3, <3>1 DEF WireInv
  <2> QED
    BY <2>1, <2>2, <2>3
<1>11. ~Ahead(g, c)' /\ \A m \in Nat : Ahead(g, m) => c <= m
  <2>1. ASSUME NEW m \in Nat, Ahead(g, m) PROVE c <= m
    <3>1. PICK j \in DOMAIN ahead[e] : Carries(g, j, m)
      BY <1>4, <2>1 DEF Ahead
    <3>2. CASE j = 1
      BY <1>9, <3>1, <3>2 DEF Carries
    <3>3. CASE j # 1
      BY <1>9, <1>10, <3>1, <3>3
    <3> QED
      BY <3>2, <3>3
  <2>2. ASSUME Ahead(g, c)' PROVE FALSE
    <3>1. PICK j \in DOMAIN ahead'[e] : Carries(g, j, c)'
      BY <1>4, <2>2 DEF Ahead
    <3>2. j + 1 \in DOMAIN ahead[e] /\ j + 1 # 1 /\ Carries(g, j + 1, c)
      BY <1>2, <1>4, <3>1, AheadTailed DEF Carries
    <3> QED
      BY <1>9, <1>10, <3>2
  <2> QED
    BY <2>1, <2>2
<1>12. last \in 0 .. top
  <2>1. ASSUME NEW q \in Seq(Nat), q # <<>>, Run(q, g) PROVE q[Len(q)] \in 0 .. top
    BY <1>10, <2>1, LenProperties DEF Run
  <2>2. buf[g] \in Seq(Nat) /\ got[g] \in Seq(Nat) /\ Run(buf[g], g) /\ Run(got[g], g)
    BY <1>0 DEF TypeOK, ReadInv
  <2> QED
    BY <1>10, <2>1, <2>2 DEF LastChunk
<1>13. Expects(g) => c = last + 1
  <2> SUFFICES ASSUME Expects(g) PROVE c = last + 1
    OBVIOUS
  <2>1. \A n \in 1 .. top : n > last <=> Ahead(g, n)
    BY <1>0 DEF RestInv
  <2> HIDE DEF c, last, top
  <2>2. c > last
    BY <1>9, <1>10, <2>1
  <2>3. ~(last + 1 < c)
    <3> SUFFICES ASSUME last + 1 < c PROVE FALSE
      OBVIOUS
    <3>1. last + 1 \in 1 .. top /\ last + 1 \in Nat /\ last + 1 > last
      BY <1>9, <1>10, <1>12
    <3>2. Ahead(g, last + 1)
      BY <2>1, <3>1
    <3> QED
      BY <1>9, <1>11, <3>1, <3>2
  <2> QED
    BY <1>9, <1>10, <1>12, <2>2, <2>3
<1>14. Accepting(g) => ~Unborn(g)
  <2>1. Accepting(g) => app[Inward(g)] # "new"
    BY <1>0, <1>2, <1>3, <1>4 DEF BirthInv
  <2>2. ASSUME SynAhead(g) PROVE FALSE
    <3>1. PICK i \in DOMAIN ahead[e] : ahead[e][i].cmd = "SYN" /\ ahead[e][i].sid = g[2]
      BY <1>4, <2>2 DEF SynAhead
    <3>2. i <= 1
      BY <1>0, <1>2, <1>3, <1>4, <3>1 DEF SynInv
    <3>3. i = 1
      BY <1>2, <3>2, LenProperties
    <3> QED
      BY <1>2, <3>1, <3>3
  <2> QED
    BY <2>1, <2>2 DEF Unborn
<1> HIDE DEF c, last, top
<1>15. InTable(g) \/ ~Expects(g)
  BY <1>14 DEF Expects
<1>16. /\ \A h \in Handles : h # g \/ ~InTable(g) => LastChunk(h)' = LastChunk(h)
       /\ InTable(g) => LastChunk(g)' = c
  <2>1. \A h \in Handles : h # g \/ ~InTable(g) => LastChunk(h)' = LastChunk(h)
    BY <1>1, <1>6 DEF LastChunk
  <2>2. ASSUME InTable(g) PROVE LastChunk(g)' = c
    <3>1. buf[g] \in Seq(Nat) /\ buf'[g] = Append(buf[g], c)
      BY <1>0, <1>6, <2>2 DEF TypeOK, c
    <3>2. Append(buf[g], c) # <<>> /\ Append(buf[g], c)[Len(Append(buf[g], c))] = c
      BY <1>9, <3>1, AppendedTo, LenProperties
    <3> QED
      BY <3>1, <3>2 DEF LastChunk
  <2> QED
    BY <2>1, <2>2
<1>17. TypeOK'
  BY <1>0, <1>1, <1>5, <1>6 DEF TypeOK
<1>18. HandInv'
  BY <1>0, <1>5, <1>8 DEF HandInv
<1>19. AcceptsInv'
  BY <1>0, <1>1, <1>5, <1>8, SameQueue DEF AcceptsInv
<1>20. BirthInv'
  <2>1. ASSUME NEW h \in Handles, Accepting(h), app[Inward(h)] = "new",
               NEW i \in DOMAIN ahead'[h[1]]
        PROVE  ahead'[h[1]][i].sid # h[2]
    <3>1. \A j \in DOMAIN ahead[h[1]] : ahead[h[1]][j].sid # h[2]
      BY <1>0, <2>1 DEF BirthInv
    <3> QED
      BY <1>2, <2>1, <3>1, NothingTaken
  <2> QED
    BY <1>0, <1>1, <1>8, <2>1 DEF BirthInv
<1>21. TableInv'
  BY <1>0, <1>1, <1>6, <1>8 DEF TableInv
<1>22. EventInv'
  BY <1>0, <1>1, <1>5, <1>6 DEF EventInv, Awake
<1>23. EndInv'
  BY <1>0, <1>1, <1>7 DEF EndInv
<1>24. ReadInv'
  <2> SUFFICES ASSUME NEW h \in Handles
               PROVE  /\ Run(got[h], h) /\ Run(buf'[h], h)
                      /\ buf'[h] # <<>> /\ got[h] # <<>> => buf'[h][1] = got[h][Len(got[h])] + 1
                      /\ Accepting(h) =>
                            /\ got[h] # <<>> => got[h][1] = 1
                            /\ buf'[h] # <<>> /\ got[h] = <<>> => buf'[h][1] = 1
    BY <1>1 DEF ReadInv, Run
  <2>1. CASE h # g \/ ~InTable(g)
    BY <1>0, <1>6, <2>1 DEF ReadInv
  <2>2. CASE h = g /\ InTable(g)
    <3> DEFINE b == buf[g]
    <3>1. /\ b \in Seq(Nat) /\ Run(b, g) /\ buf'[g] = Append(b, c)
          /\ got[g] \in Seq(Nat) /\ Run(got[g], g)
          /\ b # <<>> /\ got[g] # <<>> => b[1] = got[g][Len(got[g])] + 1
          /\ Accepting(g) /\ got[g] # <<>> => got[g][1] = 1
          /\ Accepting(g) /\ b # <<>> /\ got[g] = <<>> => b[1] = 1
      BY <1>0, <1>6, <2>2 DEF ReadInv, TypeOK, c
    <3> HIDE DEF b
    <3>2. /\ Len(b) \in Nat /\ Append(b, c) # <<>>
          /\ b # <<>> => 1 \in DOMAIN b /\ Len(b) \in DOMAIN b
          /\ b = <<>> => Len(b) = 0 /\ \A i \in DOMAIN b : FALSE
          /\ Append(b, c)[Len(b) + 1] = c
          /\ \A i \in DOMAIN b : Append(b, c)[i] = b[i] /\ i \in Nat
          /\ \A i \in DOMAIN Append(b, c) : i \in DOMAIN b \/ i = Len(b) + 1
      BY SMTT(30), <1>9, <3>1, AppendedTo, LenProperties
    <3>3. /\ b # <<>> => last = b[Len(b)]
          /\ b = <<>> /\ got[g] # <<>> => last = got[g][Len(got[g])]
          /\ b = <<>> /\ got[g] = <<>> => last = 0
          /\ b # <<>> \/ got[g] # <<>> \/ Accepting(g) => c = last + 1
      BY <1>13, <2>2 DEF last, LastChunk, b, Expects
    <3>4. Append(b, c)[1] = IF b = <<>> THEN c ELSE b[1]
      BY <3>2
    <3>5. Run(Append(b, c), g)
      <4> SUFFICES ASSUME NEW i \in DOMAIN Append(b, c)
                   PROVE  /\ Append(b, c)[i] = Append(b, c)[1] + i - 1
                          /\ Append(b, c)[i] \in 1 .. sent[Inward(g)]
        BY DEF Run
      <4>0. \A k \in DOMAIN b : b[k] = b[1] + k - 1 /\ b[k] \in 1 .. top
        BY <3>1 DEF Run, top
      <4>1. CASE i \in DOMAIN b
        <5>1. b # <<>> /\ Append(b, c)[i] = b[i] /\ Append(b, c)[1] = b[1]
          BY <3>2, <3>4, <4>1
        <5> QED
          BY <4>0, <4>1, <5>1 DEF top
      <4>2. CASE i = Len(b) + 1 /\ b = <<>>
        BY <1>9, <1>10, <3>2, <3>4, <4>2 DEF top
      <4>3. CASE i = Len(b) + 1 /\ b # <<>>
        <5>1. b[Len(b)] = b[1] + Len(b) - 1 /\ b[1] \in Nat
          <6>1. Len(b) \in DOMAIN b /\ 1 \in DOMAIN b
            BY <3>2, <4>3
          <6>2. b[Len(b)] = b[1] + Len(b) - 1 /\ b[1] \in 1 .. top
            BY <4>0, <6>1
          <6> QED
            BY <1>10, <6>2
        <5>2. /\ Append(b, c)[i] = c /\ Append(b, c)[1] = b[1]
              /\ c = b[Len(b)] + 1
          BY <3>2, <3>3, <3>4, <4>3
        <5> QED
          BY <1>9, <1>10, <3>2, <4>3, <5>1, <5>2 DEF top
      <4> QED
        BY <3>2, <4>1, <4>2, <4>3
    <3>6. Append(b, c) # <<>> /\ got[g] # <<>> => Append(b, c)[1] = got[g][Len(got[g])] + 1
      BY <3>1, <3>3, <3>4
    <3>7. Accepting(g) /\ got[g] = <<>> => Append(b, c)[1] = 1
      BY <3>1, <3>3, <3>4
    <3> QED
      BY <2>2, <3>1, <3>5, <3>6, <3>7
  <2> QED
    BY <2>1, <2>2
<1>25. RestInv'
  <2> SUFFICES ASSUME NEW h \in Handles, Expects(h)',
                      NEW n \in 1 .. sent[Inward(h)]
               PROVE  n > LastChunk(h)' <=> Ahead(h, n)'
    BY <1>1 DEF RestInv
  <2>1. n \in Nat
    BY <1>0 DEF TypeOK
  <2>2. CASE h # g \/ ~InTable(g)
    <3>1. Expects(h)
      BY <1>1, <1>6, <1>8, <2>2 DEF Expects
    <3>2. h # g
      BY <1>15, <2>2, <3>1
    <3> QED
      BY <1>0, <1>7, <1>16, <2>1, <3>1, <3>2 DEF RestInv
  <2>3. CASE h = g /\ InTable(g)
    <3>1. LastChunk(h)' = c /\ n \in 1 .. top
      BY <1>16, <2>3 DEF top
    <3>2. n > c => Ahead(g, n)'
      BY <1>7, <1>9, <1>10, <2>1, <3>1 DEF c
    <3>3. ASSUME Ahead(g, n)' PROVE n > c
      <4>1. Ahead(g, n) /\ n # c
        BY <1>7, <1>11, <2>1, <3>3
      <4> QED
        BY <1>9, <1>11, <2>1, <4>1
    <3> QED
      BY <2>3, <3>1, <3>2, <3>3
  <2> QED
    BY <2>2, <2>3
<1>26. OnceInv' /\ UseInv'
  BY <1>1, Untouched
<1> QED
  BY <1>7, <1>17, <1>18, <1>19, <1>20, <1>21, <1>22, <1>23, <1>24, <1>25, <1>26
  DEF LifeInv

\* OpenStream writes the SYN, unless the session is closed.
LEMMA OpenSYNKeeps ==
    ASSUME LifeInv, NEW e \in Ends, NEW s \in Streams, OpenSYN(e, s) PROVE LifeInv'
<1>0. /\ TypeOK /\ HandInv /\ AcceptsInv /\ OnceInv /\ SynInv /\ BirthInv /\ UseInv
      /\ TableInv /\ EventInv /\ EndInv /\ WireInv /\ ReadInv /\ RestInv
  BY DEF LifeInv
<1>1. PICK g \in Handles : g = <<e, s>> /\ g[1] = e /\ g[2] = s
  <2>1. <<e, s>> \in Handles /\ <<e, s>>[1] = e /\ <<e, s>>[2] = s
    BY HandleFacts
  <2> QED
    BY <2>1
<1>2. /\ Opening(g) /\ app[g] = "new"
      /\ UNCHANGED <<plan, connOpen, die, sess, table, accepts, recv, sdie, rst, buf,
                     event, reader, writer, closer, sent, finAt, got, eof>>
  BY <1>1 DEF OpenSYN, Opening, objVars, readVars, sentVars
<1>3. PICK pc \in {"failed", "register"} : app' = [app EXCEPT ![g] = pc]
  BY <1>1 DEF OpenSYN
<1>4. Put(e, "SYN", s, 0) \/ wire' = wire
  BY DEF OpenSYN
<1>5. PICK k \in Handles : k = Inward(g)
  BY HandleFacts
<1>6. /\ Accepting(k) /\ Unborn(k) /\ ~InTable(k)
      /\ \A j \in DOMAIN ahead[k[1]] : ahead[k[1]][j].sid # k[2]
  BY <1>0, <1>2, <1>5, HandleFacts DEF BirthInv, Unborn
<1>7. /\ wire' \in [Ends -> Seq(Frame)]
      /\ \A x \in Ends : recv'[x] \in {"queue", "FUL", "notify"} => wire'[x] # <<>>
      /\ \A h \in Handles : /\ Notifying(h)' <=> Notifying(h)
                            /\ Queueing(h)' <=> Queueing(h)
      /\ SynInv' /\ WireInv'
      /\ \A h \in Handles : /\ SynAhead(h)' => SynAhead(h) \/ h = k
                            /\ FinAhead(h)' => FinAhead(h)
                            /\ \A m \in Nat : Ahead(h, m)' <=> Ahead(h, m)
      /\ \A h \in Handles \ {k} :
            \A i \in DOMAIN ahead'[h[1]] : ahead'[h[1]][i].sid = h[2] =>
               \E j \in DOMAIN ahead[h[1]] : ahead[h[1]][j].sid = h[2]
  <2>1. /\ k = Inward(<<e, s>>) /\ recv' = recv /\ sent' = sent
        /\ "SYN" \in {"SYN", "PSH", "FIN"} /\ "SYN" # "PSH" /\ "SYN" # "FIN" /\ 0 \in Nat
    BY <1>1, <1>2, <1>5
  <2> QED
    BY <1>0, <1>4, <1>6, <2>1, PutAhead
<1> USE HandleFacts
<1>8. app' \in [Handles -> AppPC] /\ \A h \in Handles : app'[h] = IF h = g THEN pc ELSE app[h]
  BY <1>0, <1>3 DEF TypeOK, AppPC
<1>9. \A h \in Handles : (Unborn(h)' => Unborn(h)) /\ (InTable(h)' <=> InTable(h))
  BY <1>2, <1>5, <1>6, <1>7, <1>8 DEF Unborn, InTable
<1>10. TypeOK'
  BY <1>0, <1>2, <1>7, <1>8 DEF TypeOK
<1>11. HandInv'
  BY <1>0, <1>7, <1>9 DEF HandInv
<1>12. AcceptsInv'
  <2>1. ~Accepting(g)
    BY <1>2
  <2>2. \A h \in Handles : Queued(h)' <=> Queued(h)
    BY <1>2, SameQueue
  <2> HIDE HandleFacts
  <2> QED
    BY <1>0, <1>7, <1>8, <1>9, <2>1, <2>2 DEF AcceptsInv
<1>13. BirthInv'
  <2>1. ASSUME NEW h \in Handles, Accepting(h), app'[Inward(h)] = "new",
               NEW i \in DOMAIN ahead'[h[1]]
        PROVE  ahead'[h[1]][i].sid # h[2]
    <3>1. h # k /\ app[Inward(h)] = "new"
      BY <1>3, <1>5, <1>8, <2>1
    <3>2. \A j \in DOMAIN ahead[h[1]] : ahead[h[1]][j].sid # h[2]
      BY <1>0, <2>1, <3>1 DEF BirthInv
    <3> QED
      BY <1>7, <2>1, <3>1, <3>2
  <2>2. ASSUME NEW h \in Handles
        PROVE  /\ Opening(h) /\ app'[h] # "open" => ~InTable(h)'
               /\ Accepting(h) /\ Unborn(h)' => app'[h] = "new" /\ ~InTable(h)'
    BY <1>0, <1>2, <1>8, <1>9 DEF BirthInv
  <2> QED
    BY <2>1, <2>2 DEF BirthInv
<1>14. UseInv'
  BY <1>0, <1>2, <1>8 DEF UseInv
<1>15. TableInv'
  BY <1>0, <1>2, <1>8, <1>9 DEF TableInv
<1>16. EventInv'
  BY <1>0, <1>2, <1>7 DEF EventInv, Awake
<1>17. EndInv'
  BY <1>0, <1>2, <1>7 DEF EndInv
<1>18. RestInv'
  <2> SUFFICES ASSUME NEW h \in Handles, Expects(h)',
                      NEW n \in 1 .. sent[Inward(h)]
               PROVE  n > LastChunk(h)' <=> Ahead(h, n)'
    BY <1>2 DEF RestInv
  <2>1. Expects(h)
    BY <1>2, <1>9 DEF Expects
  <2>2. n \in Nat
    BY <1>0 DEF TypeOK
  <2> QED
    BY <1>0, <1>2, <1>7, <2>1, <2>2, SameLast DEF RestInv
<1>19. OnceInv' /\ ReadInv'
  BY <1>2, Untouched
<1> QED
  BY <1>7, <1>10, <1>11, <1>12, <1>13, <1>14, <1>15, <1>16, <1>17, <1>18, <1>19
  DEF LifeInv

\* Close writes the FIN, or finds the session closed.
LEMMA CloseFINKeeps ==
    ASSUME LifeInv, NEW e \in Ends, NEW s \in Streams, CloseFIN(e, s) PROVE LifeInv'
<1>0. /\ TypeOK /\ HandInv /\ AcceptsInv /\ OnceInv /\ SynInv /\ BirthInv /\ UseInv
      /\ TableInv /\ EventInv /\ EndInv /\ WireInv /\ ReadInv /\ RestInv
  BY DEF LifeInv
<1>1. PICK g \in Handles : g = <<e, s>> /\ g[1] = e /\ g[2] = s
  <2>1. <<e, s>> \in Handles /\ <<e, s>>[1] = e /\ <<e, s>>[2] = s
    BY HandleFacts
  <2> QED
    BY <2>1
<1>2. /\ closer[g] = "FIN" /\ closer' = [closer EXCEPT ![g] = "done"]
      /\ finAt' = [finAt EXCEPT ![g] = sent[g]]
      /\ UNCHANGED <<plan, connOpen, die, sess, table, accepts, recv, app, sdie, rst, buf,
                     event, reader, writer, sent, got, eof>>
  BY <1>1 DEF CloseFIN, objVars, readVars
<1>3. Put(e, "FIN", s, 0) \/ wire' = wire
  BY DEF CloseFIN
<1>4. PICK k \in Handles : k = Inward(g) /\ g = Inward(k)
  BY HandleFacts
<1>5. app[g] = "open"
  BY <1>0, <1>2 DEF UseInv
<1>6. /\ wire' \in [Ends -> Seq(Frame)]
      /\ \A x \in Ends : recv'[x] \in {"queue", "FUL", "notify"} => wire'[x] # <<>>
      /\ \A h \in Handles : /\ Notifying(h)' <=> Notifying(h)
                            /\ Queueing(h)' <=> Queueing(h)
      /\ SynInv' /\ WireInv'
      /\ \A h \in Handles : /\ SynAhead(h)' <=> SynAhead(h)
                            /\ FinAhead(h)' => FinAhead(h) \/ h = k
                            /\ \A m \in Nat : Ahead(h, m)' <=> Ahead(h, m)
      /\ \A h \in Handles \ {k} :
            \A i \in DOMAIN ahead'[h[1]] : ahead'[h[1]][i].sid = h[2] =>
               \E j \in DOMAIN ahead[h[1]] : ahead[h[1]][j].sid = h[2]
  <2>1. /\ k = Inward(<<e, s>>) /\ recv' = recv /\ sent' = sent
        /\ "FIN" \in {"SYN", "PSH", "FIN"} /\ "FIN" # "PSH" /\ "FIN" # "SYN" /\ 0 \in Nat
    BY <1>1, <1>2, <1>4
  <2>2. "FIN" = "SYN" =>
           Accepting(k) /\ \A j \in DOMAIN ahead[k[1]] : ahead[k[1]][j].sid # k[2]
    BY <2>1
  <2>3. /\ wire' \in [Ends -> Seq(Frame)]
        /\ \A x \in Ends : recv'[x] \in {"queue", "FUL", "notify"} => wire'[x] # <<>>
        /\ \A h \in Handles : /\ Notifying(h)' <=> Notifying(h)
                              /\ Queueing(h)' <=> Queueing(h)
        /\ SynInv'
        /\ \A h \in Handles : SynAhead(h)' <=> SynAhead(h)
    BY SMTT(30), <1>0, <1>3, <2>1, <2>2, PutAhead
  <2>4. \A h \in Handles : FinAhead(h)' => FinAhead(h) \/ h = k
    BY <1>0, <1>3, <2>1, <2>2, PutAhead
  <2>5. WireInv'
    BY <1>0, <1>3, <2>1, <2>2, PutAhead
  <2>6. \A h \in Handles, m \in Nat : Ahead(h, m)' <=> Ahead(h, m)
    BY <1>0, <1>3, <2>1, <2>2, PutAhead
  <2>7. \A h \in Handles \ {k} :
           \A i \in DOMAIN ahead'[h[1]] : ahead'[h[1]][i].sid = h[2] =>
              \E j \in DOMAIN ahead[h[1]] : ahead[h[1]][j].sid = h[2]
    BY SMTT(30), <1>0, <1>3, <2>1, <2>2, PutAhead
  <2> QED
    BY <2>3, <2>4, <2>5, <2>6, <2>7
<1> USE HandleFacts
<1>7. /\ closer' \in [Handles -> CloserPC] /\ finAt' \in [Handles -> Nat]
      /\ \A h \in Handles : closer'[h] = IF h = g THEN "done" ELSE closer[h]
  BY <1>0, <1>2 DEF TypeOK, CloserPC
<1>8. \A h \in Handles : (Unborn(h)' <=> Unborn(h)) /\ (InTable(h)' <=> InTable(h))
  BY <1>2, <1>6 DEF Unborn, InTable
<1>9. TypeOK'
  BY <1>0, <1>2, <1>6, <1>7 DEF TypeOK
<1>10. HandInv'
  BY <1>0, <1>6, <1>8 DEF HandInv
<1>11. AcceptsInv'
  BY <1>0, <1>2, <1>6, <1>8, SameQueue DEF AcceptsInv
<1>12. BirthInv'
  <2>1. ASSUME NEW h \in Handles, Accepting(h), app'[Inward(h)] = "new",
               NEW i \in DOMAIN ahead'[h[1]]
        PROVE  ahead'[h[1]][i].sid # h[2]
    <3>1. h # k /\ app[Inward(h)] = "new"
      BY <1>2, <1>4, <1>5, <2>1
    <3>2. \A j \in DOMAIN ahead[h[1]] : ahead[h[1]][j].sid # h[2]
      BY <1>0, <2>1, <3>1 DEF BirthInv
    <3> QED
      BY <1>6, <2>1, <3>1, <3>2
  <2> QED
    BY <1>0, <1>2, <1>8, <2>1 DEF BirthInv
<1>13. UseInv'
  BY <1>0, <1>2, <1>5, <1>7 DEF UseInv
<1>14. TableInv'
  BY <1>0, <1>2, <1>7, <1>8 DEF TableInv
<1>15. EventInv'
  BY <1>0, <1>2, <1>6 DEF EventInv, Awake
<1>16. EndInv'
  BY <1>0, <1>2, <1>4, <1>6, <1>7 DEF EndInv
<1>17. RestInv'
  <2> SUFFICES ASSUME NEW h \in Handles, Expects(h)',
                      NEW n \in 1 .. sent[Inward(h)]
               PROVE  n > LastChunk(h)' <=> Ahead(h, n)'
    BY <1>2 DEF RestInv
  <2>1. Expects(h)
    BY <1>2, <1>8 DEF Expects
  <2>2. n \in Nat
    BY <1>0 DEF TypeOK
  <2> QED
    BY <1>0, <1>2, <1>6, <2>1, <2>2, SameLast DEF RestInv
<1>18. OnceInv' /\ ReadInv'
  BY <1>2, Untouched
<1> QED
  BY <1>6, <1>9, <1>10, <1>11, <1>12, <1>13, <1>14, <1>15, <1>16, <1>17, <1>18
  DEF LifeInv

\* Write puts the next chunk on the wire.
LEMMA WriteSendKeeps ==
    ASSUME LifeInv, NEW e \in Ends, NEW s \in Streams, WriteSend(e, s) PROVE LifeInv'
<1>0. /\ TypeOK /\ HandInv /\ AcceptsInv /\ OnceInv /\ SynInv /\ BirthInv /\ UseInv
      /\ TableInv /\ EventInv /\ EndInv /\ WireInv /\ ReadInv /\ RestInv
  BY DEF LifeInv
<1>1. PICK g \in Handles : g = <<e, s>> /\ g[1] = e /\ g[2] = s
  <2>1. <<e, s>> \in Handles /\ <<e, s>>[1] = e /\ <<e, s>>[2] = s
    BY HandleFacts
  <2> QED
    BY <2>1
<1>2. /\ writer[g] = "send" /\ connOpen[e] /\ Put(e, "PSH", s, sent[g] + 1)
      /\ sent' = [sent EXCEPT ![g] = @ + 1]
      /\ writer' = [writer EXCEPT ![g] = "idle"]
      /\ UNCHANGED <<plan, connOpen, die, sess, table, accepts, recv, app, sdie, rst, buf,
                     event, reader, closer, finAt, got, eof>>
  BY <1>1 DEF WriteSend, objVars, readVars
<1>3. PICK top \in Nat : top = sent[g]
  BY <1>0 DEF TypeOK
<1>4. PICK k \in Handles : k = Inward(g) /\ g = Inward(k) /\ k[1] = Peer(e) /\ k[2] = s
  BY <1>1, HandleFacts
<1>5. app[g] = "open"
  BY <1>0, <1>2 DEF UseInv
<1>6. PICK f \in Frame : /\ f.cmd = "PSH" /\ f.sid = k[2] /\ f.chunk = top + 1
                         /\ Adds(k[1], f)
  <2> DEFINE r == [cmd |-> "PSH", sid |-> s, chunk |-> top + 1]
  <2>1. top + 1 \in Nat /\ r \in Frame
    BY <1>3 DEF Frame
  <2>2. r.cmd = "PSH" /\ r.sid = k[2] /\ r.chunk = top + 1
    BY <1>4
  <2>3. Adds(Peer(e), r)
    BY <1>0, <1>2, <1>3, <2>1, AheadPut
  <2> HIDE DEF r
  <2> QED
    BY <1>4, <2>1, <2>2, <2>3
<1>7. ahead \in [Ends -> Seq(Frame)] /\ k[1] \in Ends
  BY <1>0, AheadTyped, HandleFacts
<1>8. \A h \in Handles : sent'[Inward(h)] = IF h = k THEN top + 1 ELSE sent[Inward(h)]
  <2>1. \A h \in Handles : sent'[h] = IF h = g THEN top + 1 ELSE sent[h]
    BY <1>0, <1>2, <1>3 DEF TypeOK
  <2>2. \A h \in Handles : Inward(h) \in Handles /\ (Inward(h) = g <=> h = k)
    BY <1>4, HandleFacts
  <2> QED
    BY <2>1, <2>2
<1>9. /\ wire' \in [Ends -> Seq(Frame)]
      /\ \A x \in Ends : recv'[x] \in {"queue", "FUL", "notify"} => wire'[x] # <<>>
      /\ \A h \in Handles : /\ Notifying(h)' <=> Notifying(h)
                            /\ Queueing(h)' <=> Queueing(h)
      /\ SynInv'
      /\ \A h \in Handles : /\ SynAhead(h)' <=> SynAhead(h)
                            /\ FinAhead(h)' => FinAhead(h)
      /\ \A h \in Handles \ {k} :
            \A i \in DOMAIN ahead'[h[1]] : ahead'[h[1]][i].sid = h[2] =>
               \E j \in DOMAIN ahead[h[1]] : ahead[h[1]][j].sid = h[2]
  <2>1. /\ k = Inward(<<e, s>>) /\ recv' = recv /\ Put(e, "PSH", s, top + 1)
        /\ "PSH" \in {"SYN", "PSH", "FIN"} /\ "PSH" # "FIN" /\ "PSH" # "SYN"
        /\ top + 1 \in Nat
    BY <1>1, <1>2, <1>3, <1>4
  <2> QED
    BY <1>0, <2>1, PutAhead
<1>10. \A h \in Handles, m \in Nat : Ahead(h, m)' <=> Ahead(h, m) \/ (h = k /\ m = top + 1)
  <2>1. \A h \in Handles, m \in Nat : Ahead(h, m)' <=>
           Ahead(h, m) \/ (h[1] = k[1] /\ f.cmd = "PSH" /\ f.sid = h[2] /\ f.chunk = m)
    BY <1>6, <1>7, AheadGrown
  <2>2. \A h \in Handles : h[1] = k[1] /\ f.sid = h[2] <=> h = k
    BY <1>6, HandleFacts
  <2> QED
    BY <1>6, <2>1, <2>2
<1>11. WireInv'
  <2>1. \A h \in Handles : sent'[Inward(h)] = IF h = k /\ f.cmd = "PSH"
                                               THEN sent[Inward(h)] + 1
                                               ELSE sent[Inward(h)]
    BY <1>3, <1>4, <1>6, <1>8
  <2>2. f.cmd = "PSH" => f.chunk = sent[Inward(k)] + 1
    BY <1>3, <1>4, <1>6
  <2> QED
    BY <1>0, <1>6, <1>7, <2>1, <2>2, WireGrown
<1>12. \A h \in Handles : (Unborn(h)' <=> Unborn(h)) /\ (InTable(h)' <=> InTable(h))
  BY <1>2, <1>9 DEF Unborn, InTable
<1> USE HandleFacts
<1>13. TypeOK'
  <2>1. sent' \in [Handles -> Nat] /\ writer' \in [Handles -> WriterPC]
    BY <1>0, <1>2 DEF TypeOK, WriterPC
  <2> QED
    BY <1>0, <1>2, <1>9, <2>1 DEF TypeOK
<1>14. HandInv'
  BY <1>0, <1>9, <1>12 DEF HandInv
<1>15. AcceptsInv'
  BY <1>0, <1>2, <1>9, <1>12, SameQueue DEF AcceptsInv
<1>16. BirthInv'
  <2>1. ASSUME NEW h \in Handles, Accepting(h), app'[Inward(h)] = "new",
               NEW i \in DOMAIN ahead'[h[1]]
        PROVE  ahead'[h[1]][i].sid # h[2]
    <3>1. h # k /\ app[Inward(h)] = "new"
      BY <1>2, <1>4, <1>5, <2>1
    <3>2. \A j \in DOMAIN ahead[h[1]] : ahead[h[1]][j].sid # h[2]
      BY <1>0, <2>1, <3>1 DEF BirthInv
    <3> QED
      BY <1>9, <2>1, <3>1, <3>2
  <2> QED
    BY <1>0, <1>2, <1>12, <2>1 DEF BirthInv
<1>17. UseInv'
  <2>1. \A h \in Handles : /\ h # g => sent'[h] = sent[h] /\ writer'[h] = writer[h]
                            /\ app'[h] = app[h] /\ closer'[h] = closer[h]
    BY <1>0, <1>2 DEF TypeOK
  <2> QED
    BY <1>0, <1>2, <1>5, <2>1 DEF UseInv
<1>18. EventInv'
  BY <1>0, <1>2, <1>9 DEF EventInv, Awake
<1>19. EndInv'
  BY <1>0, <1>2, <1>9 DEF EndInv
<1>20. ReadInv'
  <2>1. ASSUME NEW h \in Handles, NEW q, Run(q, h)
        PROVE  \A i \in DOMAIN q : q[i] = q[1] + i - 1 /\ q[i] \in 1 .. sent'[Inward(h)]
    <3>1. sent[Inward(h)] \in Nat
      BY <1>0 DEF TypeOK
    <3>2. \A n \in 1 .. sent[Inward(h)] : n \in 1 .. sent'[Inward(h)]
      BY <1>3, <1>4, <1>8, <3>1
    <3> QED
      BY <2>1, <3>2 DEF Run
  <2>2. \A h \in Handles : (Run(got[h], h) => Run(got[h], h)') /\ (Run(buf[h], h) => Run(buf[h], h)')
    BY <1>2, <2>1 DEF Run
  <2> QED
    BY <1>0, <1>2, <2>2 DEF ReadInv
<1>21. RestInv'
  <2>0. \A h \in Handles : (Expects(h)' <=> Expects(h)) /\ LastChunk(h)' = LastChunk(h)
    <3>1. \A h \in Handles : Expects(h)' <=> Expects(h)
      BY <1>2, <1>12 DEF Expects
    <3> QED
      BY <1>2, <3>1, SameLast
  <2> SUFFICES ASSUME NEW h \in Handles, Expects(h),
                      NEW n \in 1 .. sent'[Inward(h)]
               PROVE  n > LastChunk(h) <=> Ahead(h, n)'
    BY <2>0 DEF RestInv
  <2>1. sent[Inward(h)] \in Nat /\ sent'[Inward(h)] \in Nat /\ n \in Nat
    <3>1. sent \in [Handles -> Nat] /\ sent' \in [Handles -> Nat]
      BY <1>0, <1>13 DEF TypeOK
    <3>2. sent[Inward(h)] \in Nat /\ sent'[Inward(h)] \in Nat
      BY <3>1
    <3> QED
      BY <3>2
  <2>2. \A m \in 1 .. sent[Inward(h)] : m > LastChunk(h) <=> Ahead(h, m)
    BY <1>0 DEF RestInv
  <2>3. CASE n \in 1 .. sent[Inward(h)]
    <3>1. h = k => n # top + 1
      BY <1>3, <1>4, <2>3
    <3> QED
      BY <1>10, <2>1, <2>2, <2>3, <3>1
  <2>4. CASE h = k /\ n = top + 1
    <3>1. LastChunk(k) \in 0 .. top
      <4>1. ASSUME NEW q \in Seq(Nat), q # <<>>, Run(q, k) PROVE q[Len(q)] \in 0 .. top
        BY <1>3, <1>4, <4>1, LenProperties DEF Run
      <4>2. buf[k] \in Seq(Nat) /\ got[k] \in Seq(Nat) /\ Run(buf[k], k) /\ Run(got[k], k)
        BY <1>0 DEF TypeOK, ReadInv
      <4> QED
        BY <1>3, <4>1, <4>2 DEF LastChunk
    <3>2. n > LastChunk(k)
      BY <1>3, <2>4, <3>1
    <3> QED
      BY <1>10, <2>1, <2>4, <3>2
  <2> QED
    BY <1>3, <1>4, <1>8, <2>1, <2>3, <2>4
<1>22. OnceInv' /\ TableInv'
  BY <1>2, Untouched
<1> QED
  BY <1>9, <1>11, <1>13, <1>14, <1>15, <1>16, <1>17, <1>18, <1>19, <1>20, <1>21, <1>22
  DEF LifeInv

\* The first n elements of a buffer b move to the end of what was read, q: r is
\* what was read then, c what is left.
Moves(q, b, n, r, c) ==
    /\ r \in Seq(Nat) /\ c \in Seq(Nat)
    /\ Len(r) = Len(q) + n /\ Len(c) = Len(b) - n
    /\ \A i \in 1 .. Len(q) : r[i] = q[i]
    /\ \A i \in 1 .. n : r[Len(q) + i] = b[i]
    /\ \A i \in 1 .. Len(b) - n : c[i] = b[n + i]

\* So does a Read of n chunks.
LEMMA Moved ==
    ASSUME NEW q \in Seq(Nat), NEW b \in Seq(Nat), NEW n \in 1 .. Len(b)
    PROVE  Moves(q, b, n, q \o SubSeq(b, 1, n), SubSeq(b, n + 1, Len(b)))
<1> DEFINE front == SubSeq(b, 1, n)
<1> DEFINE back == SubSeq(b, n + 1, Len(b))
<1>1. Len(q) \in Nat /\ Len(b) \in Nat /\ n \in Nat /\ 1 <= n /\ n <= Len(b)
  BY LenProperties
<1>2. front \in Seq(Nat) /\ Len(front) = n /\ \A i \in 1 .. n : front[i] = b[i]
  BY <1>1, SubSeqProperties
<1>3. back \in Seq(Nat) /\ Len(back) = Len(b) - n /\ \A i \in 1 .. Len(b) - n : back[i] = b[n + i]
  <2>1. back \in Seq(Nat)
    BY <1>1, SubSeqProperties
  <2>2. Len(back) = Len(b) - n
    BY <1>1, SubSeqProperties
  <2>3. \A i \in 1 .. Len(b) - n : back[i] = b[n + i]
    BY <1>1, SubSeqProperties
  <2> QED
    BY <2>1, <2>2, <2>3
<1> HIDE DEF front, back
<1>4. /\ q \o front \in Seq(Nat) /\ Len(q \o front) = Len(q) + n
      /\ \A i \in 1 .. Len(q) : (q \o front)[i] = q[i]
      /\ \A i \in 1 .. n : (q \o front)[Len(q) + i] = front[i]
  <2>1. \A i \in 1 .. Len(q) : i \in 1 .. Len(q) + n /\ i <= Len(q)
    BY <1>1
  <2>2. \A i \in 1 .. n : /\ Len(q) + i \in 1 .. Len(q) + n /\ ~(Len(q) + i <= Len(q))
                          /\ Len(q) + i - Len(q) = i
    BY <1>1
  <2>3. /\ q \o front \in Seq(Nat) /\ Len(q \o front) = Len(q) + n
        /\ \A i \in 1 .. Len(q) + n :
              (q \o front)[i] = IF i <= Len(q) THEN q[i] ELSE front[i - Len(q)]
    <3>1. /\ q \o front \in Seq(Nat) /\ Len(q \o front) = Len(q) + Len(front)
          /\ \A i \in 1 .. Len(q) + Len(front) :
                (q \o front)[i] = IF i <= Len(q) THEN q[i] ELSE front[i - Len(q)]
      BY <1>2, ConcatProperties
    <3> QED
      BY <1>2, <3>1
  <2> HIDE DEF front
  <2> QED
    BY <2>1, <2>2, <2>3
<1> QED
  BY <1>2, <1>3, <1>4 DEF front, back, Moves

\* Consecutive numbers, none above top.
Consecutive(q, top) == \A i \in 1 .. Len(q) : q[i] = q[1] + i - 1 /\ q[i] \in 1 .. top

\* b begins where q stops.
Joins(q, b) == q # <<>> /\ b # <<>> => b[1] = q[Len(q)] + 1

\* r begins where q and b began, and r and c stop where b stopped.
SameEnds(q, b, r, c) ==
    /\ r # <<>> /\ r[1] = IF q = <<>> THEN b[1] ELSE q[1]
    /\ IF c # <<>> THEN c[Len(c)] = b[Len(b)] ELSE r[Len(r)] = b[Len(b)]

\* Moving leaves a run a run.
LEMMA MovedRun ==
    ASSUME NEW q \in Seq(Nat), NEW b \in Seq(Nat), NEW n \in 1 .. Len(b), NEW top \in Nat,
           Consecutive(q, top), Consecutive(b, top),
           Joins(q, b),
           NEW r, NEW c, Moves(q, b, n, r, c)
    PROVE  /\ Consecutive(r, top) /\ Consecutive(c, top)
           /\ Joins(r, c) /\ SameEnds(q, b, r, c)
<1>1. /\ Len(q) \in Nat /\ Len(b) \in Nat /\ n \in Nat /\ 1 <= n /\ n <= Len(b)
      /\ q = <<>> <=> Len(q) = 0
  BY LenProperties, EmptySeq
<1>2. /\ r \in Seq(Nat) /\ c \in Seq(Nat)
      /\ Len(r) = Len(q) + n /\ Len(c) = Len(b) - n
      /\ \A i \in 1 .. Len(q) : r[i] = q[i]
      /\ \A i \in 1 .. n : r[Len(q) + i] = b[i]
      /\ \A i \in 1 .. Len(b) - n : c[i] = b[n + i]
  BY DEF Moves
<1>3. /\ r # <<>> <=> Len(r) # 0
      /\ c # <<>> <=> Len(c) # 0
  BY <1>2, EmptySeq
<1>4. /\ \A i \in 1 .. Len(q) : q[i] = q[1] + i - 1 /\ q[i] \in 1 .. top
      /\ \A i \in 1 .. Len(b) : b[i] = b[1] + i - 1 /\ b[i] \in 1 .. top
  BY DEF Consecutive
<1>5. /\ b[1] \in 1 .. top /\ b[Len(b)] = b[1] + Len(b) - 1 /\ b[n] = b[1] + n - 1
  BY <1>1, <1>4
<1>6. Len(q) # 0 => q[1] \in 1 .. top /\ b[1] = q[1] + Len(q)
  <2> SUFFICES ASSUME Len(q) # 0 PROVE q[1] \in 1 .. top /\ b[1] = q[1] + Len(q)
    OBVIOUS
  <2>1. q[1] \in 1 .. top /\ q[Len(q)] = q[1] + Len(q) - 1
    BY <1>1, <1>4
  <2>2. q # <<>> /\ b # <<>>
    BY <1>1, EmptySeq
  <2>3. b[1] = q[Len(q)] + 1
    BY <2>2 DEF Joins
  <2> QED
    BY <1>1, <2>1, <2>3
<1>7. r[1] = IF q = <<>> THEN b[1] ELSE q[1]
  <2>1. CASE Len(q) = 0
    <3>1. r[Len(q) + 1] = b[1]
      BY <1>1, <1>2
    <3> QED
      BY <1>1, <2>1, <3>1
  <2>2. CASE Len(q) # 0
    BY <1>1, <1>2, <2>2
  <2> QED
    BY <2>1, <2>2
<1>8. ASSUME NEW i \in 1 .. Len(r) PROVE r[i] = r[1] + i - 1 /\ r[i] \in 1 .. top
  <2>0. i \in Int /\ 1 <= i /\ i <= Len(q) + n
    BY <1>1, <1>2
  <2>1. CASE i \in 1 .. Len(q)
    <3>1. r[i] = q[i] /\ q[i] = q[1] + i - 1 /\ q[i] \in 1 .. top
      BY <1>2, <1>4, <2>1
    <3>2. q # <<>>
      BY <1>1, <2>1
    <3> QED
      BY <1>7, <3>1, <3>2
  <2>2. CASE i \notin 1 .. Len(q)
    <3>1. i - Len(q) \in 1 .. n /\ i - Len(q) \in 1 .. Len(b) /\ Len(q) + (i - Len(q)) = i
      BY <1>1, <2>0, <2>2
    <3>2. r[i] = b[i - Len(q)]
      BY <1>2, <3>1
    <3>3. b[i - Len(q)] = b[1] + (i - Len(q)) - 1 /\ b[i - Len(q)] \in 1 .. top
      BY <1>4, <3>1
    <3>4. b[1] = r[1] + Len(q)
      <4>1. CASE Len(q) = 0
        BY <1>1, <1>5, <1>7, <4>1
      <4>2. CASE Len(q) # 0
        BY <1>1, <1>6, <1>7, <4>2
      <4> QED
        BY <4>1, <4>2
    <3>5. r[1] \in Nat
      <4>1. r[1] \in 1 .. top
        BY <1>1, <1>5, <1>6, <1>7
      <4> QED
        BY <4>1
    <3> QED
      BY SMTT(30), <1>1, <2>0, <3>2, <3>3, <3>4, <3>5
  <2> QED
    BY <2>1, <2>2
<1>9. ASSUME NEW i \in 1 .. Len(c)
      PROVE  /\ c[i] = b[1] + n + i - 1 /\ c[i] \in 1 .. top
             /\ c[1] = b[1] + n
  <2>1. ASSUME NEW j \in 1 .. Len(c) PROVE c[j] = b[1] + n + j - 1 /\ c[j] \in 1 .. top
    <3>1. n + j \in 1 .. Len(b) /\ c[j] = b[n + j]
      BY <1>1, <1>2
    <3>2. b[n + j] = b[1] + (n + j) - 1 /\ b[n + j] \in 1 .. top
      BY <1>4, <3>1
    <3>3. j \in Int /\ b[1] \in Nat
      BY <1>5
    <3> QED
      BY SMTT(40), <1>1, <3>1, <3>2, <3>3
  <2>2. 1 \in 1 .. Len(c)
    BY <1>1, <1>2
  <2> QED
    BY <1>1, <1>5, <2>1, <2>2
<1>10. Consecutive(r, top) /\ Consecutive(c, top)
  BY <1>1, <1>5, <1>8, <1>9 DEF Consecutive
<1>11. r[Len(r)] = b[n] /\ Len(r) # 0
  BY <1>1, <1>2
<1>12. CASE Len(c) = 0
  <2>1. n = Len(b)
    BY <1>1, <1>2, <1>12
  <2> QED
    BY <1>2, <1>3, <1>7, <1>10, <1>11, <1>12, <2>1 DEF Joins, SameEnds
<1>13. CASE Len(c) # 0
  <2>1. 1 \in 1 .. Len(c) /\ Len(c) \in 1 .. Len(c)
    BY <1>1, <1>2, <1>13
  <2>2. c[1] = b[n] + 1 /\ c[Len(c)] = b[Len(b)]
    <3>1. c[1] = b[1] + n /\ c[Len(c)] = b[1] + n + Len(c) - 1
      BY <1>9, <2>1
    <3>2. b[1] \in Nat /\ b[Len(b)] = b[1] + Len(b) - 1 /\ b[n] = b[1] + n - 1
      BY <1>5
    <3>3. c[1] = b[n] + 1
      BY <1>1, <3>1, <3>2
    <3>4. \A x, l \in Nat : x + n + (l - n) - 1 = x + l - 1
      BY <1>1
    <3>5. b[1] + n + Len(c) - 1 = b[1] + Len(b) - 1
      BY <1>1, <1>2, <3>2, <3>4
    <3> QED
      BY <3>1, <3>2, <3>3, <3>5
  <2> QED
    BY <1>2, <1>3, <1>7, <1>10, <1>11, <1>13, <2>2 DEF Joins, SameEnds
<1> QED
  BY <1>12, <1>13

\* Read looks at the buffer.
LEMMA ReadBufferPreserves ==
    ASSUME LifeInv, NEW e \in Ends, NEW s \in Streams, ReadBuffer(e, s) PROVE LifeInv'
<1> USE HandleFacts
<1>0. /\ TypeOK /\ HandInv /\ AcceptsInv /\ OnceInv /\ SynInv /\ BirthInv /\ UseInv
      /\ TableInv /\ EventInv /\ EndInv /\ WireInv /\ ReadInv /\ RestInv
  BY DEF LifeInv
<1> DEFINE g == <<e, s>>
<1>1. /\ g \in Handles /\ app[g] = "open"
      /\ UNCHANGED <<plan, wire, connOpen, die, sess, table, accepts, recv, app, sdie, rst,
                     event, writer, closer, sent, finAt, eof>>
  BY DEF ReadBuffer, sentVars
<1>2. ahead' = ahead
  BY <1>1, AheadKept
<1>3. CASE buf[g] = <<>>
  <2>1. reader' = [reader EXCEPT ![g] = "rstflag"] /\ UNCHANGED <<buf, got>>
    BY <1>3 DEF ReadBuffer
  <2> HIDE DEF g
  <2>2. /\ reader' \in [Handles -> ReaderPC]
        /\ \A h \in Handles : reader'[h] = IF h = g THEN "rstflag" ELSE reader[h]
    BY <1>0, <2>1 DEF TypeOK, ReaderPC
  <2>3. TypeOK'
    BY <1>0, <1>1, <2>1, <2>2 DEF TypeOK
  <2>4. UseInv'
    BY <1>0, <1>1, <2>1, <2>2 DEF UseInv
  <2>5. EventInv'
    BY <1>0, <1>1, <1>3, <2>1, <2>2, SameHand DEF EventInv, Awake
  <2>6. EndInv'
    BY <1>0, <1>1, <1>2, <2>1, <2>2, SameAhead DEF EndInv
  <2>7. /\ HandInv' /\ AcceptsInv' /\ OnceInv' /\ SynInv' /\ BirthInv' /\ TableInv' /\ WireInv'
        /\ ReadInv' /\ RestInv'
    BY <1>1, <1>2, <2>1, Untouched
  <2> QED
    BY <2>3, <2>4, <2>5, <2>6, <2>7 DEF LifeInv
<1>4. CASE buf[g] # <<>>
  <2>1. PICK n \in 1 .. Len(buf[g]) :
           /\ got' = [got EXCEPT ![g] = @ \o SubSeq(buf[g], 1, n)]
           /\ buf' = [buf EXCEPT ![g] = SubSeq(@, n + 1, Len(@))]
           /\ reader' = [reader EXCEPT ![g] = "idle"]
    BY <1>4 DEF ReadBuffer
  <2> HIDE DEF g
  <2>2. /\ got[g] \in Seq(Nat) /\ buf[g] \in Seq(Nat) /\ sent[Inward(g)] \in Nat
        /\ \A h \in Handles : DOMAIN got[h] = 1 .. Len(got[h]) /\ DOMAIN buf[h] = 1 .. Len(buf[h])
    BY <1>0, <1>1, LenProperties DEF TypeOK
  <2>3. PICK r \in Seq(Nat), c \in Seq(Nat) :
           /\ r = got[g] \o SubSeq(buf[g], 1, n) /\ c = SubSeq(buf[g], n + 1, Len(buf[g]))
           /\ Consecutive(r, sent[Inward(g)]) /\ Consecutive(c, sent[Inward(g)])
           /\ Joins(r, c) /\ SameEnds(got[g], buf[g], r, c)
    <3>1. /\ Consecutive(got[g], sent[Inward(g)]) /\ Consecutive(buf[g], sent[Inward(g)])
          /\ Joins(got[g], buf[g])
      BY ZenonT(40), <1>0, <1>1, <1>4, <2>2 DEF ReadInv, Run, Consecutive, Joins
    <3> DEFINE r0 == got[g] \o SubSeq(buf[g], 1, n)
    <3> DEFINE c0 == SubSeq(buf[g], n + 1, Len(buf[g]))
    <3>2. Moves(got[g], buf[g], n, r0, c0)
      BY <2>2, Moved
    <3>3. r0 = got[g] \o SubSeq(buf[g], 1, n) /\ c0 = SubSeq(buf[g], n + 1, Len(buf[g]))
      OBVIOUS
    <3> HIDE DEF r0, c0
    <3> HIDE HandleFacts
    <3>4. /\ Consecutive(r0, sent[Inward(g)]) /\ Consecutive(c0, sent[Inward(g)])
          /\ Joins(r0, c0) /\ SameEnds(got[g], buf[g], r0, c0)
      BY <2>2, <3>1, <3>2, MovedRun
    <3>5. r0 \in Seq(Nat) /\ c0 \in Seq(Nat)
      BY <3>2 DEF Moves
    <3> QED
      BY <3>3, <3>4, <3>5
  <2>4. /\ got' \in [Handles -> Seq(Nat)] /\ buf' \in [Handles -> Seq(Nat)]
        /\ reader' \in [Handles -> ReaderPC]
        /\ \A h \in Handles : /\ got'[h] = IF h = g THEN r ELSE got[h]
                              /\ buf'[h] = IF h = g THEN c ELSE buf[h]
                              /\ reader'[h] = IF h = g THEN "idle" ELSE reader[h]
    <3>1. got' = [got EXCEPT ![g] = r] /\ buf' = [buf EXCEPT ![g] = c]
      BY <2>1, <2>3
    <3>2. got' \in [Handles -> Seq(Nat)] /\ \A h \in Handles : got'[h] = IF h = g THEN r ELSE got[h]
      BY <1>0, <1>1, <3>1 DEF TypeOK
    <3>3. buf' \in [Handles -> Seq(Nat)] /\ \A h \in Handles : buf'[h] = IF h = g THEN c ELSE buf[h]
      BY <1>0, <1>1, <3>1 DEF TypeOK
    <3>4. /\ reader' \in [Handles -> ReaderPC]
          /\ \A h \in Handles : reader'[h] = IF h = g THEN "idle" ELSE reader[h]
      BY <1>0, <1>1, <2>1 DEF TypeOK, ReaderPC
    <3> QED
      BY <3>2, <3>3, <3>4
  <2>5. TypeOK'
    BY <1>0, <1>1, <2>4 DEF TypeOK
  <2>6. UseInv'
    BY ZenonT(40), <1>0, <1>1, <2>4 DEF UseInv
  <2>7. \A h \in Handles : (InTable(h)' <=> InTable(h)) /\ (Unborn(h)' <=> Unborn(h))
    BY <1>1, <1>2, SameAhead DEF InTable, Unborn
  <2>8. InTable(g)
    BY <1>0, <1>1, <1>4 DEF TableInv
  <2>9. TableInv'
    BY ZenonT(40), <1>0, <1>1, <2>4, <2>7, <2>8 DEF TableInv
  <2>10. EventInv'
    BY <1>0, <1>1, <2>4, SameHand DEF EventInv, Awake
  <2>11. EndInv'
    BY <1>0, <1>1, <1>2, <2>4, SameAhead DEF EndInv
  <2>12. ReadInv'
    <3> SUFFICES ASSUME NEW h \in Handles
                 PROVE  /\ Run(got'[h], h) /\ Run(buf'[h], h)
                        /\ buf'[h] # <<>> /\ got'[h] # <<>> =>
                              buf'[h][1] = got'[h][Len(got'[h])] + 1
                        /\ Accepting(h) =>
                              /\ got'[h] # <<>> => got'[h][1] = 1
                              /\ buf'[h] # <<>> /\ got'[h] = <<>> => buf'[h][1] = 1
      BY <1>1 DEF ReadInv, Run
    <3>1. CASE h # g
      BY ZenonT(40), <1>0, <2>4, <3>1 DEF ReadInv
    <3>2. CASE h = g
      <4>0. DOMAIN r = 1 .. Len(r) /\ DOMAIN c = 1 .. Len(c)
        BY LenProperties
      <4>1. Run(r, g) /\ Run(c, g)
        BY <2>3, <4>0 DEF Run, Consecutive
      <4>2. Accepting(g) => r[1] = 1
        BY <1>0, <1>1, <1>4, <2>3 DEF ReadInv, SameEnds
      <4> QED
        BY <1>1, <2>3, <2>4, <3>2, <4>1, <4>2 DEF Joins, SameEnds
    <3> QED
      BY <3>1, <3>2
  <2>13. RestInv'
    <3>1. \A h \in Handles : LastChunk(h)' = LastChunk(h)
      BY <1>4, <2>3, <2>4 DEF LastChunk, SameEnds
    <3>2. \A h \in Handles : Expects(h)' => Expects(h)
      BY <1>4, <2>4, <2>7 DEF Expects
    <3>3. \A h \in Handles : \A m \in 1 .. sent[Inward(h)] : Ahead(h, m)' <=> Ahead(h, m)
      <4>1. \A h \in Handles : sent[Inward(h)] \in Nat
        BY <1>0 DEF TypeOK
      <4> QED
        BY <1>2, <4>1, SameAhead
    <3> SUFFICES ASSUME NEW h \in Handles, Expects(h), NEW m \in 1 .. sent[Inward(h)]
                 PROVE  m > LastChunk(h)' <=> Ahead(h, m)'
      BY <1>1, <3>2 DEF RestInv
    <3> QED
      BY <1>0, <3>1, <3>3 DEF RestInv
  <2>14. HandInv' /\ AcceptsInv' /\ OnceInv' /\ SynInv' /\ BirthInv' /\ WireInv'
    BY <1>1, <1>2, Untouched
  <2> QED
    BY <2>5, <2>6, <2>9, <2>10, <2>11, <2>12, <2>13, <2>14 DEF LifeInv
<1> QED
  BY <1>3, <1>4

\* Read found the buffer empty and looks at rstflag: it sleeps, returns io.EOF or
\* closes the stream.
LEMMA ReadRstflagKeeps ==
    ASSUME LifeInv, NEW e \in Ends, NEW s \in Streams, ReadRstflag(e, s) PROVE LifeInv'
<1> DEFINE g == <<e, s>>
<1> USE HandleFacts
<1>0. /\ TypeOK /\ HandInv /\ AcceptsInv /\ OnceInv /\ SynInv /\ BirthInv /\ UseInv
      /\ TableInv /\ EventInv /\ EndInv /\ WireInv /\ ReadInv /\ RestInv
  BY DEF LifeInv
<1>1. /\ g \in Handles /\ reader[g] = "rstflag"
      /\ UNCHANGED <<plan, wire, connOpen, die, sess, table, accepts, recv, app, rst, buf,
                     event, writer, sent, finAt, got, eof>>
  BY DEF ReadRstflag, sentVars
<1>2. ahead' = ahead
  BY <1>1, AheadKept
<1>3. \/ /\ ~rst[g]
         /\ reader' = [reader EXCEPT ![g] = "wait"]
         /\ UNCHANGED <<sdie, closer>>
      \/ /\ rst[g] /\ sdie[g]
         /\ reader' = [reader EXCEPT ![g] = "EOF"]
         /\ UNCHANGED <<sdie, closer>>
      \/ /\ rst[g] /\ ~sdie[g]
         /\ reader' = [reader EXCEPT ![g] = "close"]
         /\ sdie' = [sdie EXCEPT ![g] = TRUE]
         /\ closer' = [closer EXCEPT ![g] = "table"]
  BY DEF ReadRstflag
<1> HIDE DEF g
<1>4. app[g] = "open"
  BY <1>0, <1>1 DEF UseInv
<1>5. HandInv' /\ AcceptsInv' /\ OnceInv' /\ SynInv' /\ BirthInv' /\ WireInv'
      /\ ReadInv'
      /\ RestInv'
  BY <1>1, <1>2, Untouched
<1>6. CASE UNCHANGED <<sdie, closer>>
  <2>1. PICK pc \in {"wait", "EOF"} :
           /\ reader' = [reader EXCEPT ![g] = pc]
           /\ pc = "wait" <=> ~rst[g]
    BY <1>0, <1>1, <1>3, <1>6 DEF TypeOK
  <2>2. /\ reader' \in [Handles -> ReaderPC]
        /\ \A h \in Handles : reader'[h] = IF h = g THEN pc ELSE reader[h]
    BY ZenonT(40), <1>0, <2>1 DEF TypeOK, ReaderPC
  <2>3. TypeOK'
    BY <1>0, <1>1, <1>6, <2>2 DEF TypeOK
  <2>4. UseInv'
    BY <1>0, <1>1, <1>4, <1>6, <2>2 DEF UseInv
  <2>5. EventInv'
    BY <1>0, <1>1, <1>6, <2>1, <2>2, SameHand DEF EventInv, Awake
  <2>6. EndInv'
    BY <1>0, <1>1, <1>2, <1>6, <2>1, <2>2, SameAhead DEF EndInv
  <2>7. TableInv'
    BY <1>1, <1>2, <1>6, Untouched
  <2> QED
    BY <1>5, <2>3, <2>4, <2>5, <2>6, <2>7 DEF LifeInv
<1>7. CASE ~UNCHANGED <<sdie, closer>>
  <2>1. /\ rst[g] /\ ~sdie[g]
        /\ reader' = [reader EXCEPT ![g] = "close"]
        /\ sdie' = [sdie EXCEPT ![g] = TRUE]
        /\ closer' = [closer EXCEPT ![g] = "table"]
    BY <1>3, <1>7
  <2>2. /\ reader' \in [Handles -> ReaderPC]
        /\ \A h \in Handles : reader'[h] = IF h = g THEN "close" ELSE reader[h]
    BY ZenonT(40), <1>0, <2>1 DEF TypeOK, ReaderPC
  <2>3. /\ closer' \in [Handles -> CloserPC]
        /\ \A h \in Handles : closer'[h] = IF h = g THEN "table" ELSE closer[h]
    <3>1. closer' \in [Handles -> CloserPC]
      BY <1>0, <2>1 DEF TypeOK, CloserPC
    <3>2. \A h \in Handles : closer'[h] = IF h = g THEN "table" ELSE closer[h]
      BY <1>0, <2>1 DEF TypeOK
    <3> QED
      BY <3>1, <3>2
  <2>4. sdie' \in [Handles -> BOOLEAN]
    BY <1>0, <2>1 DEF TypeOK
  <2>5. \A h \in Handles : sdie'[h] <=> h = g \/ sdie[h]
    BY <1>0, <2>1 DEF TypeOK
  <2>6. TypeOK'
    BY <1>0, <1>1, <2>2, <2>3, <2>4 DEF TypeOK
  <2>7. UseInv'
    BY <1>0, <1>1, <1>4, <2>2, <2>3, <2>5 DEF UseInv
  <2>8. EventInv'
    BY <1>0, <1>1, <2>2, <2>5, SameHand DEF EventInv, Awake
  <2>9. closer[g] = "none"
    BY <1>0, <1>1, <2>1 DEF UseInv
  <2>10. EndInv'
    BY <1>0, <1>1, <1>2, <2>1, <2>2, <2>3, <2>9, SameAhead DEF EndInv
  <2>11. TableInv'
    BY <1>0, <1>1, <1>4, <2>3, <2>9 DEF TableInv, InTable
  <2> QED
    BY <1>5, <2>6, <2>7, <2>8, <2>10, <2>11 DEF LifeInv
<1> QED
  BY <1>6, <1>7

-----------------------------------------------------------------------------
\* Nothing is opened, sent or in flight in the beginning.
LEMMA InitLife == Init => LifeInv
<1> SUFFICES ASSUME Init PROVE LifeInv
  OBVIOUS
<1> USE HandleFacts
<1>1. TypeOK
  <2>1. \A e \in Ends : accepts[e] = <<>> /\ Len(accepts[e]) <= Backlog
    BY PlansTyped, EmptySeq DEF Init
  <2>2. plan \in Plans
    BY DEF Init
  <2>3. /\ wire \in [Ends -> Seq(Frame)] /\ accepts \in [Ends -> Seq(Streams)]
        /\ buf \in [Handles -> Seq(Nat)] /\ got \in [Handles -> Seq(Nat)]
    BY EmptySeq DEF Init
  <2>4. /\ connOpen \in [Ends -> BOOLEAN] /\ die \in [Ends -> BOOLEAN]
        /\ sess \in [Ends -> SessPC] /\ recv \in [Ends -> RecvPC]
        /\ table \in [Ends -> SUBSET Streams]
    BY DEF Init, SessPC, RecvPC
  <2>5. /\ app \in [Handles -> AppPC] /\ reader \in [Handles -> ReaderPC]
        /\ writer \in [Handles -> WriterPC] /\ closer \in [Handles -> CloserPC]
    BY DEF Init, AppPC, ReaderPC, WriterPC, CloserPC
  <2>6. /\ sdie \in [Handles -> BOOLEAN] /\ rst \in [Handles -> BOOLEAN]
        /\ event \in [Handles -> BOOLEAN] /\ eof \in [Handles -> BOOLEAN]
        /\ sent \in [Handles -> Nat] /\ finAt \in [Handles -> Nat]
    BY DEF Init
  <2> QED
    BY <2>1, <2>2, <2>3, <2>4, <2>5, <2>6 DEF TypeOK
<1>2. /\ ahead = [e \in Ends |-> <<>>]
      /\ \A e \in Ends : DOMAIN ahead[e] = {} /\ DOMAIN accepts[e] = {}
  BY EmptySeq DEF Init, ahead
<1>3. /\ \A h \in Handles : ~SynAhead(h) /\ ~FinAhead(h) /\ ~Queueing(h) /\ ~Notifying(h)
                            /\ ~Queued(h) /\ ~InTable(h)
      /\ \A h \in Handles, n \in Nat : ~Ahead(h, n)
  BY <1>2 DEF SynAhead, FinAhead, Queueing, Notifying, Queued, InTable, Ahead, Init
<1>4. HandInv /\ AcceptsInv /\ OnceInv /\ SynInv
  BY <1>2, <1>3 DEF HandInv, AcceptsInv, OnceInv, SynInv, Init
<1>5. BirthInv /\ UseInv /\ TableInv
  BY <1>2, <1>3 DEF BirthInv, UseInv, TableInv, Init, Unborn
<1>6. EventInv /\ EndInv /\ WireInv
  BY <1>2, <1>3 DEF EventInv, EndInv, WireInv, Init
<1>7. ReadInv /\ RestInv
  BY <1>3, EmptySeq DEF ReadInv, Run, RestInv, Expects, Init
<1> QED
  BY <1>1, <1>4, <1>5, <1>6, <1>7 DEF LifeInv

\* The invariant is inductive.
LEMMA NextLife == LifeInv /\ [Next]_vars => LifeInv'
<1> SUFFICES ASSUME LifeInv, [Next]_vars PROVE LifeInv'
  OBVIOUS
<1>1. CASE UNCHANGED vars
  <2>1. ahead' = ahead
    BY <1>1, AheadKept DEF vars, objVars, readVars, sentVars
  <2>2. TypeOK'
    BY <1>1 DEF LifeInv, TypeOK, vars, objVars, readVars, sentVars
  <2> QED
    BY <1>1, <2>1, <2>2, Untouched DEF LifeInv, vars, objVars, readVars, sentVars
<1>2. ASSUME NEW e \in Ends, NEW s \in Streams,
             \/ OpenSYN(e, s)
             \/ OpenFail(e, s)
             \/ OpenRegister(e, s)
             \/ WriteStart(e, s)
             \/ FinishWrite(e, s)
             \/ Read(e, s)
             \/ CloseDie(e, s)
             \/ FinishClose(e, s)
      PROVE  LifeInv'
  <2>1. CASE OpenSYN(e, s) \/ OpenFail(e, s) \/ OpenRegister(e, s)
    BY <2>1, OpenSYNKeeps, OpenFailKeeps, OpenRegisterKeeps
  <2>2. CASE WriteStart(e, s) \/ FinishWrite(e, s)
    BY <2>2, WriteStartKeeps, WriteSendKeeps, WriteAbortKeeps DEF FinishWrite
  <2>3. CASE Read(e, s)
    BY <2>3, ReadBufferPreserves, ReadRstflagKeeps, ReadEOFKeeps, ReadEventKeeps,
       ReadBrokenKeeps DEF Read
  <2>4. CASE CloseDie(e, s) \/ FinishClose(e, s)
    BY <2>4, CloseDieKeeps, CloseTableKeeps, CloseFINKeeps DEF FinishClose
  <2> QED
    BY <1>2, <2>1, <2>2, <2>3, <2>4
<1>3. ASSUME NEW e \in Ends,
             \/ AcceptStream(e)
             \/ RecvLoop(e)
             \/ RecvPaused(e)
             \/ RecvError(e)
             \/ SessionClose(e)
             \/ FinishSession(e)
      PROVE  LifeInv'
  <2>1. CASE RecvLoop(e)
    BY <2>1, RecvSYNKeeps, RecvQueueKeeps, RecvPSHKeeps, RecvFINKeeps, RecvNotifyKeeps
    DEF RecvLoop
  <2>2. CASE AcceptStream(e) \/ RecvPaused(e) \/ RecvError(e)
    BY <2>2, AcceptStreamKeeps, RecvPausedKeeps, RecvErrorKeeps
  <2>3. CASE SessionClose(e) \/ FinishSession(e)
    BY <2>3, SessionCloseKeeps, CloseStreamsKeeps, CloseConnKeeps DEF FinishSession
  <2> QED
    BY <1>3, <2>1, <2>2, <2>3
<1> QED
  BY <1>1, <1>2, <1>3 DEF Next

\* Every reachable state satisfies the invariant.
THEOREM LifeInvariant == Spec => []LifeInv
<1> QED
  BY InitLife, NextLife, PTL DEF Spec, Safety

\* The types of the variables, and the bound on chAccepts: recvLoop never queues a
\* stream beyond Backlog.
THEOREM StreamTyped == Spec => []TypeOK
<1>1. LifeInv => TypeOK
  BY DEF LifeInv
<1> QED
  BY <1>1, LifeInvariant, PTL

\* Read never sleeps over data or over the end of the stream: whatever arrives
\* between its looks at the buffer, at rstflag and at chReadEvent wakes it.
THEOREM NoReadEventLost == Spec => []NoLostReadEvent
<1>1. LifeInv => NoLostReadEvent
  BY DEF LifeInv, EventInv, NoLostReadEvent, Awake, Notifying
<1> QED
  BY <1>1, LifeInvariant, PTL

\* streamClosed finds the stream it is called for, and late frames never bring a
\* closed stream back.
THEOREM TableFollows == Spec => []TableFollowsClose
<1>1. LifeInv => TableFollowsClose
  BY DEF LifeInv, TableInv, TableFollowsClose, InTable
<1> QED
  BY <1>1, LifeInvariant, PTL

\* An opener that lost the start of what the acceptor sent reads the rest without
\* a gap.
THEOREM MissesOnlyTheStart == Spec => []OpenerMissesOnlyTheStart
<1>1. Outward \subseteq Handles
  BY OpenersAreEnds DEF Outward, Handles
<1>2. LifeInv => OpenerMissesOnlyTheStart
  BY <1>1 DEF LifeInv, ReadInv, Run, OpenerMissesOnlyTheStart
<1> QED
  BY <1>2, LifeInvariant, PTL

-----------------------------------------------------------------------------
\* A direction from an opener is seen by BytePipe as what the opener wrote and what
\* the acceptor read.
LEMMA Directions ==
    /\ \A p \in Outward : p \in Handles /\ Opening(p) /\ Inward(p) \in Handles
                          /\ Accepting(Inward(p)) /\ Inward(Inward(p)) = p
    /\ \A h \in Handles : Opening(h) <=> h \in Outward
    /\ \A h \in Handles : Accepting(h) <=> Inward(h) \in Outward
<1>1. ASSUME NEW p \in Outward PROVE p \in Handles /\ Opening(p)
  BY OpenersAreEnds DEF Outward, Handles, Opening
<1>2. ASSUME NEW h \in Handles PROVE Opening(h) <=> h \in Outward
  <2>1. h[2] \in Streams /\ h = <<h[1], h[2]>>
    BY HandleFacts
  <2>2. Opening(h) => h \in Outward
    BY <2>1 DEF Outward, Opening
  <2> QED
    BY <1>1, <2>2
<1> QED
  BY <1>1, <1>2, HandleFacts

\* A step that sends nothing, reads nothing and ends no Close is none of the pipe.
LEMMA PipeKept ==
    ASSUME UNCHANGED <<sent, got, eof>>,
           \A h \in Handles : closer'[h] = "done" <=> closer[h] = "done"
    PROVE  UNCHANGED Pipe!vars
<1>1. Outward \subseteq Handles
  BY Directions
<1>2. {h \in Outward : closer'[h] = "done"} = {h \in Outward : closer[h] = "done"}
  BY <1>1
<1> QED
  BY <1>2 DEF Pipe!vars

\* Write is Send.
LEMMA WriteSendPipe ==
    ASSUME LifeInv, NEW e \in Ends, NEW s \in Streams, WriteSend(e, s)
    PROVE  [Pipe!Next]_(Pipe!vars)
<1> DEFINE g == <<e, s>>
<1>1. /\ g \in Handles /\ sent' = [sent EXCEPT ![g] = @ + 1]
      /\ UNCHANGED <<got, eof, closer>>
  BY HandleFacts DEF WriteSend, readVars
<1>2. sent \in [Handles -> Nat]
  BY DEF LifeInv, TypeOK
<1> HIDE DEF g
<1>3. CASE g \in Outward
  <2>1. [h \in Outward |-> sent'[h]] = [[h \in Outward |-> sent[h]] EXCEPT ![g] = @ + 1]
    BY <1>1, <1>2, <1>3, Directions
  <2>2. Pipe!Send(g)
    BY <1>1, <2>1 DEF Pipe!Send
  <2> QED
    BY <1>3, <2>2 DEF Pipe!Next
<1>4. CASE g \notin Outward
  <2>1. [h \in Outward |-> sent'[h]] = [h \in Outward |-> sent[h]]
    BY <1>1, <1>2, <1>4, Directions
  <2> QED
    BY <1>1, <2>1 DEF Pipe!vars
<1> QED
  BY <1>3, <1>4

\* The end of Stream.Close is Close.
LEMMA CloseFINPipe ==
    ASSUME LifeInv, NEW e \in Ends, NEW s \in Streams, CloseFIN(e, s)
    PROVE  [Pipe!Next]_(Pipe!vars)
<1> DEFINE g == <<e, s>>
<1>1. /\ g \in Handles /\ closer' = [closer EXCEPT ![g] = "done"]
      /\ UNCHANGED <<sent, got, eof>>
  BY HandleFacts DEF CloseFIN, readVars
<1>2. closer \in [Handles -> CloserPC]
  BY DEF LifeInv, TypeOK
<1> HIDE DEF g
<1>3. CASE g \in Outward
  <2>1. {h \in Outward : closer'[h] = "done"} = {h \in Outward : closer[h] = "done"} \cup {g}
    BY <1>1, <1>2, <1>3, Directions
  <2>2. Pipe!Close(g)
    BY <1>1, <2>1 DEF Pipe!Close
  <2> QED
    BY <1>3, <2>2 DEF Pipe!Next
<1>4. CASE g \notin Outward
  <2>1. {h \in Outward : closer'[h] = "done"} = {h \in Outward : closer[h] = "done"}
    BY <1>1, <1>2, <1>4, Directions
  <2> QED
    BY <1>1, <2>1 DEF Pipe!vars
<1> QED
  BY <1>3, <1>4

\* io.EOF is End: the FIN came after Close of the opener.
LEMMA ReadEOFPipe ==
    ASSUME LifeInv, NEW e \in Ends, NEW s \in Streams, ReadEOF(e, s)
    PROVE  [Pipe!Next]_(Pipe!vars)
<1> DEFINE g == <<e, s>>
<1>1. /\ g \in Handles /\ eof' = [eof EXCEPT ![g] = TRUE]
      /\ reader[g] \in {"close", "EOF"}
      /\ UNCHANGED <<sent, got, closer>>
  BY HandleFacts DEF ReadEOF, sentVars
<1>2. eof \in [Handles -> BOOLEAN]
  BY DEF LifeInv, TypeOK
<1> HIDE DEF g
<1>3. closer[Inward(g)] = "done"
  BY <1>1 DEF LifeInv, EndInv
<1>4. \A h \in Handles : eof'[h] <=> h = g \/ eof[h]
  BY <1>1, <1>2
<1>5. \A p \in Outward : eof'[Inward(p)] <=> p = Inward(g) \/ eof[Inward(p)]
  BY <1>1, <1>4, Directions, HandleFacts
<1>6. CASE Inward(g) \in Outward
  <2>1. {h \in Outward : eof'[Inward(h)]} = {h \in Outward : eof[Inward(h)]} \cup {Inward(g)}
    BY <1>5, <1>6
  <2>2. Pipe!End(Inward(g))
    BY <1>1, <1>3, <1>6, <2>1 DEF Pipe!End
  <2> QED
    BY <1>6, <2>2 DEF Pipe!Next
<1>7. CASE Inward(g) \notin Outward
  <2>1. {h \in Outward : eof'[Inward(h)]} = {h \in Outward : eof[Inward(h)]}
    BY <1>5, <1>7
  <2> QED
    BY <1>1, <2>1 DEF Pipe!vars
<1> QED
  BY <1>6, <1>7

\* What Read takes from the buffer is what comes next.
LEMMA NextChunks ==
    ASSUME TypeOK, ReadInv, NEW g \in Handles, Accepting(g), NEW n \in 1 .. Len(buf[g])
    PROVE  /\ SubSeq(buf[g], 1, n) = [i \in 1 .. n |-> Len(got[g]) + i]
           /\ Len(got[g]) + n <= sent[Inward(g)] /\ n \in 1 .. sent[Inward(g)]
<1>1. /\ got[g] \in Seq(Nat) /\ buf[g] \in Seq(Nat) /\ Inward(g) \in Handles
      /\ sent[Inward(g)] \in Nat
  BY HandleFacts DEF TypeOK
<1>2. /\ Len(got[g]) \in Nat /\ Len(buf[g]) \in Nat
      /\ DOMAIN got[g] = 1 .. Len(got[g]) /\ DOMAIN buf[g] = 1 .. Len(buf[g])
      /\ got[g] = <<>> <=> Len(got[g]) = 0
      /\ buf[g] = <<>> <=> Len(buf[g]) = 0
  BY <1>1, LenProperties, EmptySeq
<1>3. /\ \A i \in 1 .. Len(got[g]) : got[g][i] = got[g][1] + i - 1
      /\ \A i \in 1 .. Len(buf[g]) : buf[g][i] = buf[g][1] + i - 1
                                     /\ buf[g][i] \in 1 .. sent[Inward(g)]
      /\ got[g] # <<>> => got[g][1] = 1 /\ buf[g][1] = got[g][Len(got[g])] + 1
      /\ got[g] = <<>> => buf[g][1] = 1
  <2>1. Run(got[g], g) /\ Run(buf[g], g) /\ buf[g] # <<>>
    BY <1>2 DEF ReadInv
  <2>2. /\ got[g] # <<>> => got[g][1] = 1 /\ buf[g][1] = got[g][Len(got[g])] + 1
        /\ got[g] = <<>> => buf[g][1] = 1
    BY <2>1 DEF ReadInv
  <2>3. /\ \A i \in 1 .. Len(got[g]) : got[g][i] = got[g][1] + i - 1
        /\ \A i \in 1 .. Len(buf[g]) : buf[g][i] = buf[g][1] + i - 1
                                       /\ buf[g][i] \in 1 .. sent[Inward(g)]
    BY <1>2, <2>1 DEF Run
  <2> QED
    BY <2>2, <2>3
<1>4. buf[g][1] = Len(got[g]) + 1
  <2>1. CASE Len(got[g]) = 0
    BY <1>2, <1>3, <2>1
  <2>2. CASE Len(got[g]) # 0
    <3>1. Len(got[g]) \in 1 .. Len(got[g]) /\ got[g] # <<>>
      BY <1>2, <2>2
    <3>2. got[g][Len(got[g])] = 1 + Len(got[g]) - 1
      BY <1>3, <3>1
    <3> QED
      BY <1>2, <1>3, <3>1, <3>2
  <2> QED
    BY <2>1, <2>2
<1>5. \A i \in 1 .. n : i \in 1 .. Len(buf[g]) /\ buf[g][i] = Len(got[g]) + i
  <2> SUFFICES ASSUME NEW i \in 1 .. n
               PROVE  i \in 1 .. Len(buf[g]) /\ buf[g][i] = Len(got[g]) + i
    OBVIOUS
  <2>1. i \in 1 .. Len(buf[g]) /\ i \in Nat
    BY <1>2
  <2>2. buf[g][i] = (Len(got[g]) + 1) + i - 1
    BY <1>3, <1>4, <2>1
  <2> QED
    BY <1>2, <2>1, <2>2
<1>6. SubSeq(buf[g], 1, n) = [i \in 1 .. n |-> buf[g][i]]
  BY <1>1, <1>2, SubSeqProperties
<1>7. n \in 1 .. n /\ n \in Nat /\ 1 <= n
  BY <1>2
<1>8. Len(got[g]) + n \in 1 .. sent[Inward(g)]
  BY <1>3, <1>5, <1>7
<1>9. Len(got[g]) + n <= sent[Inward(g)] /\ n \in 1 .. sent[Inward(g)]
  BY <1>1, <1>2, <1>7, <1>8
<1>10. [i \in 1 .. n |-> buf[g][i]] = [i \in 1 .. n |-> Len(got[g]) + i]
  BY <1>5
<1> QED
  BY <1>6, <1>9, <1>10

\* Read is Receive.
LEMMA ReadBufferPipe ==
    ASSUME LifeInv, NEW e \in Ends, NEW s \in Streams, ReadBuffer(e, s)
    PROVE  [Pipe!Next]_(Pipe!vars)
<1> DEFINE g == <<e, s>>
<1>0. TypeOK /\ ReadInv
  BY DEF LifeInv
<1>1. g \in Handles /\ UNCHANGED <<sent, eof, closer>>
  BY HandleFacts DEF ReadBuffer, sentVars
<1>2. CASE got' = got
  BY <1>1, <1>2, PipeKept
<1>3. CASE got' # got
  <2>1. PICK n \in 1 .. Len(buf[g]) : got' = [got EXCEPT ![g] = @ \o SubSeq(buf[g], 1, n)]
    BY <1>3 DEF ReadBuffer
  <2> HIDE DEF g
  <2>2. got \in [Handles -> Seq(Nat)]
    BY <1>0 DEF TypeOK
  <2>3. CASE Accepting(g)
    <3>1. /\ SubSeq(buf[g], 1, n) = [i \in 1 .. n |-> Len(got[g]) + i]
          /\ Len(got[g]) + n <= sent[Inward(g)] /\ n \in 1 .. sent[Inward(g)]
      BY <1>0, <1>1, <2>3, NextChunks
    <3>2. PICK p \in Outward : p = Inward(g) /\ Inward(p) = g
      BY <1>1, <2>3, Directions, HandleFacts
    <3>3. \A h \in Outward : got'[Inward(h)] =
             IF h = p THEN got[g] \o [i \in 1 .. n |-> Len(got[g]) + i] ELSE got[Inward(h)]
      <4>1. \A h \in Outward : Inward(h) \in Handles /\ (Inward(h) = g <=> h = p)
        BY <3>2, Directions
      <4> QED
        BY <1>1, <2>1, <2>2, <3>1, <4>1
    <3>4. [h \in Outward |-> got'[Inward(h)]] =
             [[h \in Outward |-> got[Inward(h)]]
                EXCEPT ![p] = @ \o [i \in 1 .. n |-> Len(@) + i]]
      BY <3>2, <3>3
    <3>5. Pipe!Receive(p, n)
      BY <1>1, <3>1, <3>2, <3>4 DEF Pipe!Receive
    <3> QED
      BY <3>1, <3>2, <3>5 DEF Pipe!Next
  <2>4. CASE ~Accepting(g)
    <3>1. \A h \in Outward : Inward(h) \in Handles /\ Inward(h) # g
      BY <2>4, Directions
    <3>2. [h \in Outward |-> got'[Inward(h)]] = [h \in Outward |-> got[Inward(h)]]
      BY <2>1, <2>2, <3>1
    <3> QED
      BY <1>1, <3>2 DEF Pipe!vars
  <2> QED
    BY <2>3, <2>4
<1> QED
  BY <1>2, <1>3

\* The other steps of Open, Write, Read and Close are invisible.
LEMMA OtherPipe ==
    ASSUME LifeInv, NEW e \in Ends, NEW s \in Streams,
           \/ OpenSYN(e, s) \/ OpenFail(e, s) \/ OpenRegister(e, s)
           \/ WriteStart(e, s) \/ WriteAbort(e, s)
           \/ ReadRstflag(e, s) \/ ReadEvent(e, s) \/ ReadBroken(e, s)
           \/ CloseDie(e, s) \/ CloseTable(e, s)
    PROVE  UNCHANGED Pipe!vars
<1> DEFINE g == <<e, s>>
<1>1. g \in Handles /\ closer \in [Handles -> CloserPC]
  BY HandleFacts DEF LifeInv, TypeOK
<1>2. UNCHANGED <<sent, got, eof>>
  BY
  DEF OpenSYN, OpenFail, OpenRegister, WriteStart, WriteAbort, ReadRstflag, ReadEvent,
     ReadBroken, CloseDie, CloseTable, readVars, sentVars
<1>3. \/ closer' = closer
      \/ ~sdie[g] /\ closer' = [closer EXCEPT ![g] = "table"]
      \/ closer[g] = "table" /\ closer' = [closer EXCEPT ![g] = "FIN"]
  BY
  DEF OpenSYN, OpenFail, OpenRegister, WriteStart, WriteAbort, ReadRstflag, ReadEvent,
     ReadBroken, CloseDie, CloseTable
<1> HIDE DEF g
<1>4. ~sdie[g] => closer[g] = "none"
  BY <1>1 DEF LifeInv, UseInv
<1>5. \A h \in Handles : closer'[h] = "done" <=> closer[h] = "done"
  BY <1>1, <1>3, <1>4
<1> QED
  BY <1>2, <1>5, PipeKept

\* In the direction from the opener to the acceptor a stream is a pipe: the acceptor
\* reads the chunks in order and without a hole, and is told the end only after the
\* opener closed, whatever closes, fails or races.
THEOREM StreamIsPipe == Spec => ImplementsPipe
<1>1. Init => Pipe!Init
  <2> SUFFICES ASSUME Init PROVE Pipe!Init
    OBVIOUS
  <2>1. \A h \in Outward : /\ sent[h] = 0 /\ got[Inward(h)] = <<>>
                           /\ closer[h] # "done" /\ ~eof[Inward(h)]
    BY Directions DEF Init
  <2> QED
    BY <2>1 DEF Pipe!Init
<1>2. LifeInv /\ [Next]_vars => [Pipe!Next]_(Pipe!vars)
  <2> SUFFICES ASSUME LifeInv, [Next]_vars PROVE [Pipe!Next]_(Pipe!vars)
    OBVIOUS
  <2>1. CASE UNCHANGED vars
    BY <2>1, PipeKept DEF vars
  <2>2. ASSUME NEW e \in Ends, NEW s \in Streams,
               \/ OpenSYN(e, s)
               \/ OpenFail(e, s)
               \/ OpenRegister(e, s)
               \/ WriteStart(e, s)
               \/ FinishWrite(e, s)
               \/ Read(e, s)
               \/ CloseDie(e, s)
               \/ FinishClose(e, s)
        PROVE  [Pipe!Next]_(Pipe!vars)
    BY <2>2, WriteSendPipe, ReadBufferPipe, ReadEOFPipe, CloseFINPipe, OtherPipe
    DEF FinishWrite, Read, FinishClose
  <2>3. ASSUME NEW e \in Ends,
               \/ AcceptStream(e)
               \/ RecvLoop(e)
               \/ RecvPaused(e)
               \/ RecvError(e)
               \/ SessionClose(e)
               \/ FinishSession(e)
        PROVE  [Pipe!Next]_(Pipe!vars)
    <3>1. UNCHANGED <<sent, got, eof, closer>>
      BY <2>3
      DEF AcceptStream, RecvLoop, RecvSYN, RecvQueue, RecvPSH, RecvFIN, RecvNotify,
         RecvPaused, RecvError, SessionClose, FinishSession, CloseStreams, CloseConn,
         readVars, sentVars
    <3> QED
      BY <3>1, PipeKept
  <2> QED
    BY <2>1, <2>2, <2>3 DEF Next
<1> QED
  BY <1>1, <1>2, LifeInvariant, PTL DEF Spec, Safety, ImplementsPipe, Pipe!Spec
===============================================================================
