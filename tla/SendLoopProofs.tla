---------------------------- MODULE SendLoopProofs ----------------------------
(***************************************************************************)
(* Proofs about SendLoop, for any streams, any number of chunks and any    *)
(* capacities.                                                             *)
(***************************************************************************)
EXTENDS SendLoop, SequenceTheorems, FiniteSetTheorems, TLAPS

\* Who makes a request.
Owner(r) == IF r.cmd \in {"SYN", "PSH"} THEN Writer(r.sid)
            ELSE IF r.cmd = "FIN" THEN Closer(r.sid) ELSE Keepalive

\* A caller that is not idle has made its request, the last one it counted.
CallersInv ==
    \A t \in Callers : pc[t] # "idle" =>
        req[t] \in Request /\ Owner(req[t]) = t /\ req[t].n = count[t]

\* A queue is made for a request that was offered, and is empty before.
MadeInv ==
    /\ \A s \in Streams :
          /\ made[s] + (IF pc[Writer(s)] = "offer" THEN 1 ELSE 0) <= count[Writer(s)]
          /\ count[Writer(s)] <= PSHs[s] + 1
          /\ current[s] <= made[s]
    /\ \A q \in Queues : q[2] > made[q[1]] => queue[q] = <<>>

\* What the goroutines have in their hands while they handle a request.
HandsInv ==
    /\ main \notin {"select", "done"} => inHand \in Request
    /\ main \in {"put", "swap", "swapput"} =>
          inHand.cmd # "NOP" /\ target \in Queues /\ target[2] <= made[target[1]]
    /\ main = "swapput" => pushedOut \in Request /\ pushedOut.cmd # "NOP"
    /\ sched \in {"delete", "write"} => picked \in Request
    /\ sched = "delete" => picked.cmd = "FIN"
    /\ \A q \in Queues : \A i \in DOMAIN queue[q] : queue[q][i].cmd # "NOP"

\* The requests in the queues can be counted, and reqCount does.
CountInv == IsFiniteSet(QueuedAt) /\ ReqCountExact

\* Whether a queue of streamQueues holds a request.
Waiting == \E s \in Streams : current[s] # 0 /\ queue[<<s, current[s]>>] # <<>>

\* SchedulerAwake; only a request that comes from the queues, or goes there, will
\* be followed by a notice.
AwakeInv ==
    sched = "wait" /\ Waiting =>
        \/ writeNotify
        \/ main \in {"count", "notify", "swapput"}
        \/ main = "direct" /\ inHand.cmd # "NOP"

\* The inductive invariant, but for the places of the requests.
SendInv ==
    /\ TypeOK
    /\ CallersInv
    /\ MadeInv
    /\ HandsInv
    /\ CountInv
    /\ AwakeInv

\* Where the requests are: in the queues, in the channel to the writer, in
\* sendLoop's hands, in the scheduler's, and on the wire.
AtQueues == {queue[k[1]][k[2]] : k \in QueuedAt}
AtWriter == Range(writes)
AtMain   == (IF main \in {"put", "swap", "swapput", "direct"} THEN {inHand} ELSE {})
                \cup (IF main = "swapput" THEN {pushedOut} ELSE {})
AtSched  == IF sched \in {"delete", "write"} THEN {picked} ELSE {}
Held     == AtQueues \cup AtWriter \cup AtMain \cup AtSched
OnWire   == UNION {Range(wire[s]) : s \in DOMAIN wire}

\* The requests that were taken, or given up, and are never made again.
Past == {r \in Request : /\ r.n <= count[Owner(r)]
                         /\ ~(pc[Owner(r)] = "offer" /\ req[Owner(r)] = r)}

\* The requests whose callers wait for an answer that was not given yet.
WaitedFor == {req[t] : t \in {u \in Callers : pc[u] = "result" /\ req[u] \notin answered}}

\* No request is twice in the queues, in the channel or on the wire.
QueuedOnce  == \A k, l \in QueuedAt : queue[k[1]][k[2]] = queue[l[1]][l[2]] => k = l
WritingOnce == IsInjective(writes)
WireOnce    == \A s \in DOMAIN wire : IsInjective(wire[s])

\* No request is in two places.
Apart ==
    /\ AtQueues \cap (AtWriter \cup AtMain \cup AtSched) = {}
    /\ AtWriter \cap (AtMain \cup AtSched) = {}
    /\ AtMain \cap AtSched = {}

\* What is held is not answered yet, what was written is answered, and both are past.
Order ==
    /\ Held \subseteq Past \ answered
    /\ OnWire \subseteq answered
    /\ answered \subseteq Past

\* The invariant about the places.
PlaceInv ==
    /\ QueuedOnce
    /\ WritingOnce
    /\ WireOnce
    /\ Apart
    /\ main = "swapput" => inHand # pushedOut
    /\ Order
    /\ WaitedFor \subseteq Held


-----------------------------------------------------------------------------
\* A nonempty set of stream ids has a smallest one, which a round serves next: the
\* sets of those below an element are finite, so that one of them has no smaller.
LEMMA Smallest ==
    ASSUME NEW S, IsFiniteSet(S), S \subseteq Nat, S # {}
    PROVE  \E x \in S : \A y \in S : x <= y
<1> DEFINE Below(x) == {y \in S : y < x}
<1> DEFINE T == {Below(x) : x \in S}
<1> DEFINE R == StrictSubsetOrdering(S)
<1>1. T \subseteq FiniteSubsetsOf(S) /\ T # {}
  <2>1. FiniteSubsetsOf(S) = SUBSET S
    BY FS_FiniteSubsetsOfFinite
  <2>2. \A x \in S : Below(x) \in SUBSET S
    OBVIOUS
  <2>3. T \subseteq SUBSET S
    BY <2>2
  <2>4. PICK x : x \in S
    OBVIOUS
  <2>5. Below(x) \in T
    BY <2>4
  <2> QED
    BY <2>1, <2>3, <2>5
<1>2. IsWellFoundedOn(R, FiniteSubsetsOf(S))
  BY FS_StrictSubsetOrderingWellFounded
<1>3. \E b \in T : \A c \in T : ~(<<c, b>> \in R)
  <2> HIDE DEF T, R
  <2> QED
    BY <1>1, <1>2, WFMin
<1>4. PICK x \in S : \A y \in S : ~(<<Below(y), Below(x)>> \in R)
  BY <1>3
<1>5. ASSUME NEW y \in S, y < x PROVE FALSE
  <2>1. /\ \A z \in S : z < y => z < x
        /\ ~(y < y)
    BY <1>5
  <2>2. Below(y) \subseteq Below(x) /\ y \in Below(x) /\ y \notin Below(y)
    BY <1>5, <2>1
  <2>3. <<Below(y), Below(x)>> \in R
    BY <2>2 DEF StrictSubsetOrdering
  <2> QED
    BY <1>4, <2>3
<1> QED
  BY <1>5

\* Every caller is one of three kinds, and different from all others.
LEMMA CallerFacts ==
    /\ Keepalive \in Callers
    /\ \A s \in Streams :
          /\ Writer(s) \in Callers /\ Closer(s) \in Callers
          /\ Writer(s) # Keepalive /\ Closer(s) # Keepalive
    /\ \A s, x \in Streams :
          /\ Writer(s) # Closer(x)
          /\ Writer(s) = Writer(x) => s = x
BY DEF Callers, Writer, Closer, Keepalive

\* A request has a caller.
LEMMA RequestFacts ==
    ASSUME NEW r \in Request
    PROVE  /\ r.cmd \in {"SYN", "PSH", "FIN", "NOP"}
           /\ r.cmd # "NOP" => r.sid \in Streams
           /\ r.sid \in Streams \cup {0}
           /\ r.n \in Nat
           /\ Owner(r) \in Callers
           /\ r.cmd \in {"SYN", "PSH"} => Owner(r) = Writer(r.sid)
           /\ r # None
<1>1. /\ r.cmd \in {"SYN", "PSH", "FIN", "NOP"}
      /\ r.cmd # "NOP" => r.sid \in Streams
      /\ r.sid \in Streams \cup {0}
      /\ r.n \in Nat
  BY DEF Request
<1> QED
  BY <1>1, CallerFacts DEF Owner, None

\* The numbers of the queues.
LEMMA QueueFacts ==
    /\ Generations \subseteq Nat \ {0}
    /\ \A s \in Streams : s \in Nat /\ s # 0 /\ PSHs[s] \in Nat
    /\ \A s \in Streams, n \in Nat :
          n # 0 /\ n <= PSHs[s] + 1 => n \in Generations /\ <<s, n>> \in Queues
    /\ \A q \in Queues : q[1] \in Streams /\ q[2] \in Generations /\ q = <<q[1], q[2]>>
    /\ \A s \in Streams, n \in Generations :
          <<s, n>> \in Queues /\ <<s, n>>[1] = s /\ <<s, n>>[2] = n
<1>1. \A s \in Streams : s \in Nat /\ s # 0 /\ PSHs[s] \in Nat
  BY SendSizes
<1>2. Generations \subseteq Nat \ {0}
  BY <1>1 DEF Generations
<1>3. ASSUME NEW s \in Streams, NEW n \in Nat, n # 0, n <= PSHs[s] + 1
      PROVE  n \in Generations
  <2>1. n \in 1 .. PSHs[s] + 1
    BY <1>1, <1>3
  <2> QED
    BY <2>1 DEF Generations
<1> QED
  BY <1>1, <1>2, <1>3 DEF Queues

\* What the first element of a queue leaves behind.
LEMMA HeadAndTail ==
    ASSUME NEW S, NEW q \in Seq(S), q # <<>>
    PROVE  /\ Head(q) \in S /\ Head(q) = q[1] /\ 1 \in DOMAIN q
           /\ Tail(q) \in Seq(S) /\ Len(Tail(q)) = Len(q) - 1
           /\ Len(q) \in Nat /\ Len(q) \in DOMAIN q /\ Len(q) \notin DOMAIN Tail(q)
           /\ \A i \in DOMAIN Tail(q) : /\ i \in DOMAIN q /\ i + 1 \in DOMAIN q
                                        /\ Tail(q)[i] = q[i + 1]
                                        /\ i \in Nat /\ i + 1 # 1
           /\ \A i \in DOMAIN q : /\ i = Len(q) \/ i \in DOMAIN Tail(q)
                                  /\ i = 1 \/ (i - 1 \in DOMAIN Tail(q) /\ i \in Nat
                                               /\ Tail(q)[i - 1] = q[i])
BY HeadTailProperties, LenProperties

\* What the last element of a queue adds.
LEMMA AppendedTo ==
    ASSUME NEW S, NEW q \in Seq(S), NEW x \in S
    PROVE  /\ Append(q, x) \in Seq(S) /\ Len(Append(q, x)) = Len(q) + 1
           /\ Append(q, x) # <<>>
           /\ Len(q) \in Nat /\ Len(q) + 1 \notin DOMAIN q
           /\ Len(q) + 1 \in DOMAIN Append(q, x) /\ Append(q, x)[Len(q) + 1] = x
           /\ \A i \in DOMAIN q : i \in DOMAIN Append(q, x) /\ Append(q, x)[i] = q[i]
           /\ \A i \in DOMAIN Append(q, x) : i \in DOMAIN q \/ i = Len(q) + 1
BY AppendProperties, LenProperties

\* The steps of a queue: a request is put in, or the first one is taken.
Puts(g, r) == queue' = [queue EXCEPT ![g] = Append(@, r)]
Gets(g)    == queue[g] # <<>> /\ queue' = [queue EXCEPT ![g] = Tail(@)]

\* A place is a queue and an index in it.
LEMMA QueuedPlaces ==
    \A k : k \in QueuedAt <=> \E q \in Queues : \E i \in DOMAIN queue[q] : k = <<q, i>>
BY DEF QueuedAt

\* Putting in makes a new place and moves nothing.
LEMMA QueueGrown ==
    ASSUME TypeOK, NEW g \in Queues, NEW r \in Request, Puts(g, r)
    PROVE  /\ \E k : /\ k \notin QueuedAt /\ QueuedAt' = QueuedAt \cup {k}
                     /\ queue'[k[1]][k[2]] = r
           /\ \A k \in QueuedAt : queue'[k[1]][k[2]] = queue[k[1]][k[2]]
<1> DEFINE b == queue[g]
<1> DEFINE k == <<g, Len(b) + 1>>
<1>1. b \in Seq(Request)
  BY DEF TypeOK
<1>2. \A q \in Queues : queue'[q] = IF q = g THEN Append(b, r) ELSE queue[q]
  BY DEF Puts, TypeOK
<1> HIDE DEF b
<1>3. /\ DOMAIN Append(b, r) = DOMAIN b \cup {Len(b) + 1} /\ Len(b) + 1 \notin DOMAIN b
      /\ \A i \in DOMAIN b : Append(b, r)[i] = b[i]
      /\ Append(b, r)[Len(b) + 1] = r
  BY <1>1, AppendedTo
<1>4. k \notin QueuedAt
  BY <1>3, QueuedPlaces DEF b
<1>5. \A x : x \in QueuedAt' <=> \E q \in Queues : \E i \in DOMAIN queue'[q] : x = <<q, i>>
  BY DEF QueuedAt
<1>6. QueuedAt' = QueuedAt \cup {k}
  <2>1. ASSUME NEW x \in QueuedAt' PROVE x \in QueuedAt \cup {k}
    <3>0. PICK q \in Queues : \E i \in DOMAIN queue'[q] : x = <<q, i>>
      BY <1>5, <2>1
    <3>1. PICK i \in DOMAIN queue'[q] : x = <<q, i>>
      BY <3>0
    <3>2. i \in DOMAIN queue[q] \/ (q = g /\ i = Len(b) + 1)
      BY <1>2, <1>3, <3>1 DEF b
    <3> QED
      BY <3>1, <3>2, QueuedPlaces
  <2>2. ASSUME NEW x \in QueuedAt PROVE x \in QueuedAt'
    <3>0. PICK q \in Queues : \E i \in DOMAIN queue[q] : x = <<q, i>>
      BY <2>2, QueuedPlaces
    <3>1. PICK i \in DOMAIN queue[q] : x = <<q, i>>
      BY <3>0
    <3>2. i \in DOMAIN queue'[q]
      BY <1>2, <1>3, <3>1 DEF b
    <3> QED
      BY <1>5, <3>1, <3>2
  <2>3. k \in QueuedAt'
    BY <1>2, <1>3, <1>5
  <2> QED
    BY <2>1, <2>2, <2>3
<1>7. ASSUME NEW x \in QueuedAt PROVE queue'[x[1]][x[2]] = queue[x[1]][x[2]]
  <2>0. PICK q \in Queues : \E i \in DOMAIN queue[q] : x = <<q, i>>
    BY <1>7, QueuedPlaces
  <2>1. PICK i \in DOMAIN queue[q] : x = <<q, i>>
    BY <2>0
  <2> QED
    BY <1>2, <1>3, <2>1 DEF b
<1>8. queue'[k[1]][k[2]] = r
  BY <1>2, <1>3
<1> QED
  BY <1>4, <1>6, <1>7, <1>8

\* Taking the first request leaves the others, one place on.
LEMMA QueueShrunk ==
    ASSUME TypeOK, NEW g \in Queues, Gets(g)
    PROVE  /\ \E k \in QueuedAt : QueuedAt' = QueuedAt \ {k}
           /\ <<g, 1>> \in QueuedAt /\ queue[g][1] = Head(queue[g])
           /\ Head(queue[g]) \in Request
           /\ \A x \in QueuedAt' : \E y \in QueuedAt \ {<<g, 1>>} :
                 /\ queue'[x[1]][x[2]] = queue[y[1]][y[2]]
                 /\ y = IF x[1] = g THEN <<g, x[2] + 1>> ELSE x
           /\ \A y \in QueuedAt \ {<<g, 1>>} : \E x \in QueuedAt' :
                 queue'[x[1]][x[2]] = queue[y[1]][y[2]]
           /\ \A x \in QueuedAt' : x[1] = g => x = <<g, x[2]>> /\ x[2] \in Nat
<1> DEFINE b == queue[g]
<1> DEFINE k == <<g, Len(b)>>
<1>1. b \in Seq(Request) /\ b # <<>>
  BY DEF TypeOK, Gets
<1>2. \A q \in Queues : queue'[q] = IF q = g THEN Tail(b) ELSE queue[q]
  BY DEF Gets, TypeOK
<1> HIDE DEF b
<1>3. /\ Head(b) \in Request /\ Head(b) = b[1] /\ 1 \in DOMAIN b
      /\ Len(b) \in DOMAIN b /\ Len(b) \notin DOMAIN Tail(b)
      /\ \A i \in DOMAIN Tail(b) : /\ i \in DOMAIN b /\ i + 1 \in DOMAIN b
                                   /\ Tail(b)[i] = b[i + 1] /\ i \in Nat /\ i + 1 # 1
      /\ \A i \in DOMAIN b : /\ i = Len(b) \/ i \in DOMAIN Tail(b)
                             /\ i = 1 \/ (i - 1 \in DOMAIN Tail(b) /\ Tail(b)[i - 1] = b[i])
  BY <1>1, HeadAndTail
<1>4. \A x : x \in QueuedAt' <=> \E q \in Queues : \E i \in DOMAIN queue'[q] : x = <<q, i>>
  BY DEF QueuedAt
<1>5. k \in QueuedAt /\ k \notin QueuedAt' /\ <<g, 1>> \in QueuedAt
  <2>1. k \in QueuedAt
    BY <1>3, QueuedPlaces DEF b
  <2>2. <<g, 1>> \in QueuedAt
    BY <1>3, QueuedPlaces DEF b
  <2>3. k \notin QueuedAt'
    <3>1. SUFFICES ASSUME k \in QueuedAt' PROVE FALSE
      OBVIOUS
    <3>2. PICK q \in Queues : \E i \in DOMAIN queue'[q] : k = <<q, i>>
      BY <1>4, <3>1
    <3>3. PICK i \in DOMAIN queue'[q] : k = <<q, i>>
      BY <3>2
    <3>4. q = g /\ i = Len(b)
      BY <3>3
    <3> QED
      BY <1>2, <1>3, <3>3, <3>4
  <2> QED
    BY <2>1, <2>2, <2>3
<1>6. QueuedAt' = QueuedAt \ {k}
  <2>1. ASSUME NEW x \in QueuedAt' PROVE x \in QueuedAt
    <3>0. PICK q \in Queues : \E i \in DOMAIN queue'[q] : x = <<q, i>>
      BY <1>4, <2>1
    <3>1. PICK i \in DOMAIN queue'[q] : x = <<q, i>>
      BY <3>0
    <3>2. i \in DOMAIN queue[q]
      BY <1>2, <1>3, <3>1 DEF b
    <3> QED
      BY <3>1, <3>2, QueuedPlaces
  <2>2. ASSUME NEW x \in QueuedAt, x # k PROVE x \in QueuedAt'
    <3>0. PICK q \in Queues : \E i \in DOMAIN queue[q] : x = <<q, i>>
      BY <2>2, QueuedPlaces
    <3>1. PICK i \in DOMAIN queue[q] : x = <<q, i>>
      BY <3>0
    <3>2. i \in DOMAIN queue'[q]
      BY <1>2, <1>3, <2>2, <3>1 DEF b
    <3> QED
      BY <1>4, <3>1, <3>2
  <2> QED
    BY <1>5, <2>1, <2>2
<1>7. ASSUME NEW x \in QueuedAt'
      PROVE  /\ \E y \in QueuedAt \ {<<g, 1>>} :
                   /\ queue'[x[1]][x[2]] = queue[y[1]][y[2]]
                   /\ y = IF x[1] = g THEN <<g, x[2] + 1>> ELSE x
             /\ x[1] = g => x = <<g, x[2]>> /\ x[2] \in Nat
  <2>0. PICK q \in Queues : \E i \in DOMAIN queue'[q] : x = <<q, i>>
    BY <1>4, <1>7
  <2>1. PICK i \in DOMAIN queue'[q] : x = <<q, i>>
    BY <2>0
  <2>2. CASE q = g
    <3>1. /\ i \in DOMAIN Tail(b) /\ i + 1 \in DOMAIN queue[g] /\ i \in Nat
          /\ queue'[g][i] = queue[g][i + 1] /\ <<g, i + 1>> # <<g, 1>>
      BY <1>2, <1>3, <2>1, <2>2 DEF b
    <3>2. <<g, i + 1>> \in QueuedAt
      BY <3>1, QueuedPlaces
    <3> QED
      BY <2>1, <2>2, <3>1, <3>2
  <2>3. CASE q # g
    BY <1>2, <1>6, <1>7, <2>1, <2>3
  <2> QED
    BY <2>2, <2>3
<1>8. ASSUME NEW y \in QueuedAt \ {<<g, 1>>}
      PROVE  \E x \in QueuedAt' : queue'[x[1]][x[2]] = queue[y[1]][y[2]]
  <2>0. PICK q \in Queues : \E i \in DOMAIN queue[q] : y = <<q, i>>
    BY <1>8, QueuedPlaces
  <2>1. PICK i \in DOMAIN queue[q] : y = <<q, i>>
    BY <2>0
  <2>2. CASE q = g
    <3>1. i - 1 \in DOMAIN queue'[g] /\ queue'[g][i - 1] = queue[g][i]
      BY <1>2, <1>3, <2>1, <2>2 DEF b
    <3>2. <<g, i - 1>> \in QueuedAt'
      BY <1>4, <3>1
    <3> QED
      BY <2>1, <2>2, <3>1, <3>2
  <2>3. CASE q # g
    BY <1>2, <1>4, <2>1, <2>3
  <2> QED
    BY <2>2, <2>3
<1> QED
  BY <1>3, <1>5, <1>6, <1>7, <1>8 DEF b

-----------------------------------------------------------------------------
(* The counter, the notice, and what the goroutines have in their hands. *)

\* A put makes one more request in the queues, a get one less.
LEMMA OneMore ==
    ASSUME TypeOK, IsFiniteSet(QueuedAt), NEW g \in Queues, NEW r \in Request, Puts(g, r)
    PROVE  IsFiniteSet(QueuedAt)' /\ Cardinality(QueuedAt)' = Cardinality(QueuedAt) + 1
<1>1. PICK k : k \notin QueuedAt /\ QueuedAt' = QueuedAt \cup {k}
  BY QueueGrown
<1> QED
  BY <1>1, FS_AddElement

\* A get makes one less.
LEMMA OneLess ==
    ASSUME TypeOK, IsFiniteSet(QueuedAt), NEW g \in Queues, Gets(g)
    PROVE  IsFiniteSet(QueuedAt)' /\ Cardinality(QueuedAt)' = Cardinality(QueuedAt) - 1
<1>1. PICK k \in QueuedAt : QueuedAt' = QueuedAt \ {k}
  BY QueueShrunk
<1>2. Cardinality(QueuedAt \ {k}) = Cardinality(QueuedAt) - 1
  BY FS_RemoveElement
<1>3. IsFiniteSet(QueuedAt \ {k})
  BY FS_RemoveElement
<1> QED
  BY <1>1, <1>2, <1>3

\* A queue that holds a request counts.
LEMMA WaitingCounts ==
    ASSUME TypeOK, IsFiniteSet(QueuedAt), Waiting
    PROVE  Cardinality(QueuedAt) \in Nat /\ Cardinality(QueuedAt) >= 1
<1>1. PICK s \in Streams : current[s] # 0 /\ queue[<<s, current[s]>>] # <<>>
  BY DEF Waiting
<1>2. <<s, current[s]>> \in Queues
  BY <1>1, QueueFacts DEF TypeOK
<1>3. queue[<<s, current[s]>>] \in Seq(Request)
  BY <1>2 DEF TypeOK
<1>4. 1 \in DOMAIN queue[<<s, current[s]>>]
  BY <1>1, <1>3, HeadAndTail
<1>5. <<<<s, current[s]>>, 1>> \in QueuedAt
  BY <1>2, <1>4, QueuedPlaces
<1> QED
  BY <1>5, FS_CardinalityType, FS_EmptySet

\* What is in the queues stays as it is meant to be when one is put in or taken.
LEMMA PutTyped ==
    ASSUME TypeOK, HandsInv, NEW g \in Queues, NEW r \in Request, Puts(g, r),
           Len(queue[g]) < QueueSize, r.cmd # "NOP"
    PROVE  /\ queue' \in [Queues -> Seq(Request)]
           /\ \A q \in Queues : Len(queue'[q]) <= QueueSize
           /\ \A q \in Queues : q # g => queue'[q] = queue[q]
           /\ \A q \in Queues : \A i \in DOMAIN queue'[q] : queue'[q][i].cmd # "NOP"
<1> DEFINE b == queue[g]
<1>1. b \in Seq(Request) /\ Len(b) < QueueSize /\ \A i \in DOMAIN b : b[i].cmd # "NOP"
  BY DEF TypeOK, HandsInv
<1>2. \A q \in Queues : queue'[q] = IF q = g THEN Append(b, r) ELSE queue[q]
  BY DEF Puts, TypeOK
<1>3. queue' = [q \in Queues |-> queue'[q]]
  BY DEF Puts, TypeOK
<1> HIDE DEF b
<1>4. /\ Append(b, r) \in Seq(Request) /\ Len(Append(b, r)) = Len(b) + 1 /\ Len(b) \in Nat
      /\ \A i \in DOMAIN Append(b, r) : Append(b, r)[i].cmd # "NOP"
  BY <1>1, AppendedTo
<1>5. Len(Append(b, r)) <= QueueSize
  BY <1>1, <1>4, SendSizes
<1>6. \A q \in Queues : queue[q] \in Seq(Request) /\ Len(queue[q]) <= QueueSize
  BY DEF TypeOK
<1>7. \A q \in Queues : \A i \in DOMAIN queue[q] : queue[q][i].cmd # "NOP"
  BY DEF HandsInv
<1>8. queue' \in [Queues -> Seq(Request)]
  BY <1>2, <1>3, <1>4, <1>6
<1>9. \A q \in Queues : Len(queue'[q]) <= QueueSize
  BY <1>2, <1>5, <1>6
<1>10. \A q \in Queues : \A i \in DOMAIN queue'[q] : queue'[q][i].cmd # "NOP"
  BY <1>2, <1>4, <1>7
<1> QED
  BY <1>2, <1>8, <1>9, <1>10

\* The same for a get, and what is got is a request of a stream.
LEMMA GetTyped ==
    ASSUME TypeOK, HandsInv, NEW g \in Queues, Gets(g)
    PROVE  /\ queue' \in [Queues -> Seq(Request)]
           /\ \A q \in Queues : Len(queue'[q]) <= QueueSize
           /\ \A q \in Queues : q # g => queue'[q] = queue[q]
           /\ \A q \in Queues : \A i \in DOMAIN queue'[q] : queue'[q][i].cmd # "NOP"
           /\ Head(queue[g]) \in Request /\ Head(queue[g]).cmd # "NOP"
<1> DEFINE b == queue[g]
<1>1. /\ b \in Seq(Request) /\ b # <<>> /\ Len(b) <= QueueSize
      /\ \A i \in DOMAIN b : b[i].cmd # "NOP"
  BY DEF TypeOK, HandsInv, Gets
<1>2. \A q \in Queues : queue'[q] = IF q = g THEN Tail(b) ELSE queue[q]
  BY DEF Gets, TypeOK
<1>3. queue' = [q \in Queues |-> queue'[q]]
  BY DEF Gets, TypeOK
<1>4. /\ Tail(b) \in Seq(Request) /\ Len(Tail(b)) = Len(b) - 1 /\ Len(b) \in Nat
      /\ \A i \in DOMAIN Tail(b) : Tail(b)[i].cmd # "NOP"
      /\ Head(b) \in Request /\ Head(b).cmd # "NOP"
  <2> HIDE DEF b
  <2> QED
    BY <1>1, HeadAndTail
<1>5. Head(queue[g]) \in Request /\ Head(queue[g]).cmd # "NOP"
  BY <1>4
<1> HIDE DEF b
<1>6. Len(Tail(b)) <= QueueSize
  BY <1>1, <1>4, SendSizes
<1>7. \A q \in Queues : queue[q] \in Seq(Request) /\ Len(queue[q]) <= QueueSize
  BY DEF TypeOK
<1>8. \A q \in Queues : \A i \in DOMAIN queue[q] : queue[q][i].cmd # "NOP"
  BY DEF HandsInv
<1>9. queue' \in [Queues -> Seq(Request)]
  BY <1>2, <1>3, <1>4, <1>7
<1>10. \A q \in Queues : Len(queue'[q]) <= QueueSize
  BY <1>2, <1>6, <1>7
<1>11. \A q \in Queues : \A i \in DOMAIN queue'[q] : queue'[q][i].cmd # "NOP"
  BY <1>2, <1>4, <1>8
<1> QED
  BY <1>2, <1>5, <1>9, <1>10, <1>11

\* A caller makes its next request; a writer has no more than its chunks and the SYN.
LEMMA OfferKeeps ==
    ASSUME SendInv, NEW t \in Callers, NEW cmd, NEW s, Offer(t, cmd, s),
           NEW r \in Request, r = [cmd |-> cmd, sid |-> s, n |-> count[t] + 1],
           Owner(r) = t, \A x \in Streams : t = Writer(x) => count[t] <= PSHs[x],
           sdie' \subseteq Streams, opened' \subseteq Streams
    PROVE  SendInv'
<1>1. TypeOK'
  <2>1. count[t] + 1 \in Nat
    BY DEF SendInv, TypeOK
  <2> QED
    BY <2>1 DEF SendInv, TypeOK, Offer, mainVars, schedVars, outVars
<1>2. CallersInv'
  <2>1. /\ req'[t] = r /\ pc'[t] = "offer" /\ count'[t] = count[t] + 1
        /\ r.n = count[t] + 1
    BY DEF SendInv, TypeOK, Offer
  <2>2. ASSUME NEW x \in Callers, x # t
        PROVE  req'[x] = req[x] /\ pc'[x] = pc[x] /\ count'[x] = count[x]
    BY <2>2 DEF SendInv, TypeOK, Offer
  <2> QED
    BY <2>1, <2>2 DEF SendInv, CallersInv
<1>3. MadeInv'
  <2>1. ASSUME NEW x \in Streams
        PROVE  /\ made[x] + (IF pc'[Writer(x)] = "offer" THEN 1 ELSE 0) <= count'[Writer(x)]
               /\ count'[Writer(x)] <= PSHs[x] + 1
    <3>1. /\ made[x] + (IF pc[Writer(x)] = "offer" THEN 1 ELSE 0) <= count[Writer(x)]
          /\ count[Writer(x)] <= PSHs[x] + 1 /\ made[x] \in Int /\ count[Writer(x)] \in Int
          /\ PSHs[x] \in Int
      BY SMTT(30), CallerFacts, QueueFacts DEF SendInv, TypeOK, MadeInv
    <3>2. CASE t = Writer(x)
      <4>1. pc[t] = "idle" /\ count'[t] = count[t] + 1 /\ pc'[t] = "offer"
        BY DEF SendInv, TypeOK, Offer
      <4>2. count[t] <= PSHs[x]
        BY <3>2
      <4> QED
        BY <3>1, <3>2, <4>1, <4>2
    <3>3. CASE t # Writer(x)
      <4>1. pc'[Writer(x)] = pc[Writer(x)] /\ count'[Writer(x)] = count[Writer(x)]
        BY <3>3, CallerFacts DEF SendInv, TypeOK, Offer
      <4> QED
        BY <3>1, <4>1
    <3> QED
      BY <3>2, <3>3
  <2> QED
    BY <2>1 DEF SendInv, MadeInv, Offer
<1>4. HandsInv'
  BY DEF SendInv, HandsInv, Offer, mainVars, schedVars, outVars
<1>5. CountInv'
  BY DEF SendInv, CountInv, ReqCountExact, QueuedAt, Offer, mainVars, schedVars, outVars
<1>6. AwakeInv'
  BY DEF SendInv, AwakeInv, Waiting, Offer, mainVars, schedVars, outVars
<1> QED
  BY <1>1, <1>2, <1>3, <1>4, <1>5, <1>6 DEF SendInv

\* A caller goes back, whatever came of its request.
LEMMA ReturnKeeps ==
    ASSUME SendInv, NEW t \in Callers, pc' = [pc EXCEPT ![t] = "idle"], opened' \subseteq Streams,
           UNCHANGED <<die, sdie, count, req, mainVars, current, queue, made, reqCount,
                       writeNotify, writes, schedVars, outVars>>
    PROVE  SendInv'
<1>1. TypeOK'
  BY DEF SendInv, TypeOK, MainPC, SchedPC, mainVars, schedVars, outVars
<1>2. CallersInv'
  BY DEF SendInv, CallersInv, mainVars, schedVars, outVars
<1>3. MadeInv'
  <2>1. ASSUME NEW x \in Streams
        PROVE  made[x] + (IF pc'[Writer(x)] = "offer" THEN 1 ELSE 0) <= count[Writer(x)]
    <3>1. /\ made[x] + (IF pc[Writer(x)] = "offer" THEN 1 ELSE 0) <= count[Writer(x)]
          /\ made[x] \in Int /\ count[Writer(x)] \in Int
      BY SMTT(30), CallerFacts, QueueFacts DEF SendInv, TypeOK, MadeInv
    <3>2. pc'[Writer(x)] = pc[Writer(x)] \/ pc'[Writer(x)] = "idle"
      BY CallerFacts DEF SendInv, TypeOK
    <3> QED
      BY <3>1, <3>2
  <2> QED
    BY <2>1 DEF SendInv, MadeInv
<1>4. HandsInv'
  BY DEF SendInv, HandsInv, mainVars, schedVars, outVars
<1>5. CountInv'
  BY DEF SendInv, CountInv, ReqCountExact, QueuedAt, mainVars, schedVars, outVars
<1>6. AwakeInv'
  BY DEF SendInv, AwakeInv, Waiting, mainVars, schedVars, outVars
<1> QED
  BY <1>1, <1>2, <1>3, <1>4, <1>5, <1>6 DEF SendInv

\* Closing the session reaches what the goroutines share nowhere.
LEMMA SessionCloseKeeps ==
    ASSUME SendInv, SessionClose
    PROVE  SendInv'
<1>1. TypeOK'
  BY DEF SendInv, TypeOK, MainPC, SchedPC, SessionClose, userVars, mainVars, schedVars,
     outVars
<1>2. CallersInv'
  BY DEF SendInv, CallersInv, SessionClose, userVars, mainVars, schedVars, outVars
<1>3. MadeInv'
  BY DEF SendInv, MadeInv, SessionClose, userVars, mainVars, schedVars, outVars
<1>4. HandsInv'
  BY DEF SendInv, HandsInv, SessionClose, userVars, mainVars, schedVars, outVars
<1>5. CountInv'
  BY DEF SendInv, CountInv, ReqCountExact, QueuedAt, SessionClose, userVars, mainVars,
     schedVars, outVars
<1>6. AwakeInv'
  BY DEF SendInv, AwakeInv, Waiting, SessionClose, userVars, mainVars, schedVars,
     outVars
<1> QED
  BY <1>1, <1>2, <1>3, <1>4, <1>5, <1>6 DEF SendInv

\* What becomes of the queues when a request is taken.
LEMMA TakeFacts ==
    ASSUME SendInv, NEW t \in Callers, MainTake(t)
    PROVE  /\ \/ UNCHANGED <<target, current, made>>
              \/ UNCHANGED <<current, made>> /\ target' \in Queues
              \/ \E s \in Streams :
                    /\ t = Writer(s) /\ made[s] + 1 \in Generations /\ target' \in Queues
                    /\ current' = [current EXCEPT ![s] = made[s] + 1]
                    /\ made' = [made EXCEPT ![s] = made[s] + 1]
           /\ main' = "put" => /\ req[t].cmd # "NOP" /\ target' \in Queues
                               /\ target'[2] <= made'[target'[1]]
           /\ \A s \in Streams : \/ current'[s] = current[s]
                                 \/ current'[s] # 0 /\ queue[<<s, current'[s]>>] = <<>>
<1> DEFINE r == req[t]
<1> DEFINE s == r.sid
<1>1. r \in Request /\ Owner(r) = t /\ pc[t] = "offer"
  BY DEF SendInv, CallersInv, MainTake
<1>2. /\ r.cmd \in {"SYN", "PSH", "FIN", "NOP"} /\ (r.cmd # "NOP" => s \in Streams)
      /\ (r.cmd \in {"SYN", "PSH"} => t = Writer(s))
  BY <1>1, RequestFacts
<1>3. CASE main' = "direct" /\ UNCHANGED <<target, current, made>>
  BY <1>3
<1>4. CASE /\ r.cmd \in {"SYN", "PSH", "FIN"} /\ current[s] # 0 /\ target' = <<s, current[s]>>
           /\ UNCHANGED <<current, made>>
  <2>1. s \in Streams /\ current[s] \in Generations /\ current[s] <= made[s]
    BY <1>2, <1>4 DEF SendInv, TypeOK, MadeInv
  <2>2. target' \in Queues /\ target'[2] = current[s] /\ target'[1] = s
    BY <1>4, <2>1, QueueFacts
  <2> QED
    BY <1>4, <2>1, <2>2
<1>5. CASE /\ r.cmd \in {"SYN", "PSH"} /\ target' = <<s, made[s] + 1>> /\ current[s] = 0
           /\ current' = [current EXCEPT ![s] = made[s] + 1]
           /\ made' = [made EXCEPT ![s] = @ + 1]
  <2>1. s \in Streams /\ t = Writer(s)
    BY <1>2, <1>5
  <2>2. made[s] + 1 <= count[t] /\ count[t] <= PSHs[s] + 1
    BY <1>1, <2>1 DEF SendInv, MadeInv
  <2>3. made[s] \in Nat /\ count[t] \in Nat /\ PSHs[s] \in Nat
    BY <2>1, QueueFacts DEF SendInv, TypeOK
  <2>4. made[s] + 1 \in Nat /\ made[s] + 1 # 0 /\ made[s] + 1 <= PSHs[s] + 1
    BY <2>2, <2>3
  <2>5. made[s] + 1 \in Generations /\ target' \in Queues
    BY <1>5, <2>1, <2>4, QueueFacts
  <2>6. target'[1] = s /\ target'[2] = made[s] + 1 /\ made'[s] = made[s] + 1
    BY <1>5, <2>1, <2>5, QueueFacts DEF SendInv, TypeOK
  <2>7. made[s] + 1 <= made[s] + 1 /\ made[s] + 1 > made[s]
    BY <2>3
  <2>8. queue[<<s, made[s] + 1>>] = <<>>
    BY <1>5, <2>5, <2>6, <2>7 DEF SendInv, MadeInv
  <2>9. \A x \in Streams : current'[x] = IF x = s THEN made[s] + 1 ELSE current[x]
    BY <1>5 DEF SendInv, TypeOK
  <2> QED
    BY <1>2, <1>5, <2>1, <2>4, <2>5, <2>6, <2>7, <2>8, <2>9
<1> QED
  BY <1>3, <1>4, <1>5 DEF MainTake

\* The request that is taken is the one its caller offers, and a queue that is made
\* for it is a new one.
LEMMA MainTakeKeeps ==
    ASSUME SendInv, NEW t \in Callers, MainTake(t)
    PROVE  SendInv'
<1>1. TypeOK'
  <2>1. req[t] \in Request
    BY DEF SendInv, CallersInv, MainTake
  <2>2. CASE UNCHANGED <<target, current, made>>
    BY <2>1, <2>2 DEF SendInv, TypeOK, MainTake, MainPC, userVars, mainVars, schedVars,
       outVars
  <2>3. CASE UNCHANGED <<current, made>> /\ target' \in Queues
    BY <2>1, <2>3 DEF SendInv, TypeOK, MainTake, MainPC, userVars, mainVars, schedVars,
       outVars
  <2>4. ASSUME NEW s \in Streams, NEW g \in Generations, target' \in Queues,
               current' = [current EXCEPT ![s] = g], made' = [made EXCEPT ![s] = g]
        PROVE  TypeOK'
    <3>1. current' \in [Streams -> Generations \cup {0}]
      BY <2>4 DEF SendInv, TypeOK
    <3>2. made' \in [Streams -> Generations \cup {0}]
      BY <2>4 DEF SendInv, TypeOK
    <3> QED
      BY <2>1, <2>4, <3>1, <3>2 DEF SendInv, TypeOK, MainTake, MainPC, userVars,
         mainVars, schedVars, outVars
  <2> QED
    BY <2>2, <2>3, <2>4, TakeFacts
<1>2. CallersInv'
  <2>1. /\ UNCHANGED <<req, count>> /\ pc[t] = "offer"
        /\ \A x \in Callers : pc'[x] = IF x = t THEN "result" ELSE pc[x]
    BY DEF SendInv, TypeOK, MainTake, userVars
  <2> QED
    BY <2>1 DEF SendInv, CallersInv
<1>3. MadeInv'
  <2>1. /\ UNCHANGED <<count, queue>> /\ pc' = [pc EXCEPT ![t] = "result"]
        /\ pc[t] = "offer"
    BY DEF MainTake, userVars
  <2>2. ASSUME NEW x \in Streams
        PROVE  /\ made[x] + (IF pc[Writer(x)] = "offer" THEN 1 ELSE 0) <= count[Writer(x)]
               /\ made[x] \in Int /\ count[Writer(x)] \in Int
               /\ pc'[Writer(x)] = IF t = Writer(x) THEN "result" ELSE pc[Writer(x)]
               /\ count[Writer(x)] <= PSHs[x] + 1
               /\ current[x] <= made[x]
    <3>1. /\ made[x] + (IF pc[Writer(x)] = "offer" THEN 1 ELSE 0) <= count[Writer(x)]
          /\ count[Writer(x)] <= PSHs[x] + 1 /\ current[x] <= made[x]
      BY DEF SendInv, MadeInv
    <3>2. made[x] \in Int /\ count[Writer(x)] \in Int
      BY CallerFacts, QueueFacts DEF SendInv, TypeOK
    <3>3. pc'[Writer(x)] = IF t = Writer(x) THEN "result" ELSE pc[Writer(x)]
      BY <2>1, CallerFacts DEF SendInv, TypeOK
    <3> QED
      BY <3>1, <3>2, <3>3
  <2>3. CASE UNCHANGED <<current, made>>
    <3>1. ASSUME NEW x \in Streams
          PROVE  made[x] + (IF pc'[Writer(x)] = "offer" THEN 1 ELSE 0) <= count[Writer(x)]
      BY <2>2
    <3> QED
      BY <2>1, <2>2, <2>3, <3>1 DEF SendInv, MadeInv
  <2>4. ASSUME NEW s \in Streams, t = Writer(s), made[s] + 1 \in Generations,
               current' = [current EXCEPT ![s] = made[s] + 1],
               made' = [made EXCEPT ![s] = made[s] + 1]
        PROVE  MadeInv'
    <3>1. ASSUME NEW x \in Streams
          PROVE  /\ made'[x] + (IF pc'[Writer(x)] = "offer" THEN 1 ELSE 0) <= count[Writer(x)]
                 /\ current'[x] <= made'[x]
      <4>1. /\ made'[x] = IF x = s THEN made[s] + 1 ELSE made[x]
            /\ current'[x] = IF x = s THEN made[s] + 1 ELSE current[x]
        BY <2>4 DEF SendInv, TypeOK
      <4>2. CASE x = s
        BY <2>1, <2>2, <2>4, <4>1, <4>2
      <4>3. CASE x # s
        BY <2>2, <4>1, <4>3
      <4> QED
        BY <4>2, <4>3
    <3>2. ASSUME NEW q \in Queues, q[2] > made'[q[1]] PROVE queue[q] = <<>>
      <4>1. q[1] \in Streams /\ q[2] \in Int
        BY QueueFacts
      <4>2. made'[q[1]] = made[q[1]] \/ made'[q[1]] = made[q[1]] + 1
        BY <2>4, <4>1 DEF SendInv, TypeOK
      <4>3. q[2] > made[q[1]]
        BY <2>2, <3>2, <4>1, <4>2
      <4> QED
        BY <4>3 DEF SendInv, MadeInv
    <3> QED
      BY <2>1, <2>2, <3>1, <3>2 DEF MadeInv
  <2> QED
    BY <2>3, <2>4, TakeFacts
<1>4. HandsInv'
  <2>1. /\ main' \in {"direct", "put"} /\ inHand' = req[t] /\ req[t] \in Request
        /\ UNCHANGED <<schedVars, queue>>
    BY DEF SendInv, CallersInv, MainTake
  <2>2. main' = "put" => /\ req[t].cmd # "NOP" /\ target' \in Queues
                         /\ target'[2] <= made'[target'[1]]
    BY TakeFacts
  <2> QED
    BY <2>1, <2>2 DEF SendInv, HandsInv, schedVars
<1>5. CountInv'
  <2>1. QueuedAt' = QueuedAt /\ UNCHANGED <<sched, reqCount>>
        /\ main = "select" /\ main' \in {"direct", "put"}
    BY DEF MainTake, QueuedAt, schedVars
  <2> QED
    BY <2>1 DEF SendInv, CountInv, ReqCountExact
<1>6. AwakeInv'
  <2>1. Waiting' => Waiting
    BY TakeFacts DEF Waiting, MainTake
  <2> QED
    BY <2>1 DEF SendInv, AwakeInv, MainTake, schedVars
<1> QED
  BY <1>1, <1>2, <1>3, <1>4, <1>5, <1>6 DEF SendInv

\* A request goes into the queue that was found for it, to be counted next.
LEMMA MainPutKeeps ==
    ASSUME SendInv, MainPut
    PROVE  SendInv'
<1>0. /\ target \in Queues /\ inHand \in Request /\ inHand.cmd # "NOP"
      /\ target[2] <= made[target[1]] /\ Len(queue[target]) < QueueSize
      /\ Puts(target, inHand)
  BY DEF SendInv, HandsInv, MainPut, Puts
<1>1. TypeOK'
  <2>1. /\ queue' \in [Queues -> Seq(Request)]
        /\ \A q \in Queues : Len(queue'[q]) <= QueueSize
    BY <1>0, PutTyped DEF SendInv
  <2> QED
    BY <2>1, <1>0 DEF SendInv, TypeOK, MainPC, SchedPC, MainPut, userVars, mainVars,
       schedVars, outVars
<1>2. CallersInv'
  BY DEF SendInv, CallersInv, MainPut, userVars, mainVars, schedVars, outVars
<1>3. MadeInv'
  <2>1. \A q \in Queues : q # target => queue'[q] = queue[q]
    BY <1>0, PutTyped DEF SendInv
  <2>2. ASSUME NEW q \in Queues, q[2] > made[q[1]] PROVE queue'[q] = <<>>
    <3>1. q # target
      <4>1. made[q[1]] \in Int /\ q[2] \in Int
        BY QueueFacts DEF SendInv, TypeOK
      <4> QED
        BY <1>0, <2>2, <4>1
    <3> QED
      BY <2>1, <2>2, <3>1 DEF SendInv, MadeInv
  <2> QED
    BY <2>2 DEF SendInv, MadeInv, MainPut, userVars, mainVars, schedVars, outVars
<1>4. HandsInv'
  <2>1. \A q \in Queues : \A i \in DOMAIN queue'[q] : queue'[q][i].cmd # "NOP"
    BY <1>0, PutTyped DEF SendInv
  <2> QED
    BY <1>0, <2>1 DEF SendInv, HandsInv, MainPut, userVars, mainVars, schedVars, outVars
<1>5. CountInv'
  <2>1. IsFiniteSet(QueuedAt) /\ ReqCountExact
    BY DEF SendInv, CountInv
  <2>2. IsFiniteSet(QueuedAt') /\ Cardinality(QueuedAt') = Cardinality(QueuedAt) + 1
    BY <1>0, <2>1, OneMore DEF SendInv
  <2>3. Cardinality(QueuedAt) \in Int /\ reqCount \in Int
    BY <2>1, FS_CardinalityType DEF SendInv, TypeOK
  <2> QED
    BY <2>1, <2>2, <2>3 DEF CountInv, ReqCountExact, MainPut, schedVars
<1>6. AwakeInv'
  BY DEF SendInv, AwakeInv, Waiting, MainPut, userVars, mainVars, schedVars, outVars
<1> QED
  BY <1>1, <1>2, <1>3, <1>4, <1>5, <1>6 DEF SendInv

\* The request is counted.
LEMMA MainCountKeeps ==
    ASSUME SendInv, MainCount
    PROVE  SendInv'
<1>1. TypeOK'
  BY DEF SendInv, TypeOK, MainPC, SchedPC, MainCount, userVars, mainVars, schedVars,
     outVars
<1>2. CallersInv'
  BY DEF SendInv, CallersInv, MainCount, userVars, mainVars, schedVars, outVars
<1>3. MadeInv'
  BY DEF SendInv, MadeInv, MainCount, userVars, mainVars, schedVars, outVars
<1>4. HandsInv'
  BY DEF SendInv, HandsInv, MainCount, userVars, mainVars, schedVars, outVars
<1>5. CountInv'
  <2>1. QueuedAt' = QueuedAt
    BY DEF MainCount, QueuedAt
  <2>2. IsFiniteSet(QueuedAt) /\ ReqCountExact
    BY DEF SendInv, CountInv
  <2>3. Cardinality(QueuedAt) \in Int /\ reqCount \in Int
    BY <2>2, FS_CardinalityType DEF SendInv, TypeOK
  <2> QED
    BY <2>1, <2>2, <2>3 DEF CountInv, ReqCountExact, MainCount, schedVars
<1>6. AwakeInv'
  BY DEF SendInv, AwakeInv, Waiting, MainCount, userVars, mainVars, schedVars, outVars
<1> QED
  BY <1>1, <1>2, <1>3, <1>4, <1>5, <1>6 DEF SendInv

\* A full queue changes nothing.
LEMMA MainFullKeeps ==
    ASSUME SendInv, MainFull
    PROVE  SendInv'
<1>1. TypeOK'
  BY DEF SendInv, TypeOK, MainPC, SchedPC, MainFull, userVars, mainVars, schedVars,
     outVars
<1>2. CallersInv'
  BY DEF SendInv, CallersInv, MainFull, userVars, mainVars, schedVars, outVars
<1>3. MadeInv'
  BY DEF SendInv, MadeInv, MainFull, userVars, mainVars, schedVars, outVars
<1>4. HandsInv'
  BY DEF SendInv, HandsInv, MainFull, userVars, mainVars, schedVars, outVars
<1>5. CountInv'
  BY DEF SendInv, CountInv, ReqCountExact, QueuedAt, MainFull, userVars, mainVars,
     schedVars, outVars
<1>6. AwakeInv'
  BY DEF SendInv, AwakeInv, Waiting, MainFull, userVars, mainVars, schedVars, outVars
<1> QED
  BY <1>1, <1>2, <1>3, <1>4, <1>5, <1>6 DEF SendInv

\* One request leaves the full queue, into sendLoop's other hand.
LEMMA MainSwapOutKeeps ==
    ASSUME SendInv, MainSwapOut
    PROVE  SendInv'
<1>0. /\ target \in Queues /\ inHand \in Request /\ inHand.cmd # "NOP"
      /\ target[2] <= made[target[1]] /\ Gets(target)
      /\ pushedOut' = Head(queue[target])
      /\ Head(queue[target]) \in Request /\ Head(queue[target]).cmd # "NOP"
  <2>1. /\ target \in Queues /\ inHand \in Request /\ inHand.cmd # "NOP"
        /\ target[2] <= made[target[1]] /\ Gets(target)
        /\ pushedOut' = Head(queue[target])
    BY DEF SendInv, HandsInv, MainSwapOut, Gets
  <2>2. Head(queue[target]) \in Request /\ Head(queue[target]).cmd # "NOP"
    BY <2>1, GetTyped DEF SendInv
  <2> QED
    BY <2>1, <2>2
<1>1. TypeOK'
  <2>1. /\ queue' \in [Queues -> Seq(Request)]
        /\ \A q \in Queues : Len(queue'[q]) <= QueueSize
    BY <1>0, GetTyped DEF SendInv
  <2> QED
    BY <2>1, <1>0 DEF SendInv, TypeOK, MainPC, SchedPC, MainSwapOut, userVars, mainVars,
       schedVars, outVars
<1>2. CallersInv'
  BY DEF SendInv, CallersInv, MainSwapOut, userVars, mainVars, schedVars, outVars
<1>3. MadeInv'
  <2>1. \A q \in Queues : q # target => queue'[q] = queue[q]
    BY <1>0, GetTyped DEF SendInv
  <2>2. ASSUME NEW q \in Queues, q[2] > made[q[1]] PROVE queue'[q] = <<>>
    <3>1. q # target
      <4>1. made[q[1]] \in Int /\ q[2] \in Int
        BY QueueFacts DEF SendInv, TypeOK
      <4> QED
        BY <1>0, <2>2, <4>1
    <3> QED
      BY <2>1, <2>2, <3>1 DEF SendInv, MadeInv
  <2> QED
    BY <2>2 DEF SendInv, MadeInv, MainSwapOut, userVars, mainVars, schedVars, outVars
<1>4. HandsInv'
  <2>1. \A q \in Queues : \A i \in DOMAIN queue'[q] : queue'[q][i].cmd # "NOP"
    BY <1>0, GetTyped DEF SendInv
  <2> QED
    BY <1>0, <2>1 DEF SendInv, HandsInv, MainSwapOut, userVars, mainVars, schedVars,
       outVars
<1>5. CountInv'
  <2>1. IsFiniteSet(QueuedAt) /\ ReqCountExact
    BY DEF SendInv, CountInv
  <2>2. IsFiniteSet(QueuedAt') /\ Cardinality(QueuedAt') = Cardinality(QueuedAt) - 1
    BY <1>0, <2>1, OneLess DEF SendInv
  <2>3. Cardinality(QueuedAt) \in Int /\ reqCount \in Int
    BY <2>1, FS_CardinalityType DEF SendInv, TypeOK
  <2> QED
    BY <2>1, <2>2, <2>3 DEF CountInv, ReqCountExact, MainSwapOut, schedVars
<1>6. AwakeInv'
  BY DEF SendInv, AwakeInv, Waiting, MainSwapOut, userVars, mainVars, schedVars, outVars
<1> QED
  BY <1>1, <1>2, <1>3, <1>4, <1>5, <1>6 DEF SendInv

\* The other one takes its place, and the one pushed out is next.
LEMMA MainSwapInKeeps ==
    ASSUME SendInv, MainSwapIn
    PROVE  SendInv'
<1>0. /\ target \in Queues /\ inHand \in Request /\ inHand.cmd # "NOP"
      /\ target[2] <= made[target[1]] /\ Len(queue[target]) < QueueSize
      /\ Puts(target, inHand)
      /\ pushedOut \in Request /\ pushedOut.cmd # "NOP"
  BY DEF SendInv, HandsInv, MainSwapIn, Puts
<1>1. TypeOK'
  <2>1. /\ queue' \in [Queues -> Seq(Request)]
        /\ \A q \in Queues : Len(queue'[q]) <= QueueSize
    BY <1>0, PutTyped DEF SendInv
  <2> QED
    BY <2>1, <1>0 DEF SendInv, TypeOK, MainPC, SchedPC, MainSwapIn, userVars, mainVars,
       schedVars, outVars
<1>2. CallersInv'
  BY DEF SendInv, CallersInv, MainSwapIn, userVars, mainVars, schedVars, outVars
<1>3. MadeInv'
  <2>1. \A q \in Queues : q # target => queue'[q] = queue[q]
    BY <1>0, PutTyped DEF SendInv
  <2>2. ASSUME NEW q \in Queues, q[2] > made[q[1]] PROVE queue'[q] = <<>>
    <3>1. q # target
      <4>1. made[q[1]] \in Int /\ q[2] \in Int
        BY QueueFacts DEF SendInv, TypeOK
      <4> QED
        BY <1>0, <2>2, <4>1
    <3> QED
      BY <2>1, <2>2, <3>1 DEF SendInv, MadeInv
  <2> QED
    BY <2>2 DEF SendInv, MadeInv, MainSwapIn, userVars, mainVars, schedVars, outVars
<1>4. HandsInv'
  <2>1. \A q \in Queues : \A i \in DOMAIN queue'[q] : queue'[q][i].cmd # "NOP"
    BY <1>0, PutTyped DEF SendInv
  <2> QED
    BY <1>0, <2>1 DEF SendInv, HandsInv, MainSwapIn, userVars, mainVars, schedVars,
       outVars
<1>5. CountInv'
  <2>1. IsFiniteSet(QueuedAt) /\ ReqCountExact
    BY DEF SendInv, CountInv
  <2>2. IsFiniteSet(QueuedAt') /\ Cardinality(QueuedAt') = Cardinality(QueuedAt) + 1
    BY <1>0, <2>1, OneMore DEF SendInv
  <2>3. Cardinality(QueuedAt) \in Int /\ reqCount \in Int
    BY <2>1, FS_CardinalityType DEF SendInv, TypeOK
  <2> QED
    BY <2>1, <2>2, <2>3 DEF CountInv, ReqCountExact, MainSwapIn, schedVars
<1>6. AwakeInv'
  BY <1>0 DEF AwakeInv, MainSwapIn
<1> QED
  BY <1>1, <1>2, <1>3, <1>4, <1>5, <1>6 DEF SendInv

\* A request that passes the queues by is followed by a notice, unless it is a NOP.
LEMMA MainDirectKeeps ==
    ASSUME SendInv, MainDirect
    PROVE  SendInv'
<1>1. TypeOK'
  <2>1. writes' \in Seq(Request) /\ Len(writes') <= WritesSize
    <3>1. /\ inHand \in Request /\ writes \in Seq(Request) /\ Len(writes) < WritesSize
          /\ writes' = Append(writes, inHand)
      BY DEF SendInv, TypeOK, HandsInv, MainDirect
    <3>2. WritesSize \in Nat
      BY SendSizes
    <3> QED
      BY <3>1, <3>2, AppendedTo
  <2> QED
    BY <2>1 DEF SendInv, TypeOK, MainPC, SchedPC, MainDirect, userVars, mainVars,
       schedVars, outVars
<1>2. CallersInv'
  BY DEF SendInv, CallersInv, MainDirect, userVars, mainVars, schedVars, outVars
<1>3. MadeInv'
  BY DEF SendInv, MadeInv, MainDirect, userVars, mainVars, schedVars, outVars
<1>4. HandsInv'
  BY DEF SendInv, HandsInv, MainDirect, userVars, mainVars, schedVars, outVars
<1>5. CountInv'
  BY DEF SendInv, CountInv, ReqCountExact, QueuedAt, MainDirect, userVars, mainVars,
     schedVars, outVars
<1>6. AwakeInv'
  BY DEF SendInv, AwakeInv, Waiting, MainDirect, userVars, mainVars, schedVars, outVars
<1> QED
  BY <1>1, <1>2, <1>3, <1>4, <1>5, <1>6 DEF SendInv

\* The notice is given.
LEMMA MainNotifyKeeps ==
    ASSUME SendInv, MainNotify
    PROVE  SendInv'
<1>1. TypeOK'
  BY DEF SendInv, TypeOK, MainPC, SchedPC, MainNotify, userVars, mainVars, schedVars,
     outVars
<1>2. CallersInv'
  BY DEF SendInv, CallersInv, MainNotify, userVars, mainVars, schedVars, outVars
<1>3. MadeInv'
  BY DEF SendInv, MadeInv, MainNotify, userVars, mainVars, schedVars, outVars
<1>4. HandsInv'
  BY DEF SendInv, HandsInv, MainNotify, userVars, mainVars, schedVars, outVars
<1>5. CountInv'
  BY DEF SendInv, CountInv, ReqCountExact, QueuedAt, MainNotify, userVars, mainVars,
     schedVars, outVars
<1>6. AwakeInv'
  BY DEF SendInv, AwakeInv, Waiting, MainNotify, userVars, mainVars, schedVars, outVars
<1> QED
  BY <1>1, <1>2, <1>3, <1>4, <1>5, <1>6 DEF SendInv

\* sendLoop ends.
LEMMA MainExitKeeps ==
    ASSUME SendInv, MainExit
    PROVE  SendInv'
<1>1. TypeOK'
  BY DEF SendInv, TypeOK, MainPC, SchedPC, MainExit, userVars, mainVars, schedVars,
     outVars
<1>2. CallersInv'
  BY DEF SendInv, CallersInv, MainExit, userVars, mainVars, schedVars, outVars
<1>3. MadeInv'
  BY DEF SendInv, MadeInv, MainExit, userVars, mainVars, schedVars, outVars
<1>4. HandsInv'
  BY DEF SendInv, HandsInv, MainExit, userVars, mainVars, schedVars, outVars
<1>5. CountInv'
  BY DEF SendInv, CountInv, ReqCountExact, QueuedAt, MainExit, userVars, mainVars,
     schedVars, outVars
<1>6. AwakeInv'
  BY DEF SendInv, AwakeInv, Waiting, MainExit, userVars, mainVars, schedVars, outVars
<1> QED
  BY <1>1, <1>2, <1>3, <1>4, <1>5, <1>6 DEF SendInv

\* The scheduler takes the notice.
LEMMA SchedWakeKeeps ==
    ASSUME SendInv, SchedWake
    PROVE  SendInv'
<1>1. TypeOK'
  BY ZenonT(40) DEF SendInv, TypeOK, MainPC, SchedPC, SchedWake, userVars, mainVars, schedVars,
     outVars
<1>2. CallersInv'
  BY DEF SendInv, CallersInv, SchedWake, userVars, mainVars, schedVars, outVars
<1>3. MadeInv'
  BY DEF SendInv, MadeInv, SchedWake, userVars, mainVars, schedVars, outVars
<1>4. HandsInv'
  BY DEF SendInv, HandsInv, SchedWake, userVars, mainVars, schedVars, outVars
<1>5. CountInv'
  BY DEF SendInv, CountInv, ReqCountExact, QueuedAt, SchedWake, userVars, mainVars,
     schedVars, outVars
<1>6. AwakeInv'
  BY DEF SendInv, AwakeInv, Waiting, SchedWake, userVars, mainVars, schedVars, outVars
<1> QED
  BY <1>1, <1>2, <1>3, <1>4, <1>5, <1>6 DEF SendInv

\* The scheduler ends.
LEMMA SchedExitKeeps ==
    ASSUME SendInv, SchedExit
    PROVE  SendInv'
<1>1. TypeOK'
  BY DEF SendInv, TypeOK, MainPC, SchedPC, SchedExit, userVars, mainVars, schedVars,
     outVars
<1>2. CallersInv'
  BY DEF SendInv, CallersInv, SchedExit, userVars, mainVars, schedVars, outVars
<1>3. MadeInv'
  BY DEF SendInv, MadeInv, SchedExit, userVars, mainVars, schedVars, outVars
<1>4. HandsInv'
  BY DEF SendInv, HandsInv, SchedExit, userVars, mainVars, schedVars, outVars
<1>5. CountInv'
  BY DEF SendInv, CountInv, ReqCountExact, QueuedAt, SchedExit, userVars, mainVars,
     schedVars, outVars
<1>6. AwakeInv'
  BY DEF SendInv, AwakeInv, Waiting, SchedExit, userVars, mainVars, schedVars, outVars
<1> QED
  BY <1>1, <1>2, <1>3, <1>4, <1>5, <1>6 DEF SendInv

\* The scheduler makes its list of the streams.
LEMMA SchedListKeeps ==
    ASSUME SendInv, SchedList
    PROVE  SendInv'
<1>1. TypeOK'
  BY DEF SendInv, TypeOK, MainPC, SchedPC, SchedList, userVars, mainVars, schedVars,
     outVars
<1>2. CallersInv'
  BY DEF SendInv, CallersInv, SchedList, userVars, mainVars, schedVars, outVars
<1>3. MadeInv'
  BY DEF SendInv, MadeInv, SchedList, userVars, mainVars, schedVars, outVars
<1>4. HandsInv'
  BY DEF SendInv, HandsInv, SchedList, userVars, mainVars, schedVars, outVars
<1>5. CountInv'
  BY DEF SendInv, CountInv, ReqCountExact, QueuedAt, SchedList, userVars, mainVars,
     schedVars, outVars
<1>6. AwakeInv'
  BY DEF SendInv, AwakeInv, Waiting, SchedList, userVars, mainVars, schedVars, outVars
<1> QED
  BY <1>1, <1>2, <1>3, <1>4, <1>5, <1>6 DEF SendInv

\* It goes to sleep only when the counter, and then what it counts, is down to the
\* request that sendLoop has yet to count.
LEMMA SchedCheckKeeps ==
    ASSUME SendInv, SchedCheck
    PROVE  SendInv'
<1>1. TypeOK'
  BY DEF SendInv, TypeOK, MainPC, SchedPC, SchedCheck, userVars, mainVars, schedVars,
     outVars
<1>2. CallersInv'
  BY DEF SendInv, CallersInv, SchedCheck, userVars, mainVars, schedVars, outVars
<1>3. MadeInv'
  BY DEF SendInv, MadeInv, SchedCheck, userVars, mainVars, schedVars, outVars
<1>4. HandsInv'
  BY DEF SendInv, HandsInv, SchedCheck, userVars, mainVars, schedVars, outVars
<1>5. CountInv'
  BY DEF SendInv, CountInv, ReqCountExact, QueuedAt, SchedCheck, userVars, mainVars,
     schedVars, outVars
<1>6. AwakeInv'
  <2>1. ASSUME Waiting, ~(reqCount > 0) PROVE main = "count"
    <3>1. Cardinality(QueuedAt) \in Nat /\ Cardinality(QueuedAt) >= 1
      BY <2>1, WaitingCounts DEF SendInv, CountInv
    <3> QED
      BY <2>1, <3>1 DEF SendInv, TypeOK, CountInv, ReqCountExact, SchedCheck
  <2>2. Waiting' = Waiting
    BY DEF Waiting, SchedCheck
  <2> QED
    BY <2>1, <2>2 DEF AwakeInv, SchedCheck, mainVars
<1> QED
  BY <1>1, <1>2, <1>3, <1>4, <1>5, <1>6 DEF SendInv

\* The scheduler takes the first request of a queue.
TakenFrom(g) ==
    /\ Gets(g)
    /\ picked' = Head(queue[g])
    /\ sched' = IF Head(queue[g]).cmd = "FIN" THEN "delete" ELSE "write"

Taken == \E g \in Queues : TakenFrom(g)

\* The next stream of a round has nothing, or its first request is taken.
LEMMA ScanFacts ==
    ASSUME SendInv, SchedScan
    PROVE  round' \subseteq Streams /\ (UNCHANGED <<sched, picked, queue>> \/ Taken)
<1> DEFINE s == CHOOSE x \in round : \A y \in round : x <= y
<1> DEFINE q == <<s, current[s]>>
<1>1. round \subseteq Streams /\ round # {} /\ sched = "scan"
  BY DEF SendInv, TypeOK, SchedScan
<1>2. IsFiniteSet(round) /\ round \subseteq Nat
  BY <1>1, SendSizes, FS_Subset
<1>3. \E x \in round : \A y \in round : x <= y
  BY <1>1, <1>2, Smallest
<1>4. s \in Streams
  BY <1>1, <1>3
<1>5. /\ round' = round \ {s}
      /\ IF current[s] = 0 \/ (current[s] # 0 /\ queue[q] = <<>>)
           THEN UNCHANGED <<sched, picked, queue>>
           ELSE /\ picked' = Head(queue[q])
                /\ queue' = [queue EXCEPT ![q] = Tail(@)]
                /\ sched' = IF picked'.cmd = "FIN" THEN "delete" ELSE "write"
  BY DEF SchedScan
<1> HIDE DEF s
<1>6. CASE current[s] = 0 \/ (current[s] # 0 /\ queue[q] = <<>>)
  BY <1>1, <1>5, <1>6
<1>7. CASE ~(current[s] = 0 \/ (current[s] # 0 /\ queue[q] = <<>>))
  <2>1. q \in Queues
    BY <1>4, <1>7, QueueFacts DEF SendInv, TypeOK
  <2>2. TakenFrom(q)
    BY <1>5, <1>7 DEF TakenFrom, Gets
  <2> QED
    BY <1>1, <1>5, <2>1, <2>2 DEF Taken
<1> QED
  BY <1>6, <1>7

\* The next stream's first request is taken, if it has one.
LEMMA SchedScanKeeps ==
    ASSUME SendInv, SchedScan
    PROVE  SendInv'
<1>0. round' \subseteq Streams /\ (UNCHANGED <<sched, picked, queue>> \/ Taken)
  BY ScanFacts
<1>1. TypeOK'
  <2>1. CASE UNCHANGED <<sched, picked, queue>>
    BY <1>0, <2>1 DEF SendInv, TypeOK, SchedScan, userVars, mainVars, schedVars, outVars
  <2>2. CASE Taken
    <3>1. PICK g \in Queues : TakenFrom(g)
      BY <2>2 DEF Taken
    <3>2. /\ queue' \in [Queues -> Seq(Request)]
          /\ \A q \in Queues : Len(queue'[q]) <= QueueSize
          /\ Head(queue[g]) \in Request
      BY <3>1, GetTyped DEF SendInv, TakenFrom
    <3> QED
      BY <1>0, <3>1, <3>2 DEF SendInv, TypeOK, SchedScan, TakenFrom, SchedPC, userVars,
         mainVars, schedVars, outVars
  <2> QED
    BY <1>0, <2>1, <2>2
<1>2. CallersInv'
  BY DEF SendInv, CallersInv, SchedScan, userVars
<1>3. MadeInv'
  <2>1. CASE UNCHANGED queue
    BY <2>1 DEF SendInv, MadeInv, SchedScan, userVars
  <2>2. CASE Taken
    <3>1. PICK g \in Queues : TakenFrom(g)
      BY <2>2 DEF Taken
    <3>2. \A q \in Queues : q # g => queue'[q] = queue[q]
      BY <3>1, GetTyped DEF SendInv, TakenFrom
    <3>3. ASSUME NEW q \in Queues, q[2] > made[q[1]] PROVE queue'[q] = <<>>
      <4>1. queue[q] = <<>>
        BY <3>3 DEF SendInv, MadeInv
      <4>2. q # g
        BY <3>1, <4>1 DEF TakenFrom, Gets
      <4> QED
        BY <3>2, <4>1, <4>2
    <3> QED
      BY <3>3 DEF SendInv, MadeInv, SchedScan, userVars
  <2> QED
    BY <1>0, <2>1, <2>2
<1>4. HandsInv'
  <2>1. CASE UNCHANGED <<sched, picked, queue>>
    BY <2>1 DEF SendInv, HandsInv, SchedScan, mainVars
  <2>2. CASE Taken
    <3>1. PICK g \in Queues : TakenFrom(g)
      BY <2>2 DEF Taken
    <3>2. /\ \A q \in Queues : \A i \in DOMAIN queue'[q] : queue'[q][i].cmd # "NOP"
          /\ Head(queue[g]) \in Request
      BY <3>1, GetTyped DEF SendInv, TakenFrom
    <3> QED
      BY <3>1, <3>2 DEF SendInv, HandsInv, SchedScan, TakenFrom, mainVars
  <2> QED
    BY <1>0, <2>1, <2>2
<1>5. CountInv'
  <2>1. IsFiniteSet(QueuedAt) /\ ReqCountExact
    BY DEF SendInv, CountInv
  <2>2. CASE UNCHANGED <<sched, picked, queue>>
    <3>1. QueuedAt' = QueuedAt
      BY <2>2 DEF QueuedAt
    <3> QED
      BY <2>1, <2>2, <3>1 DEF CountInv, ReqCountExact, SchedScan, mainVars
  <2>3. CASE Taken
    <3>1. PICK g \in Queues : TakenFrom(g)
      BY <2>3 DEF Taken
    <3>2. IsFiniteSet(QueuedAt') /\ Cardinality(QueuedAt') = Cardinality(QueuedAt) - 1
      BY <2>1, <3>1, OneLess DEF SendInv, TakenFrom
    <3>3. Cardinality(QueuedAt) \in Int /\ reqCount \in Int
      BY <2>1, FS_CardinalityType DEF SendInv, TypeOK
    <3>4. sched = "scan" /\ sched' \in {"delete", "write"} /\ UNCHANGED <<main, reqCount>>
      BY <3>1 DEF SchedScan, TakenFrom, mainVars
    <3> QED
      BY <2>1, <3>2, <3>3, <3>4 DEF CountInv, ReqCountExact
  <2> QED
    BY <1>0, <2>2, <2>3
<1>6. AwakeInv'
  <2>1. sched' # "wait"
    BY <1>0 DEF SchedScan, Taken, TakenFrom
  <2> QED
    BY <2>1 DEF AwakeInv
<1> QED
  BY <1>1, <1>2, <1>3, <1>4, <1>5, <1>6 DEF SendInv

\* A round is over, and the counter is read again.
LEMMA SchedRoundOverKeeps ==
    ASSUME SendInv, SchedRoundOver
    PROVE  SendInv'
<1>1. TypeOK'
  BY DEF SendInv, TypeOK, MainPC, SchedPC, SchedRoundOver, userVars, mainVars,
     schedVars, outVars
<1>2. CallersInv'
  BY DEF SendInv, CallersInv, SchedRoundOver, userVars, mainVars, schedVars, outVars
<1>3. MadeInv'
  BY DEF SendInv, MadeInv, SchedRoundOver, userVars, mainVars, schedVars, outVars
<1>4. HandsInv'
  BY DEF SendInv, HandsInv, SchedRoundOver, userVars, mainVars, schedVars, outVars
<1>5. CountInv'
  BY DEF SendInv, CountInv, ReqCountExact, QueuedAt, SchedRoundOver, userVars, mainVars,
     schedVars, outVars
<1>6. AwakeInv'
  BY DEF SendInv, AwakeInv, Waiting, SchedRoundOver, userVars, mainVars, schedVars,
     outVars
<1> QED
  BY <1>1, <1>2, <1>3, <1>4, <1>5, <1>6 DEF SendInv

\* The queue of a stream that is finished is forgotten.
LEMMA SchedDeleteKeeps ==
    ASSUME SendInv, SchedDelete
    PROVE  SendInv'
<1>1. TypeOK'
  <2>1. picked.sid \in Streams
    BY RequestFacts DEF SendInv, HandsInv, SchedDelete
  <2> QED
    BY <2>1 DEF SendInv, TypeOK, SchedPC, SchedDelete, userVars, mainVars, schedVars,
       outVars
<1>2. CallersInv'
  BY DEF SendInv, CallersInv, SchedDelete, userVars, mainVars, schedVars, outVars
<1>3. MadeInv'
  <2>1. ASSUME NEW s \in Streams PROVE current'[s] <= made[s]
    <3>1. current'[s] = current[s] \/ current'[s] = 0
      BY DEF SendInv, TypeOK, SchedDelete
    <3>2. made[s] \in Nat /\ current[s] <= made[s]
      BY QueueFacts DEF SendInv, TypeOK, MadeInv
    <3> QED
      BY <3>1, <3>2
  <2> QED
    BY <2>1 DEF SendInv, MadeInv, SchedDelete, userVars
<1>4. HandsInv'
  BY DEF SendInv, HandsInv, SchedDelete, userVars, mainVars, schedVars, outVars
<1>5. CountInv'
  BY DEF SendInv, CountInv, ReqCountExact, QueuedAt, SchedDelete, userVars, mainVars,
     schedVars, outVars
<1>6. AwakeInv'
  BY DEF SendInv, AwakeInv, Waiting, SchedDelete, userVars, mainVars, schedVars, outVars
<1> QED
  BY <1>1, <1>2, <1>3, <1>4, <1>5, <1>6 DEF SendInv

\* What was taken goes to the writer.
LEMMA SchedWriteKeeps ==
    ASSUME SendInv, SchedWrite
    PROVE  SendInv'
<1>1. TypeOK'
  <2>1. writes' \in Seq(Request) /\ Len(writes') <= WritesSize
    <3>1. /\ picked \in Request /\ writes \in Seq(Request) /\ Len(writes) < WritesSize
          /\ writes' = Append(writes, picked)
      BY DEF SendInv, TypeOK, HandsInv, SchedWrite
    <3>2. WritesSize \in Nat
      BY SendSizes
    <3> QED
      BY <3>1, <3>2, AppendedTo
  <2> QED
    BY <2>1 DEF SendInv, TypeOK, MainPC, SchedPC, SchedWrite, userVars, mainVars,
       schedVars, outVars
<1>2. CallersInv'
  BY DEF SendInv, CallersInv, SchedWrite, userVars, mainVars, schedVars, outVars
<1>3. MadeInv'
  BY DEF SendInv, MadeInv, SchedWrite, userVars, mainVars, schedVars, outVars
<1>4. HandsInv'
  BY DEF SendInv, HandsInv, SchedWrite, userVars, mainVars, schedVars, outVars
<1>5. CountInv'
  BY DEF SendInv, CountInv, ReqCountExact, QueuedAt, SchedWrite, userVars, mainVars,
     schedVars, outVars
<1>6. AwakeInv'
  BY DEF SendInv, AwakeInv, Waiting, SchedWrite, userVars, mainVars, schedVars, outVars
<1> QED
  BY <1>1, <1>2, <1>3, <1>4, <1>5, <1>6 DEF SendInv

\* It is deducted.
LEMMA SchedDecKeeps ==
    ASSUME SendInv, SchedDec
    PROVE  SendInv'
<1>1. TypeOK'
  BY DEF SendInv, TypeOK, MainPC, SchedPC, SchedDec, userVars, mainVars, schedVars,
     outVars
<1>2. CallersInv'
  BY DEF SendInv, CallersInv, SchedDec, userVars, mainVars, schedVars, outVars
<1>3. MadeInv'
  BY DEF SendInv, MadeInv, SchedDec, userVars, mainVars, schedVars, outVars
<1>4. HandsInv'
  BY DEF SendInv, HandsInv, SchedDec, userVars, mainVars, schedVars, outVars
<1>5. CountInv'
  <2>1. QueuedAt' = QueuedAt
    BY DEF SchedDec, QueuedAt
  <2>2. IsFiniteSet(QueuedAt) /\ ReqCountExact
    BY DEF SendInv, CountInv
  <2>3. Cardinality(QueuedAt) \in Int /\ reqCount \in Int
    BY <2>2, FS_CardinalityType DEF SendInv, TypeOK
  <2> QED
    BY <2>1, <2>2, <2>3 DEF CountInv, ReqCountExact, SchedDec, mainVars
<1>6. AwakeInv'
  BY DEF SendInv, AwakeInv, Waiting, SchedDec, userVars, mainVars, schedVars, outVars
<1> QED
  BY <1>1, <1>2, <1>3, <1>4, <1>5, <1>6 DEF SendInv

\* The writer takes the first request to the connection.
LEMMA ConnWriteKeeps ==
    ASSUME SendInv, ConnWrite
    PROVE  SendInv'
<1>1. TypeOK'
  <2>1. /\ writes \in Seq(Request) /\ writes # <<>> /\ Len(writes) <= WritesSize
        /\ writes' = Tail(writes)
    BY DEF SendInv, TypeOK, ConnWrite
  <2>2. /\ Head(writes) \in Request /\ Tail(writes) \in Seq(Request)
        /\ Len(Tail(writes)) = Len(writes) - 1 /\ Len(writes) \in Nat
    BY <2>1, HeadAndTail
  <2>3. WritesSize \in Nat
    BY SendSizes
  <2>4. writes' \in Seq(Request) /\ Len(writes') <= WritesSize
    BY <2>1, <2>2, <2>3
  <2>5. wire' \in [Streams \cup {0} -> Seq(Request)]
    <3>1. CASE wire' = [wire EXCEPT ![Head(writes).sid] = Append(@, Head(writes))]
      <4>1. wire[Head(writes).sid] \in Seq(Request)
        BY <2>2, RequestFacts DEF SendInv, TypeOK
      <4>2. Append(wire[Head(writes).sid], Head(writes)) \in Seq(Request)
        BY <2>2, <4>1, AppendedTo
      <4> QED
        BY <3>1, <4>2 DEF SendInv, TypeOK
    <3>2. CASE UNCHANGED wire
      BY <3>2 DEF SendInv, TypeOK
    <3> QED
      BY <3>1, <3>2 DEF ConnWrite
  <2> QED
    BY <2>2, <2>4, <2>5 DEF SendInv, TypeOK, ConnWrite, userVars, mainVars, schedVars,
       outVars
<1>2. CallersInv'
  BY DEF SendInv, CallersInv, ConnWrite, userVars, mainVars, schedVars, outVars
<1>3. MadeInv'
  BY DEF SendInv, MadeInv, ConnWrite, userVars, mainVars, schedVars, outVars
<1>4. HandsInv'
  BY DEF SendInv, HandsInv, ConnWrite, userVars, mainVars, schedVars, outVars
<1>5. CountInv'
  BY DEF SendInv, CountInv, ReqCountExact, QueuedAt, ConnWrite, userVars, mainVars,
     schedVars, outVars
<1>6. AwakeInv'
  BY DEF SendInv, AwakeInv, Waiting, ConnWrite, userVars, mainVars, schedVars, outVars
<1> QED
  BY <1>1, <1>2, <1>3, <1>4, <1>5, <1>6 DEF SendInv

\* The writer ends.
LEMMA WriterExitKeeps ==
    ASSUME SendInv, WriterExit
    PROVE  SendInv'
<1>1. TypeOK'
  BY ZenonT(40) DEF SendInv, TypeOK, MainPC, SchedPC, WriterExit, userVars, mainVars, schedVars,
     outVars
<1>2. CallersInv'
  BY DEF SendInv, CallersInv, WriterExit, userVars, mainVars, schedVars, outVars
<1>3. MadeInv'
  BY DEF SendInv, MadeInv, WriterExit, userVars, mainVars, schedVars, outVars
<1>4. HandsInv'
  BY DEF SendInv, HandsInv, WriterExit, userVars, mainVars, schedVars, outVars
<1>5. CountInv'
  BY DEF SendInv, CountInv, ReqCountExact, QueuedAt, WriterExit, userVars, mainVars,
     schedVars, outVars
<1>6. AwakeInv'
  BY DEF SendInv, AwakeInv, Waiting, WriterExit, userVars, mainVars, schedVars, outVars
<1> QED
  BY <1>1, <1>2, <1>3, <1>4, <1>5, <1>6 DEF SendInv

-----------------------------------------------------------------------------
\* Nothing has been made, and nothing waits.
LEMMA SendInit ==
    ASSUME Init
    PROVE  SendInv
<1>1. TypeOK
  <2>1. QueueSize \in Nat /\ WritesSize \in Nat /\ Accepted \subseteq Streams
    BY SendSizes
  <2>2. <<>> \in Seq(Request) /\ Len(<<>>) = 0 /\ DOMAIN queue = Queues
        /\ \A q \in Queues : queue[q] = <<>>
    BY EmptySeq DEF Init
  <2>3. /\ queue \in [Queues -> Seq(Request)]
        /\ \A q \in Queues : Len(queue[q]) <= QueueSize
    BY <2>1, <2>2 DEF Init
  <2>4. /\ writes \in Seq(Request) /\ Len(writes) <= WritesSize
        /\ wire \in [Streams \cup {0} -> Seq(Request)]
    BY <2>1, <2>2 DEF Init
  <2>5. /\ count \in [Callers -> Nat] /\ req \in [Callers -> Request \cup {None}]
        /\ pc \in [Callers -> {"idle", "offer", "result"}]
        /\ current \in [Streams -> Generations \cup {0}]
        /\ made \in [Streams -> Generations \cup {0}]
    BY DEF Init
  <2>6. /\ sdie \subseteq Streams /\ opened \subseteq Streams
        /\ main \in MainPC /\ sched \in SchedPC /\ reqCount \in Int
        /\ round \subseteq Streams /\ answered \subseteq Request
    BY <2>1 DEF Init, MainPC, SchedPC
  <2>8. die \in BOOLEAN /\ writeNotify \in BOOLEAN /\ writing \in BOOLEAN
    BY DEF Init
  <2>7. /\ inHand \in Request \cup {None} /\ pushedOut \in Request \cup {None}
        /\ picked \in Request \cup {None} /\ target \in Queues \cup {<<0, 0>>}
    BY DEF Init
  <2> QED
    BY <2>3, <2>4, <2>5, <2>6, <2>7, <2>8 DEF TypeOK
<1>2. CallersInv
  BY DEF Init, CallersInv
<1>3. MadeInv
  <2>1. ASSUME NEW s \in Streams
        PROVE  /\ made[s] = 0 /\ current[s] = 0
               /\ count[Writer(s)] = 0 /\ pc[Writer(s)] = "idle" /\ PSHs[s] \in Nat
    BY CallerFacts, QueueFacts DEF Init
  <2>2. \A q \in Queues : queue[q] = <<>>
    BY DEF Init
  <2> QED
    BY <2>1, <2>2 DEF MadeInv
<1>4. HandsInv
  <2>1. \A q \in Queues : DOMAIN queue[q] = {}
    BY DEF Init
  <2> QED
    BY <2>1 DEF Init, HandsInv
<1>5. CountInv
  <2>1. \A q \in Queues : DOMAIN queue[q] = {}
    BY DEF Init
  <2>2. QueuedAt = {}
    BY <2>1, QueuedPlaces
  <2>3. IsFiniteSet(QueuedAt) /\ Cardinality(QueuedAt) = 0
    BY <2>2, FS_EmptySet
  <2> QED
    BY <2>3 DEF Init, CountInv, ReqCountExact
<1>6. AwakeInv
  BY DEF Init, AwakeInv, Waiting
<1> QED
  BY <1>1, <1>2, <1>3, <1>4, <1>5, <1>6 DEF SendInv

\* The four requests there are, each by the caller it belongs to.
LEMMA OpenStreamKeeps ==
    ASSUME SendInv, NEW s \in Streams, OpenStream(s)
    PROVE  SendInv'
<1> DEFINE t == Writer(s)
<1> DEFINE r == [cmd |-> "SYN", sid |-> s, n |-> count[t] + 1]
<1>1. t \in Callers /\ count[t] \in Nat /\ count[t] = 0 /\ PSHs[s] \in Nat
  BY CallerFacts, QueueFacts DEF SendInv, TypeOK, OpenStream
<1>2. r \in Request /\ Owner(r) = t
  BY <1>1 DEF Request, Owner
<1>3. \A x \in Streams : t = Writer(x) => count[t] <= PSHs[x]
  BY <1>1, CallerFacts
<1>4. Offer(t, "SYN", s) /\ sdie' \subseteq Streams /\ opened' \subseteq Streams
  BY DEF SendInv, TypeOK, OpenStream
<1> HIDE DEF t, r
<1> QED
  BY <1>1, <1>2, <1>3, <1>4, OfferKeeps DEF r

\* A Write offers a PSH.
LEMMA WriteKeeps ==
    ASSUME SendInv, NEW s \in Streams, Write(s)
    PROVE  SendInv'
<1> DEFINE t == Writer(s)
<1> DEFINE r == [cmd |-> "PSH", sid |-> s, n |-> count[t] + 1]
<1>1. t \in Callers /\ count[t] \in Nat /\ PSHs[s] \in Nat
  BY CallerFacts, QueueFacts DEF SendInv, TypeOK
<1>2. r \in Request /\ Owner(r) = t
  BY <1>1 DEF Request, Owner
<1>3. count[t] <= PSHs[s]
  BY <1>1 DEF Write
<1>4. \A x \in Streams : t = Writer(x) => count[t] <= PSHs[x]
  BY <1>3, CallerFacts
<1>5. Offer(t, "PSH", s) /\ sdie' \subseteq Streams /\ opened' \subseteq Streams
  BY DEF SendInv, TypeOK, Write
<1> HIDE DEF t, r
<1> QED
  BY <1>1, <1>2, <1>4, <1>5, OfferKeeps DEF r

\* A Close offers the FIN.
LEMMA CloseStreamKeeps ==
    ASSUME SendInv, NEW s \in Streams, CloseStream(s)
    PROVE  SendInv'
<1> DEFINE t == Closer(s)
<1> DEFINE r == [cmd |-> "FIN", sid |-> s, n |-> count[t] + 1]
<1>1. t \in Callers /\ count[t] \in Nat
  BY CallerFacts DEF SendInv, TypeOK
<1>2. r \in Request /\ Owner(r) = t
  BY <1>1 DEF Request, Owner
<1>3. \A x \in Streams : t # Writer(x)
  BY CallerFacts
<1>4. Offer(t, "FIN", s) /\ sdie' \subseteq Streams /\ opened' \subseteq Streams
  BY DEF SendInv, TypeOK, CloseStream
<1> HIDE DEF t, r
<1> QED
  BY <1>1, <1>2, <1>3, <1>4, OfferKeeps DEF r

\* keepalive offers a NOP, which belongs to no stream.
LEMMA SendControlKeeps ==
    ASSUME SendInv, SendControl
    PROVE  SendInv'
<1> DEFINE t == Keepalive
<1> DEFINE r == [cmd |-> "NOP", sid |-> 0, n |-> count[t] + 1]
<1>1. t \in Callers /\ count[t] \in Nat
  BY CallerFacts DEF SendInv, TypeOK
<1>2. r \in Request /\ Owner(r) = t
  BY <1>1 DEF Request, Owner
<1>3. \A x \in Streams : t # Writer(x)
  BY CallerFacts
<1>4. Offer(t, "NOP", 0) /\ sdie' \subseteq Streams /\ opened' \subseteq Streams
  BY DEF SendInv, TypeOK, SendControl
<1> HIDE DEF t, r
<1> QED
  BY <1>1, <1>2, <1>3, <1>4, OfferKeeps DEF r

\* The three ways back.
LEMMA WriteGivesUpKeeps ==
    ASSUME SendInv, NEW s \in Streams, WriteGivesUp(s)
    PROVE  SendInv'
<1>1. /\ Writer(s) \in Callers /\ opened' \subseteq Streams
      /\ pc' = [pc EXCEPT ![Writer(s)] = "idle"]
  BY CallerFacts DEF SendInv, TypeOK, WriteGivesUp, userVars
<1>2. UNCHANGED <<die, sdie, count, req, mainVars, current, queue, made, reqCount,
                  writeNotify, writes, schedVars, outVars>>
  BY DEF WriteGivesUp, userVars
<1> QED
  BY <1>1, <1>2, ReturnKeeps

\* Any caller may find the session closed.
LEMMA WriteFrameFailsKeeps ==
    ASSUME SendInv, NEW t \in Callers, WriteFrameFails(t)
    PROVE  SendInv'
<1>1. opened' \subseteq Streams /\ pc' = [pc EXCEPT ![t] = "idle"]
  BY DEF SendInv, TypeOK, WriteFrameFails, userVars
<1>2. UNCHANGED <<die, sdie, count, req, mainVars, current, queue, made, reqCount,
                  writeNotify, writes, schedVars, outVars>>
  BY DEF WriteFrameFails, userVars
<1> QED
  BY <1>1, <1>2, ReturnKeeps

\* Or the answer has come.
LEMMA ResultKeeps ==
    ASSUME SendInv, NEW t \in Callers, Result(t)
    PROVE  SendInv'
<1>1. req[t] \in Request /\ pc' = [pc EXCEPT ![t] = "idle"]
  BY DEF SendInv, CallersInv, Result
<1>2. req[t].cmd = "SYN" => req[t].sid \in Streams
  BY <1>1, RequestFacts
<1>3. opened' \subseteq Streams
  BY <1>2 DEF SendInv, TypeOK, Result
<1>4. UNCHANGED <<die, sdie, count, req, mainVars, current, queue, made, reqCount,
                  writeNotify, writes, schedVars, outVars>>
  BY DEF Result
<1> QED
  BY <1>1, <1>3, <1>4, ReturnKeeps

\* Every step keeps the invariant.
LEMMA SendNext ==
    ASSUME SendInv, [Next]_vars
    PROVE  SendInv'
<1>1. CASE \E s \in Streams : OpenStream(s) \/ Write(s) \/ CloseStream(s) \/ WriteGivesUp(s)
  BY <1>1, OpenStreamKeeps, WriteKeeps, CloseStreamKeeps, WriteGivesUpKeeps
<1>2. CASE \E t \in Callers : Result(t) \/ WriteFrameFails(t)
  BY <1>2, ResultKeeps, WriteFrameFailsKeeps
<1>3. CASE SendControl \/ SessionClose
  BY <1>3, SendControlKeeps, SessionCloseKeeps
<1>4. CASE Main
  BY <1>4, MainTakeKeeps, MainPutKeeps, MainCountKeeps, MainFullKeeps, MainSwapOutKeeps,
     MainSwapInKeeps, MainDirectKeeps, MainNotifyKeeps, MainExitKeeps DEF Main
<1>5. CASE Scheduler
  BY <1>5, SchedWakeKeeps, SchedExitKeeps, SchedCheckKeeps, SchedListKeeps,
     SchedScanKeeps, SchedRoundOverKeeps, SchedDeleteKeeps, SchedWriteKeeps, SchedDecKeeps DEF Scheduler
<1>6. CASE ConnWriter
  BY <1>6, ConnWriteKeeps, WriterExitKeeps DEF ConnWriter
<1>7. CASE UNCHANGED vars
  <2>1. QueuedAt' = QueuedAt
    BY <1>7 DEF vars, QueuedAt
  <2>2. TypeOK' /\ CallersInv'
    BY <1>7 DEF SendInv, TypeOK, CallersInv, vars, userVars, mainVars, schedVars,
       outVars
  <2>3. MadeInv' /\ HandsInv' /\ AwakeInv'
    BY <1>7 DEF SendInv, MadeInv, HandsInv, AwakeInv, Waiting, vars, userVars, mainVars,
                schedVars, outVars
  <2>4. CountInv'
    BY <1>7, <2>1 DEF SendInv, CountInv, ReqCountExact, vars, mainVars, schedVars
  <2> QED
    BY <2>2, <2>3, <2>4 DEF SendInv
<1> QED
  BY <1>1, <1>2, <1>3, <1>4, <1>5, <1>6, <1>7 DEF Next

\* The inductive invariant holds in every state of every behaviour.
THEOREM SendInvariant == Spec => []SendInv
<1>1. Init => SendInv
  BY SendInit
<1>2. SendInv /\ [Next]_vars => SendInv'
  BY SendNext
<1> QED
  BY <1>1, <1>2, PTL DEF Spec, Safety

\* Every variable keeps its type; so no queue and no channel is over its capacity
\* although two goroutines put and take without a common lock.
THEOREM SendTyped == Spec => []TypeOK
<1>1. SendInv => TypeOK
  BY DEF SendInv
<1> QED
  BY <1>1, SendInvariant, PTL

\* reqCount counts the requests in the queues, give or take those that sendLoop and
\* the scheduler have in their hands, however the two interleave.
THEOREM ReqCountRight == Spec => []ReqCountExact
<1>1. SendInv => ReqCountExact
  BY DEF SendInv, CountInv
<1> QED
  BY <1>1, SendInvariant, PTL

\* The scheduler never sleeps over a request in a queue of streamQueues without a
\* notice that is given or about to be.
THEOREM SchedulerStaysAwake == Spec => []SchedulerAwake
<1>1. SendInv => SchedulerAwake
  BY DEF SendInv, AwakeInv, Waiting, SchedulerAwake
<1> QED
  BY <1>1, SendInvariant, PTL

-----------------------------------------------------------------------------
(* The places of the requests. *)

\* One more element at the end, which was not there, leaves all elements different.
LEMMA RangeGrown ==
    ASSUME NEW S, NEW q \in Seq(S), NEW x \in S
    PROVE  /\ Range(Append(q, x)) = Range(q) \cup {x}
           /\ IsInjective(q) /\ x \notin Range(q) => IsInjective(Append(q, x))
<1>1. /\ Len(q) + 1 \in DOMAIN Append(q, x) /\ Append(q, x)[Len(q) + 1] = x
      /\ \A i \in DOMAIN q : i \in DOMAIN Append(q, x) /\ Append(q, x)[i] = q[i]
      /\ \A i \in DOMAIN Append(q, x) : i \in DOMAIN q \/ i = Len(q) + 1
  BY AppendedTo
<1> DEFINE p == Append(q, x)
<1> HIDE DEF p
<1>2. Range(p) = Range(q) \cup {x}
  BY <1>1 DEF Range, p
<1>3. ASSUME IsInjective(q), x \notin Range(q), NEW i \in DOMAIN p, NEW j \in DOMAIN p, p[i] = p[j]
      PROVE  i = j
  <2>1. \A k \in DOMAIN q : q[k] # x
    BY <1>3 DEF Range
  <2> QED
    BY <1>1, <1>3, <2>1 DEF IsInjective, p
<1> QED
  BY <1>2, <1>3 DEF IsInjective, p

\* Without its first element a queue of different ones holds just the others.
LEMMA RangeShrunk ==
    ASSUME NEW S, NEW q \in Seq(S), q # <<>>, IsInjective(q)
    PROVE  /\ Range(Tail(q)) = Range(q) \ {Head(q)}
           /\ Head(q) \in Range(q)
           /\ IsInjective(Tail(q))
<1>1. /\ Head(q) = q[1] /\ 1 \in DOMAIN q
      /\ \A i \in DOMAIN Tail(q) : /\ i + 1 \in DOMAIN q /\ Tail(q)[i] = q[i + 1]
                                   /\ i \in Nat /\ i + 1 # 1
      /\ \A i \in DOMAIN q : i = 1 \/ (i - 1 \in DOMAIN Tail(q) /\ Tail(q)[i - 1] = q[i])
  BY HeadAndTail
<1> DEFINE p == Tail(q)
<1> HIDE DEF p
<1>2. \A i \in DOMAIN p : p[i] # q[1]
  BY <1>1 DEF IsInjective, p
<1>3. Range(p) = Range(q) \ {q[1]}
  <2>1. ASSUME NEW x \in Range(p) PROVE x \in Range(q) \ {q[1]}
    BY <1>1, <1>2, <2>1 DEF Range, p
  <2>2. ASSUME NEW x \in Range(q), x # q[1] PROVE x \in Range(p)
    <3>1. PICK i \in DOMAIN q : x = q[i]
      BY <2>2 DEF Range
    <3>2. i - 1 \in DOMAIN p /\ p[i - 1] = x
      BY <1>1, <2>2, <3>1 DEF p
    <3> QED
      BY <3>2 DEF Range
  <2> QED
    BY <2>1, <2>2
<1>4. ASSUME NEW i \in DOMAIN p, NEW j \in DOMAIN p, p[i] = p[j]
      PROVE  i = j
  <2>1. i + 1 = j + 1 /\ i \in Nat /\ j \in Nat
    BY <1>1, <1>4 DEF IsInjective, p
  <2> QED
    BY <2>1
<1> QED
  BY <1>1, <1>3, <1>4 DEF IsInjective, Range, p

\* The same for the queues together.
LEMMA QueuesGrown ==
    ASSUME TypeOK, NEW g \in Queues, NEW r \in Request, Puts(g, r)
    PROVE  /\ AtQueues' = AtQueues \cup {r}
           /\ QueuedOnce /\ r \notin AtQueues => QueuedOnce'
<1>1. PICK k : /\ k \notin QueuedAt /\ QueuedAt' = QueuedAt \cup {k}
               /\ queue'[k[1]][k[2]] = r
  BY QueueGrown
<1>2. \A l \in QueuedAt : queue'[l[1]][l[2]] = queue[l[1]][l[2]]
  BY QueueGrown
<1>3. AtQueues' = AtQueues \cup {r}
  BY <1>1, <1>2 DEF AtQueues
<1>4. ASSUME QueuedOnce, r \notin AtQueues, NEW l \in QueuedAt', NEW m \in QueuedAt',
             queue'[l[1]][l[2]] = queue'[m[1]][m[2]]
      PROVE  l = m
  <2>1. \A x \in QueuedAt : queue[x[1]][x[2]] # r
    BY <1>4 DEF AtQueues
  <2> QED
    BY <1>1, <1>2, <1>4, <2>1 DEF QueuedOnce
<1> QED
  BY <1>3, <1>4 DEF QueuedOnce

\* A get takes its request out of the queues, where it was once.
LEMMA QueuesShrunk ==
    ASSUME TypeOK, QueuedOnce, NEW g \in Queues, Gets(g)
    PROVE  /\ AtQueues' = AtQueues \ {Head(queue[g])}
           /\ Head(queue[g]) \in AtQueues
           /\ Head(queue[g]) \in Request
           /\ QueuedOnce'
<1> DEFINE h == Head(queue[g])
<1> DEFINE o == <<g, 1>>
<1>1. /\ o \in QueuedAt /\ queue[o[1]][o[2]] = h /\ h \in Request
      /\ \A x \in QueuedAt' : \E y \in QueuedAt \ {o} :
            /\ queue'[x[1]][x[2]] = queue[y[1]][y[2]]
            /\ y = IF x[1] = g THEN <<g, x[2] + 1>> ELSE x
      /\ \A y \in QueuedAt \ {o} : \E x \in QueuedAt' :
            queue'[x[1]][x[2]] = queue[y[1]][y[2]]
      /\ \A x \in QueuedAt' : x[1] = g => x = <<g, x[2]>> /\ x[2] \in Nat
  BY QueueShrunk
<1> HIDE DEF h, o
<1>2. \A y \in QueuedAt \ {o} : queue[y[1]][y[2]] # h
  BY <1>1 DEF QueuedOnce
<1>3. AtQueues' = AtQueues \ {h}
  <2>1. ASSUME NEW r \in AtQueues' PROVE r \in AtQueues \ {h}
    <3>1. PICK x \in QueuedAt' : r = queue'[x[1]][x[2]]
      BY <2>1 DEF AtQueues
    <3>2. PICK y \in QueuedAt \ {o} : queue'[x[1]][x[2]] = queue[y[1]][y[2]]
      BY <1>1, <3>1
    <3> QED
      BY <1>2, <3>1, <3>2 DEF AtQueues
  <2>2. ASSUME NEW r \in AtQueues, r # h PROVE r \in AtQueues'
    <3>1. PICK y \in QueuedAt : r = queue[y[1]][y[2]]
      BY <2>2 DEF AtQueues
    <3>2. PICK x \in QueuedAt' : queue'[x[1]][x[2]] = queue[y[1]][y[2]]
      BY <1>1, <2>2, <3>1
    <3> QED
      BY <3>1, <3>2 DEF AtQueues
  <2> QED
    BY <2>1, <2>2
<1>4. h \in AtQueues
  BY <1>1 DEF AtQueues
<1>5. ASSUME NEW k \in QueuedAt', NEW l \in QueuedAt',
             queue'[k[1]][k[2]] = queue'[l[1]][l[2]]
      PROVE  k = l
  <2>1. PICK x \in QueuedAt : /\ queue'[k[1]][k[2]] = queue[x[1]][x[2]]
                              /\ x = IF k[1] = g THEN <<g, k[2] + 1>> ELSE k
    BY <1>1, <1>5
  <2>2. PICK y \in QueuedAt : /\ queue'[l[1]][l[2]] = queue[y[1]][y[2]]
                              /\ y = IF l[1] = g THEN <<g, l[2] + 1>> ELSE l
    BY <1>1, <1>5
  <2>3. x = y
    BY <1>5, <2>1, <2>2 DEF QueuedOnce
  <2>4. CASE k[1] = g /\ l[1] = g
    <3>1. k[2] + 1 = l[2] + 1
      BY <2>1, <2>2, <2>3, <2>4
    <3> QED
      <4>1. k = <<g, k[2]>> /\ l = <<g, l[2]>> /\ k[2] \in Nat /\ l[2] \in Nat
        BY <1>1, <1>5, <2>4
      <4>2. k[2] = l[2]
        BY <3>1, <4>1
      <4> QED
        BY <4>1, <4>2
  <2>5. CASE k[1] # g /\ l[1] # g
    BY <2>1, <2>2, <2>3, <2>5
  <2>6. CASE (k[1] = g) # (l[1] = g)
    <3>1. x[1] # y[1]
      BY <2>1, <2>2, <2>6
    <3> QED
      BY <2>3, <3>1
  <2> QED
    BY <2>4, <2>5, <2>6
<1> QED
  BY <1>1, <1>3, <1>4, <1>5 DEF QueuedOnce, h

\* What the callers do makes more requests past, and never fewer.
LEMMA PastOffered ==
    ASSUME SendInv, NEW t \in Callers, NEW cmd, NEW s, Offer(t, cmd, s)
    PROVE  Past \subseteq Past' /\ WaitedFor' = WaitedFor
<1>1. /\ pc[t] = "idle" /\ pc'[t] = "offer" /\ count[t] \in Nat /\ count'[t] = count[t] + 1
      /\ req'[t].n = count[t] + 1
      /\ \A x \in Callers : x # t =>
            pc'[x] = pc[x] /\ count'[x] = count[x] /\ req'[x] = req[x]
      /\ answered' = answered
  BY DEF SendInv, TypeOK, Offer, outVars
<1>2. ASSUME NEW r \in Past PROVE r \in Past'
  <2>1. /\ r \in Request /\ Owner(r) \in Callers /\ r.n \in Nat
        /\ r.n <= count[Owner(r)] /\ ~(pc[Owner(r)] = "offer" /\ req[Owner(r)] = r)
    BY <1>2, RequestFacts DEF Past
  <2>2. CASE Owner(r) = t
    <3>1. r.n <= count'[t] /\ req'[t] # r
      BY <1>1, <2>1, <2>2
    <3> QED
      BY <2>1, <2>2, <3>1 DEF Past
  <2>3. CASE Owner(r) # t
    BY <1>1, <2>1, <2>3 DEF Past
  <2> QED
    BY <2>2, <2>3
<1>3. WaitedFor' = WaitedFor
  <2>1. \A x \in Callers : pc'[x] = "result" <=> pc[x] = "result"
    BY <1>1
  <2>2. \A x \in Callers : pc[x] = "result" => req'[x] = req[x]
    BY <1>1
  <2> QED
    BY <1>1, <2>1, <2>2 DEF WaitedFor
<1> QED
  BY <1>2, <1>3

\* A caller that returns has nothing more to wait for.
LEMMA PastReturned ==
    ASSUME SendInv, NEW t \in Callers, pc' = [pc EXCEPT ![t] = "idle"],
           UNCHANGED <<count, req, answered>>
    PROVE  Past \subseteq Past' /\ WaitedFor' \subseteq WaitedFor
<1>1. \A x \in Callers : pc'[x] = pc[x] \/ pc'[x] = "idle"
  BY DEF SendInv, TypeOK
<1>2. ASSUME NEW r \in Past PROVE r \in Past'
  <2>1. /\ r \in Request /\ Owner(r) \in Callers
        /\ r.n <= count[Owner(r)] /\ ~(pc[Owner(r)] = "offer" /\ req[Owner(r)] = r)
    BY <1>2, RequestFacts DEF Past
  <2> QED
    BY <1>1, <2>1 DEF Past
<1> QED
  BY <1>1, <1>2 DEF WaitedFor

\* sendLoop takes a request: from now on it has been made, and is waited for.
LEMMA PastTaken ==
    ASSUME SendInv, NEW t \in Callers, MainTake(t)
    PROVE  /\ Past \subseteq Past' /\ req[t] \in Past' /\ req[t] \notin Past
           /\ WaitedFor' \subseteq WaitedFor \cup {req[t]}
<1>1. /\ pc[t] = "offer" /\ pc'[t] = "result" /\ UNCHANGED <<count, req, answered>>
      /\ \A x \in Callers : x # t => pc'[x] = pc[x]
  BY DEF SendInv, TypeOK, MainTake, userVars, outVars
<1>2. /\ req[t] \in Request /\ Owner(req[t]) = t /\ req[t].n = count[t]
      /\ count[t] \in Nat
  BY <1>1 DEF SendInv, CallersInv, TypeOK
<1>3. ASSUME NEW r \in Past PROVE r \in Past'
  <2>1. /\ r \in Request /\ Owner(r) \in Callers
        /\ r.n <= count[Owner(r)] /\ ~(pc[Owner(r)] = "offer" /\ req[Owner(r)] = r)
    BY <1>3, RequestFacts DEF Past
  <2> QED
    BY <1>1, <2>1 DEF Past
<1>4. req[t] \in Past'
  BY <1>1, <1>2 DEF Past
<1>5. req[t] \notin Past
  BY <1>1, <1>2 DEF Past
<1>6. WaitedFor' \subseteq WaitedFor \cup {req[t]}
  BY <1>1 DEF WaitedFor
<1> QED
  BY <1>3, <1>4, <1>5, <1>6

\* A step that moves no request.
LEMMA NothingMoves ==
    ASSUME PlaceInv, UNCHANGED <<queue, writes, wire, answered>>,
           AtMain' = AtMain, AtSched' = AtSched,
           main' = "swapput" => main = "swapput" /\ UNCHANGED <<inHand, pushedOut>>,
           Past \subseteq Past', WaitedFor' \subseteq WaitedFor
    PROVE  PlaceInv'
<1>1. AtQueues' = AtQueues /\ AtWriter' = AtWriter /\ OnWire' = OnWire
  BY DEF AtQueues, QueuedAt, AtWriter, OnWire
<1>2. QueuedOnce' /\ WritingOnce' /\ WireOnce'
  BY DEF PlaceInv, QueuedOnce, QueuedAt, WritingOnce, WireOnce
<1>3. Apart'
  BY <1>1 DEF PlaceInv, Apart
<1>4. Held' = Held
  BY <1>1 DEF Held
<1>5. Order' /\ WaitedFor' \subseteq Held'
  BY <1>1, <1>4 DEF PlaceInv, Order
<1>6. main' = "swapput" => inHand' # pushedOut'
  BY DEF PlaceInv
<1> QED
  BY <1>2, <1>3, <1>5, <1>6 DEF PlaceInv

\* The steps of the goroutines that only count, give notice, look or end.
LEMMA IdleSteps ==
    ASSUME PlaceInv,
           \/ SessionClose \/ MainCount \/ MainFull \/ MainNotify \/ MainExit
           \/ SchedWake \/ SchedExit \/ SchedCheck \/ SchedList \/ SchedRoundOver \/ SchedDelete
           \/ SchedDec \/ WriterExit
    PROVE  PlaceInv'
<1>1. /\ UNCHANGED <<queue, writes, wire, answered, count, pc, req, inHand, pushedOut, picked>>
      /\ main' = "swapput" => main = "swapput"
  BY DEF SessionClose, MainCount, MainFull, MainNotify, MainExit, SchedWake, SchedExit,
         SchedCheck, SchedList, SchedRoundOver, SchedDelete, SchedDec, WriterExit,
         userVars,
         mainVars, schedVars, outVars
<1>2. AtMain' = AtMain
  BY DEF AtMain, SessionClose, MainCount, MainFull, MainNotify, MainExit, SchedWake,
     SchedExit,
         SchedCheck, SchedList, SchedRoundOver, SchedDelete, SchedDec, WriterExit,
         userVars,
         mainVars, schedVars, outVars
<1>3. AtSched' = AtSched
  BY DEF AtSched, SessionClose, MainCount, MainFull, MainNotify, MainExit, SchedWake,
     SchedExit,
         SchedCheck, SchedList, SchedRoundOver, SchedDelete, SchedDec, WriterExit,
         userVars,
         mainVars, schedVars, outVars
<1>4. Past' = Past /\ WaitedFor' = WaitedFor
  BY <1>1 DEF Past, WaitedFor
<1> QED
  BY <1>1, <1>2, <1>3, <1>4, NothingMoves

\* The steps of the callers.
LEMMA OfferMoves ==
    ASSUME SendInv, PlaceInv, NEW t \in Callers, NEW cmd, NEW s, Offer(t, cmd, s)
    PROVE  PlaceInv'
<1>1. UNCHANGED <<queue, writes, wire, answered, main, inHand, pushedOut, sched, picked>>
  BY DEF Offer, userVars, mainVars, schedVars, outVars
<1>2. AtMain' = AtMain /\ AtSched' = AtSched
  BY <1>1 DEF AtMain, AtSched
<1> QED
  BY <1>1, <1>2, PastOffered, NothingMoves

\* A caller that returns moves nothing.
LEMMA ReturnMoves ==
    ASSUME SendInv, PlaceInv, NEW t \in Callers, pc' = [pc EXCEPT ![t] = "idle"],
           UNCHANGED <<count, req, mainVars, queue, writes, schedVars, outVars>>
    PROVE  PlaceInv'
<1>1. UNCHANGED <<queue, writes, wire, answered, main, inHand, pushedOut, sched, picked>>
  BY DEF userVars, mainVars, schedVars, outVars
<1>2. AtMain' = AtMain /\ AtSched' = AtSched
  BY <1>1 DEF AtMain, AtSched
<1>3. Past \subseteq Past' /\ WaitedFor' \subseteq WaitedFor
  BY <1>1, PastReturned
<1> QED
  BY <1>1, <1>2, <1>3, NothingMoves

\* A request comes into sendLoop's hands, and its caller waits for it from then on.
LEMMA MainTakeMoves ==
    ASSUME SendInv, PlaceInv, NEW t \in Callers, MainTake(t)
    PROVE  PlaceInv'
<1>1. /\ UNCHANGED <<queue, writes, wire, answered, sched, picked>>
      /\ main = "select" /\ main' \in {"put", "direct"} /\ inHand' = req[t]
  BY DEF SendInv, HandsInv, MainTake, userVars, mainVars, schedVars, outVars
<1>2. AtQueues' = AtQueues /\ QueuedOnce'
  BY <1>1 DEF PlaceInv, AtQueues, QueuedAt, QueuedOnce
<1>3. AtWriter' = AtWriter /\ WritingOnce'
  BY <1>1 DEF PlaceInv, AtWriter, WritingOnce
<1>4. OnWire' = OnWire /\ WireOnce'
  BY <1>1 DEF PlaceInv, OnWire, WireOnce
<1>5. AtSched' = AtSched
  BY <1>1 DEF AtSched
<1>6. AtMain = {} /\ AtMain' = {req[t]} /\ answered' = answered /\ main' # "swapput"
  BY <1>1 DEF AtMain
<1>7. /\ Past \subseteq Past' /\ req[t] \in Past' /\ req[t] \notin Past
      /\ WaitedFor' \subseteq WaitedFor \cup {req[t]}
  BY PastTaken
<1>8. Apart'
  BY <1>2, <1>3, <1>4, <1>5, <1>6, <1>7 DEF PlaceInv, Apart, Order, Held
<1>9. Order'
  BY <1>2, <1>3, <1>4, <1>5, <1>6, <1>7 DEF PlaceInv, Apart, Order, Held
<1>10. WaitedFor' \subseteq Held'
  BY <1>2, <1>3, <1>4, <1>5, <1>6, <1>7 DEF PlaceInv, Order, Held
<1> QED
  BY <1>2, <1>3, <1>4, <1>6, <1>8, <1>9, <1>10 DEF PlaceInv

\* The request goes from sendLoop's hands to a queue.
LEMMA MainPutMoves ==
    ASSUME SendInv, PlaceInv, MainPut
    PROVE  PlaceInv'
<1>1. /\ UNCHANGED <<writes, wire, answered, count, pc, req, sched, picked>>
      /\ target \in Queues /\ inHand \in Request /\ Puts(target, inHand)
      /\ main = "put" /\ main' = "count"
  BY DEF SendInv, HandsInv, MainPut, Puts, userVars, mainVars, schedVars, outVars
<1>2. AtWriter' = AtWriter /\ WritingOnce'
  BY <1>1 DEF PlaceInv, AtWriter, WritingOnce
<1>3. OnWire' = OnWire /\ WireOnce'
  BY <1>1 DEF PlaceInv, OnWire, WireOnce
<1>4. Past' = Past /\ WaitedFor' = WaitedFor
  BY <1>1 DEF Past, WaitedFor
<1>5. AtSched' = AtSched
  BY <1>1 DEF AtSched
<1>6. AtMain = {inHand} /\ AtMain' = {} /\ answered' = answered /\ main' # "swapput"
  BY <1>1 DEF AtMain
<1>7. inHand \notin AtQueues
  BY <1>6 DEF PlaceInv, Apart
<1>8. AtQueues' = AtQueues \cup {inHand} /\ QueuedOnce'
  BY <1>1, <1>7, QueuesGrown DEF SendInv, PlaceInv
<1>9. Apart'
  BY <1>2, <1>3, <1>4, <1>5, <1>6, <1>8 DEF PlaceInv, Apart, Order, Held
<1>10. Order'
  BY <1>2, <1>3, <1>4, <1>5, <1>6, <1>8 DEF PlaceInv, Apart, Order, Held
<1>11. WaitedFor' \subseteq Held'
  BY <1>2, <1>3, <1>4, <1>5, <1>6, <1>8 DEF PlaceInv, Order, Held
<1> QED
  BY <1>2, <1>3, <1>6, <1>8, <1>9, <1>10, <1>11 DEF PlaceInv

\* The one in one hand goes to the queue, the one in the other hand stays.
LEMMA MainSwapInMoves ==
    ASSUME SendInv, PlaceInv, MainSwapIn
    PROVE  PlaceInv'
<1>1. /\ UNCHANGED <<writes, wire, answered, count, pc, req, sched, picked>>
      /\ target \in Queues /\ inHand \in Request /\ Puts(target, inHand)
      /\ main = "swapput" /\ main' = "direct" /\ inHand' = pushedOut
  BY DEF SendInv, HandsInv, MainSwapIn, Puts, userVars, mainVars, schedVars, outVars
<1>2. AtWriter' = AtWriter /\ WritingOnce'
  BY <1>1 DEF PlaceInv, AtWriter, WritingOnce
<1>3. OnWire' = OnWire /\ WireOnce'
  BY <1>1 DEF PlaceInv, OnWire, WireOnce
<1>4. Past' = Past /\ WaitedFor' = WaitedFor
  BY <1>1 DEF Past, WaitedFor
<1>5. AtSched' = AtSched
  BY <1>1 DEF AtSched
<1>6. /\ AtMain = {inHand, pushedOut} /\ AtMain' = {pushedOut} /\ answered' = answered
      /\ main' # "swapput" /\ inHand # pushedOut
  BY <1>1 DEF PlaceInv, AtMain
<1>7. inHand \notin AtQueues
  BY <1>6 DEF PlaceInv, Apart
<1>8. AtQueues' = AtQueues \cup {inHand} /\ QueuedOnce'
  BY <1>1, <1>7, QueuesGrown DEF SendInv, PlaceInv
<1>9. Apart'
  BY <1>2, <1>3, <1>4, <1>5, <1>6, <1>8 DEF PlaceInv, Apart, Order, Held
<1>10. Order'
  BY <1>2, <1>3, <1>4, <1>5, <1>6, <1>8 DEF PlaceInv, Apart, Order, Held
<1>11. WaitedFor' \subseteq Held'
  BY <1>2, <1>3, <1>4, <1>5, <1>6, <1>8 DEF PlaceInv, Order, Held
<1> QED
  BY <1>2, <1>3, <1>6, <1>8, <1>9, <1>10, <1>11 DEF PlaceInv

\* One request goes from a queue to sendLoop's other hand.
LEMMA MainSwapOutMoves ==
    ASSUME SendInv, PlaceInv, MainSwapOut
    PROVE  PlaceInv'
<1>1. /\ UNCHANGED <<writes, wire, answered, count, pc, req, sched, picked, inHand>>
      /\ target \in Queues /\ Gets(target) /\ pushedOut' = Head(queue[target])
      /\ main = "swap" /\ main' = "swapput"
  BY DEF SendInv, HandsInv, MainSwapOut, Gets, userVars, mainVars, schedVars, outVars
<1>2. AtWriter' = AtWriter /\ WritingOnce'
  BY <1>1 DEF PlaceInv, AtWriter, WritingOnce
<1>3. OnWire' = OnWire /\ WireOnce'
  BY <1>1 DEF PlaceInv, OnWire, WireOnce
<1>4. Past' = Past /\ WaitedFor' = WaitedFor
  BY <1>1 DEF Past, WaitedFor
<1>5. AtSched' = AtSched
  BY <1>1 DEF AtSched
<1>6. /\ AtQueues' = AtQueues \ {pushedOut'} /\ QueuedOnce' /\ pushedOut' \in AtQueues
  BY <1>1, QueuesShrunk DEF SendInv, PlaceInv
<1>7. AtMain = {inHand} /\ AtMain' = {inHand, pushedOut'} /\ answered' = answered
  BY <1>1 DEF AtMain
<1>8. inHand' # pushedOut'
  BY <1>1, <1>6, <1>7 DEF PlaceInv, Apart
<1>9. Apart'
  BY <1>2, <1>3, <1>4, <1>5, <1>6, <1>7, <1>8 DEF PlaceInv, Apart, Order, Held
<1>10. Order'
  BY <1>2, <1>3, <1>4, <1>5, <1>6, <1>7, <1>8 DEF PlaceInv, Apart, Order, Held
<1>11. WaitedFor' \subseteq Held'
  BY <1>2, <1>3, <1>4, <1>5, <1>6, <1>7, <1>8 DEF PlaceInv, Order, Held
<1> QED
  BY <1>2, <1>3, <1>6, <1>8, <1>9, <1>10, <1>11 DEF PlaceInv

\* The request goes from sendLoop's hands to the writer.
LEMMA MainDirectMoves ==
    ASSUME SendInv, PlaceInv, MainDirect
    PROVE  PlaceInv'
<1>1. /\ UNCHANGED <<queue, wire, answered, count, pc, req, sched, picked>>
      /\ writes' = Append(writes, inHand) /\ inHand \in Request /\ writes \in Seq(Request)
      /\ main = "direct" /\ main' \in {"select", "notify"}
  BY DEF SendInv, TypeOK, HandsInv, MainDirect, userVars, mainVars, schedVars, outVars
<1>2. AtQueues' = AtQueues /\ QueuedOnce'
  BY <1>1 DEF PlaceInv, AtQueues, QueuedAt, QueuedOnce
<1>3. OnWire' = OnWire /\ WireOnce'
  BY <1>1 DEF PlaceInv, OnWire, WireOnce
<1>4. Past' = Past /\ WaitedFor' = WaitedFor
  BY <1>1 DEF Past, WaitedFor
<1>5. AtSched' = AtSched
  BY <1>1 DEF AtSched
<1>6. AtMain = {inHand} /\ AtMain' = {} /\ answered' = answered /\ main' # "swapput"
  BY <1>1 DEF AtMain
<1>7. inHand \notin AtWriter
  BY <1>6 DEF PlaceInv, Apart
<1>8. AtWriter' = AtWriter \cup {inHand} /\ WritingOnce'
  BY <1>1, <1>7, RangeGrown DEF PlaceInv, AtWriter, WritingOnce
<1>9. Apart'
  BY <1>2, <1>3, <1>4, <1>5, <1>6, <1>8 DEF PlaceInv, Apart, Order, Held
<1>10. Order'
  BY <1>2, <1>3, <1>4, <1>5, <1>6, <1>8 DEF PlaceInv, Apart, Order, Held
<1>11. WaitedFor' \subseteq Held'
  BY <1>2, <1>3, <1>4, <1>5, <1>6, <1>8 DEF PlaceInv, Order, Held
<1> QED
  BY <1>2, <1>3, <1>6, <1>8, <1>9, <1>10, <1>11 DEF PlaceInv

\* The request goes from the scheduler's hands to the writer.
LEMMA SchedWriteMoves ==
    ASSUME SendInv, PlaceInv, SchedWrite
    PROVE  PlaceInv'
<1>1. /\ UNCHANGED <<queue, wire, answered, count, pc, req, main, inHand, pushedOut>>
      /\ writes' = Append(writes, picked) /\ picked \in Request /\ writes \in Seq(Request)
      /\ sched = "write" /\ sched' = "dec"
  BY DEF SendInv, TypeOK, HandsInv, SchedWrite, userVars, mainVars, schedVars, outVars
<1>2. AtQueues' = AtQueues /\ QueuedOnce'
  BY <1>1 DEF PlaceInv, AtQueues, QueuedAt, QueuedOnce
<1>3. OnWire' = OnWire /\ WireOnce'
  BY <1>1 DEF PlaceInv, OnWire, WireOnce
<1>4. Past' = Past /\ WaitedFor' = WaitedFor
  BY <1>1 DEF Past, WaitedFor
<1>5. AtMain' = AtMain
  BY <1>1 DEF AtMain
<1>6. AtSched = {picked} /\ AtSched' = {} /\ answered' = answered
  BY <1>1 DEF AtSched
<1>7. picked \notin AtWriter
  BY <1>6 DEF PlaceInv, Apart
<1>8. AtWriter' = AtWriter \cup {picked} /\ WritingOnce'
  BY <1>1, <1>7, RangeGrown DEF PlaceInv, AtWriter, WritingOnce
<1>9. main' = "swapput" => inHand' # pushedOut'
  BY <1>1 DEF PlaceInv
<1>10. Apart'
  BY <1>2, <1>3, <1>4, <1>5, <1>6, <1>8 DEF PlaceInv, Apart, Order, Held
<1>11. Order'
  BY <1>2, <1>3, <1>4, <1>5, <1>6, <1>8 DEF PlaceInv, Apart, Order, Held
<1>12. WaitedFor' \subseteq Held'
  BY <1>2, <1>3, <1>4, <1>5, <1>6, <1>8 DEF PlaceInv, Order, Held
<1> QED
  BY <1>2, <1>3, <1>6, <1>8, <1>9, <1>10, <1>11, <1>12 DEF PlaceInv

\* A request goes from a queue to the scheduler's hands.
LEMMA SchedScanMoves ==
    ASSUME SendInv, PlaceInv, SchedScan
    PROVE  PlaceInv'
<1>1. CASE UNCHANGED <<sched, picked, queue>>
  <2>1. /\ UNCHANGED <<writes, wire, answered, count, pc, req, main, inHand, pushedOut>>
    BY DEF SchedScan, userVars, mainVars, schedVars, outVars
  <2>2. AtMain' = AtMain /\ AtSched' = AtSched /\ Past' = Past /\ WaitedFor' = WaitedFor
    BY <1>1, <2>1 DEF AtMain, AtSched, Past, WaitedFor
  <2> QED
    BY <1>1, <2>1, <2>2, NothingMoves
<1>2. ASSUME NEW g \in Queues, TakenFrom(g) PROVE PlaceInv'
  <2>1. /\ UNCHANGED <<writes, wire, answered, count, pc, req, main, inHand, pushedOut>>
        /\ Gets(g) /\ picked' = Head(queue[g])
        /\ sched = "scan" /\ sched' \in {"delete", "write"}
    BY <1>2 DEF SchedScan, TakenFrom, userVars, mainVars, schedVars, outVars
  <2>2. AtWriter' = AtWriter /\ WritingOnce'
    BY <2>1 DEF PlaceInv, AtWriter, WritingOnce
  <2>3. OnWire' = OnWire /\ WireOnce'
    BY <2>1 DEF PlaceInv, OnWire, WireOnce
  <2>4. Past' = Past /\ WaitedFor' = WaitedFor
    BY <2>1 DEF Past, WaitedFor
  <2>5. AtMain' = AtMain
    BY <2>1 DEF AtMain
  <2>6. main' = "swapput" => inHand' # pushedOut'
    BY <2>1 DEF PlaceInv
  <2>7. AtQueues' = AtQueues \ {picked'} /\ QueuedOnce' /\ picked' \in AtQueues
    BY <2>1, QueuesShrunk DEF SendInv, PlaceInv
  <2>8. AtSched = {} /\ AtSched' = {picked'} /\ answered' = answered
    BY <2>1 DEF AtSched
  <2>9. Apart'
    BY <2>2, <2>3, <2>4, <2>5, <2>7, <2>8 DEF PlaceInv, Apart, Order, Held
  <2>10. Order'
    BY <2>2, <2>3, <2>4, <2>5, <2>7, <2>8 DEF PlaceInv, Apart, Order, Held
  <2>11. WaitedFor' \subseteq Held'
    BY <2>2, <2>3, <2>4, <2>5, <2>7, <2>8 DEF PlaceInv, Order, Held
  <2> QED
    BY <2>2, <2>3, <2>6, <2>7, <2>9, <2>10, <2>11 DEF PlaceInv
<1> QED
  BY <1>1, <1>2, ScanFacts DEF Taken

\* The request leaves the channel and is answered, whether or not it reaches the wire.
LEMMA ConnWriteMoves ==
    ASSUME SendInv, PlaceInv, ConnWrite
    PROVE  PlaceInv'
<1>1. /\ UNCHANGED <<queue, count, pc, req, main, inHand, pushedOut, sched, picked>>
      /\ writes' = Tail(writes) /\ writes # <<>> /\ writes \in Seq(Request)
      /\ answered' = answered \cup {Head(writes)}
  BY DEF SendInv, TypeOK, ConnWrite, userVars, mainVars, schedVars, outVars
<1>2. AtQueues' = AtQueues /\ QueuedOnce'
  BY <1>1 DEF PlaceInv, AtQueues, QueuedAt, QueuedOnce
<1>3. AtSched' = AtSched
  BY <1>1 DEF AtSched
<1>4. AtMain' = AtMain
  BY <1>1 DEF AtMain
<1>5. main' = "swapput" => inHand' # pushedOut'
  BY <1>1 DEF PlaceInv
<1> DEFINE h == Head(writes)
<1>6. h \in Request
  BY <1>1, HeadAndTail
<1>7. AtWriter' = AtWriter \ {h} /\ h \in AtWriter /\ WritingOnce'
  BY <1>1, RangeShrunk DEF PlaceInv, AtWriter, WritingOnce
<1>8. h \notin answered
  BY <1>7 DEF PlaceInv, Order, Held
<1>9. OnWire' \subseteq OnWire \cup {h} /\ WireOnce'
  <2>1. CASE UNCHANGED wire
    BY <2>1 DEF PlaceInv, OnWire, WireOnce
  <2>2. CASE wire' = [wire EXCEPT ![h.sid] = Append(@, h)]
    <3>1. /\ h.sid \in DOMAIN wire /\ wire[h.sid] \in Seq(Request)
          /\ DOMAIN wire' = DOMAIN wire
          /\ \A s \in DOMAIN wire : wire'[s] = IF s = h.sid THEN Append(wire[h.sid], h) ELSE wire[s]
      BY <1>6, <2>2, RequestFacts DEF SendInv, TypeOK
    <3>2. h \notin Range(wire[h.sid]) /\ IsInjective(wire[h.sid])
      BY <1>8, <3>1 DEF PlaceInv, Order, OnWire, WireOnce
    <3> HIDE DEF h
    <3>3. /\ Range(Append(wire[h.sid], h)) = Range(wire[h.sid]) \cup {h}
          /\ IsInjective(Append(wire[h.sid], h))
      BY <1>6, <3>1, <3>2, RangeGrown
    <3>4. WireOnce'
      BY <3>1, <3>3 DEF PlaceInv, WireOnce
    <3>5. ASSUME NEW s \in DOMAIN wire' PROVE Range(wire'[s]) \subseteq OnWire \cup {h}
      BY <3>1, <3>3, <3>5 DEF OnWire
    <3> QED
      BY <3>4, <3>5 DEF OnWire
  <2> QED
    BY <2>1, <2>2 DEF ConnWrite
<1>10. Past' = Past
  BY <1>1 DEF Past
<1>11. WaitedFor' \subseteq WaitedFor \ {h}
  BY <1>1 DEF WaitedFor
<1>12. answered' = answered \cup {h}
  BY <1>1
<1> HIDE DEF h
<1>13. Apart'
  BY <1>2, <1>3, <1>4, <1>7, <1>8, <1>9, <1>10, <1>11, <1>12 DEF PlaceInv, Apart, Order,
     Held
<1>14. Order'
  BY <1>2, <1>3, <1>4, <1>7, <1>8, <1>9, <1>10, <1>11, <1>12 DEF PlaceInv, Apart, Order,
     Held
<1>15. WaitedFor' \subseteq Held'
  BY <1>2, <1>3, <1>4, <1>7, <1>8, <1>9, <1>10, <1>11, <1>12 DEF PlaceInv, Order, Held
<1> QED
  BY <1>2, <1>5, <1>7, <1>9, <1>13, <1>14, <1>15 DEF PlaceInv

\* Nothing is anywhere at first.
LEMMA PlaceInit ==
    ASSUME Init
    PROVE  PlaceInv
<1>1. QueuedAt = {}
  <2>1. \A q \in Queues : DOMAIN queue[q] = {}
    BY DEF Init
  <2> QED
    BY <2>1, QueuedPlaces
<1>2. AtQueues = {} /\ QueuedOnce
  BY <1>1 DEF AtQueues, QueuedOnce
<1>3. DOMAIN writes = {} /\ \A s \in DOMAIN wire : DOMAIN wire[s] = {}
  BY DEF Init
<1>4. AtWriter = {} /\ OnWire = {} /\ WritingOnce /\ WireOnce
  BY <1>3 DEF AtWriter, OnWire, WritingOnce, WireOnce, Range, IsInjective
<1>5. AtMain = {} /\ AtSched = {} /\ WaitedFor = {} /\ answered = {} /\ main # "swapput"
  BY DEF Init, AtMain, AtSched, WaitedFor
<1> QED
  BY <1>2, <1>4, <1>5 DEF PlaceInv, Apart, Order, Held

\* Every step keeps the invariant about the places.
LEMMA PlaceNext ==
    ASSUME SendInv, PlaceInv, [Next]_vars
    PROVE  PlaceInv'
<1>1. CASE \E s \in Streams : OpenStream(s) \/ Write(s) \/ CloseStream(s)
  BY <1>1, OfferMoves, CallerFacts DEF OpenStream, Write, CloseStream
<1>2. CASE SendControl
  BY <1>2, OfferMoves, CallerFacts DEF SendControl
<1>3. CASE \E s \in Streams : WriteGivesUp(s)
  BY <1>3, ReturnMoves, CallerFacts DEF WriteGivesUp, userVars
<1>4. CASE \E t \in Callers : Result(t) \/ WriteFrameFails(t)
  BY <1>4, ReturnMoves DEF Result, WriteFrameFails, userVars
<1>5. CASE SessionClose
  BY <1>5, IdleSteps
<1>6. CASE Main
  BY <1>6, MainTakeMoves, MainPutMoves, MainSwapOutMoves, MainSwapInMoves,
     MainDirectMoves,
     IdleSteps DEF Main
<1>7. CASE Scheduler
  BY <1>7, SchedScanMoves, SchedWriteMoves, IdleSteps DEF Scheduler
<1>8. CASE ConnWriter
  BY <1>8, ConnWriteMoves, IdleSteps DEF ConnWriter
<1>9. CASE UNCHANGED vars
  <2>1. UNCHANGED <<queue, writes, wire, answered, count, pc, req, main, inHand, pushedOut,
                    sched, picked>>
    BY <1>9 DEF vars, userVars, mainVars, schedVars, outVars
  <2>2. AtMain' = AtMain /\ AtSched' = AtSched /\ Past' = Past /\ WaitedFor' = WaitedFor
    BY <2>1 DEF AtMain, AtSched, Past, WaitedFor
  <2> QED
    BY <2>1, <2>2, NothingMoves
<1> QED
  BY <1>1, <1>2, <1>3, <1>4, <1>5, <1>6, <1>7, <1>8, <1>9 DEF Next

\* A request that is in the queues is at one place there, and so in the channel.
LEMMA HowOften ==
    ASSUME PlaceInv, NEW r
    PROVE  /\ Cardinality(InQueues(r)) = IF r \in AtQueues THEN 1 ELSE 0
           /\ Cardinality(InWrites(r)) = IF r \in AtWriter THEN 1 ELSE 0
<1>1. ASSUME r \in AtQueues PROVE Cardinality(InQueues(r)) = 1
  <2>1. PICK k \in QueuedAt : r = queue[k[1]][k[2]]
    BY <1>1 DEF AtQueues
  <2>2. InQueues(r) = {k}
    BY <2>1 DEF InQueues, PlaceInv, QueuedOnce
  <2> QED
    BY <1>1, <2>2, FS_Singleton
<1>2. ASSUME r \notin AtQueues PROVE Cardinality(InQueues(r)) = 0
  <2>1. InQueues(r) = {}
    BY <1>2 DEF InQueues, AtQueues
  <2> QED
    BY <1>2, <2>1, FS_EmptySet
<1>3. ASSUME r \in AtWriter PROVE Cardinality(InWrites(r)) = 1
  <2>1. PICK i \in DOMAIN writes : r = writes[i]
    BY <1>3 DEF AtWriter, Range
  <2>2. InWrites(r) = {i}
    BY <2>1 DEF InWrites, PlaceInv, WritingOnce, IsInjective
  <2> QED
    BY <1>3, <2>2, FS_Singleton
<1>4. ASSUME r \notin AtWriter PROVE Cardinality(InWrites(r)) = 0
  <2>1. InWrites(r) = {}
    BY <1>4 DEF InWrites, AtWriter, Range
  <2> QED
    BY <1>4, <2>1, FS_EmptySet
<1>5. Cardinality(InQueues(r)) = IF r \in AtQueues THEN 1 ELSE 0
  BY <1>1, <1>2
<1>6. Cardinality(InWrites(r)) = IF r \in AtWriter THEN 1 ELSE 0
  BY <1>3, <1>4
<1> QED
  BY <1>5, <1>6

\* A request that was taken is in exactly one place until it is answered, and none is
\* on the connection twice, whatever the three goroutines do in which order.
THEOREM EachInOnePlace == Spec => []OnePlace
<1>1. Init => SendInv /\ PlaceInv
  BY SendInit, PlaceInit
<1>2. (SendInv /\ PlaceInv) /\ [Next]_vars => (SendInv /\ PlaceInv)'
  BY SendNext, PlaceNext
<1>3. ASSUME PlaceInv PROVE OnePlace
  <2>1. ASSUME NEW t \in Callers, pc[t] = "result", req[t] \notin answered
        PROVE  Cardinality(InQueues(req[t])) + Cardinality(InWrites(req[t]))
                 + (IF InMain(req[t]) THEN 1 ELSE 0)
                 + (IF InSched(req[t]) THEN 1 ELSE 0) = 1
    <3> DEFINE r == req[t]
    <3>1. r \in Held
      BY <1>3, <2>1 DEF PlaceInv, WaitedFor
    <3> HIDE DEF r
    <3>2. (InMain(r) <=> r \in AtMain) /\ (InSched(r) <=> r \in AtSched)
      BY DEF InMain, AtMain, InSched, AtSched
    <3>3. \/ r \in AtQueues /\ r \notin AtWriter /\ r \notin AtMain /\ r \notin AtSched
          \/ r \notin AtQueues /\ r \in AtWriter /\ r \notin AtMain /\ r \notin AtSched
          \/ r \notin AtQueues /\ r \notin AtWriter /\ r \in AtMain /\ r \notin AtSched
          \/ r \notin AtQueues /\ r \notin AtWriter /\ r \notin AtMain /\ r \in AtSched
      BY <1>3, <3>1 DEF PlaceInv, Apart, Held
    <3>4. /\ Cardinality(InQueues(r)) = IF r \in AtQueues THEN 1 ELSE 0
          /\ Cardinality(InWrites(r)) = IF r \in AtWriter THEN 1 ELSE 0
      BY <1>3, HowOften
    <3>5. Cardinality(InQueues(r)) + Cardinality(InWrites(r))
            + (IF InMain(r) THEN 1 ELSE 0) + (IF InSched(r) THEN 1 ELSE 0) = 1
      BY <3>2, <3>3, <3>4
    <3> QED
      BY <3>5 DEF r
  <2>2. \A s \in DOMAIN wire : \A i, j \in DOMAIN wire[s] : wire[s][i] = wire[s][j] => i = j
    BY <1>3 DEF PlaceInv, WireOnce, IsInjective
  <2> QED
    BY <2>1, <2>2 DEF OnePlace
<1> QED
  BY <1>1, <1>2, <1>3, PTL DEF Spec, Safety

===============================================================================
