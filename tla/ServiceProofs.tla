----------------------------- MODULE ServiceProofs -----------------------------
(***************************************************************************)
(* Proofs about Service, for any number of clients, users and faults.      *)
(***************************************************************************)
EXTENDS Service, SequenceTheorems, TLAPS

\* A connection that no client has dialled yet is nowhere in the hub.
Undialled ==
    \A k \in Clients, n \in 1 .. MaxFaults + 1 :
        n > dials[k] =>
            /\ hub[<<k, n>>] = "none"
            /\ hand # <<k, n>>
            /\ \A i \in DOMAIN backlog : backlog[i] # <<k, n>>

\* The backlog holds no connection twice, and none that has a session.
BacklogFresh ==
    /\ \A i \in DOMAIN backlog : hub[backlog[i]] = "none" /\ backlog[i] # hand
    /\ \A i, j \in DOMAIN backlog : backlog[i] = backlog[j] => i = j

\* What the admin goroutine has in hand: nothing, a connection it shakes hands
\* on, or a session.
HandMatches ==
    /\ admin = "accept" => hand = None
    /\ admin = "nonce" => hand \in Conns /\ hub[hand] = "none"
    /\ admin = "put" => hand \in Conns /\ hub[hand] # "none"

\* What waits in chAdmin is a session, in nobody's hand and not the current one.
ChannelFresh ==
    \A i \in DOMAIN chAdmin :
        hub[chAdmin[i]] # "none" /\ chAdmin[i] # hand /\ chAdmin[i] # sess

\* main has a session from its first on, only a closed one makes it wait for
\* another, and from accept to handleClient it holds a user.
MainMatches ==
    /\ IF main = "start" THEN sess = None ELSE sess \in Conns
    /\ sess # None => hub[sess] # "none" /\ sess # hand
    /\ main = "wait" => hub[sess] = "closed"
    /\ main \in {"check", "wait", "go"} => held \in Users

\* A closed session that has cost a user is past: nobody will take it up, and if
\* main still has it then main asks it before the next user.
LateIsPast ==
    \A c \in Conns : late[c] > 0 =>
        /\ hub[c] = "closed" /\ c # hand
        /\ \A i \in DOMAIN chAdmin : chAdmin[i] # c
        /\ c = sess => main # "go"

\* The inductive invariant.
ServiceInv ==
    /\ TypeOK
    /\ Undialled
    /\ BacklogFresh
    /\ HandMatches
    /\ ChannelFresh
    /\ MainMatches
    /\ LateIsPast
    /\ NoOpenSessionForgotten
    /\ OneUserPerDeadSession

-----------------------------------------------------------------------------
\* A connection is never the absence of one, and is the dial of a client.
LEMMA ConnsArePairs ==
    /\ None \notin Conns
    /\ \A c \in Conns : c[1] \in Clients /\ c[2] \in 1 .. MaxFaults + 1
                          /\ c = <<c[1], c[2]>>
    /\ \A k \in Clients, n \in 1 .. MaxFaults + 1 : <<k, n>> \in Conns
BY DEF Conns, None

\* A scenario allows no more faults than there are.
LEMMA ScenarioBounds ==
    ASSUME TypeOK
    PROVE  /\ scenario.faults \in Nat /\ scenario.faults <= MaxFaults
           /\ scenario.clients \subseteq Clients /\ scenario.users \subseteq Users
           /\ scenario.keyed \in BOOLEAN
BY ScenariosTyped, MaxFaultsNat DEF TypeOK

\* A fault that the scenario allows is within the bound.
LEMMA OneMoreFault ==
    ASSUME TypeOK, faults < scenario.faults
    PROVE  faults + 1 \in 0 .. MaxFaults
BY ScenarioBounds, MaxFaultsNat DEF TypeOK

\* What the first element of a queue leaves behind.
LEMMA HeadAndTail ==
    ASSUME NEW S, NEW q \in Seq(S), q # <<>>
    PROVE  /\ Head(q) \in S /\ Head(q) = q[1] /\ 1 \in DOMAIN q
           /\ Tail(q) \in Seq(S) /\ Len(Tail(q)) = Len(q) - 1
           /\ \A i \in DOMAIN Tail(q) : i + 1 \in DOMAIN q /\ Tail(q)[i] = q[i + 1]
                                        /\ i \in Nat /\ i # 0
BY HeadTailProperties, LenProperties

\* What the last element of a queue adds.
LEMMA AppendedTo ==
    ASSUME NEW S, NEW q \in Seq(S), NEW x \in S
    PROVE  /\ Append(q, x) \in Seq(S) /\ Len(Append(q, x)) = Len(q) + 1
           /\ Append(q, x)[Len(q) + 1] = x
           /\ \A i \in DOMAIN q : i \in DOMAIN Append(q, x) /\ Append(q, x)[i] = q[i]
           /\ \A i \in DOMAIN Append(q, x) :
                 \/ i \in DOMAIN q
                 \/ i = Len(q) + 1
BY AppendProperties, LenProperties

\* Before the first client dials there is nothing to get wrong.
LEMMA InitService == Init => ServiceInv
BY MaxFaultsNat, ConnsArePairs, EmptySeq
   DEF Init, ServiceInv, TypeOK, SessionStatus, Undialled, BacklogFresh, HandMatches,
       ChannelFresh, MainMatches, LateIsPast, NoOpenSessionForgotten,
       OneUserPerDeadSession

\* The hub's part of the invariant depends on the hub's variables alone: the
\* steps that touch none of them have only their types to keep.
LEMMA HubUntouched ==
    ASSUME ServiceInv, TypeOK',
           UNCHANGED <<hub, dials, backlog, admin, hand, chAdmin, main, sess, held, late>>
    PROVE  ServiceInv'
BY DEF ServiceInv, Undialled, BacklogFresh, HandMatches,
       ChannelFresh, MainMatches, LateIsPast, NoOpenSessionForgotten,
       OneUserPerDeadSession

\* No step of a client, of the hub or of the network breaks the invariant.
LEMMA NextService == ServiceInv /\ [Next]_vars => ServiceInv'
<1> SUFFICES ASSUME ServiceInv, [Next]_vars PROVE ServiceInv'
  OBVIOUS
<1> USE MaxFaultsNat, ConnsArePairs
    DEF SessionStatus, netVars, clientVars, adminVars, mainVars, tunnelVars, userVars
<1>0. /\ TypeOK /\ Undialled /\ BacklogFresh /\ HandMatches /\ ChannelFresh
      /\ MainMatches /\ LateIsPast /\ NoOpenSessionForgotten
      /\ OneUserPerDeadSession
      /\ scenario.faults \in Nat /\ scenario.faults <= MaxFaults
      /\ scenario.clients \subseteq Clients /\ scenario.users \subseteq Users
      /\ scenario.keyed \in BOOLEAN
  BY ScenarioBounds DEF ServiceInv
<1>1. CASE UNCHANGED vars
  <2>1. TypeOK'
    BY <1>1, <1>0 DEF vars, TypeOK
  <2> QED
    BY <1>1, <2>1, HubUntouched DEF vars
<1>2. ASSUME NEW k \in Clients, Dial(k) PROVE ServiceInv'
  <2> DEFINE c == <<k, dials[k] + 1>>
  <2>1. dials[k] + 1 \in 1 .. MaxFaults + 1 /\ dials[k] + 1 > dials[k]
    BY <1>0, <1>2 DEF Dial, TypeOK
  <2>2. /\ c \in Conns /\ hub[c] = "none" /\ hand # c
        /\ \A i \in DOMAIN backlog : backlog[i] # c
    BY <1>0, <2>1 DEF Undialled
  <2>3. /\ dials' = [dials EXCEPT ![k] = @ + 1] /\ backlog' = Append(backlog, c)
        /\ UNCHANGED <<hub, admin, hand, chAdmin, main, sess, held, late>>
    BY <1>2 DEF Dial
  <2>4. /\ backlog' \in Seq(Conns) /\ backlog'[Len(backlog) + 1] = c
        /\ \A i \in DOMAIN backlog : backlog'[i] = backlog[i]
        /\ \A i \in DOMAIN backlog' : i \in DOMAIN backlog \/ i = Len(backlog) + 1
    BY SMTT(30), <1>0, <2>2, <2>3, AppendedTo DEF TypeOK
  <2>5. TypeOK'
    <3>1. dials' \in [Clients -> 0 .. MaxFaults + 1] /\ up' \subseteq Conns
      BY SMTT(30), <1>0, <1>2, <2>1, <2>2 DEF Dial, TypeOK
    <3>2. /\ cli' \in {cli, [cli EXCEPT ![c] = "open"]}
          /\ client' \in {[client EXCEPT ![k] = "nonce"], [client EXCEPT ![k] = "accept"]}
          /\ UNCHANGED <<faults, scenario, hub, admin, hand, chAdmin>>
          /\ UNCHANGED <<main, sess, held, late, usr, via, opened, swept>>
      BY <1>2 DEF Dial, mainVars, userVars, tunnelVars
    <3> HIDE DEF c
    <3>3. cli' \in [Conns -> SessionStatus]
      BY <1>0, <2>2, <3>2 DEF TypeOK, SessionStatus
    <3>4. client' \in [Clients -> {"dial", "nonce", "accept"}]
      BY <1>0, <3>2 DEF TypeOK
    <3> QED
      BY <1>0, <2>4, <3>1, <3>2, <3>3, <3>4 DEF TypeOK
  <2> HIDE DEF c
  <2>6. Undialled'
    <3> SUFFICES ASSUME NEW x \in Clients, NEW n \in 1 .. MaxFaults + 1, n > dials'[x]
                 PROVE  /\ hub'[<<x, n>>] = "none" /\ hand' # <<x, n>>
                        /\ \A i \in DOMAIN backlog' : backlog'[i] # <<x, n>>
      BY DEF Undialled
    <3>1. n > dials[x] /\ c # <<x, n>>
      <4>1. dials'[x] = IF x = k THEN dials[k] + 1 ELSE dials[x]
        BY <1>0, <2>3 DEF TypeOK
      <4>2. dials[x] \in Nat /\ n \in Nat
        BY <1>0 DEF TypeOK
      <4>3. n > dials[x] /\ (x = k => n # dials[k] + 1)
        BY <4>1, <4>2
      <4> QED
        BY <4>3 DEF c
    <3>2. /\ hub[<<x, n>>] = "none" /\ hand # <<x, n>>
          /\ \A i \in DOMAIN backlog : backlog[i] # <<x, n>>
      BY <1>0, <3>1 DEF Undialled
    <3> QED
      BY <2>3, <2>4, <3>1, <3>2
  <2>7. BacklogFresh'
    <3>1. \A i \in DOMAIN backlog' : hub'[backlog'[i]] = "none" /\ backlog'[i] # hand'
      BY <1>0, <2>2, <2>3, <2>4 DEF BacklogFresh
    <3>2. ASSUME NEW i \in DOMAIN backlog', NEW j \in DOMAIN backlog',
                 backlog'[i] = backlog'[j]
          PROVE  i = j
      <4>1. CASE i \in DOMAIN backlog /\ j \in DOMAIN backlog
        BY <1>0, <2>4, <3>2, <4>1 DEF BacklogFresh
      <4> QED
        BY <2>2, <2>4, <3>2, <4>1
    <3> QED
      BY <3>1, <3>2 DEF BacklogFresh
  <2>8. HandMatches' /\ ChannelFresh' /\ MainMatches' /\ LateIsPast'
        /\ NoOpenSessionForgotten' /\ OneUserPerDeadSession'
    BY <1>0, <2>3 DEF HandMatches, ChannelFresh, MainMatches, LateIsPast,
                      NoOpenSessionForgotten, OneUserPerDeadSession
  <2> QED
    BY <2>5, <2>6, <2>7, <2>8 DEF ServiceInv
<1>3. ASSUME NEW k \in Clients, ReadNonce(k) PROVE ServiceInv'
  <2>1. TypeOK'
    BY <1>3, <1>0 DEF ReadNonce, Last, TypeOK
  <2> QED
    BY <1>3, <2>1, HubUntouched DEF ReadNonce
<1>4. ASSUME NEW k \in Clients, LoseNonce(k) PROVE ServiceInv'
  <2>1. TypeOK'
    BY <1>4, <1>0 DEF LoseNonce, Last, TypeOK
  <2> QED
    BY <1>4, <2>1, HubUntouched DEF LoseNonce
<1>5. ASSUME NEW k \in Clients, ShortNonce(k) PROVE ServiceInv'
  <2>1. TypeOK'
    <3>1. faults' \in 0 .. MaxFaults
      BY <1>5, <1>0, OneMoreFault DEF ShortNonce
    <3> QED
      BY <1>5, <1>0, <3>1 DEF ShortNonce, Last, TypeOK
  <2> QED
    BY <1>5, <2>1, HubUntouched DEF ShortNonce
<1>6. ASSUME NEW k \in Clients, NEW u \in Users, AcceptStream(k, u) PROVE ServiceInv'
  <2>1. TypeOK'
    BY <1>6, <1>0 DEF AcceptStream, Last, TypeOK
  <2> QED
    BY <1>6, <2>1, HubUntouched DEF AcceptStream
<1>7. ASSUME NEW k \in Clients, AcceptError(k) PROVE ServiceInv'
  <2>1. TypeOK'
    BY <1>7, <1>0 DEF AcceptError, Last, TypeOK
  <2> QED
    BY <1>7, <2>1, HubUntouched DEF AcceptError
<1>8. ASSUME NEW u \in Users, DialTarget(u) PROVE ServiceInv'
  <2>1. TypeOK'
    <3>1. PICK outcome \in {"served", "away", "unheard"} :
             usr' = [usr EXCEPT ![u] = outcome]
      BY <1>8 DEF DialTarget
    <3>2. usr' \in [Users -> {"away", "queued", "held", "open", "SYN", "target",
                              "served", "unheard", "orphan", "stuck"}]
      BY <1>0, <3>1 DEF TypeOK
    <3> QED
      BY <1>8, <1>0, <3>2 DEF DialTarget, TypeOK
  <2> QED
    BY <1>8, <2>1, HubUntouched DEF DialTarget
<1>9. ASSUME AdminAccept PROVE ServiceInv'
  <2> USE <1>9, <1>0 DEF AdminAccept, TypeOK
  <2>0. /\ Head(backlog) \in Conns /\ Head(backlog) = backlog[1] /\ 1 \in DOMAIN backlog
        /\ Tail(backlog) \in Seq(Conns) /\ Len(Tail(backlog)) = Len(backlog) - 1
        /\ \A i \in DOMAIN Tail(backlog) : i + 1 \in DOMAIN backlog /\ Tail(backlog)[i] = backlog[i + 1]
                                         /\ i \in Nat /\ i # 0
    BY HeadAndTail
  <2>a. hand' = Head(backlog) /\ hand = None /\ backlog' = Tail(backlog)
    BY DEF HandMatches
  <2>b. hub' = hub \/ hub' = [hub EXCEPT ![backlog[1]] = "open"]
    BY <2>0
  <2>c. hub[backlog[1]] = "none" /\ \A i \in DOMAIN backlog' : backlog'[i] # backlog[1]
    <3>1. hub[backlog[1]] = "none"
      BY <2>0 DEF BacklogFresh
    <3>2. ASSUME NEW i \in DOMAIN Tail(backlog) PROVE backlog[i + 1] # backlog[1]
      <4>1. i + 1 \in DOMAIN backlog /\ i + 1 # 1
        BY <2>0
      <4> QED
        BY <2>0, <4>1 DEF BacklogFresh
    <3> QED
      BY <2>0, <2>a, <3>1, <3>2
  <2> USE <2>0
  <2>1. TypeOK'
    OBVIOUS
  <2>2. Undialled'
    <3> SUFFICES ASSUME NEW x \in Clients, NEW n \in 1 .. MaxFaults + 1, n > dials[x]
                 PROVE  hub'[<<x, n>>] = "none" /\ hand' # <<x, n>>
                        /\ \A i \in DOMAIN backlog' : backlog'[i] # <<x, n>>
      BY <2>a DEF Undialled
    <3>1. /\ hub[<<x, n>>] = "none" /\ <<x, n>> \in Conns
          /\ \A i \in DOMAIN backlog : backlog[i] # <<x, n>>
      BY DEF Undialled
    <3>2. backlog[1] # <<x, n>> /\ hub'[<<x, n>>] = "none"
      BY <2>b, <3>1
    <3>3. \A i \in DOMAIN backlog' : backlog'[i] # <<x, n>>
      BY <2>a, <3>1
    <3> QED
      BY <2>a, <3>2, <3>3
  <2>3. BacklogFresh'
    <3>1. \A i \in DOMAIN backlog' : hub[backlog'[i]] = "none" /\ backlog'[i] \in Conns
      BY <2>a DEF BacklogFresh
    <3>2. \A i \in DOMAIN backlog' : hub'[backlog'[i]] = "none" /\ backlog'[i] # hand'
      <4>1. TAKE i \in DOMAIN backlog'
      <4>2. hub[backlog'[i]] = "none" /\ backlog'[i] \in Conns /\ backlog'[i] # backlog[1]
        BY <2>c, <3>1
      <4>3. hub'[backlog'[i]] = "none"
        BY <2>b, <4>2
      <4> QED
        BY <2>a, <4>2, <4>3
    <3>3. \A i, j \in DOMAIN backlog' : backlog'[i] = backlog'[j] => i = j
      BY <2>a DEF BacklogFresh
    <3> QED
      BY <3>2, <3>3 DEF BacklogFresh
  <2>4. HandMatches'
    <3>1. CASE scenario.keyed
      BY <2>a, <2>c, <3>1 DEF HandMatches
    <3>2. CASE ~scenario.keyed
      BY <2>a, <2>c, <3>2 DEF HandMatches
    <3> QED
      BY <3>1, <3>2
  <2>5. ChannelFresh'
    BY SMTT(30) DEF ChannelFresh, HandMatches, MainMatches, BacklogFresh
  <2>6. MainMatches'
    BY <2>a, <2>b, <2>c DEF MainMatches
  <2>7. LateIsPast'
    BY SMTT(30)
    DEF LateIsPast, MainMatches, ChannelFresh, HandMatches, BacklogFresh,
        OneUserPerDeadSession
  <2>8. NoOpenSessionForgotten'
    BY SMTT(30) DEF NoOpenSessionForgotten, HandMatches, MainMatches, ChannelFresh
  <2>9. OneUserPerDeadSession'
    BY DEF OneUserPerDeadSession, LateIsPast, MainMatches
  <2> QED
    BY <2>1, <2>2, <2>3, <2>4, <2>5, <2>6, <2>7, <2>8, <2>9 DEF ServiceInv
<1>10. ASSUME AdminNonce PROVE ServiceInv'
  <2> USE <1>10, <1>0 DEF AdminNonce, TypeOK
  <2>1. TypeOK'
    OBVIOUS
  <2>2. Undialled'
    BY SMTT(30) DEF Undialled
  <2>3. BacklogFresh'
    BY DEF BacklogFresh, HandMatches, Undialled
  <2>4. HandMatches'
    BY DEF HandMatches, BacklogFresh
  <2>5. ChannelFresh'
    BY DEF ChannelFresh, HandMatches, MainMatches, BacklogFresh
  <2>6. MainMatches'
    BY DEF MainMatches, ChannelFresh, HandMatches, BacklogFresh
  <2>7. LateIsPast'
    BY
    DEF LateIsPast, MainMatches, ChannelFresh, HandMatches, BacklogFresh,
        OneUserPerDeadSession
  <2>8. NoOpenSessionForgotten'
    BY DEF NoOpenSessionForgotten, HandMatches, MainMatches, ChannelFresh
  <2>9. OneUserPerDeadSession'
    BY DEF OneUserPerDeadSession, LateIsPast, MainMatches
  <2> QED
    BY <2>1, <2>2, <2>3, <2>4, <2>5, <2>6, <2>7, <2>8, <2>9 DEF ServiceInv
<1>11. ASSUME AdminShort PROVE ServiceInv'
  <2> USE <1>11, <1>0 DEF AdminShort, TypeOK
  <2>1. TypeOK'
    <3>1. faults' \in 0 .. MaxFaults
      BY OneMoreFault
    <3>2. up' \subseteq Conns /\ scenario' = scenario
      OBVIOUS
    <3> QED
      BY <3>1, <3>2
  <2>2. Undialled'
    BY SMTT(30) DEF Undialled
  <2>3. BacklogFresh'
    BY DEF BacklogFresh, HandMatches, Undialled
  <2>4. HandMatches'
    BY DEF HandMatches, BacklogFresh
  <2>5. ChannelFresh'
    BY DEF ChannelFresh, HandMatches, MainMatches, BacklogFresh
  <2>6. MainMatches'
    BY DEF MainMatches, ChannelFresh, HandMatches, BacklogFresh
  <2>7. LateIsPast'
    BY
    DEF LateIsPast, MainMatches, ChannelFresh, HandMatches, BacklogFresh,
        OneUserPerDeadSession
  <2>8. NoOpenSessionForgotten'
    BY DEF NoOpenSessionForgotten, HandMatches, MainMatches, ChannelFresh
  <2>9. OneUserPerDeadSession'
    BY DEF OneUserPerDeadSession, LateIsPast, MainMatches
  <2> QED
    BY <2>1, <2>2, <2>3, <2>4, <2>5, <2>6, <2>7, <2>8, <2>9 DEF ServiceInv
<1>12. ASSUME AdminPut PROVE ServiceInv'
  <2> USE <1>12, <1>0 DEF AdminPut, TypeOK
  <2>0. /\ chAdmin' = Append(chAdmin, hand) /\ hand \in Conns /\ Len(chAdmin) = 0
        /\ chAdmin' \in Seq(Conns) /\ Len(chAdmin') = 1 /\ chAdmin'[1] = hand
        /\ DOMAIN chAdmin' = {1} /\ DOMAIN chAdmin = {}
    BY AppendedTo, LenProperties DEF HandMatches
  <2>1. TypeOK'
    BY <2>0
  <2>2. Undialled'
    BY SMTT(30) DEF Undialled
  <2>3. BacklogFresh'
    BY DEF BacklogFresh, HandMatches, Undialled
  <2>4. HandMatches'
    BY DEF HandMatches, BacklogFresh
  <2>5. ChannelFresh'
    BY <2>0 DEF ChannelFresh, HandMatches, MainMatches, BacklogFresh
  <2>6. MainMatches'
    BY DEF MainMatches, ChannelFresh, HandMatches, BacklogFresh
  <2>7. LateIsPast'
    BY <2>0
    DEF LateIsPast, MainMatches, ChannelFresh, HandMatches, BacklogFresh,
        OneUserPerDeadSession
  <2>8. NoOpenSessionForgotten'
    <3> SUFFICES ASSUME NEW c \in Conns, hub'[c] = "open"
                 PROVE  c = sess' \/ c = hand' \/ \E i \in DOMAIN chAdmin' : c = chAdmin'[i]
      BY DEF NoOpenSessionForgotten
    <3>1. c = sess \/ c = hand \/ \E i \in DOMAIN chAdmin : c = chAdmin[i]
      BY DEF NoOpenSessionForgotten
    <3> QED
      BY <2>0, <3>1 DEF MainMatches, HandMatches
  <2>9. OneUserPerDeadSession'
    BY DEF OneUserPerDeadSession, LateIsPast, MainMatches
  <2> QED
    BY <2>1, <2>2, <2>3, <2>4, <2>5, <2>6, <2>7, <2>8, <2>9 DEF ServiceInv
<1>13. ASSUME MainStart PROVE ServiceInv'
  <2> USE <1>13, <1>0 DEF MainStart, TypeOK
  <2>0. /\ Head(chAdmin) \in Conns /\ Head(chAdmin) = chAdmin[1] /\ 1 \in DOMAIN chAdmin
        /\ Tail(chAdmin) \in Seq(Conns) /\ Len(Tail(chAdmin)) = Len(chAdmin) - 1
        /\ \A i \in DOMAIN Tail(chAdmin) : i + 1 \in DOMAIN chAdmin /\ Tail(chAdmin)[i] = chAdmin[i + 1]
                                         /\ i \in Nat /\ i # 0
    BY HeadAndTail
  <2> USE <2>0
  <2>1. TypeOK'
    <3>1. chAdmin' \in Seq(Conns) /\ Len(chAdmin') <= 1
      OBVIOUS
    <3>2. sess' \in Conns \cup {None}
      OBVIOUS
    <3> QED
      BY <3>1, <3>2
  <2>2. Undialled'
    BY SMTT(30) DEF Undialled
  <2>3. BacklogFresh'
    BY DEF BacklogFresh, HandMatches, Undialled
  <2>4. HandMatches'
    BY DEF HandMatches, BacklogFresh
  <2>5. ChannelFresh'
    BY DEF ChannelFresh, HandMatches, MainMatches, BacklogFresh
  <2>6. MainMatches'
    BY DEF MainMatches, ChannelFresh, HandMatches, BacklogFresh
  <2>7. LateIsPast'
    BY
    DEF LateIsPast, MainMatches, ChannelFresh, HandMatches, BacklogFresh,
        OneUserPerDeadSession
  <2>8. NoOpenSessionForgotten'
    <3> SUFFICES ASSUME NEW c \in Conns, hub'[c] = "open"
                 PROVE  c = sess' \/ c = hand' \/ \E i \in DOMAIN chAdmin' : c = chAdmin'[i]
      BY DEF NoOpenSessionForgotten
    <3>1. c = sess \/ c = hand \/ \E i \in DOMAIN chAdmin : c = chAdmin[i]
      BY DEF NoOpenSessionForgotten
    <3> QED
      BY <2>0, <3>1 DEF MainMatches, HandMatches
  <2>9. OneUserPerDeadSession'
    BY DEF OneUserPerDeadSession, LateIsPast, MainMatches
  <2> QED
    BY <2>1, <2>2, <2>3, <2>4, <2>5, <2>6, <2>7, <2>8, <2>9 DEF ServiceInv
<1>14. ASSUME NEW u \in Users, MainAccept(u) PROVE ServiceInv'
  <2> USE <1>14, <1>0 DEF MainAccept, TypeOK
  <2>1. TypeOK'
    OBVIOUS
  <2>2. Undialled'
    BY DEF Undialled
  <2>3. BacklogFresh'
    BY DEF BacklogFresh, HandMatches, Undialled
  <2>4. HandMatches'
    BY DEF HandMatches, BacklogFresh
  <2>5. ChannelFresh'
    BY DEF ChannelFresh, HandMatches, MainMatches, BacklogFresh
  <2>6. MainMatches'
    BY DEF MainMatches, ChannelFresh, HandMatches, BacklogFresh
  <2>7. LateIsPast'
    BY
    DEF LateIsPast, MainMatches, ChannelFresh, HandMatches, BacklogFresh,
        OneUserPerDeadSession
  <2>8. NoOpenSessionForgotten'
    BY DEF NoOpenSessionForgotten, HandMatches, MainMatches, ChannelFresh
  <2>9. OneUserPerDeadSession'
    BY DEF OneUserPerDeadSession, LateIsPast, MainMatches
  <2> QED
    BY <2>1, <2>2, <2>3, <2>4, <2>5, <2>6, <2>7, <2>8, <2>9 DEF ServiceInv
<1>15. ASSUME MainCheck PROVE ServiceInv'
  <2> USE <1>15, <1>0 DEF MainCheck, TypeOK
  <2>1. TypeOK'
    OBVIOUS
  <2>2. Undialled'
    BY SMTT(30) DEF Undialled
  <2>3. BacklogFresh'
    BY DEF BacklogFresh, HandMatches, Undialled
  <2>4. HandMatches'
    BY DEF HandMatches, BacklogFresh
  <2>5. ChannelFresh'
    BY DEF ChannelFresh, HandMatches, MainMatches, BacklogFresh
  <2>6. MainMatches'
    BY DEF MainMatches, ChannelFresh, HandMatches, BacklogFresh
  <2>7. LateIsPast'
    BY
    DEF LateIsPast, MainMatches, ChannelFresh, HandMatches, BacklogFresh,
        OneUserPerDeadSession
  <2>8. NoOpenSessionForgotten'
    BY DEF NoOpenSessionForgotten, HandMatches, MainMatches, ChannelFresh
  <2>9. OneUserPerDeadSession'
    BY DEF OneUserPerDeadSession, LateIsPast, MainMatches
  <2> QED
    BY <2>1, <2>2, <2>3, <2>4, <2>5, <2>6, <2>7, <2>8, <2>9 DEF ServiceInv
<1>16. ASSUME MainTake PROVE ServiceInv'
  <2> USE <1>16, <1>0 DEF MainTake, TypeOK
  <2>0. /\ Head(chAdmin) \in Conns /\ Head(chAdmin) = chAdmin[1] /\ 1 \in DOMAIN chAdmin
        /\ Tail(chAdmin) \in Seq(Conns) /\ Len(Tail(chAdmin)) = Len(chAdmin) - 1
        /\ \A i \in DOMAIN Tail(chAdmin) : i + 1 \in DOMAIN chAdmin /\ Tail(chAdmin)[i] = chAdmin[i + 1]
                                         /\ i \in Nat /\ i # 0
    BY HeadAndTail
  <2> USE <2>0
  <2>1. TypeOK'
    <3>1. chAdmin' \in Seq(Conns) /\ Len(chAdmin') <= 1
      OBVIOUS
    <3>2. sess' \in Conns \cup {None}
      OBVIOUS
    <3> QED
      BY <3>1, <3>2
  <2>2. Undialled'
    BY SMTT(30) DEF Undialled
  <2>3. BacklogFresh'
    BY DEF BacklogFresh, HandMatches, Undialled
  <2>4. HandMatches'
    BY DEF HandMatches, BacklogFresh
  <2>5. ChannelFresh'
    BY DEF ChannelFresh, HandMatches, MainMatches, BacklogFresh
  <2>6. MainMatches'
    BY DEF MainMatches, ChannelFresh, HandMatches, BacklogFresh
  <2>7. LateIsPast'
    BY
    DEF LateIsPast, MainMatches, ChannelFresh, HandMatches, BacklogFresh,
        OneUserPerDeadSession
  <2>8. NoOpenSessionForgotten'
    <3> SUFFICES ASSUME NEW c \in Conns, hub'[c] = "open"
                 PROVE  c = sess' \/ c = hand' \/ \E i \in DOMAIN chAdmin' : c = chAdmin'[i]
      BY DEF NoOpenSessionForgotten
    <3>1. c = sess \/ c = hand \/ \E i \in DOMAIN chAdmin : c = chAdmin[i]
      BY DEF NoOpenSessionForgotten
    <3> QED
      BY SMTT(30), <2>0, <3>1 DEF MainMatches, HandMatches
  <2>9. OneUserPerDeadSession'
    BY DEF OneUserPerDeadSession, LateIsPast, MainMatches
  <2> QED
    BY <2>1, <2>2, <2>3, <2>4, <2>5, <2>6, <2>7, <2>8, <2>9 DEF ServiceInv
<1>17. ASSUME MainGo PROVE ServiceInv'
  <2> USE <1>17, <1>0 DEF MainGo, TypeOK
  <2>a. held \in Users /\ sess \in Conns
    BY DEF MainMatches
  <2>1. TypeOK'
    <3>1. late' \in [Conns -> Nat]
      BY SMTT(30), <2>a
    <3>2. /\ usr' \in [Users -> {"away", "queued", "held", "open", "SYN", "target",
                               "served", "unheard", "orphan", "stuck"}]
          /\ via' \in [Users -> Conns \cup {None}]
      BY <2>a
    <3>3. held' \in Users \cup {None} /\ main' = "accept" /\ UNCHANGED <<opened, swept>>
      OBVIOUS
    <3> QED
      BY <3>1, <3>2, <3>3
  <2>2. Undialled'
    BY SMTT(30) DEF Undialled
  <2>3. BacklogFresh'
    BY DEF BacklogFresh, HandMatches, Undialled
  <2>4. HandMatches'
    BY DEF HandMatches, BacklogFresh
  <2>5. ChannelFresh'
    BY DEF ChannelFresh, HandMatches, MainMatches, BacklogFresh
  <2>6. MainMatches'
    BY DEF MainMatches, ChannelFresh, HandMatches, BacklogFresh
  <2>7. LateIsPast'
    BY
    DEF LateIsPast, MainMatches, ChannelFresh, HandMatches, BacklogFresh,
        OneUserPerDeadSession
  <2>8. NoOpenSessionForgotten'
    BY DEF NoOpenSessionForgotten, HandMatches, MainMatches, ChannelFresh
  <2>9. OneUserPerDeadSession'
    BY DEF OneUserPerDeadSession, LateIsPast, MainMatches
  <2> QED
    BY <2>1, <2>2, <2>3, <2>4, <2>5, <2>6, <2>7, <2>8, <2>9 DEF ServiceInv
<1>18. ASSUME NEW u \in Users, OpenStream(u) PROVE ServiceInv'
  <2>1. TypeOK'
    BY <1>18, <1>0 DEF OpenStream, Last, TypeOK
  <2> QED
    BY <1>18, <2>1, HubUntouched DEF OpenStream
<1>19. ASSUME NEW u \in Users, OpenFails(u) PROVE ServiceInv'
  <2>1. TypeOK'
    <3>1. PICK outcome \in {"away", "stuck"} : usr' = [usr EXCEPT ![u] = outcome]
      BY <1>19 DEF OpenFails
    <3> QED
      BY <1>19, <1>0, <3>1 DEF OpenFails, TypeOK
  <2> QED
    BY <1>19, <2>1, HubUntouched DEF OpenFails
<1>20. ASSUME NEW u \in Users, Register(u) PROVE ServiceInv'
  <2>1. TypeOK'
    <3>1. opened' \subseteq Users
      BY <1>20, <1>0 DEF Register, TypeOK
    <3>2. \/ usr' = usr \/ usr' = [usr EXCEPT ![u] = "orphan"]
          \/ usr' = [usr EXCEPT ![u] = "stuck"]
      BY <1>20 DEF Register
    <3>3. usr' \in [Users -> {"away", "queued", "held", "open", "SYN", "target",
                              "served", "unheard", "orphan", "stuck"}]
      BY <1>0, <3>2 DEF TypeOK
    <3> QED
      BY <1>20, <1>0, <3>1, <3>3 DEF Register, TypeOK
  <2> QED
    BY <1>20, <2>1, HubUntouched DEF Register
<1>21. ASSUME NEW u \in Users, TunnelBreaks(u) PROVE ServiceInv'
  <2>1. TypeOK'
    BY <1>21, <1>0 DEF TunnelBreaks, Last, TypeOK
  <2> QED
    BY <1>21, <2>1, HubUntouched DEF TunnelBreaks
<1>22. ASSUME NEW u \in Users, TunnelEnds(u) PROVE ServiceInv'
  <2>1. TypeOK'
    BY <1>22, <1>0 DEF TunnelEnds, Last, TypeOK
  <2> QED
    BY <1>22, <2>1, HubUntouched DEF TunnelEnds
<1>23. ASSUME NEW u \in Users, Connect(u) PROVE ServiceInv'
  <2>1. TypeOK'
    BY <1>23, <1>0 DEF Connect, Last, TypeOK
  <2> QED
    BY <1>23, <2>1, HubUntouched DEF Connect
<1>24. ASSUME NEW c \in Conns, Break(c) PROVE ServiceInv'
  <2>1. TypeOK'
    <3>1. faults' \in 0 .. MaxFaults
      BY <1>24, <1>0, OneMoreFault DEF Break
    <3> QED
      BY <1>24, <1>0, <3>1 DEF Break, TypeOK
  <2> QED
    BY <1>24, <2>1, HubUntouched DEF Break
<1>25. ASSUME NEW c \in Conns, HubNotices(c) PROVE ServiceInv'
  <2> USE <1>25, <1>0 DEF HubNotices, TypeOK
  <2>1. TypeOK'
    OBVIOUS
  <2>2. Undialled'
    <3> SUFFICES ASSUME NEW k \in Clients, NEW n \in 1 .. MaxFaults + 1, n > dials[k]
                 PROVE  hub'[<<k, n>>] = "none" /\ hand # <<k, n>>
                        /\ \A i \in DOMAIN backlog : backlog[i] # <<k, n>>
      BY SMTT(30) DEF Undialled
    <3>1. <<k, n>> # c /\ hub[<<k, n>>] = "none"
      BY DEF Undialled
    <3> QED
      BY <3>1 DEF Undialled
  <2>3. BacklogFresh'
    BY DEF BacklogFresh, HandMatches, Undialled
  <2>4. HandMatches'
    BY DEF HandMatches, BacklogFresh
  <2>5. ChannelFresh'
    BY DEF ChannelFresh, HandMatches, MainMatches, BacklogFresh
  <2>6. MainMatches'
    BY DEF MainMatches, ChannelFresh, HandMatches, BacklogFresh
  <2>7. LateIsPast'
    BY SMTT(30)
    DEF LateIsPast, MainMatches, ChannelFresh, HandMatches, BacklogFresh,
        OneUserPerDeadSession
  <2>8. NoOpenSessionForgotten'
    BY DEF NoOpenSessionForgotten, HandMatches, MainMatches, ChannelFresh
  <2>9. OneUserPerDeadSession'
    BY DEF OneUserPerDeadSession, LateIsPast, MainMatches
  <2> QED
    BY <2>1, <2>2, <2>3, <2>4, <2>5, <2>6, <2>7, <2>8, <2>9 DEF ServiceInv
<1>26. ASSUME NEW c \in Conns, ClientNotices(c) PROVE ServiceInv'
  <2>1. TypeOK'
    BY <1>26, <1>0 DEF ClientNotices, Last, TypeOK
  <2> QED
    BY <1>26, <2>1, HubUntouched DEF ClientNotices
<1>27. ASSUME NEW c \in Conns, Sweep(c) PROVE ServiceInv'
  <2>1. TypeOK'
    BY <1>27, <1>0 DEF Sweep, TypeOK
  <2> QED
    BY <1>27, <2>1, HubUntouched DEF Sweep
<1> QED
  BY <1>1, <1>2, <1>3, <1>4, <1>5, <1>6, <1>7, <1>8, <1>9, <1>10, <1>11, <1>12, <1>13,
     <1>14, <1>15, <1>16, <1>17, <1>18, <1>19, <1>20, <1>21, <1>22, <1>23, <1>24,
     <1>25, <1>26, <1>27
     DEF Next, ClientMain, Admin, HubMain, HandleClient

-----------------------------------------------------------------------------
\* The inductive invariant holds in every reachable state of the service.
THEOREM ServiceInvariant == Spec => []ServiceInv
<1> QED
  BY InitService, NextService, PTL DEF Spec

\* Every variable of the service keeps its type: chAdmin never holds more than
\* the one session it has room for.
THEOREM ServiceTyped == Spec => []TypeOK
<1>1. ServiceInv => TypeOK
  BY DEF ServiceInv
<1> QED
  BY <1>1, ServiceInvariant, PTL

\* The hub lets go of no open session, whatever the number of clients that
\* compete for it and however often they dial again.
THEOREM SessionsKept == Spec => []NoOpenSessionForgotten
<1>1. ServiceInv => NoOpenSessionForgotten
  BY DEF ServiceInv
<1> QED
  BY <1>1, ServiceInvariant, PTL

\* A session that is closed when chAdmin hands it out, or between main's look at
\* it and handleClient, costs at most one user.
THEOREM DeadSessionCostsOne == Spec => []OneUserPerDeadSession
<1>1. ServiceInv => OneUserPerDeadSession
  BY DEF ServiceInv
<1> QED
  BY <1>1, ServiceInvariant, PTL
================================================================================
