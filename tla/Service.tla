-------------------------------- MODULE Service --------------------------------
(***************************************************************************)
(* The reverse tunnel as a service: how clients behind a NAT keep one      *)
(* session each with the hub, and how the hub hands the users that connect *)
(* to it to a session (main in src/hub.go and src/client.go).              *)
(*                                                                         *)
(* Three loops run: every client dials, shakes hands and accepts streams   *)
(* until its session is closed; the hub's admin goroutine accepts and      *)
(* shakes hands and puts the session into chAdmin, which holds one; the    *)
(* hub's main goroutine gives each user to the session it has, and takes   *)
(* the next one from chAdmin when it finds its session closed.             *)
(*                                                                         *)
(* A session is its status at either end.  What happens inside is the      *)
(* subject of StreamLife, what happens inside a tunnel that of Tunnel;     *)
(* here a session does its work while its connection is up (TokenBucket    *)
(* and Keepalive tell what can keep it from that).                         *)
(***************************************************************************)
EXTENDS Naturals, Sequences, FiniteSets

CONSTANTS
    Clients,
    Users,          \* those who connect to the hub's public address
    MaxFaults,      \* bound: connections that break, nonces that come short
    Scenarios       \* who takes part, whether a key is configured, and the
                    \* bound on the faults of the scenario

ASSUME MaxFaultsNat == MaxFaults \in Nat
ASSUME ScenariosTyped ==
    Scenarios \subseteq [clients : SUBSET Clients, users : SUBSET Users,
                         faults : 0 .. MaxFaults, keyed : BOOLEAN]

\* A client dials once more after each fault, at most.
Conns == Clients \X (1 .. MaxFaults + 1)
None == <<>>        \* no connection; also: no user

VARIABLES
    client,     \* client[k]: where main of the client is
    dials,      \* dials[k]: how often it dialled; its last connection
    up,         \* the connections that are neither broken nor closed
    cli,        \* cli[c]: the session at the client's end
    hub,        \* hub[c]: the session at the hub's end
    backlog,    \* connections the hub's listener has not accepted yet
    admin,      \* where the admin goroutine is, and
    hand,       \* the connection it is busy with
    chAdmin,    \* the channel
    main,       \* where main of the hub is,
    sess,       \* its variable sess,
    held,       \* and p1
    usr,        \* usr[u]: what became of the user
    via,        \* via[u]: the session handleClient got with it
    opened,     \* the users whose stream is in the table of that session
    swept,      \* the closed sessions of the hub that have closed their streams
    late,       \* history: users handed to a session already closed
    faults,     \* faults so far
    scenario    \* which of the Scenarios this is; it never changes

netVars    == <<up, faults, scenario>>
clientVars == <<client, dials, cli>>
adminVars  == <<backlog, admin, hand>>
mainVars   == <<main, sess, held, late>>
tunnelVars == <<via, opened, swept>>
userVars   == <<usr, tunnelVars>>
vars == <<netVars, clientVars, hub, adminVars, chAdmin, mainVars, userVars>>

Last(k) == <<k, dials[k]>>      \* the connection client k dialled last

SessionStatus == {"none", "open", "closed"}

TypeOK ==
    /\ client \in [Clients -> {"dial", "nonce", "accept"}]
    /\ dials \in [Clients -> 0 .. MaxFaults + 1]
    /\ up \subseteq Conns
    /\ cli \in [Conns -> SessionStatus]
    /\ hub \in [Conns -> SessionStatus]
    /\ backlog \in Seq(Conns)
    /\ admin \in {"accept", "nonce", "put"}
    /\ hand \in Conns \cup {None}
    /\ chAdmin \in Seq(Conns) /\ Len(chAdmin) <= 1
    /\ main \in {"start", "accept", "check", "wait", "go"}
    /\ sess \in Conns \cup {None}
    /\ held \in Users \cup {None}
    /\ usr \in [Users -> {"away", "queued", "held", "open", "SYN", "target",
                          "served", "unheard", "orphan", "stuck"}]
    /\ via \in [Users -> Conns \cup {None}]
    /\ opened \subseteq Users
    /\ swept \subseteq Conns
    /\ late \in [Conns -> Nat]
    /\ faults \in 0 .. MaxFaults
    /\ scenario \in Scenarios

Init ==
    /\ client = [k \in Clients |-> "dial"]
    /\ dials = [k \in Clients |-> 0]
    /\ up = {}
    /\ cli = [c \in Conns |-> "none"]
    /\ hub = [c \in Conns |-> "none"]
    /\ backlog = <<>>
    /\ admin = "accept" /\ hand = None
    /\ chAdmin = <<>>
    /\ main = "start" /\ sess = None /\ held = None
    /\ usr = [u \in Users |-> "away"]
    /\ via = [u \in Users |-> None]
    /\ opened = {} /\ swept = {}
    /\ late = [c \in Conns |-> 0]
    /\ faults = 0
    /\ scenario \in Scenarios

Accepted(c) == hub[c] # "none" \/ (admin = "nonce" /\ hand = c)

-----------------------------------------------------------------------------
(* Client: createConn, waitConn and the accept loop *)

\* The connection is made, in the kernel of the hub's machine at first.  Without
\* a key the session starts at once.
Dial(k) ==
    LET c == <<k, dials[k] + 1>> IN
    /\ client[k] = "dial"
    /\ k \in scenario.clients
    /\ dials[k] <= scenario.faults
    /\ dials' = [dials EXCEPT ![k] = @ + 1]
    /\ up' = up \cup {c}
    /\ backlog' = Append(backlog, c)
    /\ IF scenario.keyed
         THEN /\ client' = [client EXCEPT ![k] = "nonce"]
              /\ UNCHANGED cli
         ELSE /\ client' = [client EXCEPT ![k] = "accept"]
              /\ cli' = [cli EXCEPT ![c] = "open"]
    /\ UNCHANGED <<faults, scenario, hub, admin, hand, chAdmin, mainVars, userVars>>

\* The hub's nonce, which it sent when it accepted, is read in one go and with no
\* deadline.  (To read it from a connection that broke since is to read it just before.)
ReadNonce(k) ==
    /\ client[k] = "nonce"
    /\ Accepted(Last(k)) /\ Last(k) \in up
    /\ client' = [client EXCEPT ![k] = "accept"]
    /\ cli' = [cli EXCEPT ![Last(k)] = "open"]
    /\ UNCHANGED <<netVars, dials, hub, adminVars, chAdmin, mainVars, userVars>>

\* The connection is gone: createConn fails and waitConn tries again.
LoseNonce(k) ==
    /\ client[k] = "nonce"
    /\ Last(k) \notin up
    /\ client' = [client EXCEPT ![k] = "dial"]
    /\ UNCHANGED <<netVars, dials, cli, hub, adminVars, chAdmin, mainVars,
                   userVars>>

\* Read returns less than the 12 bytes: the client closes and tries again.
ShortNonce(k) ==
    /\ client[k] = "nonce"
    /\ Accepted(Last(k)) /\ Last(k) \in up
    /\ faults < scenario.faults
    /\ faults' = faults + 1
    /\ up' = up \ {Last(k)}
    /\ client' = [client EXCEPT ![k] = "dial"]
    /\ UNCHANGED <<scenario, dials, cli, hub, adminVars, chAdmin, mainVars,
                   userVars>>

\* AcceptStream returns a stream; a goroutine of its own dials the target.
AcceptStream(k, u) ==
    /\ client[k] = "accept"
    /\ usr[u] = "SYN" /\ via[u] = Last(k)
    /\ Last(k) \in up
    /\ usr' = [usr EXCEPT ![u] = "target"]
    /\ UNCHANGED <<netVars, clientVars, hub, adminVars, chAdmin, mainVars,
                   tunnelVars>>

\* Mutant: the client goes on with the session it has.
AcceptErrorStays(k) ==
    /\ client[k] = "accept"
    /\ cli[Last(k)] = "closed"
    /\ UNCHANGED vars

\* AcceptStream fails, the session is closed: waitConn.
AcceptError(k) ==
    /\ client[k] = "accept"
    /\ cli[Last(k)] = "closed"
    /\ client' = [client EXCEPT ![k] = "dial"]
    /\ UNCHANGED <<netVars, dials, cli, hub, adminVars, chAdmin, mainVars,
                   userVars>>

\* handleClient of the client: the target takes the call and the tunnel is
\* complete, or the stream is closed.  Its FIN ends the tunnel at the hub and closes the
\* user there, unless it finds the connection broken, or no stream in the hub's table.
DialTarget(u) ==
    /\ usr[u] = "target"
    /\ \/ via[u] \in up /\ usr' = [usr EXCEPT ![u] = "served"]
       \/ via[u] \in up /\ u \in opened /\ usr' = [usr EXCEPT ![u] = "away"]
       \/ ~(via[u] \in up /\ u \in opened) /\ usr' = [usr EXCEPT ![u] = "unheard"]
    /\ UNCHANGED <<netVars, clientVars, hub, adminVars, chAdmin, mainVars,
                   tunnelVars>>

-----------------------------------------------------------------------------
(* Hub: the admin goroutine *)

AdminAccept ==
    /\ admin = "accept"
    /\ backlog # <<>>
    /\ hand' = Head(backlog)
    /\ backlog' = Tail(backlog)
    /\ IF scenario.keyed
         THEN admin' = "nonce" /\ UNCHANGED hub
         ELSE admin' = "put" /\ hub' = [hub EXCEPT ![hand'] = "open"]
    /\ UNCHANGED <<netVars, clientVars, chAdmin, mainVars, userVars>>

\* The client's nonce was sent with the dial, and can be read even when the
\* connection has been closed since.  The read has no deadline.
AdminNonce ==
    /\ admin = "nonce"
    /\ admin' = "put"
    /\ hub' = [hub EXCEPT ![hand] = "open"]
    /\ UNCHANGED <<netVars, clientVars, backlog, hand, chAdmin, mainVars,
                   userVars>>

\* The nonce does not come or comes short: the hub closes the connection.
AdminShort ==
    /\ admin = "nonce"
    /\ \/ hand \notin up /\ UNCHANGED netVars
       \/ /\ faults < scenario.faults
          /\ faults' = faults + 1
          /\ up' = up \ {hand}
          /\ UNCHANGED scenario
    /\ admin' = "accept" /\ hand' = None
    /\ hub' = [hub EXCEPT ![hand] = "closed"]
    /\ UNCHANGED <<clientVars, backlog, chAdmin, mainVars, userVars>>

\* Mutant: a session that does not fit in the channel is dropped.
AdminPutOrDrop ==
    /\ admin = "put"
    /\ chAdmin' = IF Len(chAdmin) < 1 THEN Append(chAdmin, hand) ELSE chAdmin
    /\ admin' = "accept" /\ hand' = None
    /\ UNCHANGED <<netVars, clientVars, hub, backlog, mainVars, userVars>>

\* Mutant: the channel has no limit.
AdminPutUnbounded ==
    /\ admin = "put"
    /\ chAdmin' = Append(chAdmin, hand)
    /\ admin' = "accept" /\ hand' = None
    /\ UNCHANGED <<netVars, clientVars, hub, backlog, mainVars, userVars>>

\* The send blocks while chAdmin is full, and no other client is looked at.
AdminPut ==
    /\ admin = "put"
    /\ Len(chAdmin) < 1
    /\ chAdmin' = Append(chAdmin, hand)
    /\ admin' = "accept" /\ hand' = None
    /\ UNCHANGED <<netVars, clientVars, hub, backlog, mainVars, userVars>>

-----------------------------------------------------------------------------
(* Hub: main *)

MainStart ==
    /\ main = "start"
    /\ chAdmin # <<>>
    /\ sess' = Head(chAdmin)
    /\ chAdmin' = Tail(chAdmin)
    /\ main' = "accept"
    /\ UNCHANGED <<netVars, clientVars, hub, adminVars, held, late, userVars>>

MainAccept(u) ==
    /\ main = "accept"
    /\ usr[u] = "queued"
    /\ usr' = [usr EXCEPT ![u] = "held"]
    /\ held' = u
    /\ main' = "check"
    /\ UNCHANGED <<netVars, clientVars, hub, adminVars, chAdmin, sess, late,
                   tunnelVars>>

\* Mutant: the session is not asked.
MainNoCheck ==
    /\ main = "check"
    /\ main' = "go"
    /\ UNCHANGED <<netVars, clientVars, hub, adminVars, chAdmin, sess, held, late,
                   userVars>>

MainCheck ==
    /\ main = "check"
    /\ main' = IF hub[sess] = "closed" THEN "wait" ELSE "go"
    /\ UNCHANGED <<netVars, clientVars, hub, adminVars, chAdmin, sess, held, late,
                   userVars>>

\* Mutant: the new session goes to a variable of an inner scope.
MainTakeShadowed ==
    /\ main = "wait"
    /\ chAdmin # <<>>
    /\ chAdmin' = Tail(chAdmin)
    /\ main' = "go"
    /\ UNCHANGED <<netVars, clientVars, hub, adminVars, sess, held, late, userVars>>

\* The next session, whatever has become of it in the channel.
MainTake ==
    /\ main = "wait"
    /\ chAdmin # <<>>
    /\ sess' = Head(chAdmin)
    /\ chAdmin' = Tail(chAdmin)
    /\ main' = "go"
    /\ UNCHANGED <<netVars, clientVars, hub, adminVars, held, late, userVars>>

\* go handleClient(sess, p1)
MainGo ==
    /\ main = "go"
    /\ usr' = [usr EXCEPT ![held] = "open"]
    /\ via' = [via EXCEPT ![held] = sess]
    /\ late' = IF hub[sess] = "closed" THEN [late EXCEPT ![sess] = @ + 1] ELSE late
    /\ held' = None
    /\ main' = "accept"
    /\ UNCHANGED <<netVars, clientVars, hub, adminVars, chAdmin, sess, opened, swept>>

-----------------------------------------------------------------------------
(* Hub: handleClient *)

\* OpenStream sends its SYN, which is lost when the connection is broken.
OpenStream(u) ==
    /\ usr[u] = "open"
    /\ hub[via[u]] = "open"
    /\ usr' = [usr EXCEPT ![u] = "SYN"]
    /\ UNCHANGED <<netVars, clientVars, hub, adminVars, chAdmin, mainVars,
                   tunnelVars>>

\* OpenStream fails and the user is closed, or, when the session is closed in
\* the middle of it, waits for ever for the answer to its SYN (SendLoop).
OpenFails(u) ==
    /\ usr[u] = "open"
    /\ hub[via[u]] = "closed"
    /\ \E outcome \in {"away", "stuck"} : usr' = [usr EXCEPT ![u] = outcome]
    /\ UNCHANGED <<netVars, clientVars, hub, adminVars, chAdmin, mainVars,
                   tunnelVars>>

\* From the SYN on until the user is gone.
Streaming(u) == usr[u] \in {"SYN", "target", "served", "unheard"}

\* The stream gets into the table, and when the session has closed its streams already
\* nobody will close this one.  For that OpenStream has to lock streamLock, which
\* recvLoop may hold for ever when the session is closed.
Register(u) ==
    /\ Streaming(u)
    /\ u \notin opened
    /\ \/ /\ opened' = opened \cup {u}
          /\ usr' = IF via[u] \in swept THEN [usr EXCEPT ![u] = "orphan"] ELSE usr
       \/ /\ hub[via[u]] = "closed"
          /\ usr' = [usr EXCEPT ![u] = "stuck"]
          /\ UNCHANGED opened
    /\ UNCHANGED <<netVars, clientVars, hub, adminVars, chAdmin, mainVars, via, swept>>

\* cp ends because the session has closed the stream, and handleClient closes the
\* user.
TunnelBreaks(u) ==
    /\ Streaming(u)
    /\ u \in opened
    /\ via[u] \in swept
    /\ usr' = [usr EXCEPT ![u] = "away"]
    /\ UNCHANGED <<netVars, clientVars, hub, adminVars, chAdmin, mainVars,
                   tunnelVars>>

\* cp ends because the user or the target has finished.  (A user waits for the target.)
TunnelEnds(u) ==
    /\ usr[u] \in {"served", "unheard", "orphan"}
    /\ u \in opened
    /\ usr' = [usr EXCEPT ![u] = "away"]
    /\ UNCHANGED <<netVars, clientVars, hub, adminVars, chAdmin, mainVars,
                   tunnelVars>>

-----------------------------------------------------------------------------
(* Users, the network, and the sessions that notice it *)

Connect(u) ==
    /\ usr[u] = "away"
    /\ u \in scenario.users
    /\ usr' = [usr EXCEPT ![u] = "queued"]
    /\ via' = [via EXCEPT ![u] = None]
    /\ opened' = opened \ {u}
    /\ UNCHANGED <<netVars, clientVars, hub, adminVars, chAdmin, mainVars, swept>>

Break(c) ==
    /\ c \in up
    /\ faults < scenario.faults
    /\ faults' = faults + 1
    /\ up' = up \ {c}
    /\ UNCHANGED <<scenario, clientVars, hub, adminVars, chAdmin, mainVars, userVars>>

\* recvLoop or keepalive closes the session of a connection that is gone.
HubNotices(c) ==
    /\ hub[c] = "open"
    /\ c \notin up
    /\ hub' = [hub EXCEPT ![c] = "closed"]
    /\ UNCHANGED <<netVars, clientVars, adminVars, chAdmin, mainVars, userVars>>

\* Session.Close goes over the streams in the table, once; it too needs streamLock.
Sweep(c) ==
    /\ hub[c] = "closed"
    /\ c \notin swept
    /\ swept' = swept \cup {c}
    /\ UNCHANGED <<netVars, clientVars, hub, adminVars, chAdmin, mainVars, usr, via,
                   opened>>

ClientNotices(c) ==
    /\ cli[c] = "open"
    /\ c \notin up
    /\ cli' = [cli EXCEPT ![c] = "closed"]
    /\ UNCHANGED <<netVars, client, dials, hub, adminVars, chAdmin, mainVars,
                   userVars>>

-----------------------------------------------------------------------------
ClientMain(k) == Dial(k) \/ ReadNonce(k) \/ LoseNonce(k) \/ AcceptError(k)
Admin         == AdminAccept \/ AdminNonce \/ AdminShort \/ AdminPut
HubMain       == MainStart \/ MainCheck \/ MainTake \/ MainGo
HandleClient(u) == OpenStream(u) \/ OpenFails(u) \/ Register(u) \/ TunnelBreaks(u)

\* Reads of a nonce that nothing but the nonce itself can end.
ClientAwaitsNonce(k) == client[k] = "nonce" /\ Accepted(Last(k)) /\ Last(k) \in up
HubAwaitsNonce == admin = "nonce" /\ hand \in up

Next ==
    \/ \E k \in Clients :
          \/ ClientMain(k)
          \/ ShortNonce(k)
          \/ \E u \in Users : AcceptStream(k, u)
    \/ Admin
    \/ HubMain
    \/ \E u \in Users :
          \/ MainAccept(u)
          \/ HandleClient(u)
          \/ DialTarget(u)
          \/ TunnelEnds(u)
          \/ Connect(u)
    \/ \E c \in Conns :
          \/ Break(c)
          \/ HubNotices(c)
          \/ Sweep(c)
          \/ ClientNotices(c)

\* Every goroutine runs, but the one that waits for a nonce on a connection that is up,
\* and a Session.Close need not get streamLock.  The listener hands out the users in the
\* order in which they came, so none waits for ever: strong fairness.  The target
\* answers, and takes a call now and then.  No user need come or leave.
Fairness ==
    /\ \A k \in Clients : WF_vars(ClientMain(k) /\ ~ClientAwaitsNonce(k))
    /\ WF_vars(Admin /\ ~HubAwaitsNonce)
    /\ WF_vars(HubMain)
    /\ \A u \in Users :
          /\ SF_vars(MainAccept(u))
          /\ WF_vars(HandleClient(u))
          /\ WF_vars(DialTarget(u))
          /\ SF_vars(DialTarget(u) /\ usr'[u] = "served")
          /\ \A k \in Clients : WF_vars(AcceptStream(k, u))
    /\ \A c \in Conns : WF_vars(HubNotices(c)) /\ WF_vars(ClientNotices(c))

Spec == Init /\ [][Next]_vars /\ Fairness

-----------------------------------------------------------------------------
(* Properties *)

\* main of the hub lets go of a session only when it is closed, and the admin
\* goroutine of none: an open session is the one users are given to, or its
\* turn will come.  (An open session that nobody holds would keep its client
\* from dialling again for ever.)
NoOpenSessionForgotten ==
    \A c \in Conns : hub[c] = "open" =>
        \/ c = sess
        \/ c \in {chAdmin[i] : i \in DOMAIN chAdmin}
        \/ c = hand

\* chAdmin may hand out a session that was closed while it waited there, and
\* main does not ask again: it costs one user, and never a second one.
OneUserPerDeadSession == \A c \in Conns : late[c] <= 1

\* One of the two reads of a nonce waits for ever, on a connection that is up.
NonceMissing ==
    \/ <>[]HubAwaitsNonce
    \/ \E k \in Clients : <>[]ClientAwaitsNonce(k)

\* The session is closed, but waits for streamLock before it closes its streams.
Unswept(u) == Streaming(u) /\ hub[via[u]] = "closed" /\ via[u] \notin swept

\* A user who connects is served or closed: nobody waits for ever for a session, however
\* the sessions come and go.  The exceptions are a handshake that never ends and the
\* windows of OpenStream: the session is closed in the middle of it (stuck), or before
\* the stream is in the table (orphan), or the client closes the stream before that, or
\* over a broken connection (unheard); and a session that cannot close its streams.
UserAnswered ==
    \/ NonceMissing
    \/ \A u \in Users :
          \/ <>[]Unswept(u)
          \/ usr[u] = "queued" ~>
                usr[u] \in {"served", "away", "unheard", "orphan", "stuck"}

\* Sessions break, users are closed, but as long as users keep coming the
\* service recovers: again and again one of them is served.  Only a handshake that never
\* ends keeps it from that.
ServiceRecovers ==
    \/ NonceMissing
    \/ ([]<> \E u \in Users : usr[u] = "queued") =>
          ([]<> \E u \in Users : usr[u] = "served")
================================================================================
