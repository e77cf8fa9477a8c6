------------------------- MODULE TunnelClientProofs -------------------------
(***************************************************************************)
(* Proofs about the tunnel client: no reconnect leaves a UDP control       *)
(* socket of an earlier connection behind (TunnelClient), and its UDP      *)
(* sessions own their sockets (UdpSessions).                               *)
(***************************************************************************)
EXTENDS TunnelClient, UdpSessions, TLAPS

\* What OneControlSocket rests on: where run() connects or registers there is no control socket yet.
SocketInv ==
  /\ OneControlSocket
  /\ session \in Nat /\ (run = "register" => session # 0)
  /\ run \in {"connect", "register"} \cup {CloseSteps[i] : i \in 4 .. 7} => udpConn = 0

(* A control socket is closed before run() connects again: closeControl    *)
(* closes it in its third step, and while it finishes and a registration   *)
(* is under way nobody opens one.                                          *)
THEOREM SocketInductive == SocketInv /\ [ClientNext]_clientVars => SocketInv'
<1> SUFFICES ASSUME SocketInv, [ClientNext]_clientVars PROVE SocketInv'
  OBVIOUS
<1> USE ClientAssumption DEF SocketInv, OneControlSocket
<1>0. /\ CloseSteps[1] = "close_done" /\ CloseSteps[2] = "stop_ping" /\ CloseSteps[3] = "close_udp"
      /\ CloseSteps[4] = "drop_encoder" /\ CloseSteps[5] = "close_quit"
      /\ CloseSteps[6] = "close_status" /\ CloseSteps[7] = "drop_status"
  BY DEF CloseSteps
<1> DEFINE Gone == {"connect", "register", "drop_encoder", "close_quit", "close_status", "drop_status"}
<1>a. {"connect", "register"} \cup {CloseSteps[i] : i \in 4 .. 7} = Gone
  <2>1. {CloseSteps[i] : i \in 4 .. 7} = {CloseSteps[4], CloseSteps[5], CloseSteps[6], CloseSteps[7]}
    OBVIOUS
  <2> QED
    BY <1>0, <2>1
<1>b. /\ udpSockets = {udpConn} \ {0} /\ udpConn \in {0, session} /\ session \in Nat
      /\ (run \in Gone => udpConn = 0) /\ (run = "register" => session # 0)
  BY <1>a
<1>c. SUFFICES /\ udpSockets' = {udpConn'} \ {0} /\ udpConn' \in {0, session'} /\ session' \in Nat
               /\ (run' \in Gone => udpConn' = 0) /\ (run' = "register" => session' # 0)
  BY <1>a
<1>1. CASE UNCHANGED clientVars
  BY <1>1, <1>b DEF clientVars
<1>2. CASE Dial
  BY <1>2, <1>b DEF Dial
<1>3. CASE RegisterFails
  BY <1>3, <1>b DEF RegisterFails, closeUDPChannel
<1>4. CASE Registered
  <2>1. session' = session /\ run' = "start_loops" /\ run = "register"
    BY <1>4 DEF Registered, fieldVars
  <2>2. CASE setupUDPChannel
    <3>1. udpSockets' = (udpSockets \ {udpConn}) \cup {session} /\ udpConn' = session
      BY <2>2 DEF setupUDPChannel
    <3>2. session # 0
      BY <1>b, <2>1
    <3> QED
      BY <1>b, <2>1, <3>1, <3>2
  <2>3. CASE UNCHANGED <<udpConn, udpSockets>>
    BY <1>b, <2>1, <2>3
  <2> QED
    BY <1>4, <2>2, <2>3 DEF Registered
<1>5. CASE StartLoops \/ ReceiveEnds
  <2>1. run' \notin Gone /\ UNCHANGED <<session, udpConn, udpSockets>>
    BY <1>0, <1>5 DEF StartLoops, ReceiveEnds, fieldVars, udpVars
  <2> QED
    BY <1>b, <2>1
<1>6. CASE CloseControl
  <2>1. PICK i \in 1 .. 7 : /\ run = CloseSteps[i] /\ run' = IF i = 7 THEN "connect" ELSE CloseSteps[i + 1]
                            /\ IF i = 3 THEN closeUDPChannel /\ udpReady' = FALSE
                               ELSE UNCHANGED <<udpSockets, udpConn, udpReady>>
                            /\ UNCHANGED session
    BY <1>6 DEF CloseControl
  <2>2. CASE i = 3
    <3>1. udpSockets' = udpSockets \ {udpConn} /\ udpConn' = 0
      BY <2>1, <2>2 DEF closeUDPChannel
    <3> QED
      BY <1>0, <1>b, <2>1, <2>2, <3>1
  <2>3. CASE i \in 1 .. 2
    <3>1. run' \notin Gone
      BY <1>0, <2>1, <2>3
    <3> QED
      BY <1>b, <2>1, <2>3, <3>1
  <2>4. CASE i \in 4 .. 7
    <3>1. run \in Gone
      BY <1>0, <2>1, <2>4
    <3> QED
      BY <1>0, <1>b, <2>1, <2>4, <3>1
  <2> QED
    BY <2>2, <2>3, <2>4
<1>7. ASSUME NEW s \in ClientSessions,
             \/ \E k \in Kinds : LoopFires(k, s) \/ LoopEnds(k, s)
             \/ heartbeatLoop(s) \/ trafficLoop(s) \/ displayLoop(s)
             \/ RetryChecks(s) \/ RetryTicks(s) \/ RetryDone(s)
             \/ ReadPacket(s) \/ ReaderEnds(s) \/ handleUDPControlPacket(s) \/ startUDPPing(s)
      PROVE  SocketInv'
  <2>1. run' \in {run, "crashed"} /\ UNCHANGED <<session, udpConn, udpSockets>>
    BY <1>7 DEF LoopFires, LoopEnds, heartbeatLoop, trafficLoop, displayLoop, RetryChecks, RetryTicks,
                RetryDone, ReadPacket, ReaderEnds, handleUDPControlPacket, startUDPPing, fieldVars, udpVars
  <2> QED
    BY <1>a, <1>b, <2>1
<1>8. ASSUME NEW s \in ClientSessions, RetryGivesUp(s) PROVE SocketInv'
  <2>1. udpSockets' = udpSockets \ {udpConn} /\ udpConn' = 0 /\ UNCHANGED <<run, session>>
    BY <1>8 DEF RetryGivesUp, closeUDPChannel, fieldVars
  <2> QED
    BY <1>a, <1>b, <2>1
<1>9. CASE udpPingLoop
  BY <1>9, <1>b DEF udpPingLoop, fieldVars
<1> QED
  BY <1>a, <1>1, <1>2, <1>3, <1>4, <1>5, <1>6, <1>7, <1>8, <1>9 DEF ClientNext

(* OneControlSocket for any number of connections and of handshake         *)
(* retries: no reconnect leaves an earlier connection's UDP control socket *)
(* open or in use (client main.go, connectControl, closeControl).          *)
THEOREM OneControlSocketHolds == ClientSpec => []OneControlSocket
<1>1. ClientInit => SocketInv
  BY DEF ClientInit, SocketInv, OneControlSocket
<1>2. SocketInv => OneControlSocket
  BY DEF SocketInv
<1> QED
  BY <1>1, <1>2, SocketInductive, PTL DEF ClientSpec

-----------------------------------------------------------------------------
ClientSession == [id : UdpIds, open : BOOLEAN, timer : BOOLEAN, reading : BOOLEAN]
ServerSession == [id : UdpIds, secret : Nat, open : BOOLEAN, reading : BOOLEAN, addr : Nat]
Datagram ==
  [to : {"client", "server"}, type : {"data", "close"}, id : UdpIds, sealed : Nat, addr : Nat]
Held == {NoData} \cup [at : {"opened", "found"}, id : UdpIds]

\* The server's half, and what is under way: all there is to know of it here is its types.
WireInv ==
  /\ reg \in Nat /\ secret \in Nat /\ clientSecret \in Nat
  /\ serverSess \in Seq(ServerSession)
  /\ serverUdp \in [UdpIds -> 0 .. Len(serverSess)]
  /\ datagrams \in SUBSET Datagram
  /\ closes \in SUBSET UdpIds
  /\ held \in [Regs -> Held]

\* The client's map names only sessions it has opened, each under its own identifier.
MapInv ==
  /\ clientSess \in Seq(ClientSession)
  /\ clientUdp \in [UdpIds -> 0 .. Len(clientSess)]
  /\ \A id \in UdpIds : clientUdp[id] # 0 => clientSess[clientUdp[id]].id = id

UdpInv == WireInv /\ MapInv /\ SocketsOwned

\* The client closes the sessions numbered in gone and may touch the timers and readers of all.
CloseOnly(gone) ==
  /\ clientSess' \in Seq(ClientSession) /\ Len(clientSess') = Len(clientSess)
  /\ \A n \in 1 .. Len(clientSess) :
       /\ clientSess'[n].id = clientSess[n].id
       /\ clientSess'[n].open <=> clientSess[n].open /\ n \notin gone

\* Closed keeps a sequence of sessions one, and closes the one session it names (Close, client and server).
LEMMA ClosedCloses ==
  ASSUME NEW s \in Seq(ClientSession), NEW n
  PROVE  /\ Closed(s, n) \in Seq(ClientSession) /\ Len(Closed(s, n)) = Len(s)
         /\ \A i \in 1 .. Len(s) :
              Closed(s, n)[i].id = s[i].id /\ (Closed(s, n)[i].open <=> s[i].open /\ i # n)
<1>1. s \in [1 .. Len(s) -> ClientSession] /\ Len(s) \in Nat
  OBVIOUS
<1>2. \A i \in 1 .. Len(s) : /\ [s[i] EXCEPT !.open = FALSE] \in ClientSession
                             /\ [s[i] EXCEPT !.open = FALSE].id = s[i].id
                             /\ ~[s[i] EXCEPT !.open = FALSE].open
  BY <1>1 DEF ClientSession
<1>3. Closed(s, n) \in [1 .. Len(s) -> ClientSession]
  BY <1>1, <1>2 DEF Closed
<1>4. \A i \in 1 .. Len(s) :
        Closed(s, n)[i].id = s[i].id /\ (Closed(s, n)[i].open <=> s[i].open /\ i # n)
  BY <1>1, <1>2 DEF Closed
<1> QED
  BY <1>1, <1>3, <1>4

\* The same of the server's sessions; who holds them does not matter here.
LEMMA ClosedServer ==
  ASSUME NEW s \in Seq(ServerSession), NEW n
  PROVE  Closed(s, n) \in Seq(ServerSession) /\ Len(Closed(s, n)) = Len(s)
<1>1. s \in [1 .. Len(s) -> ServerSession] /\ Len(s) \in Nat
  OBVIOUS
<1>2. \A i \in 1 .. Len(s) : [s[i] EXCEPT !.open = FALSE] \in ServerSession
  BY <1>1 DEF ServerSession
<1>3. Closed(s, n) \in [1 .. Len(s) -> ServerSession]
  BY <1>1, <1>2 DEF Closed
<1> QED
  BY <1>1, <1>3

\* t is s but for timers and readers.
Touched(s, t) ==
  /\ t \in Seq(ClientSession) /\ Len(t) = Len(s)
  /\ \A i \in 1 .. Len(s) : t[i].id = s[i].id /\ t[i].open = s[i].open

\* Overwriting a session by one with its identifier and its socket touches it only.
LEMMA TouchOne ==
  ASSUME NEW s \in Seq(ClientSession), NEW n, NEW r,
         n \in 1 .. Len(s) => r \in ClientSession /\ r.id = s[n].id /\ r.open = s[n].open
  PROVE  Touched(s, [s EXCEPT ![n] = r])
<1>1. s \in [1 .. Len(s) -> ClientSession] /\ Len(s) \in Nat
  OBVIOUS
<1>2. PICK t : t = [s EXCEPT ![n] = r]
  OBVIOUS
<1>3. t \in [1 .. Len(s) -> ClientSession]
  BY <1>1, <1>2
<1>4. \A i \in 1 .. Len(s) : t[i].id = s[i].id /\ t[i].open = s[i].open
  BY <1>1, <1>2
<1>5. Touched(s, t)
  BY <1>1, <1>3, <1>4 DEF Touched
<1> QED
  BY <1>2, <1>5

\* Setting a session's timer leaves its identifier and its socket alone (startBackendWait, cancelBackendWait).
LEMMA TimerTouches ==
  ASSUME NEW s \in Seq(ClientSession), NEW n, NEW b \in BOOLEAN
  PROVE  Touched(s, [s EXCEPT ![n].timer = b])
<1>1. s \in [1 .. Len(s) -> ClientSession]
  OBVIOUS
<1>2. PICK r : r = [s[n] EXCEPT !.timer = b]
  OBVIOUS
<1>3. n \in 1 .. Len(s) => r \in ClientSession /\ r.id = s[n].id /\ r.open = s[n].open
  BY <1>1, <1>2 DEF ClientSession
<1>4. Touched(s, [s EXCEPT ![n] = r])
  BY <1>3, TouchOne
<1>5. [s EXCEPT ![n] = r] = [s EXCEPT ![n].timer = b]
  BY <1>2
<1> QED
  BY <1>4, <1>5

\* So does the end of its reader (readFromUDPLocal).
LEMMA ReaderTouches ==
  ASSUME NEW s \in Seq(ClientSession), NEW n
  PROVE  Touched(s, [s EXCEPT ![n].reading = FALSE])
<1>1. s \in [1 .. Len(s) -> ClientSession]
  OBVIOUS
<1>2. PICK r : r = [s[n] EXCEPT !.reading = FALSE]
  OBVIOUS
<1>3. n \in 1 .. Len(s) => r \in ClientSession /\ r.id = s[n].id /\ r.open = s[n].open
  BY <1>1, <1>2 DEF ClientSession
<1>4. Touched(s, [s EXCEPT ![n] = r])
  BY <1>3, TouchOne
<1>5. [s EXCEPT ![n] = r] = [s EXCEPT ![n].reading = FALSE]
  BY <1>2
<1> QED
  BY <1>4, <1>5

\* Touching sessions, more than once too, closes none.
LEMMA TouchedClosesNone ==
  ASSUME NEW s \in Seq(ClientSession), Touched(clientSess, s), clientSess' = s \/ Touched(s, clientSess')
  PROVE  CloseOnly({})
<1>1. clientSess' \in Seq(ClientSession) /\ Len(clientSess') = Len(clientSess)
  BY DEF Touched
<1>2. ASSUME NEW i \in 1 .. Len(clientSess)
      PROVE  clientSess'[i].id = clientSess[i].id /\ clientSess'[i].open = clientSess[i].open
  BY DEF Touched
<1> QED
  BY <1>1, <1>2 DEF CloseOnly

\* A step that closes no socket and leaves the map alone keeps map and sockets together.
LEMMA TouchKeepsMap ==
  MapInv /\ SocketsOwned /\ CloseOnly({}) /\ UNCHANGED clientUdp => MapInv' /\ SocketsOwned'
<1> SUFFICES ASSUME MapInv, SocketsOwned, CloseOnly({}), UNCHANGED clientUdp
             PROVE  MapInv' /\ SocketsOwned'
  OBVIOUS
<1>1. Len(clientSess) \in Nat
  BY DEF MapInv
<1>2. MapInv'
  BY <1>1 DEF MapInv, CloseOnly
<1>3. SocketsOwned'
  BY <1>1 DEF MapInv, SocketsOwned, CloseOnly
<1> QED
  BY <1>2, <1>3

(* Removing by identifier closes the session the map names and no other,   *)
(* whoever asks: a late reader of a replaced session too.                  *)
LEMMA RemoveKeepsMap ==
  ASSUME MapInv, SocketsOwned, NEW id \in UdpIds,
         CloseOnly({clientUdp[id]}), clientUdp' = [clientUdp EXCEPT ![id] = 0]
  PROVE  MapInv' /\ SocketsOwned'
<1>1. Len(clientSess) \in Nat /\ Len(clientSess') = Len(clientSess)
  BY DEF MapInv, CloseOnly
<1>2. clientUdp' \in [UdpIds -> 0 .. Len(clientSess)]
  BY <1>1 DEF MapInv
<1>3. MapInv'
  BY <1>1, <1>2 DEF MapInv, CloseOnly
<1>4. ASSUME NEW n \in 1 .. Len(clientSess)
      PROVE  clientSess'[n].open <=> clientUdp'[clientSess'[n].id] = n
  <2>1. clientSess[n].id \in UdpIds
    <3>1. clientSess[n] \in ClientSession
      BY DEF MapInv
    <3> QED
      BY <3>1 DEF ClientSession
  <2>2. clientSess'[n].id = clientSess[n].id
    BY DEF CloseOnly
  <2>3. clientSess'[n].open <=> clientUdp[clientSess[n].id] = n /\ n # clientUdp[id]
    BY DEF CloseOnly, SocketsOwned
  <2>4. CASE clientSess[n].id = id
    BY <1>1, <2>1, <2>2, <2>3, <2>4 DEF MapInv
  <2>5. CASE clientSess[n].id # id
    <3>1. n # clientUdp[id]
      BY <1>1, <2>5 DEF MapInv
    <3>2. clientUdp'[clientSess[n].id] = clientUdp[clientSess[n].id]
      BY <2>1, <2>5 DEF MapInv
    <3> QED
      BY <2>2, <2>3, <3>1, <3>2
  <2> QED
    BY <2>4, <2>5
<1>5. SocketsOwned'
  BY <1>1, <1>4 DEF SocketsOwned
<1> QED
  BY <1>3, <1>5

\* The client opens a session and replaces the one of the same identifier (handleUDPOpen).
LEMMA OpenKeepsMap ==
  ASSUME MapInv, SocketsOwned, NEW id \in UdpIds, handleUDPOpen(id)
  PROVE  MapInv' /\ SocketsOwned'
<1> DEFINE old == Closed(clientSess, clientUdp[id])
           new == [id |-> id, open |-> TRUE, timer |-> FALSE, reading |-> TRUE]
<1>1. clientSess \in Seq(ClientSession) /\ Len(clientSess) \in Nat
  BY DEF MapInv
<1>2. /\ old \in Seq(ClientSession) /\ Len(old) = Len(clientSess)
      /\ \A i \in 1 .. Len(clientSess) :
           old[i].id = clientSess[i].id /\ (old[i].open <=> clientSess[i].open /\ i # clientUdp[id])
  BY <1>1, ClosedCloses
<1>3. new \in ClientSession /\ new.id = id /\ new.open
  BY DEF ClientSession
<1>4. clientSess' = Append(old, new) /\ clientUdp' = [clientUdp EXCEPT ![id] = Len(clientSess) + 1]
  BY DEF handleUDPOpen
<1> HIDE DEF old, new
<1>5. /\ clientSess' \in Seq(ClientSession) /\ Len(clientSess') = Len(clientSess) + 1
      /\ clientSess'[Len(clientSess) + 1] = new
      /\ \A i \in 1 .. Len(clientSess) : clientSess'[i] = old[i]
  BY <1>1, <1>2, <1>3, <1>4
<1>6. clientUdp' \in [UdpIds -> 0 .. Len(clientSess) + 1]
  BY <1>1, <1>4 DEF MapInv
<1>7. \A k \in UdpIds : clientUdp'[k] # 0 => clientSess'[clientUdp'[k]].id = k
  <2> SUFFICES ASSUME NEW k \in UdpIds, clientUdp'[k] # 0 PROVE clientSess'[clientUdp'[k]].id = k
    OBVIOUS
  <2>1. CASE k = id
    BY <1>3, <1>4, <1>5, <2>1 DEF MapInv
  <2>2. CASE k # id
    <3>1. clientUdp'[k] = clientUdp[k] /\ clientUdp[k] \in 1 .. Len(clientSess)
      BY <1>1, <1>4, <2>2 DEF MapInv
    <3> QED
      BY <1>2, <1>5, <3>1 DEF MapInv
  <2> QED
    BY <2>1, <2>2
<1>8. ASSUME NEW n \in 1 .. Len(clientSess)
      PROVE  clientSess'[n].open <=> clientUdp'[clientSess'[n].id] = n
  <2>1. clientSess[n].id \in UdpIds
    <3>1. clientSess[n] \in ClientSession
      BY <1>1
    <3> QED
      BY <3>1 DEF ClientSession
  <2>2. clientSess'[n].id = clientSess[n].id
    BY <1>2, <1>5
  <2>3. clientSess'[n].open <=> clientUdp[clientSess[n].id] = n /\ n # clientUdp[id]
    BY <1>2, <1>5 DEF SocketsOwned
  <2>4. CASE clientSess[n].id = id
    <3>1. clientUdp'[id] = Len(clientSess) + 1
      BY <1>4 DEF MapInv
    <3> QED
      BY <1>1, <2>2, <2>3, <2>4, <3>1
  <2>5. CASE clientSess[n].id # id
    <3>1. n # clientUdp[id]
      BY <1>1, <2>5 DEF MapInv
    <3>2. clientUdp'[clientSess[n].id] = clientUdp[clientSess[n].id]
      BY <1>4, <2>1, <2>5 DEF MapInv
    <3> QED
      BY <2>2, <2>3, <3>1, <3>2
  <2> QED
    BY <2>4, <2>5
<1>9. clientUdp'[new.id] = Len(clientSess) + 1
  BY <1>3, <1>4 DEF MapInv
<1>10. SocketsOwned'
  BY <1>1, <1>3, <1>5, <1>8, <1>9 DEF SocketsOwned
<1> QED
  BY <1>5, <1>6, <1>7, <1>10 DEF MapInv

\* A close message is a datagram like any other (sendUDPClose).
LEMMA CloseKeepsWire ==
  ASSUME WireInv, NEW id \in UdpIds, sendUDPClose(id) \/ UNCHANGED <<datagrams, closes>>,
         held' \in [Regs -> Held], UNCHANGED <<keys, serverEnd>>
  PROVE  WireInv'
<1> USE DEF keys, serverEnd
<1>1. Close("server", id) \in Datagram
  BY DEF WireInv, Close, Datagram
<1>2. CASE sendUDPClose(id)
  <2>1. datagrams' = datagrams \cup {Close("server", id)} /\ closes' = closes \cup {id}
    BY <1>2 DEF sendUDPClose
  <2> QED
    BY <1>1, <2>1 DEF WireInv
<1>3. CASE UNCHANGED <<datagrams, closes>>
  BY <1>3 DEF WireInv
<1> QED
  BY <1>2, <1>3

\* The server's steps concern its own half and what is under way (server main.go).
LEMMA ServerKeepsWire ==
  ASSUME WireInv,
         \/ \E id \in UdpIds : ServerOpen(id) \/ ServerControlClose(id)
         \/ \E d \in datagrams : ServerClose(d) \/ ServerData(d)
         \/ \E n \in 1 .. Len(serverSess) : RemoteRead(n) \/ RemoteReadEnds(n)
  PROVE  WireInv' /\ UNCHANGED <<clientUdp, clientSess>>
<1> USE DEF keys, clientEnd
<1> DEFINE S == serverSess
<1>1. S \in Seq(ServerSession) /\ Len(S) \in Nat /\ S \in [1 .. Len(S) -> ServerSession]
  BY DEF WireInv
<1>2. \A d \in datagrams : d \in Datagram /\ d.id \in UdpIds /\ d.addr \in Nat
  BY DEF WireInv, Datagram
<1>3. \A n \in 1 .. Len(S) : S[n] \in ServerSession /\ S[n].id \in UdpIds /\ S[n].secret \in Nat
                                                      /\ S[n].addr \in Nat
  <2>1. \A r \in ServerSession : r.id \in UdpIds /\ r.secret \in Nat /\ r.addr \in Nat
    BY DEF ServerSession
  <2> QED
    BY <1>1, <2>1
<1>4. \A id \in UdpIds : serverUdp[id] \in 0 .. Len(S)
  BY DEF WireInv
<1>5. ASSUME NEW id \in UdpIds, ServerOpen(id) PROVE WireInv'
  <2> DEFINE new == [id |-> id, secret |-> secret, open |-> TRUE, reading |-> TRUE, addr |-> 0]
  <2>1. new \in ServerSession
    BY DEF ServerSession, WireInv
  <2>2. serverSess' = Append(S, new)
    BY <1>5 DEF ServerOpen
  <2> HIDE DEF new
  <2>3. serverSess' \in Seq(ServerSession) /\ Len(serverSess') = Len(S) + 1
    BY <1>1, <2>1, <2>2
  <2>4. /\ serverUdp' = [serverUdp EXCEPT ![id] = Len(S) + 1]
        /\ UNCHANGED <<keys, held, datagrams, closes>>
    BY <1>5 DEF ServerOpen
  <2>5. serverUdp' \in [UdpIds -> 0 .. Len(serverSess')]
    BY <1>1, <2>3, <2>4 DEF WireInv
  <2> QED
    BY <2>3, <2>4, <2>5 DEF WireInv
<1>6. ASSUME NEW id \in UdpIds, ServerRemove(id), closes' \in SUBSET UdpIds,
             UNCHANGED <<keys, held, datagrams>>
      PROVE  WireInv'
  <2>1. serverSess' \in Seq(ServerSession) /\ Len(serverSess') = Len(S)
    BY <1>1, <1>6, ClosedServer DEF ServerRemove
  <2>2. serverUdp' \in [UdpIds -> 0 .. Len(S)]
    BY <1>1, <1>6 DEF ServerRemove, WireInv
  <2> QED
    BY <1>6, <2>1, <2>2 DEF WireInv
<1>7. ASSUME NEW id \in UdpIds, ServerControlClose(id) PROVE WireInv'
  <2>1. closes' \in SUBSET UdpIds
    BY <1>7 DEF ServerControlClose, WireInv
  <2> QED
    BY <1>6, <1>7, <2>1 DEF ServerControlClose
<1>8. ASSUME NEW d \in datagrams, ServerClose(d) PROVE WireInv'
  <2>1. closes' \in SUBSET UdpIds
    BY <1>8 DEF ServerClose, WireInv
  <2> QED
    BY <1>2, <1>6, <1>8, <2>1 DEF ServerClose
<1>9. ASSUME NEW d \in datagrams, ServerData(d) PROVE WireInv'
  <2>1. UNCHANGED <<keys, held, datagrams, closes>> /\ serverUdp[d.id] # 0
    BY <1>9 DEF ServerData
  <2>2. CASE ServerRemove(d.id)
    BY <1>2, <1>6, <2>1, <2>2 DEF WireInv
  <2>3. CASE /\ serverSess' = [serverSess EXCEPT ![serverUdp[d.id]].addr = d.addr]
             /\ UNCHANGED serverUdp
    <3>1. PICK r : r = [S[serverUdp[d.id]] EXCEPT !.addr = d.addr]
      OBVIOUS
    <3>2. serverUdp[d.id] \in 1 .. Len(S)
      BY <1>1, <1>2, <1>4, <2>1
    <3>3. r \in ServerSession
      BY <1>2, <1>3, <3>1, <3>2 DEF ServerSession
    <3>4. serverSess' = [S EXCEPT ![serverUdp[d.id]] = r]
      BY <2>3, <3>1
    <3>5. serverSess' \in [1 .. Len(S) -> ServerSession]
      BY <1>1, <3>3, <3>4
    <3>6. serverSess' \in Seq(ServerSession) /\ Len(serverSess') = Len(S)
      BY <1>1, <3>5
    <3> QED
      BY <2>1, <2>3, <3>6 DEF WireInv
  <2> QED
    BY <1>9, <2>2, <2>3 DEF ServerData
<1>10. ASSUME NEW n \in 1 .. Len(S), RemoteRead(n) PROVE WireInv'
  <2> DEFINE m == serverUdp[S[n].id]
             d == Data("client", S[n].id, S[m].secret, S[m].addr)
  <2>1. /\ m # 0 /\ datagrams' = datagrams \cup {d}
        /\ UNCHANGED <<keys, held, serverUdp, serverSess, closes>>
    BY <1>10 DEF RemoteRead, serverEnd
  <2>2. m \in 1 .. Len(S)
    BY <1>1, <1>3, <1>4, <2>1
  <2>3. d \in Datagram
    BY <1>3, <2>2 DEF Data, Datagram
  <2> HIDE DEF d
  <2> QED
    BY <2>1, <2>3 DEF WireInv
<1>11. ASSUME NEW n \in 1 .. Len(S), RemoteReadEnds(n) PROVE WireInv'
  <2> DEFINE k == S[n].id
             C == Closed(S, serverUdp[k])
  <2>1. /\ serverUdp' = [serverUdp EXCEPT ![k] = 0] /\ serverSess' = [C EXCEPT ![n].reading = FALSE]
        /\ UNCHANGED <<keys, held, datagrams, closes>>
    BY <1>11 DEF RemoteReadEnds
  <2>2. C \in Seq(ServerSession) /\ Len(C) = Len(S)
    BY <1>1, ClosedServer
  <2> HIDE DEF C
  <2>3. PICK r : r = [C[n] EXCEPT !.reading = FALSE]
    OBVIOUS
  <2>4. C \in [1 .. Len(S) -> ServerSession]
    BY <2>2
  <2>5. r \in ServerSession
    BY <2>3, <2>4 DEF ServerSession
  <2>6. serverSess' \in [1 .. Len(S) -> ServerSession]
    BY <2>1, <2>3, <2>4, <2>5
  <2>7. serverSess' \in Seq(ServerSession) /\ Len(serverSess') = Len(S)
    BY <1>1, <2>6
  <2>8. serverUdp' \in [UdpIds -> 0 .. Len(S)]
    BY <1>1, <1>3, <2>1 DEF WireInv
  <2> QED
    BY <2>1, <2>7, <2>8 DEF WireInv
<1>12. UNCHANGED <<clientUdp, clientSess>>
  BY DEF ServerOpen, ServerControlClose, ServerClose, ServerData, RemoteRead, RemoteReadEnds
<1> QED
  BY <1>5, <1>7, <1>8, <1>9, <1>10, <1>11, <1>12

\* Every step of either end, and a new registration, keeps the inductive invariant.
THEOREM UdpInductive == UdpInv /\ [UdpNext]_udpSessVars => UdpInv'
<1> SUFFICES ASSUME UdpInv, [UdpNext]_udpSessVars PROVE UdpInv'
  OBVIOUS
<1> USE DEF keys, serverEnd, clientEnd
<1> DEFINE C == clientSess
<1>1. /\ WireInv /\ MapInv /\ SocketsOwned
      /\ C \in Seq(ClientSession) /\ Len(C) \in Nat /\ C \in [1 .. Len(C) -> ClientSession]
  BY DEF UdpInv, MapInv
<1>2. \A n \in 1 .. Len(C) : C[n].id \in UdpIds
  BY <1>1 DEF ClientSession
<1>3. CASE UNCHANGED udpSessVars
  BY <1>3 DEF udpSessVars, UdpInv, WireInv, MapInv, SocketsOwned
<1>4. ASSUME NEW id \in UdpIds, handleUDPOpen(id) PROVE UdpInv'
  <2>1. UNCHANGED <<keys, held, serverEnd, datagrams, closes>>
    BY <1>4 DEF handleUDPOpen
  <2>2. WireInv'
    BY <1>1, <2>1 DEF WireInv
  <2> QED
    BY <1>1, <1>4, <2>2, OpenKeepsMap DEF UdpInv
<1>5. ASSUME NEW id \in UdpIds, UDPOpenFails(id) PROVE UdpInv'
  <2>1. sendUDPClose(id)
        /\ UNCHANGED <<keys, clientEnd, serverEnd>>
    BY <1>5 DEF UDPOpenFails
  <2>2. WireInv'
    BY <1>1, <2>1, CloseKeepsWire DEF WireInv
  <2> QED
    BY <1>1, <2>1, <2>2 DEF UdpInv, MapInv, SocketsOwned
<1>6. ASSUME NEW id \in UdpIds, NEW b \in BOOLEAN, removeUDPSession(id, b),
             held' \in [Regs -> Held], UNCHANGED <<keys, serverEnd>>
      PROVE  UdpInv'
  <2>1. WireInv'
    BY <1>1, <1>6, CloseKeepsWire DEF removeUDPSession
  <2>2. CloseOnly({clientUdp[id]})
    BY <1>1, <1>6, ClosedCloses DEF removeUDPSession, CloseOnly
  <2>3. clientUdp' = [clientUdp EXCEPT ![id] = 0]
    BY <1>6 DEF removeUDPSession
  <2>4. MapInv' /\ SocketsOwned'
    BY <1>1, <2>2, <2>3, RemoveKeepsMap
  <2> QED
    BY <1>1, <1>6, <2>1, <2>4 DEF UdpInv
<1>7. ASSUME NEW id \in UdpIds, ClientClose(id) PROVE UdpInv'
  BY <1>1, <1>6, <1>7 DEF ClientClose, WireInv
<1>a. ASSUME NEW r \in Regs, held[r].at \in {"opened", "found"} PROVE held[r].id \in UdpIds
  <2>1. held[r] \in Held
    BY <1>1 DEF WireInv
  <2> QED
    BY <1>a, <2>1 DEF Held, NoData
<1>8. ASSUME NEW r \in Regs, DataWritten(r) PROVE UdpInv'
  <2> DEFINE id == held[r].id
  <2>1. id \in UdpIds
    BY <1>8, <1>a DEF DataWritten
  <2>2. held' \in [Regs -> Held] /\ UNCHANGED <<keys, serverEnd>>
    BY <1>1, <1>8 DEF DataWritten, WireInv, Held
  <2>3. CASE removeUDPSession(id, TRUE)
    BY <1>6, <2>1, <2>2, <2>3
  <2>4. CASE /\ clientSess' = IF getUDPSession(id) = 0 THEN clientSess
                              ELSE startBackendWait(clientSess, getUDPSession(id))
             /\ UNCHANGED <<clientUdp, datagrams, closes>>
    <3>1. Touched(C, C) /\ Touched(C, [C EXCEPT ![clientUdp[id]].timer = TRUE])
      <4>1. Touched(C, C)
        BY <1>1 DEF Touched
      <4> QED
        BY <1>1, <4>1, TimerTouches
    <3>2. clientSess' = C \/ clientSess' = [C EXCEPT ![clientUdp[id]].timer = TRUE]
      BY <2>4 DEF startBackendWait, getUDPSession
    <3>3. CloseOnly({})
      BY <1>1, <3>1, <3>2, TouchedClosesNone
    <3>4. MapInv' /\ SocketsOwned'
      BY <1>1, <2>4, <3>3, TouchKeepsMap
    <3>5. WireInv'
      BY <1>1, <2>2, <2>4 DEF WireInv, keys, serverEnd
    <3> QED
      BY <3>4, <3>5 DEF UdpInv
  <2> QED
    BY <1>8, <2>3, <2>4 DEF DataWritten
<1>b. ASSUME NEW r \in Regs, DataFindsSession(r) \/ \E d \in datagrams : DataOpened(r, d) PROVE UdpInv'
  <2>1. UNCHANGED <<keys, clientUdp, clientSess, serverEnd, datagrams, closes>>
    BY <1>b DEF DataFindsSession, DataOpened
  <2>2. held' \in [Regs -> Held]
    <3>1. CASE DataFindsSession(r)
      <4> DEFINE h == [at |-> "found", id |-> held[r].id]
      <4>1. h \in Held /\ NoData \in Held
        BY <1>a, <3>1 DEF DataFindsSession, Held
      <4>2. held' = [held EXCEPT ![r] = NoData] \/ held' = [held EXCEPT ![r] = h]
        BY <3>1 DEF DataFindsSession
      <4> HIDE DEF h
      <4> QED
        BY <1>1, <4>1, <4>2 DEF WireInv
    <3>2. ASSUME NEW d \in datagrams, DataOpened(r, d) PROVE held' \in [Regs -> Held]
      <4> DEFINE h == [at |-> "opened", id |-> d.id]
      <4>1. h \in Held
        BY <1>1 DEF Held, WireInv, Datagram
      <4>2. held' = [held EXCEPT ![r] = h]
        BY <3>2 DEF DataOpened
      <4> HIDE DEF h
      <4> QED
        BY <1>1, <4>1, <4>2 DEF WireInv
    <3> QED
      BY <1>b, <3>1, <3>2
  <2> QED
    BY <1>1, <2>1, <2>2 DEF UdpInv, WireInv, MapInv, SocketsOwned, keys, serverEnd
<1>9. ASSUME NEW n \in 1 .. Len(C), LocalRead(n) PROVE UdpInv'
  <2> DEFINE d == Data("server", C[n].id, clientSecret, reg)
  <2>1. d \in Datagram
    BY <1>1, <1>2 DEF Data, Datagram, WireInv
  <2>2. /\ datagrams' = datagrams \cup {d}
        /\ UNCHANGED <<keys, clientUdp, held, serverEnd, closes>>
    BY <1>9 DEF LocalRead
  <2> HIDE DEF d
  <2>3. WireInv'
    BY <1>1, <2>1, <2>2 DEF WireInv
  <2>4. Touched(C, [C EXCEPT ![clientUdp[C[n].id]].timer = FALSE]) /\ Touched(C, C)
    <3>1. Touched(C, C)
      BY <1>1 DEF Touched
    <3> QED
      BY <1>1, <3>1, TimerTouches
  <2>5. CloseOnly({})
    <3>1. clientSess' = C \/ clientSess' = [C EXCEPT ![clientUdp[C[n].id]].timer = FALSE]
      BY <1>9 DEF LocalRead, cancelBackendWait
    <3>2. Touched(C, clientSess')
      BY <2>4, <3>1
    <3> QED
      BY <1>1, <2>4, <3>2, TouchedClosesNone
  <2> QED
    BY <1>1, <2>2, <2>3, <2>5, TouchKeepsMap DEF UdpInv
<1>10. ASSUME NEW n \in 1 .. Len(C), LocalReadFails(n) PROVE UdpInv'
  <2> DEFINE id == C[n].id
             old == Closed(clientSess, clientUdp[id])
  <2>1. id \in UdpIds
    BY <1>2
  <2>2. /\ clientUdp' = [clientUdp EXCEPT ![id] = 0]
        /\ clientSess' = [old EXCEPT ![n].reading = FALSE]
        /\ sendUDPClose(id) \/ UNCHANGED <<datagrams, closes>>
        /\ UNCHANGED <<keys, held, serverEnd>>
    BY <1>10 DEF LocalReadFails
  <2>3. /\ old \in Seq(ClientSession) /\ Len(old) = Len(C)
        /\ \A i \in 1 .. Len(C) :
             old[i].id = C[i].id /\ (old[i].open <=> C[i].open /\ i # clientUdp[id])
    BY <1>1, ClosedCloses
  <2> HIDE DEF id, old
  <2>4. Touched(old, clientSess')
    <3>1. Touched(old, [old EXCEPT ![n].reading = FALSE])
      BY <2>3, ReaderTouches
    <3> QED
      BY <2>2, <3>1
  <2>5. CloseOnly({clientUdp[id]})
    BY <2>3, <2>4 DEF CloseOnly, Touched
  <2>6. MapInv' /\ SocketsOwned'
    BY <1>1, <2>1, <2>2, <2>5, RemoveKeepsMap
  <2>7. WireInv'
    BY <1>1, <2>1, <2>2, CloseKeepsWire DEF WireInv
  <2> QED
    BY <1>1, <2>2, <2>6, <2>7 DEF UdpInv
<1>11. ASSUME NEW n \in 1 .. Len(C), BackendTimeout(n) PROVE UdpInv'
  <2> DEFINE off == [clientSess EXCEPT ![n].timer = FALSE]
  <2>1. /\ UNCHANGED <<keys, clientUdp, held, serverEnd, datagrams>>
        /\ closes' = closes \cup {C[n].id} \/ closes' = closes
        /\ clientSess' = off \/ clientSess' = [off EXCEPT ![clientUdp[C[n].id]].timer = TRUE]
    BY <1>11 DEF BackendTimeout, getUDPSession, startBackendWait
  <2>2. Touched(C, off)
    BY <1>1, TimerTouches
  <2>3. off \in Seq(ClientSession)
    BY <2>2 DEF Touched
  <2> HIDE DEF off
  <2>4. CloseOnly({})
    <3>1. Touched(off, [off EXCEPT ![clientUdp[C[n].id]].timer = TRUE])
      BY <2>3, TimerTouches
    <3>2. clientSess' = off \/ Touched(off, clientSess')
      BY <2>1, <3>1
    <3> QED
      BY <2>2, <2>3, <3>2, TouchedClosesNone
  <2>5. WireInv'
    BY <1>1, <1>2, <2>1 DEF WireInv
  <2> QED
    BY <1>1, <2>1, <2>4, <2>5, TouchKeepsMap DEF UdpInv
<1>12. CASE \/ \E id \in UdpIds : ServerOpen(id) \/ ServerControlClose(id)
            \/ \E d \in datagrams : ServerClose(d) \/ ServerData(d)
            \/ \E n \in 1 .. Len(serverSess) : RemoteRead(n) \/ RemoteReadEnds(n)
  <2>1. WireInv' /\ UNCHANGED <<clientUdp, clientSess>>
    BY <1>1, <1>12, ServerKeepsWire
  <2> QED
    BY <1>1, <2>1 DEF UdpInv, MapInv, SocketsOwned
<1>13. CASE Reregister
  <2>1. \A n \in 1 .. Len(C) : /\ [C[n] EXCEPT !.open = FALSE] \in ClientSession
                               /\ ~[C[n] EXCEPT !.open = FALSE].open
                               /\ [C[n] EXCEPT !.open = FALSE].id = C[n].id
    BY <1>1 DEF ClientSession
  <2>2. clientSess' = [n \in 1 .. Len(C) |-> [C[n] EXCEPT !.open = FALSE]]
    BY <1>13 DEF Reregister
  <2>3. clientSess' \in [1 .. Len(C) -> ClientSession] /\ \A n \in 1 .. Len(C) : ~clientSess'[n].open
    BY <2>1, <2>2
  <2>4. \A n \in 1 .. Len(C) : clientSess'[n].id \in UdpIds
    BY <1>2, <2>1, <2>2
  <2>5. clientSess' \in Seq(ClientSession) /\ Len(clientSess') = Len(C)
    BY <1>1, <2>3
  <2>6. clientUdp' = [i \in UdpIds |-> 0]
    BY <1>13 DEF Reregister
  <2>7. MapInv' /\ SocketsOwned'
    BY <1>1, <2>3, <2>4, <2>5, <2>6 DEF MapInv, SocketsOwned
  <2>8. WireInv'
    BY <1>1, <1>13 DEF Reregister, WireInv
  <2> QED
    BY <2>7, <2>8 DEF UdpInv
<1>14. CASE \E r \in Regs :
              (\E d \in datagrams : DataOpened(r, d)) \/ DataFindsSession(r) \/ DataWritten(r)
  BY <1>8, <1>14, <1>b
<1>15. CASE \E id \in UdpIds : handleUDPOpen(id) \/ UDPOpenFails(id) \/ ClientClose(id)
  BY <1>4, <1>5, <1>7, <1>15
<1>16. CASE \E n \in 1 .. Len(clientSess) : LocalRead(n) \/ LocalReadFails(n) \/ BackendTimeout(n)
  BY <1>9, <1>10, <1>11, <1>16
<1>17. CASE UdpNext
  BY <1>12, <1>13, <1>14, <1>15, <1>16, <1>17 DEF UdpNext
<1> QED
  BY <1>3, <1>17

\* Nothing is open and nothing under way when the client has registered for the first time.
LEMMA UdpInitInv == UdpInit => UdpInv
<1> SUFFICES ASSUME UdpInit PROVE UdpInv
  OBVIOUS
<1>1. WireInv
  BY DEF UdpInit, WireInv, Held
<1>2. MapInv /\ SocketsOwned
  BY DEF UdpInit, MapInv, SocketsOwned
<1> QED
  BY <1>1, <1>2 DEF UdpInv

(* SocketsOwned for any identifiers and any number of openings: an open    *)
(* socket towards the backend is that of a session in the map, and back    *)
(* (client main.go handleUDPOpen, removeUDPSession, closeAllUDPSessions).  *)
THEOREM SocketsOwnedHolds == UdpSpec => []SocketsOwned
<1>1. UdpInv => SocketsOwned
  BY DEF UdpInv
<1> QED
  BY <1>1, UdpInitInv, UdpInductive, PTL DEF UdpSpec

=============================================================================
