----------------------------- MODULE UdpSessions -----------------------------
(***************************************************************************)
(* UDP sessions through the tunnel, at both ends, over several             *)
(* registrations of one client.  A session is opened by a udp_open on the  *)
(* control connection; both ends take one and neither sends one, so its    *)
(* sender is another version of the peer, and here the environment.        *)
(* Sessions are found by identifier in a map, while each session's reader, *)
(* timer and late messages know only the identifier, which may have been   *)
(* opened again.  Datagrams are lost, repeated and reordered, and the key  *)
(* they are sealed with changes with every registration that gets one.     *)
(* Deleting a session and closing its socket are one step: Close is        *)
(* idempotent and concerns nobody else.                                    *)
(***************************************************************************)
EXTENDS Integers, Sequences

CONSTANTS
  UdpIds,        \* session identifiers
  MaxOpens,      \* bound on the sessions opened, at both ends together
  MaxRegs        \* bound on the registrations

ASSUME UdpAssumption == MaxOpens \in Nat /\ MaxRegs \in Nat \ {0}

VARIABLES
  reg,           \* registrations so far
  secret,        \* the key of the last one at the server, 0 when none could be made
  clientSecret,  \* the last key the client was given, 0 for none
  clientUdp,     \* the client's udpSessions: the number of the session, 0 for none
  clientSess,    \* every session the client has opened: [id, open, timer, reading]
  serverUdp,     \* the server's udpSessions
  serverSess,    \* every session the server has opened: [id, secret, open, reading, addr]
  held,          \* per registration: the data its readUDPControl is handing on
  datagrams,     \* sent and perhaps still to arrive, once or more often
  closes         \* udp_close and udp_idle on the control connection

clientEnd == <<clientUdp, clientSess, held>>
serverEnd == <<serverUdp, serverSess>>
keys == <<reg, secret, clientSecret>>
udpSessVars == <<keys, clientEnd, serverEnd, datagrams, closes>>

Regs == 1 .. MaxRegs
NoData == [at |-> "none", id |-> 0]

UdpInit ==
  /\ reg = 1 /\ secret \in {0, 1} /\ clientSecret = secret
  /\ clientUdp = [i \in UdpIds |-> 0] /\ clientSess = <<>>
  /\ serverUdp = [i \in UdpIds |-> 0] /\ serverSess = <<>>
  /\ held = [r \in Regs |-> NoData]
  /\ datagrams = {} /\ closes = {}

\* A datagram: udpMsgData or udpMsgClose; addr is the registration whose client socket it comes from or
\* goes to, and sealed the key, 0 for plain text.
Data(to, id, key, addr) == [to |-> to, type |-> "data", id |-> id, sealed |-> key, addr |-> addr]
Close(to, id) == [to |-> to, type |-> "close", id |-> id, sealed |-> 0, addr |-> reg]

\* DecryptUDP, done only by an end that has a key: without one whatever comes goes on as it is.
Opens(key, d) == key = 0 \/ d.sealed = key

-----------------------------------------------------------------------------
\* Mutant: handleUDPOpen of the client without closing the session it replaces.
handleUDPOpenKeepsOld(id) ==
  /\ Len(clientSess) + Len(serverSess) < MaxOpens
  /\ clientSess' = Append(clientSess, [id |-> id, open |-> TRUE, timer |-> FALSE, reading |-> TRUE])
  /\ clientUdp' = [clientUdp EXCEPT ![id] = Len(clientSess) + 1]
  /\ UNCHANGED <<keys, held, serverEnd, datagrams, closes>>

\* udpClientSession.Close; a timer it stops may have fired already.
Closed(sess, n) ==
  [i \in 1 .. Len(sess) |-> IF i = n THEN [sess[i] EXCEPT !.open = FALSE] ELSE sess[i]]

\* handleUDPOpen of the client: a session with the same identifier is replaced.
handleUDPOpen(id) ==
  /\ Len(clientSess) + Len(serverSess) < MaxOpens
  /\ clientSess' = Append(Closed(clientSess, clientUdp[id]),
                          [id |-> id, open |-> TRUE, timer |-> FALSE, reading |-> TRUE])
  /\ clientUdp' = [clientUdp EXCEPT ![id] = Len(clientSess) + 1]
  /\ UNCHANGED <<keys, held, serverEnd, datagrams, closes>>

\* sendUDPClose: a datagram and a control message.
sendUDPClose(id) ==
  /\ datagrams' = datagrams \cup {Close("server", id)}
  /\ closes' = closes \cup {id}

\* handleUDPOpen of the client: the backend cannot be reached.
UDPOpenFails(id) ==
  /\ sendUDPClose(id)
  /\ UNCHANGED <<keys, clientEnd, serverEnd>>

\* removeUDPSession: whichever session the identifier names now.
removeUDPSession(id, notify) ==
  /\ clientUdp' = [clientUdp EXCEPT ![id] = 0]
  /\ clientSess' = Closed(clientSess, clientUdp[id])
  /\ IF notify /\ clientUdp[id] # 0 THEN sendUDPClose(id) ELSE UNCHANGED <<datagrams, closes>>

\* startBackendWait, cancelBackendWait: a timer that is stopped may have fired already.
startBackendWait(sess, n) == [sess EXCEPT ![n].timer = TRUE]
cancelBackendWait(sess, n) == {sess, [sess EXCEPT ![n].timer = FALSE]}

\* getUDPSession: the session the identifier names now, or 0.
getUDPSession(id) == clientUdp[id]

\* readUDPControl and handleUDPDataPacket: data comes over this registration's socket, and opens.
DataOpened(r, d) ==
  /\ d \in datagrams /\ d.to = "client" /\ d.type = "data" /\ d.addr = r
  /\ r = reg /\ held[r].at = "none" /\ Opens(clientSecret, d)
  /\ held' = [held EXCEPT ![r] = [at |-> "opened", id |-> d.id]]
  /\ UNCHANGED <<keys, clientUdp, clientSess, serverEnd, datagrams, closes>>

\* It looks the session up: that may be a reconnect later, and the session a newer one.
DataFindsSession(r) ==
  /\ held[r].at = "opened"
  /\ held' = [held EXCEPT ![r] = IF getUDPSession(@.id) = 0 THEN NoData ELSE [at |-> "found", id |-> @.id]]
  /\ UNCHANGED <<keys, clientUdp, clientSess, serverEnd, datagrams, closes>>

\* It has written to the socket it found, closed or not; what follows goes by the identifier again.
DataWritten(r) ==
  /\ held[r].at = "found" /\ held' = [held EXCEPT ![r] = NoData]
  /\ LET id == held[r].id
     IN  \/ removeUDPSession(id, TRUE)   \* the write failed
         \/ /\ clientSess' = IF getUDPSession(id) = 0 THEN clientSess
                             ELSE startBackendWait(clientSess, getUDPSession(id))
            /\ UNCHANGED <<clientUdp, datagrams, closes>>
  /\ UNCHANGED <<keys, serverEnd>>

\* handleUDPClose of the client, on a message the server in this repository does not send either.
ClientClose(id) ==
  /\ clientUdp[id] # 0 /\ removeUDPSession(id, FALSE)
  /\ UNCHANGED <<keys, held, serverEnd>>

(* readFromUDPLocal: an answer of the backend, which stops the timer of    *)
(* whichever session has the identifier; or its socket is closed or fails, *)
(* and whichever session has the identifier is removed.                    *)
LocalRead(n) ==
  /\ clientSess[n].reading /\ clientSess[n].open
  /\ LET id == clientSess[n].id
     IN  /\ datagrams' = datagrams \cup {Data("server", id, clientSecret, reg)}
         /\ clientSess' \in IF clientUdp[id] = 0 THEN {clientSess}
                            ELSE cancelBackendWait(clientSess, clientUdp[id])
  /\ UNCHANGED <<keys, clientUdp, held, serverEnd, closes>>
LocalReadFails(n) ==
  /\ clientSess[n].reading
  /\ LET id == clientSess[n].id
     IN  /\ clientUdp' = [clientUdp EXCEPT ![id] = 0]
         /\ clientSess' = [Closed(clientSess, clientUdp[id]) EXCEPT ![n].reading = FALSE]
         /\ IF clientUdp[id] # 0 THEN sendUDPClose(id) ELSE UNCHANGED <<datagrams, closes>>
  /\ UNCHANGED <<keys, held, serverEnd>>

(* handleBackendTimeout, which startBackendWait's reset of idleCount keeps *)
(* from ever counting to backendIdleRetries: the timer starts again.  Only *)
(* a timer that fires after its session has gone reports udp_idle.         *)
BackendTimeout(n) ==
  /\ clientSess[n].timer
  /\ LET id == clientSess[n].id
     IN  IF getUDPSession(id) = 0
         THEN closes' = closes \cup {id} /\ clientSess' = [clientSess EXCEPT ![n].timer = FALSE]
         ELSE /\ clientSess' = startBackendWait([clientSess EXCEPT ![n].timer = FALSE], getUDPSession(id))
              /\ UNCHANGED closes
  /\ UNCHANGED <<keys, clientUdp, held, serverEnd, datagrams>>

-----------------------------------------------------------------------------
\* The server's handleUDPOpen: the entry is overwritten, the session in it stays open.
ServerOpen(id) ==
  /\ Len(clientSess) + Len(serverSess) < MaxOpens
  /\ serverSess' = Append(serverSess, [id |-> id, secret |-> secret, open |-> TRUE, reading |-> TRUE, addr |-> 0])
  /\ serverUdp' = [serverUdp EXCEPT ![id] = Len(serverSess) + 1]
  /\ UNCHANGED <<keys, clientEnd, datagrams, closes>>

\* The server's handleUDPClose.
ServerRemove(id) ==
  /\ serverUdp' = [serverUdp EXCEPT ![id] = 0]
  /\ serverSess' = Closed(serverSess, serverUdp[id])

ServerClose(d) ==
  /\ d \in datagrams /\ d.to = "server" /\ d.type = "close"
  /\ serverUdp[d.id] # 0 /\ ServerRemove(d.id)
  /\ UNCHANGED <<keys, clientEnd, datagrams, closes>>

\* controlLoop: udp_close, udp_idle.
ServerControlClose(id) ==
  /\ id \in closes /\ closes' = closes \ {id} /\ ServerRemove(id)
  /\ UNCHANGED <<keys, clientEnd, datagrams>>

\* handleUDPDataFromClient: the sender's address is kept before the data is unsealed.
ServerData(d) ==
  /\ d \in datagrams /\ d.to = "server" /\ d.type = "data" /\ serverUdp[d.id] # 0
  /\ LET s == serverSess[serverUdp[d.id]]
     IN  \/ /\ serverSess' = [serverSess EXCEPT ![serverUdp[d.id]].addr = d.addr]
            /\ UNCHANGED serverUdp
         \/ Opens(s.secret, d) /\ ServerRemove(d.id)   \* the write fails
  /\ UNCHANGED <<keys, clientEnd, datagrams, closes>>

(* readFromUDPRemote and sendUDPData: an answer of the remote side goes    *)
(* out with the key and to the address of the session that has the         *)
(* identifier now; without an address it is dropped.                       *)
RemoteRead(n) ==
  /\ serverSess[n].reading /\ serverSess[n].open
  /\ LET m == serverUdp[serverSess[n].id]
     IN  /\ m # 0 /\ serverSess[m].addr # 0
         /\ datagrams' = datagrams \cup
              {Data("client", serverSess[n].id, serverSess[m].secret, serverSess[m].addr)}
  /\ UNCHANGED <<keys, clientEnd, serverEnd, closes>>

\* Its socket is closed or fails, or there is no session to send for: handleUDPClose by identifier.
RemoteReadEnds(n) ==
  /\ serverSess[n].reading
  /\ LET id == serverSess[n].id
     IN  /\ serverUdp' = [serverUdp EXCEPT ![id] = 0]
         /\ serverSess' = [Closed(serverSess, serverUdp[id]) EXCEPT ![n].reading = FALSE]
  /\ UNCHANGED <<keys, clientEnd, datagrams, closes>>

-----------------------------------------------------------------------------
(* The control connection is lost and made again: closeAllUDPSessions at   *)
(* the client, a new key for both.  When the server could make none, the   *)
(* client keeps its last one.  The server keeps its UDP sessions, and the  *)
(* client's old reader may still hold data.                                *)
Reregister ==
  /\ reg < MaxRegs /\ reg' = reg + 1
  /\ secret' \in {0, reg'}
  /\ clientSecret' = IF secret' = 0 THEN clientSecret ELSE secret'
  /\ clientUdp' = [i \in UdpIds |-> 0]
  /\ clientSess' = [n \in 1 .. Len(clientSess) |-> [clientSess[n] EXCEPT !.open = FALSE]]
  /\ closes' = {}
  /\ UNCHANGED <<held, serverEnd, datagrams>>

UdpNext ==
  \/ \E id \in UdpIds :
       handleUDPOpen(id) \/ UDPOpenFails(id) \/ ClientClose(id) \/ ServerOpen(id) \/ ServerControlClose(id)
  \/ \E d \in datagrams : ServerClose(d) \/ ServerData(d)
  \/ \E r \in Regs :
       (\E d \in datagrams : DataOpened(r, d)) \/ DataFindsSession(r) \/ DataWritten(r)
  \/ \E n \in 1 .. Len(clientSess) : LocalRead(n) \/ LocalReadFails(n) \/ BackendTimeout(n)
  \/ \E n \in 1 .. Len(serverSess) : RemoteRead(n) \/ RemoteReadEnds(n)
  \/ Reregister

UdpSpec == UdpInit /\ [][UdpNext]_udpSessVars

-----------------------------------------------------------------------------
(* The client's sockets towards its backend are those of the sessions in   *)
(* its map, however openings, late readers, timers, data found for a       *)
(* session since replaced, failed writes and reconnects interleave; none   *)
(* is left behind, and none of the map is closed (client main.go,          *)
(* handleUDPOpen, removeUDPSession, closeAllUDPSessions).                  *)
SocketsOwned ==
  \A n \in 1 .. Len(clientSess) : clientSess[n].open <=> clientUdp[clientSess[n].id] = n

=============================================================================
