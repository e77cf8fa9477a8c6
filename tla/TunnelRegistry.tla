--------------------------- MODULE TunnelRegistry ---------------------------
(***************************************************************************)
(* The registry of the tunnel server (proxvn-tunnel cmd/server): control   *)
(* sessions, the pool of public ports and its reservations, the table of   *)
(* clients, the subdomains of the HTTP proxy and the public listeners.     *)
(* A session is served by its handler goroutine (pc), its heartbeat        *)
(* checker and its listener goroutine (lpc); each critical section of      *)
(* portMu, clientsMu, session.mu and the proxy's mu is one step.           *)
(*                                                                         *)
(* availablePorts is a sorted slice, so only how often a port occurs in it *)
(* matters: it is a function from ports to counts.  A reservation past     *)
(* expiresAt is refused by getNextPublicPort, its only reader, whether or  *)
(* not cleanupPortReservations has deleted it: expiry is one step.         *)
(* Left out: the messages of the control loop (they change no registry     *)
(* state) and the UDP secret.                                              *)
(***************************************************************************)
EXTENDS Integers, FiniteSets

CONSTANTS
  Sessions,     \* control connections; also the keys generated for them
  Clients,      \* client processes
  Ids,          \* client identifiers
  IdOf,         \* [Clients -> Ids]: default ids are shared by host
  Protocols,    \* protocols clients ask for
  Subdomains,
  PortStart, PortEnd,
  MaxConns,     \* maxConnections
  None

Ports == PortStart .. PortEnd

ASSUME RegistryAssumption ==
  /\ PortStart \in Nat \ {0} /\ PortEnd \in Nat /\ PortStart <= PortEnd
  /\ IdOf \in [Clients -> Ids]
  /\ Protocols \subseteq {"tcp", "udp", "http"}
  /\ MaxConns \in Nat
  /\ None \notin Sessions \cup Clients \cup Subdomains

VARIABLES
  pc, client, link, proto, key, port, sub,  \* clientSession and its handler
  closed,                       \* session.closeOnce: "open", "closing", "closed"
  lpc,                          \* listener goroutine; "none": not started
  knownKey, knownPort,          \* client processes: c.key, c.remotePort
  available, used, reserved,    \* availablePorts, usedPorts, portReservations
  clients, routes,              \* s.clients, the proxy's subdomains
  bound,                        \* operating system: who listens on a port
  exhausted                     \* history: the fallback port was handed out

sessionVars == <<client, proto, key, port, sub>>
poolVars    == <<available, used, exhausted>>
clientVars  == <<knownKey, knownPort>>
vars == <<pc, link, closed, lpc, sessionVars, poolVars, clientVars, reserved,
          clients, routes, bound>>

Init ==
  /\ pc = [s \in Sessions |-> "new"]
  /\ client = [s \in Sessions |-> None]
  /\ link = [s \in Sessions |-> "up"]
  /\ proto = [s \in Sessions |-> None]
  /\ key = [s \in Sessions |-> None]
  /\ port = [s \in Sessions |-> 0]
  /\ sub = [s \in Sessions |-> None]
  /\ closed = [s \in Sessions |-> "open"]
  /\ lpc = [s \in Sessions |-> "none"]
  /\ knownKey = [c \in Clients |-> None]
  /\ knownPort = [c \in Clients |-> 0]
  /\ available = [p \in Ports |-> 1]
  /\ used = {}
  /\ reserved = [k \in Sessions |-> 0]
  /\ clients = [i \in Ids |-> None]
  /\ routes = [d \in Subdomains |-> None]
  /\ bound = [p \in Ports |-> None]
  /\ exhausted = FALSE

-----------------------------------------------------------------------------
(* Connections and the port pool                                           *)

Handled == {s \in Sessions : pc[s] \notin {"new", "done"}}

Goto(s, l) == pc' = [pc EXCEPT ![s] = l]

\* A client process has one control connection: it dials again only after it
\* has closed or lost the previous one.
Dial(s, c) ==
  /\ pc[s] = "new"
  /\ \A t \in Sessions : client[t] = c => link[t] = "lost"

Accept(s, c) ==
  /\ Dial(s, c)
  /\ Cardinality(Handled) < MaxConns
  /\ client' = [client EXCEPT ![s] = c]
  /\ \E p \in Protocols : proto' = [proto EXCEPT ![s] = p]
  /\ Goto(s, "handshake")
  /\ UNCHANGED <<link, closed, lpc, key, port, sub, poolVars, clientVars,
                 reserved, clients, routes, bound>>

Reject(s, c) ==
  /\ Dial(s, c)
  /\ Cardinality(Handled) >= MaxConns
  /\ link' = [link EXCEPT ![s] = "lost"]
  /\ Goto(s, "done")
  /\ UNCHANGED <<closed, lpc, sessionVars, poolVars, clientVars, reserved,
                 clients, routes, bound>>

\* The client dies, closes the control connection or the network fails.  The
\* server need not notice at once.
LoseLink(s) ==
  /\ pc[s] # "new" /\ link[s] = "up"
  /\ link' = [link EXCEPT ![s] = "lost"]
  /\ UNCHANGED <<pc, closed, lpc, sessionVars, poolVars, clientVars, reserved,
                 clients, routes, bound>>

\* The handler ends.  What only it used of the session is forgotten, which keeps
\* the states apart only where they differ for the program.
Return(s) ==
  /\ Goto(s, "done")
  /\ client' = [client EXCEPT ![s] = None]
  /\ proto' = [proto EXCEPT ![s] = None]
  /\ key' = [key EXCEPT ![s] = None]
  /\ sub' = [sub EXCEPT ![s] = None]
  /\ UNCHANGED port

HandshakeFails(s) ==
  /\ pc[s] = "handshake" /\ link[s] = "lost"
  /\ Return(s)
  /\ UNCHANGED <<link, closed, lpc, poolVars, clientVars, reserved, clients,
                 routes, bound>>

\* handleClient returns an error: the connection is closed, removeClient runs.
HandleClientFails(s) ==
  /\ link' = [link EXCEPT ![s] = "lost"]
  /\ Goto(s, "remove")

RateLimited(s) ==
  /\ pc[s] = "handshake"
  /\ HandleClientFails(s)
  /\ UNCHANGED <<closed, lpc, sessionVars, poolVars, clientVars, reserved,
                 clients, routes, bound>>

Fallback == PortStart

ReservedFor(k, p) == p > 0 /\ reserved[k] = p /\ p \notin used

TakePort(p) ==
  /\ available' = [available EXCEPT ![p] = IF @ > 0 THEN @ - 1 ELSE 0]
  /\ used' = used \cup {p}

\* getNextPublicPort for key k; want is the port the client had before.
getNextPublicPort(s, k, want) ==
  \/ /\ ReservedFor(k, want)
     /\ TakePort(want)
     /\ reserved' = [reserved EXCEPT ![k] = 0]
     /\ port' = [port EXCEPT ![s] = want]
     /\ UNCHANGED exhausted
  \/ /\ ~ReservedFor(k, want)
     /\ \E p \in Ports :
          /\ available[p] > 0
          /\ \A q \in Ports : available[q] > 0 => p <= q
          /\ TakePort(p)
          /\ port' = [port EXCEPT ![s] = p]
     /\ UNCHANGED <<reserved, exhausted>>
  \/ /\ ~ReservedFor(k, want)
     /\ \A p \in Ports : available[p] = 0
     /\ port' = [port EXCEPT ![s] = Fallback]
     /\ exhausted' = TRUE
     /\ UNCHANGED <<available, used, reserved>>

\* "register" is decoded: a client that was registered before sends its key and
\* its port; for the others a key is generated.
Register(s) ==
  LET c == client[s]
      k == IF knownKey[c] = None THEN s ELSE knownKey[c]
  IN /\ pc[s] = "handshake"
     /\ key' = [key EXCEPT ![s] = k]
     /\ getNextPublicPort(s, k, knownPort[c])
     /\ Goto(s, "add")
     /\ UNCHANGED <<link, closed, lpc, client, proto, sub, clientVars, clients,
                    routes, bound>>

\* Mutant: a port that is not in use is put back a second time.
releasePortTwice(p) ==
  /\ used' = used \ {p}
  /\ available' = [available EXCEPT ![p] = @ + 1]

releasePort(p) ==
  \/ p \notin used /\ UNCHANGED <<available, used>>
  \/ /\ p \in used
     /\ used' = used \ {p}
     /\ available' = [available EXCEPT ![p] = @ + 1]

-----------------------------------------------------------------------------
(* handleClient after the port is assigned                                 *)

\* removeClient keeps clientsMu from the deletion to the release of the port.
clientsMuFree == \A s \in Sessions : pc[s] # "release"

addClient(s) ==
  /\ pc[s] = "add" /\ clientsMuFree
  /\ clients' = [clients EXCEPT ![IdOf[client[s]]] = s]
  /\ Goto(s, IF proto[s] = "http" THEN "http" ELSE "reply")
  /\ UNCHANGED <<link, closed, lpc, sessionVars, poolVars, clientVars, reserved,
                 routes, bound>>

\* Mutant: a subdomain in use is taken over.
RegisterClientAnyway(s, d) == routes' = [routes EXCEPT ![d] = s]

RegisterClient(s, d) ==
  /\ routes[d] = None
  /\ routes' = [routes EXCEPT ![d] = s]

registerHTTPClient(s) ==
  /\ pc[s] = "http"
  /\ \E d \in Subdomains :
       RegisterClient(s, d) /\ sub' = [sub EXCEPT ![s] = d]
  /\ Goto(s, "reply")
  /\ UNCHANGED <<link, closed, lpc, client, proto, key, port, poolVars,
                 clientVars, reserved, clients, bound>>

\* No HTTP proxy, no random bytes, or the subdomain drawn is taken.
HttpUnavailable(s) ==
  /\ pc[s] = "http"
  /\ HandleClientFails(s)
  /\ UNCHANGED <<closed, lpc, sessionVars, poolVars, clientVars, reserved,
                 clients, routes, bound>>

\* "registered" is sent and the goroutines of the session are started.  A
\* write to a lost connection may still succeed: then nobody reads it.
Reply(s) ==
  LET c == client[s]
  IN /\ pc[s] = "reply"
     /\ lpc' = [lpc EXCEPT ![s] = IF proto[s] = "tcp" THEN "start" ELSE "end"]
     /\ IF link[s] = "up"
          THEN /\ knownKey' = [knownKey EXCEPT ![c] = key[s]]
               /\ knownPort' = [knownPort EXCEPT ![c] = port[s]]
          ELSE UNCHANGED clientVars
     /\ Goto(s, "loop")
     /\ UNCHANGED <<link, closed, sessionVars, poolVars, reserved, clients,
                    routes, bound>>

ReplyFails(s) ==
  /\ pc[s] = "reply" /\ link[s] = "lost"
  /\ Goto(s, "remove")
  /\ UNCHANGED <<link, closed, lpc, sessionVars, poolVars, clientVars, reserved,
                 clients, routes, bound>>

controlLoopEnds(s) ==
  /\ pc[s] = "loop" /\ link[s] = "lost"
  /\ Goto(s, "remove")
  /\ UNCHANGED <<link, closed, lpc, sessionVars, poolVars, clientVars, reserved,
                 clients, routes, bound>>

-----------------------------------------------------------------------------
(* removeClient and Close                                                  *)

\* Mutant: whoever is registered under the id is removed.
IsCurrentId(s) == clients[IdOf[client[s]]] # None

IsCurrent(s) == clients[IdOf[client[s]]] = s

removeClient(s) ==
  /\ pc[s] = "remove" /\ clientsMuFree
  /\ IF IsCurrent(s)
       THEN /\ clients' = [clients EXCEPT ![IdOf[client[s]]] = None]
            /\ reserved' = [reserved EXCEPT ![key[s]] = port[s]]
            /\ Goto(s, "release")
       ELSE Goto(s, "close") /\ UNCHANGED <<clients, reserved>>
  /\ UNCHANGED <<link, closed, lpc, sessionVars, poolVars, clientVars, routes,
                 bound>>

Release(s) ==
  /\ pc[s] = "release"
  /\ releasePort(port[s])
  /\ Goto(s, "unregister")
  /\ UNCHANGED <<link, closed, lpc, sessionVars, exhausted, clientVars, reserved,
                 clients, routes, bound>>

unregisterHTTPClient(s) ==
  /\ pc[s] = "unregister"
  /\ routes' = [d \in Subdomains |-> IF d = sub[s] THEN None ELSE routes[d]]
  /\ Goto(s, "close")
  /\ UNCHANGED <<link, closed, lpc, sessionVars, poolVars, clientVars, reserved,
                 clients, bound>>

\* closeOnce is entered by the handler or, when nothing was heard from the
\* client for clientIdleTimeout, by the heartbeat checker.
CloseBegin(s) ==
  /\ closed[s] = "open"
  /\ closed' = [closed EXCEPT ![s] = "closing"]
  /\ link' = [link EXCEPT ![s] = "lost"]
  /\ UNCHANGED <<pc, lpc, sessionVars, poolVars, clientVars, reserved, clients,
                 routes, bound>>

heartbeatChecker(s) == lpc[s] # "none" /\ CloseBegin(s)

HandlerCloses(s) == pc[s] = "close" /\ CloseBegin(s)

\* Mutant: the listener is left open.
CloseListenerForgotten(s) ==
  /\ closed[s] = "closing"
  /\ closed' = [closed EXCEPT ![s] = "closed"]
  /\ UNCHANGED <<pc, link, lpc, sessionVars, poolVars, clientVars, reserved,
                 clients, routes, bound>>

\* The socket of s is closed if it is open.
FreeSocket(s) == bound' = [p \in Ports |-> IF bound[p] = s THEN None ELSE bound[p]]

\* The rest of Close, under session.mu: only a listener that was stored is closed.
CloseListener(s) ==
  /\ closed[s] = "closing"
  /\ closed' = [closed EXCEPT ![s] = "closed"]
  /\ IF lpc[s] = "accept" THEN FreeSocket(s) ELSE UNCHANGED bound
  /\ UNCHANGED <<pc, link, lpc, sessionVars, poolVars, clientVars, reserved,
                 clients, routes>>

HandlerDone(s) ==
  /\ pc[s] = "close" /\ closed[s] = "closed"
  /\ Return(s)
  /\ UNCHANGED <<link, closed, lpc, poolVars, clientVars, reserved, clients,
                 routes, bound>>

-----------------------------------------------------------------------------
(* startPublicListener                                                     *)

LGoto(s, l) == lpc' = [lpc EXCEPT ![s] = l]

\* net.Listen: refused while another socket listens on the port.
Listen(s) ==
  /\ lpc[s] = "start"
  /\ IF bound[port[s]] = None
       THEN bound' = [bound EXCEPT ![port[s]] = s] /\ LGoto(s, "bound")
       ELSE LGoto(s, "end") /\ UNCHANGED bound
  /\ UNCHANGED <<pc, link, closed, sessionVars, poolVars, clientVars, reserved,
                 clients, routes>>

\* net.Listen fails for a reason outside the server.
ListenRefused(s) ==
  /\ lpc[s] = "start"
  /\ LGoto(s, "end")
  /\ UNCHANGED <<pc, link, closed, sessionVars, poolVars, clientVars, reserved,
                 clients, routes, bound>>

\* Mutant: session.done is not looked at before the listener is stored.
StoreListenerUnchecked(s) ==
  /\ lpc[s] = "bound"
  /\ LGoto(s, "accept")
  /\ UNCHANGED <<pc, link, closed, sessionVars, poolVars, clientVars, reserved,
                 clients, routes, bound>>

StoreListener(s) ==
  /\ lpc[s] = "bound"
  /\ IF closed[s] = "open"
       THEN LGoto(s, "accept") /\ UNCHANGED bound
       ELSE FreeSocket(s) /\ LGoto(s, "end")
  /\ UNCHANGED <<pc, link, closed, sessionVars, poolVars, clientVars, reserved,
                 clients, routes>>

\* Accept reports the closed listener.
AcceptEnds(s) ==
  /\ lpc[s] = "accept" /\ bound[port[s]] # s
  /\ LGoto(s, "end")
  /\ UNCHANGED <<pc, link, closed, sessionVars, poolVars, clientVars, reserved,
                 clients, routes, bound>>

\* Accept fails for good: the deferred Close frees the port.
AcceptError(s) ==
  /\ lpc[s] = "accept" /\ bound[port[s]] = s
  /\ FreeSocket(s) /\ LGoto(s, "end")
  /\ UNCHANGED <<pc, link, closed, sessionVars, poolVars, clientVars, reserved,
                 clients, routes>>

\* The five minutes of a reservation are over.
cleanupPortReservations(k) ==
  /\ reserved[k] # 0
  /\ reserved' = [reserved EXCEPT ![k] = 0]
  /\ UNCHANGED <<pc, link, closed, lpc, sessionVars, poolVars, clientVars,
                 clients, routes, bound>>

-----------------------------------------------------------------------------
HandlerStep(s) ==
  \/ HandshakeFails(s) \/ RateLimited(s) \/ Register(s)
  \/ addClient(s) \/ registerHTTPClient(s) \/ HttpUnavailable(s)
  \/ Reply(s) \/ ReplyFails(s) \/ controlLoopEnds(s)
  \/ removeClient(s) \/ Release(s) \/ unregisterHTTPClient(s)
  \/ HandlerCloses(s) \/ HandlerDone(s)

ListenerStep(s) ==
  \/ Listen(s) \/ ListenRefused(s) \/ StoreListener(s)
  \/ AcceptEnds(s) \/ AcceptError(s)

Next ==
  \/ \E s \in Sessions, c \in Clients : Accept(s, c) \/ Reject(s, c)
  \/ \E s \in Sessions :
       \/ LoseLink(s) \/ HandlerStep(s) \/ ListenerStep(s)
       \/ heartbeatChecker(s) \/ CloseListener(s)
       \/ cleanupPortReservations(s)

Spec == Init /\ [][Next]_vars

\* The goroutines of a session are scheduled; nothing is assumed of clients, of
\* failures or of expiry.  A handler only waits for data (before the register
\* message and in the control loop), so its steps are fair once the link is lost:
\* the read then fails, or, for a link that died silently, the heartbeat checker
\* closes the connection.
FairSpec ==
  /\ Spec
  /\ \A s \in Sessions :
       /\ WF_vars(link[s] = "lost" /\ HandlerStep(s))
       /\ WF_vars(link[s] = "lost" /\ heartbeatChecker(s))
       /\ WF_vars(CloseListener(s))
       /\ WF_vars(Listen(s) \/ StoreListener(s) \/ AcceptEnds(s))

-----------------------------------------------------------------------------
Labels == {"new", "handshake", "add", "http", "reply", "loop", "remove",
           "release", "unregister", "close", "done"}
ListenerLabels == {"none", "start", "bound", "accept", "end"}

SessionType ==
  /\ pc \in [Sessions -> Labels]
  /\ client \in [Sessions -> Clients \cup {None}]
  /\ link \in [Sessions -> {"up", "lost"}]
  /\ proto \in [Sessions -> Protocols \cup {None}]
  /\ key \in [Sessions -> Sessions \cup {None}]
  /\ port \in [Sessions -> Ports \cup {0}]
  /\ sub \in [Sessions -> Subdomains \cup {None}]
  /\ closed \in [Sessions -> {"open", "closing", "closed"}]
  /\ lpc \in [Sessions -> ListenerLabels]

ClientType ==
  /\ knownKey \in [Clients -> Sessions \cup {None}]
  /\ knownPort \in [Clients -> Ports \cup {0}]

PoolType ==
  /\ available \in [Ports -> Nat]
  /\ used \subseteq Ports
  /\ reserved \in [Sessions -> Ports \cup {0}]
  /\ exhausted \in BOOLEAN

TableType ==
  /\ clients \in [Ids -> Sessions \cup {None}]
  /\ routes \in [Subdomains -> Sessions \cup {None}]
  /\ bound \in [Ports -> Sessions \cup {None}]

\* The type invariant: in particular every port the pool, a session, a reservation
\* or a client remembers is one of the pool's.
TypeOK == SessionType /\ ClientType /\ PoolType /\ TableType

\* Every port of the pool is either listed once in availablePorts or marked in
\* usedPorts, also after the pool ran dry and the fallback port was given back by a
\* session that never owned it (getNextPublicPort, releasePort).
PortPartition ==
  \A p \in Ports : available[p] = IF p \in used THEN 0 ELSE 1

\* Sessions between getNextPublicPort and the end of their removeClient.
Holding == {s \in Sessions : pc[s] \in {"add", "http", "reply", "loop",
                                        "remove", "release"} /\ port[s] # 0}

\* As long as the pool never ran dry, sessions that hold a port hold different
\* ports, all marked as used, whichever of them reconnected, was replaced under its
\* id or raced with the release of a port it had reserved (getNextPublicPort).
UniquePorts ==
  ~exhausted => \A s, t \in Holding : /\ port[s] \in used
                                      /\ s # t => port[s] # port[t]

\* While the pool never ran dry, net.Listen of a session can only collide with the
\* socket of a session that has given the port back and is about to close it:
\* the window between releasePort and session.Close in removeClient.
BindConflict ==
  ~exhausted => \A s \in Holding :
     lpc[s] = "start" =>
       \/ bound[port[s]] = None
       \/ pc[bound[port[s]]] \in {"unregister", "close", "done"}

\* A closed session accepts no public connection: Close and the storing of the
\* listener by startPublicListener race for session.mu, and whoever comes second
\* closes the socket.  A socket belongs to the session that has its port.
ListenerDiesWithSession ==
  \A p \in Ports, s \in Sessions :
    bound[p] = s => /\ port[s] = p
                    /\ lpc[s] \in {"bound", "accept"}
                    /\ closed[s] = "closed" => lpc[s] = "bound"

OwnRemoval ==
  \A i \in Ids :
    (clients[i] # None /\ clients'[i] = None) =>
       pc[clients[i]] = "remove" /\ pc'[clients[i]] = "release"

\* The removal of a session never takes a newer session with the same id out of the
\* client table, and only removeClient empties an entry.
EvictsOnlyItself == [][OwnRemoval]_vars

\* The subdomain of an HTTP session leads to that session until it is unregistered:
\* UnregisterClient deletes by name and asks nobody, yet only its own route goes.
RouteIsMine ==
  \A s \in Sessions :
    (sub[s] # None /\ pc[s] \in {"reply", "loop", "remove", "release", "unregister"})
       => routes[sub[s]] = s

\* A session whose client is gone is wound up completely: its handler ends (and
\* frees its slot of connSemaphore) and no listener goroutine stays behind.
ClosesDown ==
  \A s \in Sessions :
    (pc[s] # "new" /\ link[s] = "lost") ~> (pc[s] = "done" /\ lpc[s] \in {"none", "end"})

-----------------------------------------------------------------------------
(* What comments and documents say, and the code does not do               *)

=============================================================================
