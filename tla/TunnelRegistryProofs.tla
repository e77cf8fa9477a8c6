------------------------ MODULE TunnelRegistryProofs ------------------------
(***************************************************************************)
(* Safety of the tunnel registry for any number of connections, clients,   *)
(* ports and subdomains.                                                   *)
(***************************************************************************)
EXTENDS TunnelRegistry, TLAPS

\* What a handler has not set yet while it is still early in its code.
Early ==
  \A s \in Sessions :
    /\ pc[s] = "handshake" => client[s] \in Clients
    /\ pc[s] \in {"new", "handshake"} => port[s] = 0
    /\ pc[s] \in {"new", "handshake", "add", "http"} => sub[s] = None
    /\ pc[s] \in {"new", "handshake", "add", "http", "reply"} => lpc[s] = "none"

\* The pool is a non-empty set of positive numbers.
LEMMA PortFacts ==
  /\ PortStart \in Ports
  /\ \A p \in Ports : p \in Nat /\ p > 0
BY RegistryAssumption DEF Ports

\* Every disjunct of the next-state relation, with the session it is a step of.
Step(s) ==
  \/ \E c \in Clients : Accept(s, c) \/ Reject(s, c)
  \/ LoseLink(s) \/ HandshakeFails(s) \/ RateLimited(s) \/ Register(s)
  \/ addClient(s) \/ registerHTTPClient(s) \/ HttpUnavailable(s)
  \/ Reply(s) \/ ReplyFails(s) \/ controlLoopEnds(s)
  \/ removeClient(s) \/ Release(s) \/ unregisterHTTPClient(s)
  \/ HandlerCloses(s) \/ HandlerDone(s)
  \/ Listen(s) \/ ListenRefused(s) \/ StoreListener(s)
  \/ AcceptEnds(s) \/ AcceptError(s)
  \/ heartbeatChecker(s) \/ CloseListener(s)
  \/ cleanupPortReservations(s)

\* Every step is one of a session, of its listeners or of the environment.
LEMMA StepCases ==
  ASSUME Next
  PROVE  \E s \in Sessions : Step(s)
BY DEF Next, HandlerStep, ListenerStep, Step

\* Recording the assigned port keeps the types of the session fields.
LEMMA TakePortType ==
  ASSUME NEW p \in Ports, PoolType, TakePort(p)
  PROVE  available' \in [Ports -> Nat] /\ used' \subseteq Ports
<1>1. (IF available[p] > 0 THEN available[p] - 1 ELSE 0) \in Nat
  BY DEF PoolType
<1>2. available' \in [Ports -> Nat]
  BY <1>1 DEF PoolType, TakePort
<1>. QED BY <1>2 DEF PoolType, TakePort

\* The port getNextPublicPort assigns belongs to the pool, and the pool stays
\* well typed.
LEMMA AssignType ==
  ASSUME NEW s \in Sessions, NEW k \in Sessions, NEW want \in Ports \cup {0},
         SessionType, PoolType, getNextPublicPort(s, k, want)
  PROVE  PoolType' /\ \E p \in Ports : port' = [port EXCEPT ![s] = p]
<1>1. CASE ReservedFor(k, want) /\ TakePort(want) /\ reserved' = [reserved EXCEPT ![k] = 0]
           /\ port' = [port EXCEPT ![s] = want] /\ UNCHANGED exhausted
  <2>1. want \in Ports
    BY <1>1, PortFacts DEF ReservedFor
  <2>2. available' \in [Ports -> Nat] /\ used' \subseteq Ports
    BY <1>1, <2>1, TakePortType
  <2>. QED BY <1>1, <2>1, <2>2 DEF PoolType
<1>2. ASSUME UNCHANGED <<reserved, exhausted>>,
             NEW p \in Ports, TakePort(p), port' = [port EXCEPT ![s] = p]
      PROVE  PoolType' /\ \E q \in Ports : port' = [port EXCEPT ![s] = q]
  BY <1>2, TakePortType DEF PoolType
<1>3. CASE /\ port' = [port EXCEPT ![s] = Fallback]
           /\ exhausted' = TRUE
           /\ UNCHANGED <<available, used, reserved>>
  BY <1>3, PortFacts DEF PoolType, Fallback
<1>. QED BY <1>1, <1>2, <1>3 DEF getNextPublicPort

\* Before any client has connected every field has its initial value.
LEMMA TypeInit == Init => TypeOK /\ Early
<1>. SUFFICES ASSUME Init PROVE TypeOK /\ Early
  OBVIOUS
<1>1. SessionType
  BY DEF Init, SessionType, Labels, ListenerLabels
<1>2. ClientType
  BY DEF Init, ClientType
<1>3. PoolType
  BY DEF Init, PoolType
<1>4. TableType
  BY DEF Init, TableType
<1>5. Early
  BY DEF Init, Early
<1>. QED BY <1>1, <1>2, <1>3, <1>4, <1>5 DEF TypeOK

\* Every action keeps the types, whatever port the pool hands out.
LEMMA TypeStep ==
  ASSUME TypeOK, Early, [Next]_vars
  PROVE  TypeOK'
<1>. USE DEF TypeOK
<1>0. CASE UNCHANGED vars
  BY <1>0 DEF vars, sessionVars, poolVars, clientVars, SessionType, ClientType, PoolType, TableType
<1>1. SUFFICES ASSUME Next PROVE TypeOK'
  BY <1>0
<1>2. PICK s \in Sessions : Step(s)
  BY <1>1, StepCases
<1>. USE DEF sessionVars, poolVars, clientVars, Goto, LGoto, Labels, ListenerLabels
<1>a. ASSUME NEW c \in Clients, Accept(s, c) PROVE TypeOK'
  BY <1>a DEF Accept, Dial, SessionType, ClientType, PoolType, TableType
<1>b. ASSUME NEW c \in Clients, Reject(s, c) PROVE TypeOK'
  BY <1>b DEF Reject, Dial, SessionType, ClientType, PoolType, TableType
<1>c. CASE LoseLink(s) \/ RateLimited(s) \/ HttpUnavailable(s) \/ ReplyFails(s) \/ controlLoopEnds(s)
  BY <1>c DEF LoseLink, RateLimited, HttpUnavailable, ReplyFails, controlLoopEnds, HandleClientFails, SessionType, ClientType, PoolType, TableType
<1>d. CASE HandshakeFails(s) \/ HandlerDone(s)
  BY <1>d DEF HandshakeFails, HandlerDone, Return, SessionType, ClientType, PoolType, TableType
<1>e. CASE Register(s)
  <2>1. /\ client[s] \in Clients /\ knownPort[client[s]] \in Ports \cup {0}
        /\ (IF knownKey[client[s]] = None THEN s ELSE knownKey[client[s]]) \in Sessions
    BY <1>e DEF Register, Early, ClientType
  <2>2. PoolType' /\ \E p \in Ports : port' = [port EXCEPT ![s] = p]
    BY <1>e, <2>1, AssignType DEF Register
  <2>3. SessionType'
    BY <1>e, <2>1, <2>2 DEF Register, SessionType
  <2>. QED BY <1>e, <2>2, <2>3 DEF Register, ClientType, TableType
<1>f. CASE addClient(s) \/ registerHTTPClient(s)
  BY <1>f DEF addClient, registerHTTPClient, RegisterClient, SessionType, ClientType, PoolType, TableType
<1>g. CASE Reply(s)
  BY <1>g DEF Reply, SessionType, ClientType, PoolType, TableType
<1>h. CASE removeClient(s)
  BY <1>h DEF removeClient, SessionType, ClientType, PoolType, TableType
<1>i. CASE Release(s)
  BY <1>i DEF Release, releasePort, SessionType, ClientType, PoolType, TableType
<1>j. CASE unregisterHTTPClient(s)
  BY <1>j DEF unregisterHTTPClient, SessionType, ClientType, PoolType, TableType
<1>k. CASE HandlerCloses(s) \/ heartbeatChecker(s) \/ CloseListener(s)
  BY <1>k DEF HandlerCloses, heartbeatChecker, CloseBegin, CloseListener, FreeSocket, SessionType, ClientType, PoolType, TableType
<1>l. CASE Listen(s) \/ ListenRefused(s) \/ StoreListener(s) \/ AcceptEnds(s) \/ AcceptError(s)
  BY <1>l DEF Listen, ListenRefused, StoreListener, AcceptEnds, AcceptError, FreeSocket, SessionType, ClientType, PoolType, TableType
<1>m. CASE cleanupPortReservations(s)
  BY <1>m DEF cleanupPortReservations, SessionType, ClientType, PoolType, TableType
<1>. QED
  BY <1>2, <1>a, <1>b, <1>c, <1>d, <1>e, <1>f, <1>g, <1>h, <1>i, <1>j, <1>k, <1>l, <1>m DEF Step

\* What may change of the fields Early is about.
LEMMA EarlyStep ==
  ASSUME TypeOK, Early, [Next]_vars
  PROVE  Early'
<1>0. CASE UNCHANGED vars
  BY <1>0 DEF vars, sessionVars, Early
<1>1. SUFFICES ASSUME Next PROVE Early'
  BY <1>0
<1>2. PICK s \in Sessions : Step(s)
  BY <1>1, StepCases
<1>. USE DEF sessionVars, Goto, LGoto, TypeOK, SessionType, Early
<1>a. ASSUME NEW c \in Clients, Accept(s, c) \/ Reject(s, c) PROVE Early'
  BY <1>a DEF Accept, Reject, Dial
<1>b. CASE LoseLink(s) \/ RateLimited(s) \/ HttpUnavailable(s) \/ ReplyFails(s) \/ controlLoopEnds(s)
  BY <1>b DEF LoseLink, RateLimited, HttpUnavailable, ReplyFails, controlLoopEnds, HandleClientFails
<1>c. CASE HandshakeFails(s) \/ HandlerDone(s)
  BY <1>c DEF HandshakeFails, HandlerDone, Return
<1>d. CASE Register(s)
  <2>1. \E p : port' = [port EXCEPT ![s] = p]
    BY <1>d DEF Register, getNextPublicPort
  <2>. QED BY <1>d, <2>1 DEF Register
<1>e. CASE addClient(s) \/ registerHTTPClient(s) \/ Reply(s)
  BY <1>e DEF addClient, registerHTTPClient, Reply
<1>f. CASE removeClient(s) \/ Release(s) \/ unregisterHTTPClient(s)
  BY <1>f DEF removeClient, Release, unregisterHTTPClient
<1>g. CASE HandlerCloses(s) \/ heartbeatChecker(s) \/ CloseListener(s) \/ cleanupPortReservations(s)
  BY <1>g DEF HandlerCloses, heartbeatChecker, CloseBegin, CloseListener, cleanupPortReservations
<1>h. CASE Listen(s) \/ ListenRefused(s) \/ StoreListener(s) \/ AcceptEnds(s) \/ AcceptError(s)
  BY <1>h DEF Listen, ListenRefused, StoreListener, AcceptEnds, AcceptError
<1>. QED
  BY <1>2, <1>a, <1>b, <1>c, <1>d, <1>e, <1>f, <1>g, <1>h DEF Step

-----------------------------------------------------------------------------
(* The port pool                                                           *)

\* The pool changes only where a port is assigned or released.
LEMMA PoolFrame ==
  ASSUME NEW s \in Sessions, Step(s), ~Register(s), ~Release(s)
  PROVE  UNCHANGED poolVars
BY DEF Step, poolVars, Accept, Reject, LoseLink, HandshakeFails, RateLimited, addClient,
   registerHTTPClient, HttpUnavailable, Reply, ReplyFails, controlLoopEnds, removeClient,
   unregisterHTTPClient, HandlerCloses, HandlerDone, Listen, ListenRefused, StoreListener,
   AcceptEnds, AcceptError, heartbeatChecker, CloseBegin, CloseListener,
   cleanupPortReservations

\* What an assignment does to the pool: a port that was free becomes used, or the
\* pool is empty and stays as it is.
LEMMA Assign ==
  ASSUME NEW s \in Sessions, TypeOK, Early, PortPartition, Register(s)
  PROVE  \/ \E p \in Ports : /\ p \notin used /\ used' = used \cup {p}
                             /\ available' = [available EXCEPT ![p] = 0]
                             /\ port' = [port EXCEPT ![s] = p]
                             /\ exhausted' = exhausted
         \/ exhausted' /\ UNCHANGED <<available, used>>
<1>. DEFINE c == client[s]
            k == IF knownKey[c] = None THEN s ELSE knownKey[c]
            want == knownPort[c]
<1>1. want \in Ports \cup {0} /\ getNextPublicPort(s, k, want)
  BY DEF Register, TypeOK, ClientType, Early
<1>2. \A p \in Ports : available[p] \in {0, 1} /\ (available[p] > 0 <=> p \notin used)
  BY DEF PortPartition
<1>3. ASSUME NEW p \in Ports, p \notin used, TakePort(p)
      PROVE  used' = used \cup {p} /\ available' = [available EXCEPT ![p] = 0]
  <2>1. (IF available[p] > 0 THEN available[p] - 1 ELSE 0) = 0
    BY <1>2, <1>3
  <2>. QED BY <1>3, <2>1 DEF TakePort
<1>4. CASE ReservedFor(k, want) /\ TakePort(want) /\ port' = [port EXCEPT ![s] = want]
           /\ UNCHANGED exhausted
  <2>1. want \in Ports /\ want \notin used
    BY <1>1, <1>4 DEF ReservedFor
  <2>. QED BY <1>3, <1>4, <2>1
<1>5. CASE /\ UNCHANGED exhausted
           /\ \E p \in Ports : /\ available[p] > 0 /\ TakePort(p)
                              /\ port' = [port EXCEPT ![s] = p]
  BY <1>2, <1>3, <1>5
<1>6. CASE exhausted' = TRUE /\ UNCHANGED <<available, used, reserved>>
  BY <1>6
<1>. QED BY <1>1, <1>4, <1>5, <1>6 DEF getNextPublicPort

\* A port moves between availablePorts and usedPorts, and is never in both.
LEMMA PartitionStep ==
  ASSUME TypeOK, Early, PortPartition, [Next]_vars
  PROVE  PortPartition'
<1>0. CASE UNCHANGED vars
  BY <1>0 DEF vars, poolVars, PortPartition
<1>1. SUFFICES ASSUME Next PROVE PortPartition'
  BY <1>0
<1>2. PICK s \in Sessions : Step(s)
  BY <1>1, StepCases
<1>3. CASE Register(s)
  BY <1>3, Assign DEF PortPartition, TypeOK, PoolType
<1>4. CASE Release(s)
  BY <1>4 DEF Release, releasePort, PortPartition, TypeOK, PoolType
<1>5. CASE ~Register(s) /\ ~Release(s)
  BY <1>2, <1>5, PoolFrame DEF poolVars, PortPartition
<1>. QED BY <1>3, <1>4, <1>5

\* A step other than the assignment or the release of its port changes neither
\* the port of a session nor makes it hold one.
LEMMA HoldingFrame ==
  ASSUME NEW s \in Sessions, TypeOK, Early, Step(s), ~Register(s), ~Release(s)
  PROVE  port' = port /\ Holding' \subseteq Holding
<1>. USE DEF sessionVars, Goto, LGoto, TypeOK, SessionType, Holding
<1>a. ASSUME NEW c \in Clients, Accept(s, c) \/ Reject(s, c)
      PROVE  port' = port /\ Holding' \subseteq Holding
  BY <1>a DEF Accept, Reject, Dial
<1>b. CASE LoseLink(s) \/ RateLimited(s) \/ HttpUnavailable(s) \/ ReplyFails(s) \/ controlLoopEnds(s)
  BY <1>b DEF LoseLink, RateLimited, HttpUnavailable, ReplyFails, controlLoopEnds, HandleClientFails, Early
<1>c. CASE HandshakeFails(s) \/ HandlerDone(s)
  BY <1>c DEF HandshakeFails, HandlerDone, Return
<1>d. CASE addClient(s) \/ registerHTTPClient(s) \/ Reply(s)
  BY <1>d DEF addClient, registerHTTPClient, Reply
<1>e. CASE removeClient(s) \/ unregisterHTTPClient(s)
  BY <1>e DEF removeClient, unregisterHTTPClient
<1>f. CASE HandlerCloses(s) \/ heartbeatChecker(s) \/ CloseListener(s) \/ cleanupPortReservations(s)
  BY <1>f DEF HandlerCloses, heartbeatChecker, CloseBegin, CloseListener, cleanupPortReservations
<1>g. CASE Listen(s) \/ ListenRefused(s) \/ StoreListener(s) \/ AcceptEnds(s) \/ AcceptError(s)
  BY <1>g DEF Listen, ListenRefused, StoreListener, AcceptEnds, AcceptError
<1>. QED BY <1>a, <1>b, <1>c, <1>d, <1>e, <1>f, <1>g DEF Step

\* getNextPublicPort never hands out a port another session still holds, while
\* the pool has one to give.
LEMMA UniqueStep ==
  ASSUME TypeOK, Early, PortPartition, UniquePorts, [Next]_vars
  PROVE  UniquePorts'
<1>0. CASE UNCHANGED vars
  BY <1>0 DEF vars, sessionVars, poolVars, UniquePorts, Holding
<1>1. SUFFICES ASSUME Next PROVE UniquePorts'
  BY <1>0
<1>2. PICK s \in Sessions : Step(s)
  BY <1>1, StepCases
<1>3. CASE Register(s)
  <2>1. SUFFICES ASSUME ~exhausted' PROVE UniquePorts'
    BY DEF UniquePorts
  <2>2. PICK p \in Ports : /\ p \notin used /\ used' = used \cup {p}
                          /\ port' = [port EXCEPT ![s] = p] /\ exhausted' = exhausted
    BY <1>3, <2>1, Assign
  <2>3. Holding' \subseteq Holding \cup {s}
    BY <1>3, <2>2 DEF Register, Goto, Holding, TypeOK, SessionType
  <2>4. \A t \in Holding : port[t] \in used /\ port[t] # p
    BY <2>1, <2>2 DEF UniquePorts
  <2>5. \A t \in Holding' : port'[t] \in used' /\ (t # s => port'[t] = port[t] /\ t \in Holding)
    BY <2>2, <2>3, <2>4 DEF TypeOK, SessionType, Holding
  <2>6. port'[s] = p
    BY <2>2 DEF TypeOK, SessionType
  <2>. QED BY <2>1, <2>2, <2>4, <2>5, <2>6 DEF UniquePorts
<1>4. CASE Release(s)
  <2>1. Holding' = Holding \ {s} /\ port' = port /\ exhausted' = exhausted
    BY <1>4 DEF Release, Goto, sessionVars, Holding, TypeOK, SessionType
  <2>2. CASE port[s] \notin used /\ UNCHANGED <<available, used>>
    BY <2>1, <2>2 DEF UniquePorts
  <2>3. CASE port[s] \in used /\ used' = used \ {port[s]}
    <3>1. s \in Holding
      BY <1>4, <2>3, PortFacts DEF Release, Holding, TypeOK, PoolType
    <3>. QED BY <2>1, <2>3, <3>1 DEF UniquePorts
  <2>. QED BY <1>4, <2>2, <2>3 DEF Release, releasePort
<1>5. CASE ~Register(s) /\ ~Release(s)
  <2>1. UNCHANGED poolVars /\ port' = port /\ Holding' \subseteq Holding
    BY <1>2, <1>5, PoolFrame, HoldingFrame
  <2>. QED BY <2>1 DEF poolVars, UniquePorts
<1>. QED BY <1>3, <1>4, <1>5

-----------------------------------------------------------------------------
(* Listeners and routes                                                    *)

\* A closed session has no open listener: startPublicListener publishes the
\* listener under session.mu, and Close takes it from there.
LEMMA ListenerInvStep ==
  ASSUME TypeOK, Early, ListenerDiesWithSession, [Next]_vars
  PROVE  ListenerDiesWithSession'
<1>0. CASE UNCHANGED vars
  BY <1>0 DEF vars, sessionVars, ListenerDiesWithSession
<1>1. SUFFICES ASSUME Next PROVE ListenerDiesWithSession'
  BY <1>0
<1>2. PICK s \in Sessions : Step(s)
  BY <1>1, StepCases
<1>. USE RegistryAssumption DEF sessionVars, Goto, LGoto, TypeOK, SessionType, TableType, ListenerDiesWithSession
<1>a. ASSUME NEW c \in Clients, Accept(s, c) \/ Reject(s, c) PROVE ListenerDiesWithSession'
  BY <1>a DEF Accept, Reject, Dial
<1>b. CASE LoseLink(s) \/ RateLimited(s) \/ HttpUnavailable(s) \/ ReplyFails(s) \/ controlLoopEnds(s)
  BY <1>b DEF LoseLink, RateLimited, HttpUnavailable, ReplyFails, controlLoopEnds, HandleClientFails
<1>c. CASE HandshakeFails(s) \/ HandlerDone(s)
  BY <1>c DEF HandshakeFails, HandlerDone, Return
<1>d. CASE Register(s)
  <2>1. \E p : port' = [port EXCEPT ![s] = p]
    BY <1>d DEF Register, getNextPublicPort
  <2>2. lpc[s] = "none" /\ UNCHANGED <<lpc, bound, closed>>
    BY <1>d DEF Register, Early
  <2>. QED BY <2>1, <2>2
<1>e. CASE addClient(s) \/ registerHTTPClient(s)
  BY <1>e DEF addClient, registerHTTPClient
<1>f. CASE Reply(s)
  <2>1. lpc[s] = "none" /\ UNCHANGED <<port, bound, closed>> /\ \E l : lpc' = [lpc EXCEPT ![s] = l]
    BY <1>f DEF Reply, Early
  <2>. QED BY <2>1
<1>g. CASE removeClient(s) \/ Release(s) \/ unregisterHTTPClient(s)
  BY <1>g DEF removeClient, Release, unregisterHTTPClient
<1>h. CASE HandlerCloses(s) \/ heartbeatChecker(s) \/ cleanupPortReservations(s)
  BY <1>h DEF HandlerCloses, heartbeatChecker, CloseBegin, cleanupPortReservations
<1>i. CASE CloseListener(s)
  BY <1>i DEF CloseListener, FreeSocket
<1>j. CASE Listen(s)
  BY <1>j DEF Listen
<1>k. CASE ListenRefused(s)
  BY <1>k DEF ListenRefused
<1>l. CASE StoreListener(s)
  BY <1>l DEF StoreListener, FreeSocket
<1>m. CASE AcceptEnds(s) \/ AcceptError(s)
  BY <1>m DEF AcceptEnds, AcceptError, FreeSocket
<1>. QED
  BY <1>2, <1>a, <1>b, <1>c, <1>d, <1>e, <1>f, <1>g, <1>h, <1>i, <1>j, <1>k, <1>l, <1>m DEF Step

\* A subdomain route names the session that drew the subdomain.
LEMMA RouteStep ==
  ASSUME TypeOK, Early, RouteIsMine, [Next]_vars
  PROVE  RouteIsMine'
<1>0. CASE UNCHANGED vars
  BY <1>0 DEF vars, sessionVars, RouteIsMine
<1>1. SUFFICES ASSUME Next PROVE RouteIsMine'
  BY <1>0
<1>2. PICK s \in Sessions : Step(s)
  BY <1>1, StepCases
<1>. USE RegistryAssumption DEF sessionVars, Goto, LGoto, TypeOK, SessionType, TableType, RouteIsMine
<1>a. ASSUME NEW c \in Clients, Accept(s, c) \/ Reject(s, c) PROVE RouteIsMine'
  BY <1>a DEF Accept, Reject, Dial
<1>b. CASE LoseLink(s) \/ RateLimited(s) \/ HttpUnavailable(s) \/ ReplyFails(s) \/ controlLoopEnds(s)
  BY <1>b DEF LoseLink, RateLimited, HttpUnavailable, ReplyFails, controlLoopEnds, HandleClientFails, Early
<1>c. CASE HandshakeFails(s) \/ HandlerDone(s)
  BY <1>c DEF HandshakeFails, HandlerDone, Return
<1>d. CASE Register(s) \/ addClient(s)
  BY <1>d DEF Register, addClient, Early
<1>e. CASE registerHTTPClient(s)
  BY <1>e DEF registerHTTPClient, RegisterClient
<1>f. CASE Reply(s) \/ removeClient(s) \/ Release(s)
  BY <1>f DEF Reply, removeClient, Release
<1>g. CASE unregisterHTTPClient(s)
  BY <1>g DEF unregisterHTTPClient
<1>h. CASE HandlerCloses(s) \/ heartbeatChecker(s) \/ CloseListener(s) \/ cleanupPortReservations(s)
  BY <1>h DEF HandlerCloses, heartbeatChecker, CloseBegin, CloseListener, cleanupPortReservations
<1>i. CASE Listen(s) \/ ListenRefused(s) \/ StoreListener(s) \/ AcceptEnds(s) \/ AcceptError(s)
  BY <1>i DEF Listen, ListenRefused, StoreListener, AcceptEnds, AcceptError
<1>. QED
  BY <1>2, <1>a, <1>b, <1>c, <1>d, <1>e, <1>f, <1>g, <1>h, <1>i DEF Step

-----------------------------------------------------------------------------
(* Theorems                                                                *)

\* The inductive invariant: each property needs what handlers have not set yet,
\* and UniquePorts needs that a listed port is not in use.
RegistryInv ==
  /\ TypeOK /\ Early
  /\ PortPartition /\ UniquePorts
  /\ ListenerDiesWithSession /\ RouteIsMine

\* The registry invariant holds of every behaviour of the tunnel server.
THEOREM RegistryInvariant == Spec => []RegistryInv
<1>1. Init => RegistryInv
  <2>. SUFFICES ASSUME Init PROVE RegistryInv
    OBVIOUS
  <2>1. PortPartition
    BY DEF Init, PortPartition
  <2>2. UniquePorts
    BY DEF Init, UniquePorts, Holding
  <2>3. ListenerDiesWithSession
    BY RegistryAssumption DEF Init, ListenerDiesWithSession
  <2>4. RouteIsMine
    BY DEF Init, RouteIsMine
  <2>. QED BY <2>1, <2>2, <2>3, <2>4, TypeInit DEF RegistryInv
<1>2. RegistryInv /\ [Next]_vars => RegistryInv'
  <2>. SUFFICES ASSUME RegistryInv, [Next]_vars PROVE RegistryInv'
    OBVIOUS
  <2>. USE DEF RegistryInv
  <2>1. TypeOK' /\ Early'
    BY TypeStep, EarlyStep
  <2>2. PortPartition' /\ UniquePorts'
    BY PartitionStep, UniqueStep
  <2>3. ListenerDiesWithSession' /\ RouteIsMine'
    BY ListenerInvStep, RouteStep
  <2>. QED BY <2>1, <2>2, <2>3
<1>. QED BY <1>1, <1>2, PTL DEF Spec

\* getNextPublicPort and releasePort keep the pool split into listed and used ports.
THEOREM PortPartitionHolds == Spec => []PortPartition
<1>1. RegistryInv => PortPartition
  BY DEF RegistryInv
<1>. QED BY <1>1, RegistryInvariant, PTL

\* No two sessions are assigned one port unless the pool ran dry.
THEOREM UniquePortsHolds == Spec => []UniquePorts
<1>1. RegistryInv => UniquePorts
  BY DEF RegistryInv
<1>. QED BY <1>1, RegistryInvariant, PTL

\* No public listener outlives its session, whichever of startPublicListener and
\* Close gets session.mu first.
THEOREM ListenerDiesWithSessionHolds == Spec => []ListenerDiesWithSession
<1>1. RegistryInv => ListenerDiesWithSession
  BY DEF RegistryInv
<1>. QED BY <1>1, RegistryInvariant, PTL

\* UnregisterClient only ever removes the route of the session it is called for.
THEOREM RouteIsMineHolds == Spec => []RouteIsMine
<1>1. RegistryInv => RouteIsMine
  BY DEF RegistryInv
<1>. QED BY <1>1, RegistryInvariant, PTL

\* A bind collides only with a session between releasePort and Close: the session
\* that has the socket has the port, so by UniquePorts it no longer holds it.
THEOREM BindConflictHolds == Spec => []BindConflict
<1>1. RegistryInv => BindConflict
  <2>1. SUFFICES ASSUME RegistryInv, ~exhausted, NEW s \in Holding, lpc[s] = "start",
                        bound[port[s]] # None
                 PROVE  pc[bound[port[s]]] \in {"unregister", "close", "done"}
    BY DEF BindConflict
  <2>. DEFINE p == port[s]
              t == bound[p]
  <2>2. p \in Ports /\ t \in Sessions /\ s \in Sessions
    BY <2>1 DEF RegistryInv, TypeOK, SessionType, TableType, Holding
  <2>3. port[t] = p /\ lpc[t] \in {"bound", "accept"} /\ p # 0
    BY <2>1, <2>2 DEF RegistryInv, ListenerDiesWithSession, Holding
  <2>4. t \notin Holding
    BY <2>1, <2>3 DEF RegistryInv, UniquePorts
  <2>5. pc[t] \in Labels /\ pc[t] \notin {"new", "handshake"}
    BY <2>1, <2>2, <2>3 DEF RegistryInv, TypeOK, SessionType, Early
  <2>. QED BY <2>2, <2>3, <2>4, <2>5 DEF Holding, Labels
<1>. QED BY <1>1, RegistryInvariant, PTL

\* An entry of the client table is emptied by removeClient alone, and only by the
\* session that is in it.
THEOREM EvictsOnlyItselfHolds == Spec => EvictsOnlyItself
<1>1. TypeOK /\ [Next]_vars => [OwnRemoval]_vars
  <2>1. SUFFICES ASSUME TypeOK, Next, NEW i \in Ids, clients[i] # None, clients'[i] = None
                 PROVE  pc[clients[i]] = "remove" /\ pc'[clients[i]] = "release"
    BY DEF OwnRemoval
  <2>2. PICK s \in Sessions : Step(s)
    BY <2>1, StepCases
  <2>3. removeClient(s)
    <3>1. CASE addClient(s)
      <4>1. \E j : clients' = [clients EXCEPT ![j] = s]
        BY <3>1 DEF addClient
      <4>. QED BY <2>1, <4>1, RegistryAssumption DEF TypeOK, TableType
    <3>2. CASE ~addClient(s) /\ ~removeClient(s)
      <4>1. clients' = clients
        BY <2>2, <3>2 DEF Step, Accept, Reject, LoseLink, HandshakeFails, RateLimited,
           Register, registerHTTPClient, HttpUnavailable, Reply, ReplyFails,
           controlLoopEnds, Release, unregisterHTTPClient, HandlerCloses, HandlerDone,
           Listen, ListenRefused, StoreListener, AcceptEnds, AcceptError,
           heartbeatChecker, CloseBegin, CloseListener, cleanupPortReservations
      <4>. QED BY <2>1, <4>1
    <3>. QED BY <3>1, <3>2
  <2>. QED BY <2>1, <2>3 DEF removeClient, IsCurrent, Goto, TypeOK, SessionType, TableType
<1>2. RegistryInv => TypeOK
  BY DEF RegistryInv
<1>. QED BY <1>1, <1>2, RegistryInvariant, PTL DEF Spec, EvictsOnlyItself
=============================================================================
