----------------------- MODULE ProxyRendezvousProofs ------------------------
(***************************************************************************)
(* The proxy handshake for any number of visitors: proxyWaiting does not   *)
(* pile up, no open data connection is left without somebody to close it   *)
(* but for the one leak named, and the handshake implements Rendezvous.    *)
(***************************************************************************)
EXTENDS ProxyRendezvous, TLAPS

\* How far the server's handler, the client's goroutine and the delivery of the
\* answer can be apart.
Order ==
  \A p \in Publics :
    /\ pub[p] \in {"new", "register", "send"} => cli[p] = "none"
    /\ pub[p] \in {"new", "register"} => result[p] = "idle"
    /\ pub[p] \in {"send", "wait"} => result[p] = "waiting"
    /\ cli[p] # "none" => result[p] # "idle"
    /\ disp[p] # "none" => cli[p] = "copy"
    /\ cancel[p] # "none" => cli[p] = "end"
    /\ chan[p] = "conn" => disp[p] = "done"
    /\ chan[p] = "refused" => cancel[p] = "done"

\* An answer of the client that is still under way has a handler waiting for it, or
\* one that has given up.
Awaited ==
  \A p \in Publics :
    \/ cli[p] \in {"asked", "dialLocal", "dialServer", "hello"}
    \/ disp[p] \in {"take", "send"}
    \/ chan[p] = "conn"
    => pub[p] = "wait" \/ result[p] = "gaveUp"

\* Whoever takes a waiter out of proxyWaiting finds room in its channel, since the
\* client answers an ID once: the time-out branch of dispatchProxyConnection, which
\* DispatchSend leaves out, is dead.
RoomToSend ==
  \A p \in Publics :
    /\ p \in waiting => disp[p] # "send" /\ cancel[p] # "send" /\ chan[p] = "empty"
    /\ disp[p] = "send" => chan[p] = "empty" /\ cancel[p] # "send"
    /\ cancel[p] = "send" => chan[p] = "empty"

\* The steps of one connection, by the part of the state they work on.
Handling(p) == AcceptPublic(p) \/ PublicHandler(p)

World(p) == VisitorLeaves(p) \/ BackendLeaves(p)
            \/ \E k \in ServerCopies \cup ClientCopies : proxyCopy(k, p)

\* Every step is one of a handler, of a client or of the world around them.
LEMMA StepCases ==
  ASSUME Next
  PROVE  \/ LoseControl
         \/ \E p \in Publics : Handling(p) \/ ServerSide(p) \/ handleProxy(p) \/ World(p)
BY DEF Next, Handling, World

\* Visitors, backends, copies and the control connection leave the handshake alone.
LEMMA WorldFrame ==
  ASSUME NEW p \in Publics, World(p)
  PROVE  UNCHANGED <<serverVars, cli, link>>
BY DEF World, VisitorLeaves, BackendLeaves, proxyCopy, ReadData, WriteDone, ReadError,
   WriteError, CopyEnds

-----------------------------------------------------------------------------
\* The fields of the two handlers keep their types.
LEMMA HandlerTypeStep ==
  ASSUME HandlerType, [Next]_vars
  PROVE  HandlerType'
<1>. USE DEF HandlerType, serverVars, At
<1>0. CASE UNCHANGED vars
  BY <1>0 DEF vars
<1>1. CASE LoseControl
  BY <1>1 DEF LoseControl
<1>2. ASSUME NEW p \in Publics, Handling(p) PROVE HandlerType'
  BY <1>2 DEF Handling, AcceptPublic, PublicHandler, RegisterWaiter, NoProxyID, SendProxy,
     SendProxyFails, GetConn, GetRefusal, WaitTimeout, StreamEnds, Cleanup, ClosePublic
<1>3. ASSUME NEW p \in Publics, ServerSide(p) PROVE HandlerType'
  BY <1>3 DEF ServerSide, DispatchTake, DispatchSend, DataHandshakeFails, CancelTake,
     CancelSend, TakeWaiter
<1>4. ASSUME NEW p \in Publics, handleProxy(p) PROVE HandlerType'
  BY <1>4 DEF handleProxy, ReceiveProxy, DialLocal, DialLocalFails, DialServer,
     DialServerFails, Hello, HelloFails, reportProxyError
<1>5. ASSUME NEW p \in Publics, World(p) PROVE HandlerType'
  BY <1>5, WorldFrame
<1>. QED BY <1>0, <1>1, <1>2, <1>3, <1>4, <1>5, StepCases

\* The client answers only after it was asked, and dials before it answers.
LEMMA OrderStep ==
  ASSUME HandlerType, Order, [Next]_vars
  PROVE  Order'
<1>. USE DEF HandlerType, Order, serverVars, At
<1>0. CASE UNCHANGED vars
  BY <1>0 DEF vars
<1>1. CASE LoseControl
  BY <1>1 DEF LoseControl
<1>2. ASSUME NEW p \in Publics, Handling(p) PROVE Order'
  BY <1>2 DEF Handling, AcceptPublic, PublicHandler, RegisterWaiter, NoProxyID, SendProxy,
     SendProxyFails, GetConn, GetRefusal, WaitTimeout, StreamEnds, Cleanup, ClosePublic
<1>3. ASSUME NEW p \in Publics, ServerSide(p) PROVE Order'
  BY <1>3 DEF ServerSide, DispatchTake, DispatchSend, DataHandshakeFails, CancelTake,
     CancelSend, TakeWaiter
<1>4. ASSUME NEW p \in Publics, handleProxy(p) PROVE Order'
  BY <1>4 DEF handleProxy, ReceiveProxy, DialLocal, DialLocalFails, DialServer,
     DialServerFails, Hello, HelloFails, reportProxyError
<1>5. ASSUME NEW p \in Publics, World(p) PROVE Order'
  BY <1>5, WorldFrame
<1>. QED BY <1>0, <1>1, <1>2, <1>3, <1>4, <1>5, StepCases

\* A handler that waits leaves only with its answer, or by giving up.
LEMMA AwaitedStep ==
  ASSUME HandlerType, Order, Awaited, [Next]_vars
  PROVE  Awaited'
<1>. USE DEF HandlerType, Order, Awaited, serverVars, At
<1>0. CASE UNCHANGED vars
  BY <1>0 DEF vars
<1>1. CASE LoseControl
  BY <1>1 DEF LoseControl
<1>2. ASSUME NEW p \in Publics, Handling(p) PROVE Awaited'
  BY <1>2 DEF Handling, AcceptPublic, PublicHandler, RegisterWaiter, NoProxyID, SendProxy,
     SendProxyFails, GetConn, GetRefusal, WaitTimeout, StreamEnds, Cleanup, ClosePublic
<1>3. ASSUME NEW p \in Publics, ServerSide(p) PROVE Awaited'
  BY <1>3 DEF ServerSide, DispatchTake, DispatchSend, DataHandshakeFails, CancelTake,
     CancelSend, TakeWaiter
<1>4. ASSUME NEW p \in Publics, handleProxy(p) PROVE Awaited'
  BY <1>4 DEF handleProxy, ReceiveProxy, DialLocal, DialLocalFails, DialServer,
     DialServerFails, Hello, HelloFails, reportProxyError
<1>5. ASSUME NEW p \in Publics, World(p) PROVE Awaited'
  BY <1>5, WorldFrame
<1>. QED BY <1>0, <1>1, <1>2, <1>3, <1>4, <1>5, StepCases

\* Deleting the waiter from proxyWaiting is what entitles to send to it.
LEMMA RoomStep ==
  ASSUME HandlerType, Order, RoomToSend, [Next]_vars
  PROVE  RoomToSend'
<1>. USE DEF HandlerType, RoomToSend, serverVars, At
<1>0. CASE UNCHANGED vars
  BY <1>0 DEF vars
<1>1. CASE LoseControl
  BY <1>1 DEF LoseControl
<1>2. ASSUME NEW p \in Publics, Handling(p) PROVE RoomToSend'
  BY <1>2 DEF Handling, AcceptPublic, PublicHandler, RegisterWaiter, NoProxyID, SendProxy,
     SendProxyFails, GetConn, GetRefusal, WaitTimeout, StreamEnds, Cleanup, ClosePublic, Order
<1>3. ASSUME NEW p \in Publics, ServerSide(p) PROVE RoomToSend'
  BY <1>3 DEF ServerSide, DispatchTake, DispatchSend, DataHandshakeFails, CancelTake,
     CancelSend, TakeWaiter
<1>4. ASSUME NEW p \in Publics, handleProxy(p) PROVE RoomToSend'
  BY <1>4 DEF handleProxy, ReceiveProxy, DialLocal, DialLocalFails, DialServer,
     DialServerFails, Hello, HelloFails, reportProxyError
<1>5. ASSUME NEW p \in Publics, World(p) PROVE RoomToSend'
  BY <1>5, WorldFrame
<1>. QED BY <1>0, <1>1, <1>2, <1>3, <1>4, <1>5, StepCases

\* cancelProxyConnection runs before the handler returns.
LEMMA StaleStep ==
  ASSUME HandlerType, NoStaleWaiter, [Next]_vars
  PROVE  NoStaleWaiter'
<1>. USE DEF HandlerType, NoStaleWaiter, serverVars, At
<1>0. CASE UNCHANGED vars
  BY <1>0 DEF vars
<1>1. CASE LoseControl
  BY <1>1 DEF LoseControl
<1>2. ASSUME NEW p \in Publics, Handling(p) PROVE NoStaleWaiter'
  BY <1>2 DEF Handling, AcceptPublic, PublicHandler, RegisterWaiter, NoProxyID, SendProxy,
     SendProxyFails, GetConn, GetRefusal, WaitTimeout, StreamEnds, Cleanup, ClosePublic
<1>3. ASSUME NEW p \in Publics, ServerSide(p) PROVE NoStaleWaiter'
  BY <1>3 DEF ServerSide, DispatchTake, DispatchSend, DataHandshakeFails, CancelTake,
     CancelSend, TakeWaiter
<1>4. ASSUME NEW p \in Publics, handleProxy(p) PROVE NoStaleWaiter'
  BY <1>4 DEF handleProxy, ReceiveProxy, DialLocal, DialLocalFails, DialServer,
     DialServerFails, Hello, HelloFails, reportProxyError
<1>5. ASSUME NEW p \in Publics, World(p) PROVE NoStaleWaiter'
  BY <1>5, WorldFrame
<1>. QED BY <1>0, <1>1, <1>2, <1>3, <1>4, <1>5, StepCases

\* Who owns an open data connection changes hands without a gap.
LEMMA OwnedStep ==
  ASSUME HandlerType, SocketType, Order, Awaited, OnlyLateConnectionLeaks, [Next]_vars
  PROVE  OnlyLateConnectionLeaks'
<1>. USE DEF HandlerType, SocketType, Sockets, Awaited, OnlyLateConnectionLeaks,
             serverVars, socketVars, copyVars, At
<1>0. CASE UNCHANGED vars
  BY <1>0 DEF vars
<1>1. CASE LoseControl
  BY <1>1 DEF LoseControl
<1>2. ASSUME NEW p \in Publics, Handling(p) PROVE OnlyLateConnectionLeaks'
  <2>1. CASE GetConn(p)
    <3>1. /\ server' = server /\ disp' = disp /\ pub' = [pub EXCEPT ![p] = "stream"]
          /\ chan' = [chan EXCEPT ![p] = "empty"] /\ result' = [result EXCEPT ![p] = "answer"]
          /\ copies \subseteq copies' /\ <<"toPublic", p>> \in copies'
      BY <2>1 DEF GetConn
    <3>2. copies' \cap {<<"toPublic", p>>, <<"toClient", p>>} # {}
      BY <3>1
    <3>3. \A q \in Publics : copies \cap {<<"toPublic", q>>, <<"toClient", q>>} # {}
                           => copies' \cap {<<"toPublic", q>>, <<"toClient", q>>} # {}
      BY <3>1
    <3>. QED BY <3>1, <3>2, <3>3
  <2>2. CASE StreamEnds(p)
    BY <2>2 DEF StreamEnds
  <2>3. CASE AcceptPublic(p) \/ ClosePublic(p)
    BY <2>3 DEF AcceptPublic, ClosePublic
  <2>4. CASE RegisterWaiter(p) \/ NoProxyID(p) \/ SendProxy(p) \/ SendProxyFails(p)
    BY <2>4 DEF RegisterWaiter, NoProxyID, SendProxy, SendProxyFails, Order
  <2>5. CASE GetRefusal(p) \/ WaitTimeout(p) \/ Cleanup(p)
    BY <2>5 DEF GetRefusal, WaitTimeout, Cleanup
  <2>. QED BY <1>2, <2>1, <2>2, <2>3, <2>4, <2>5 DEF Handling, PublicHandler
<1>3. ASSUME NEW p \in Publics, ServerSide(p) PROVE OnlyLateConnectionLeaks'
  BY <1>3 DEF ServerSide, DispatchTake, DispatchSend, DataHandshakeFails, CancelTake,
     CancelSend
<1>4. ASSUME NEW p \in Publics, handleProxy(p) PROVE OnlyLateConnectionLeaks'
  BY <1>4 DEF handleProxy, ReceiveProxy, DialLocal, DialLocalFails, DialServer,
     DialServerFails, Hello, HelloFails, Order
<1>5. ASSUME NEW p \in Publics, VisitorLeaves(p) \/ BackendLeaves(p)
      PROVE  OnlyLateConnectionLeaks'
  BY <1>5 DEF VisitorLeaves, BackendLeaves
<1>6. ASSUME NEW p \in Publics, NEW k \in ServerCopies \cup ClientCopies, proxyCopy(k, p)
      PROVE  OnlyLateConnectionLeaks'
  <2>0. CASE ReadData(k, p) \/ WriteDone(k, p)
    BY <2>0 DEF ReadData, WriteDone
  <2>. SUFFICES ASSUME CopyEnds(k, p) PROVE OnlyLateConnectionLeaks'
    BY <1>6, <2>0 DEF proxyCopy, ReadError, WriteError
  <2>1. UNCHANGED <<pub, result, disp, chan>> /\ copies' = copies \ {<<k, p>>}
    BY DEF CopyEnds
  <2>2. CASE k \in ServerCopies
    <3>1. server' = [server EXCEPT ![p] = "closed"]
      BY <2>2 DEF CopyEnds, CloseServerSide
    <3>2. \A q \in Publics : q # p => \A l \in {"toPublic", "toClient"} : <<l, q>> # <<k, p>>
      OBVIOUS
    <3>. QED BY <2>1, <3>1, <3>2
  <2>3. CASE k \notin ServerCopies
    <3>1. server' = server
      BY <2>3 DEF CopyEnds
    <3>2. \A q \in Publics : <<"toPublic", q>> # <<k, p>> /\ <<"toClient", q>> # <<k, p>>
      BY <2>3 DEF ServerCopies
    <3>. QED BY <2>1, <3>1, <3>2
  <2>. QED BY <2>2, <2>3
<1>. QED BY <1>0, <1>1, <1>2, <1>3, <1>4, <1>5, <1>6, StepCases DEF World

\* The sockets and the counters keep their types.
LEMMA SocketTypeStep ==
  ASSUME SocketType, [Next]_vars
  PROVE  SocketType'
<1>. USE DEF SocketType, Sockets, socketVars, copyVars, At
<1>0. CASE UNCHANGED vars
  BY <1>0 DEF vars
<1>1. CASE LoseControl
  BY <1>1 DEF LoseControl
<1>2. ASSUME NEW p \in Publics, Handling(p) PROVE SocketType'
  <2>1. CASE GetConn(p)
    BY <2>1 DEF GetConn, ServerCopies
  <2>. QED
    BY <1>2, <2>1 DEF Handling, AcceptPublic, PublicHandler, RegisterWaiter, NoProxyID,
       SendProxy, SendProxyFails, GetRefusal, WaitTimeout, StreamEnds, Cleanup, ClosePublic
<1>3. ASSUME NEW p \in Publics, ServerSide(p) PROVE SocketType'
  BY <1>3 DEF ServerSide, DispatchTake, DispatchSend, DataHandshakeFails, CancelTake,
     CancelSend
<1>4. ASSUME NEW p \in Publics, handleProxy(p) PROVE SocketType'
  <2>1. CASE Hello(p)
    BY <2>1 DEF Hello, ClientCopies
  <2>. QED
    BY <1>4, <2>1 DEF handleProxy, ReceiveProxy, DialLocal, DialLocalFails, DialServer,
       DialServerFails, HelloFails
<1>5. ASSUME NEW p \in Publics, VisitorLeaves(p) \/ BackendLeaves(p) PROVE SocketType'
  BY <1>5 DEF VisitorLeaves, BackendLeaves
<1>6. ASSUME NEW p \in Publics, NEW k \in ServerCopies \cup ClientCopies, proxyCopy(k, p)
      PROVE  SocketType'
  BY <1>6 DEF proxyCopy, ReadData, WriteDone, ReadError, WriteError, CopyEnds,
     CloseServerSide
<1>. QED BY <1>0, <1>1, <1>2, <1>3, <1>4, <1>5, <1>6, StepCases DEF World

-----------------------------------------------------------------------------
(* Theorems                                                                *)

ProxyInv ==
  /\ HandlerType /\ SocketType /\ Order /\ Awaited
  /\ RoomToSend /\ NoStaleWaiter /\ OnlyLateConnectionLeaks

\* The invariant of the proxy handshake, for any number of visitors.
THEOREM ProxyInvariant == Spec => []ProxyInv
<1>1. Init => ProxyInv
  BY DEF Init, ProxyInv, HandlerType, SocketType, Sockets, Order, Awaited, RoomToSend,
     NoStaleWaiter, OnlyLateConnectionLeaks
<1>2. ProxyInv /\ [Next]_vars => ProxyInv'
  BY HandlerTypeStep, SocketTypeStep, OrderStep, AwaitedStep, RoomStep, StaleStep, OwnedStep
     DEF ProxyInv
<1>. QED BY <1>1, <1>2, PTL DEF Spec

\* proxyWaiting only holds waiters of handlers that are still running.
THEOREM NoStaleWaiterHolds == Spec => []NoStaleWaiter
<1>1. ProxyInv => NoStaleWaiter
  BY DEF ProxyInv
<1>. QED BY <1>1, ProxyInvariant, PTL

\* An open data connection on the server is read for its first message, dispatched,
\* awaited or copied, except the one sent to a handler that has just given up.
THEOREM OnlyLateConnectionLeaksHolds == Spec => []OnlyLateConnectionLeaks
<1>1. ProxyInv => OnlyLateConnectionLeaks
  BY DEF ProxyInv
<1>. QED BY <1>1, ProxyInvariant, PTL

-----------------------------------------------------------------------------
(* The handshake implements Rendezvous                                     *)

\* Steps that change neither the result nor what the client has said.
LEMMA Stutter ==
  ASSUME UNCHANGED <<result, disp, cancel>>
  PROVE  UNCHANGED R!vars
BY DEF R!vars, replyBar

\* Every step is a step of the rendezvous or leaves it unchanged.
LEMMA RefineStep ==
  ASSUME HandlerType, Order, RoomToSend, [Next]_vars
  PROVE  [R!Next]_(R!vars)
<1>. USE DEF HandlerType, serverVars, At
<1>0. CASE UNCHANGED vars
  BY <1>0, Stutter DEF vars
<1>1. CASE LoseControl
  BY <1>1, Stutter DEF LoseControl
<1>2. ASSUME NEW p \in Publics, Handling(p) PROVE [R!Next]_(R!vars)
  <2>1. CASE RegisterWaiter(p)
    <3>1. R!Ask(p)
      BY <2>1 DEF RegisterWaiter, R!Ask, Order, replyBar
    <3>. QED BY <3>1 DEF R!Next
  <2>2. CASE SendProxyFails(p) \/ WaitTimeout(p)
    <3>1. R!GiveUp(p)
      BY <2>2 DEF SendProxyFails, WaitTimeout, R!GiveUp, Order, replyBar
    <3>. QED BY <3>1 DEF R!Next
  <2>3. CASE GetConn(p)
    <3>1. replyBar[p] = "answer" /\ result[p] = "waiting"
      BY <2>3 DEF GetConn, Order, replyBar
    <3>2. R!Settle(p)
      BY <2>3, <3>1 DEF GetConn, R!Settle, replyBar
    <3>. QED BY <3>2 DEF R!Next
  <2>4. CASE GetRefusal(p)
    <3>1. replyBar[p] = "refusal" /\ result[p] = "waiting"
      BY <2>4 DEF GetRefusal, Order, replyBar
    <3>2. R!Settle(p)
      BY <2>4, <3>1 DEF GetRefusal, R!Settle, replyBar
    <3>. QED BY <3>2 DEF R!Next
  <2>5. CASE AcceptPublic(p) \/ NoProxyID(p) \/ SendProxy(p) \/ StreamEnds(p)
             \/ Cleanup(p) \/ ClosePublic(p)
    BY <2>5, Stutter DEF AcceptPublic, NoProxyID, SendProxy, StreamEnds, Cleanup, ClosePublic
  <2>. QED BY <1>2, <2>1, <2>2, <2>3, <2>4, <2>5 DEF Handling, PublicHandler
<1>3. ASSUME NEW p \in Publics, ServerSide(p) PROVE [R!Next]_(R!vars)
  <2>1. result' = result /\ replyBar' = replyBar
    BY <1>3 DEF ServerSide, DispatchTake, DispatchSend, DataHandshakeFails, CancelTake,
       CancelSend, replyBar
  <2>. QED BY <2>1 DEF R!vars
<1>4. ASSUME NEW p \in Publics, handleProxy(p) PROVE [R!Next]_(R!vars)
  <2>1. CASE ReceiveProxy(p) \/ DialLocal(p) \/ DialServer(p) \/ HelloFails(p)
    BY <2>1, Stutter DEF ReceiveProxy, DialLocal, DialServer, HelloFails
  <2>2. CASE Hello(p)
    <3>1. replyBar[p] = "none" /\ result[p] # "idle" /\ result' = result
      BY <2>2 DEF Hello, Order, replyBar
    <3>2. replyBar' = [replyBar EXCEPT ![p] = "answer"]
      BY <2>2 DEF Hello, replyBar
    <3>. QED BY <3>1, <3>2 DEF R!Next, R!Reply, R!Replies
  <2>3. CASE DialLocalFails(p) \/ DialServerFails(p)
    <3>1. /\ replyBar[p] = "none" /\ result[p] # "idle" /\ result' = result
          /\ disp' = disp /\ disp[p] = "none" /\ reportProxyError(p)
      BY <2>3 DEF DialLocalFails, DialServerFails, Order, replyBar
    <3>2. CASE link = "up"
      <4>1. replyBar' = [replyBar EXCEPT ![p] = "refusal"]
        BY <3>1, <3>2 DEF reportProxyError, replyBar
      <4>. QED BY <3>1, <4>1 DEF R!Next, R!Reply, R!Replies
    <3>3. CASE link # "up"
      BY <3>1, <3>3, Stutter DEF reportProxyError
    <3>. QED BY <3>2, <3>3
  <2>. QED BY <1>4, <2>1, <2>2, <2>3 DEF handleProxy
<1>5. ASSUME NEW p \in Publics, World(p) PROVE [R!Next]_(R!vars)
  BY <1>5, WorldFrame, Stutter
<1>. QED BY <1>0, <1>1, <1>2, <1>3, <1>4, <1>5, StepCases

\* Every behaviour of the proxy handshake is one of the abstract rendezvous: a
\* visitor's request is settled at most once, with the client's own word on it.
THEOREM ImplementsRendezvous == Spec => R!SafeSpec
<1>1. Init => R!Init
  BY DEF Init, R!Init, replyBar
<1>2. ProxyInv /\ [Next]_vars => [R!Next]_(R!vars)
  BY RefineStep DEF ProxyInv
<1>. QED BY <1>1, <1>2, ProxyInvariant, PTL DEF Spec, R!SafeSpec
=============================================================================
