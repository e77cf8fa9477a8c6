-------------------------- MODULE HttpTunnelProofs --------------------------
(***************************************************************************)
(* HTTP requests through the tunnel, for any number of requests and        *)
(* sessions: types, stale requests, and the implementation of Rendezvous   *)
(* by SendHTTPRequest and handleHTTPResponse.                              *)
(***************************************************************************)
EXTENDS HttpTunnel, TLAPS

\* How far the waiting handler, the client and the delivery can be apart.
Order ==
  \A r \in Requests :
    /\ req[r] \in {"new", "body", "send"} => cli[r] = "none"
    /\ req[r] \in {"new", "body"} => result[r] = "idle"
    /\ req[r] \in {"send", "wait"} => result[r] = "waiting"
    /\ cli[r] # "none" => result[r] # "idle"
    /\ deliver[r] # "none" => cli[r] = "end"
    /\ chan[r] = "response" => deliver[r] = "done"

\* Steps of the proxy and of a session's end.
Handling(r) == Lookup(r) \/ NotFound(r) \/ handleRequest(r)

Ending(s) == Unroute(s) \/ LoseLink(s) \/ CloseDone(s)

\* Every step is one of a request or of a session.
LEMMA StepCases ==
  ASSUME Next
  PROVE  \/ \E r \in Requests : Handling(r) \/ Delivery(r)
         \/ \E s \in Sessions : Ending(s)
BY DEF Next, Handling, Ending

\* A request keeps the session it was routed to.
LEMMA TypeStep ==
  ASSUME TypeOK, [Next]_vars
  PROVE  TypeOK'
<1>. USE NoneAssumption DEF TypeOK, requestVars, sessionVars, At
<1>0. CASE UNCHANGED vars
  BY <1>0 DEF vars
<1>1. ASSUME NEW r \in Requests, Handling(r) PROVE TypeOK'
  BY <1>1 DEF Handling, handleRequest, Lookup, NotFound, BodyFails, RegisterWaiter, Send,
     SendFails, WaitTimeout, ClientDisconnected, GiveUp, GetResponse, Cleanup, Respond
<1>2. ASSUME NEW r \in Requests, Delivery(r) PROVE TypeOK'
  BY <1>2 DEF Delivery, ReceiveRequest, SendResponse, ForwardFails, ResponseTake, Match,
     ResponseSend
<1>3. ASSUME NEW s \in Sessions, Ending(s) PROVE TypeOK'
  BY <1>3 DEF Ending, Unroute, LoseLink, CloseDone
<1>. QED BY <1>0, <1>1, <1>2, <1>3, StepCases

\* The client speaks only when asked, and delivery follows the client.
LEMMA OrderStep ==
  ASSUME TypeOK, Order, [Next]_vars
  PROVE  Order'
<1>. USE NoneAssumption DEF TypeOK, Order, requestVars, sessionVars, At
<1>0. CASE UNCHANGED vars
  BY <1>0 DEF vars
<1>1. ASSUME NEW r \in Requests, Handling(r) PROVE Order'
  BY <1>1 DEF Handling, handleRequest, Lookup, NotFound, BodyFails, RegisterWaiter, Send,
     SendFails, WaitTimeout, ClientDisconnected, GiveUp, GetResponse, Cleanup, Respond
<1>2. ASSUME NEW r \in Requests, Delivery(r) PROVE Order'
  BY <1>2 DEF Delivery, ReceiveRequest, SendResponse, ForwardFails, ResponseTake, Match,
     ResponseSend
<1>3. ASSUME NEW s \in Sessions, Ending(s) PROVE Order'
  BY <1>3 DEF Ending, Unroute, LoseLink, CloseDone
<1>. QED BY <1>0, <1>1, <1>2, <1>3, StepCases

\* The deferred deletion runs before the handler answers.
LEMMA StaleStep ==
  ASSUME TypeOK, NoStaleRequest, [Next]_vars
  PROVE  NoStaleRequest'
<1>. USE NoneAssumption DEF TypeOK, NoStaleRequest, requestVars, sessionVars, At
<1>0. CASE UNCHANGED vars
  BY <1>0 DEF vars
<1>1. ASSUME NEW r \in Requests, Handling(r) PROVE NoStaleRequest'
  BY <1>1 DEF Handling, handleRequest, Lookup, NotFound, BodyFails, RegisterWaiter, Send,
     SendFails, WaitTimeout, ClientDisconnected, GiveUp, GetResponse, Cleanup, Respond
<1>2. ASSUME NEW r \in Requests, Delivery(r) PROVE NoStaleRequest'
  BY <1>2 DEF Delivery, ReceiveRequest, SendResponse, ForwardFails, ResponseTake, Match,
     ResponseSend
<1>3. ASSUME NEW s \in Sessions, Ending(s) PROVE NoStaleRequest'
  BY <1>3 DEF Ending, Unroute, LoseLink, CloseDone
<1>. QED BY <1>0, <1>1, <1>2, <1>3, StepCases

-----------------------------------------------------------------------------
HttpInv == TypeOK /\ Order /\ NoStaleRequest

\* The invariant of the HTTP tunnel, for any number of requests and sessions.
THEOREM HttpInvariant == Spec => []HttpInv
<1>1. Init => HttpInv
  BY DEF Init, HttpInv, TypeOK, Order, NoStaleRequest
<1>2. HttpInv /\ [Next]_vars => HttpInv'
  BY TypeStep, OrderStep, StaleStep DEF HttpInv
<1>. QED BY <1>1, <1>2, PTL DEF Spec

\* httpRequests holds only requests whose handler still runs.
THEOREM NoStaleRequestHolds == Spec => []NoStaleRequest
<1>1. HttpInv => NoStaleRequest
  BY DEF HttpInv
<1>. QED BY <1>1, HttpInvariant, PTL

-----------------------------------------------------------------------------
(* SendHTTPRequest implements Rendezvous                                   *)

\* Steps that change neither the result nor what the client has said.
LEMMA Stutter ==
  ASSUME UNCHANGED <<result, deliver>>
  PROVE  UNCHANGED R!vars
BY DEF R!vars, replyBar

\* Every step is a step of the rendezvous or leaves it unchanged.
LEMMA RefineStep ==
  ASSUME TypeOK, Order, [Next]_vars
  PROVE  [R!Next]_(R!vars)
<1>. USE DEF TypeOK, requestVars, sessionVars, At
<1>0. CASE UNCHANGED vars
  BY <1>0, Stutter DEF vars
<1>1. ASSUME NEW r \in Requests, Handling(r) PROVE [R!Next]_(R!vars)
  <2>1. CASE RegisterWaiter(r)
    <3>1. R!Ask(r)
      BY <2>1 DEF RegisterWaiter, R!Ask, Order, replyBar
    <3>. QED BY <3>1 DEF R!Next
  <2>2. CASE SendFails(r) \/ WaitTimeout(r) \/ ClientDisconnected(r)
    <3>1. R!GiveUp(r)
      BY <2>2 DEF SendFails, WaitTimeout, ClientDisconnected, GiveUp, R!GiveUp, Order, replyBar
    <3>. QED BY <3>1 DEF R!Next
  <2>3. CASE GetResponse(r)
    <3>1. replyBar[r] = "answer" /\ result[r] = "waiting"
      BY <2>3 DEF GetResponse, Order, replyBar
    <3>2. R!Settle(r)
      BY <2>3, <3>1 DEF GetResponse, R!Settle, replyBar
    <3>. QED BY <3>2 DEF R!Next
  <2>4. CASE \/ Lookup(r) \/ NotFound(r) \/ BodyFails(r) \/ Send(r)
             \/ Cleanup(r) \/ Respond(r)
    BY <2>4, Stutter DEF Lookup, NotFound, BodyFails, Send, Cleanup, Respond
  <2>. QED BY <1>1, <2>1, <2>2, <2>3, <2>4 DEF Handling, handleRequest
<1>2. ASSUME NEW r \in Requests, Delivery(r) PROVE [R!Next]_(R!vars)
  <2>1. CASE ReceiveRequest(r) \/ ForwardFails(r)
    BY <2>1, Stutter DEF ReceiveRequest, ForwardFails
  <2>2. CASE SendResponse(r)
    <3>1. replyBar[r] = "none" /\ result[r] # "idle" /\ result' = result
      BY <2>2 DEF SendResponse, Order, replyBar
    <3>2. CASE tunnel[r] \in link
      <4>1. replyBar' = [replyBar EXCEPT ![r] = "answer"]
        BY <2>2, <3>2 DEF SendResponse, replyBar
      <4>. QED BY <3>1, <4>1 DEF R!Next, R!Reply, R!Replies
    <3>3. CASE tunnel[r] \notin link
      BY <2>2, <3>3, Stutter DEF SendResponse
    <3>. QED BY <3>2, <3>3
  <2>3. CASE ResponseTake(r) \/ ResponseSend(r)
    <3>1. result' = result /\ replyBar' = replyBar
      BY <2>3 DEF ResponseTake, ResponseSend, replyBar
    <3>. QED BY <3>1 DEF R!vars
  <2>. QED BY <1>2, <2>1, <2>2, <2>3 DEF Delivery
<1>3. ASSUME NEW s \in Sessions, Ending(s) PROVE [R!Next]_(R!vars)
  BY <1>3, Stutter DEF Ending, Unroute, LoseLink, CloseDone
<1>. QED BY <1>0, <1>1, <1>2, <1>3, StepCases

\* Every behaviour of the HTTP tunnel is one of the abstract rendezvous: a visitor's
\* request is settled at most once, and only with the response to that request.
THEOREM ImplementsRendezvous == Spec => R!SafeSpec
<1>1. Init => R!Init
  BY DEF Init, R!Init, replyBar
<1>2. HttpInv /\ [Next]_vars => [R!Next]_(R!vars)
  BY RefineStep DEF HttpInv
<1>. QED BY <1>1, <1>2, HttpInvariant, PTL DEF Spec, R!SafeSpec
=============================================================================
