----------------------------- MODULE HttpTunnel -----------------------------
(***************************************************************************)
(* HTTP requests through the tunnel: handleRequest of the HTTPS proxy      *)
(* looks up the session of a subdomain, SendHTTPRequest puts the request   *)
(* on its control connection and waits, the client forwards it to the      *)
(* local server and handleHTTPResponse hands the response to the waiter.   *)
(* Sessions end at any time (TunnelRegistry): their route is removed, their *)
(* connection lost and their done channel closed, in no order assumed here. *)
(* A request is its own ID.  Status codes are reduced to where they come   *)
(* from: the local server or client ("client"), or the proxy itself.       *)
(***************************************************************************)
EXTENDS Naturals

CONSTANTS Requests, Sessions, None

ASSUME NoneAssumption == None \notin Sessions

VARIABLES
  req, tunnel, result, status,   \* handleRequest and SendHTTPRequest
  pending, chan,                 \* httpRequests; the waiter's channel
  deliver,                       \* http_response on its way, handleHTTPResponse
  cli,                           \* the client's handleHTTPRequest
  routed, link, done             \* sessions: subdomain, connection, session.done

requestVars == <<req, tunnel, result, status>>
sessionVars == <<routed, link, done>>
vars == <<requestVars, pending, chan, deliver, cli, sessionVars>>

Init ==
  /\ req = [r \in Requests |-> "new"]
  /\ tunnel = [r \in Requests |-> None]
  /\ result = [r \in Requests |-> "idle"]
  /\ status = [r \in Requests |-> "none"]
  /\ pending = {}
  /\ chan = [r \in Requests |-> "empty"]
  /\ deliver = [r \in Requests |-> "none"]
  /\ cli = [r \in Requests |-> "none"]
  /\ routed = Sessions /\ link = Sessions /\ done = {}

At(f, x, v) == f' = [f EXCEPT ![x] = v]

-----------------------------------------------------------------------------
(* The proxy                                                               *)

Lookup(r) ==
  /\ req[r] = "new"
  /\ \E s \in routed : At(tunnel, r, s)
  /\ At(req, r, "body")
  /\ UNCHANGED <<result, status, pending, chan, deliver, cli, sessionVars>>

\* The proxy answers by itself: the pages of its own domain, an invalid host, a subdomain that is
\* not, or no longer, registered.
NotFound(r) ==
  /\ req[r] = "new"
  /\ At(req, r, "done") /\ At(status, r, "proxy")
  /\ UNCHANGED <<tunnel, result, pending, chan, deliver, cli, sessionVars>>

BodyFails(r) ==
  /\ req[r] = "body"
  /\ At(req, r, "done") /\ At(status, r, "proxy")
  /\ UNCHANGED <<tunnel, result, pending, chan, deliver, cli, sessionVars>>

\* The response channel is registered under the request's ID.
RegisterWaiter(r) ==
  /\ req[r] = "body"
  /\ pending' = pending \cup {r}
  /\ At(req, r, "send") /\ At(result, r, "waiting")
  /\ UNCHANGED <<tunnel, status, chan, deliver, cli, sessionVars>>

\* A write to a lost connection may still succeed.
Send(r) ==
  /\ req[r] = "send"
  /\ At(req, r, "wait") /\ At(cli, r, "asked")
  /\ UNCHANGED <<tunnel, result, status, pending, chan, deliver, sessionVars>>

\* Every way in which SendHTTPRequest returns an error leads to 502.
GiveUp(r) ==
  /\ At(req, r, "cleanup") /\ At(result, r, "gaveUp")
  /\ UNCHANGED <<tunnel, status, pending, chan, deliver, cli, sessionVars>>

SendFails(r) == req[r] = "send" /\ tunnel[r] \notin link /\ GiveUp(r)

\* Mutant: the wait has no time-out.
WaitTimeoutNever(r) == FALSE /\ GiveUp(r)

WaitTimeout(r) == req[r] = "wait" /\ GiveUp(r)

ClientDisconnected(r) == req[r] = "wait" /\ tunnel[r] \in done /\ GiveUp(r)

\* Mutant: a response that is not there is taken for one.
GetResponseAnyway(r) ==
  /\ req[r] = "wait"
  /\ At(chan, r, "empty") /\ At(req, r, "cleanup") /\ At(result, r, "answer")
  /\ UNCHANGED <<tunnel, status, pending, deliver, cli, sessionVars>>

GetResponse(r) ==
  /\ req[r] = "wait" /\ chan[r] = "response"
  /\ At(chan, r, "empty") /\ At(req, r, "cleanup") /\ At(result, r, "answer")
  /\ UNCHANGED <<tunnel, status, pending, deliver, cli, sessionVars>>

\* The deferred deletion runs when SendHTTPRequest returns.
Cleanup(r) ==
  /\ req[r] = "cleanup"
  /\ pending' = pending \ {r}
  /\ At(req, r, "respond")
  /\ UNCHANGED <<tunnel, result, status, chan, deliver, cli, sessionVars>>

Respond(r) ==
  /\ req[r] = "respond"
  /\ At(status, r, IF result[r] = "answer" THEN "client" ELSE "proxy")
  /\ At(req, r, "done")
  /\ UNCHANGED <<tunnel, result, pending, chan, deliver, cli, sessionVars>>

-----------------------------------------------------------------------------
(* The client, and handleHTTPResponse                                      *)

ReceiveRequest(r) ==
  /\ cli[r] = "asked" /\ tunnel[r] \in link
  /\ At(cli, r, "forward")
  /\ UNCHANGED <<requestVars, pending, chan, deliver, sessionVars>>

\* The response of the local server, or the error for a request that cannot be
\* built, is written to the control connection.
SendResponse(r) ==
  /\ cli[r] = "forward"
  /\ At(cli, r, "end")
  /\ IF tunnel[r] \in link THEN At(deliver, r, "sent") ELSE UNCHANGED deliver
  /\ UNCHANGED <<requestVars, pending, chan, sessionVars>>

\* The local server cannot be reached or its response not be read: the client logs
\* nothing and sends nothing.
ForwardFails(r) ==
  /\ cli[r] = "forward"
  /\ At(cli, r, "end")
  /\ UNCHANGED <<requestVars, pending, chan, deliver, sessionVars>>

Match(r) == pending' = pending \ {r}

ResponseTake(r) ==
  /\ deliver[r] = "sent" /\ tunnel[r] \in link
  /\ Match(r)
  /\ At(deliver, r, IF r \in pending THEN "send" ELSE "done")
  /\ UNCHANGED <<requestVars, chan, cli, sessionVars>>

ResponseSend(r) ==
  /\ deliver[r] = "send"
  /\ At(deliver, r, "done")
  /\ IF chan[r] = "empty" THEN At(chan, r, "response") ELSE UNCHANGED chan
  /\ UNCHANGED <<requestVars, pending, cli, sessionVars>>

-----------------------------------------------------------------------------
(* The end of a session                                                    *)

Unroute(s) ==
  /\ s \in routed
  /\ routed' = routed \ {s}
  /\ UNCHANGED <<requestVars, pending, chan, deliver, cli, link, done>>

LoseLink(s) ==
  /\ s \in link
  /\ link' = link \ {s}
  /\ UNCHANGED <<requestVars, pending, chan, deliver, cli, routed, done>>

CloseDone(s) ==
  /\ s \notin done
  /\ done' = done \cup {s}
  /\ UNCHANGED <<requestVars, pending, chan, deliver, cli, routed, link>>

handleRequest(r) ==
  \/ RegisterWaiter(r) \/ Send(r) \/ SendFails(r) \/ WaitTimeout(r)
  \/ ClientDisconnected(r) \/ GetResponse(r) \/ Cleanup(r) \/ Respond(r)
  \/ BodyFails(r)

Delivery(r) ==
  \/ ReceiveRequest(r) \/ SendResponse(r) \/ ForwardFails(r)
  \/ ResponseTake(r) \/ ResponseSend(r)

Next ==
  \/ \E r \in Requests : Lookup(r) \/ NotFound(r) \/ handleRequest(r) \/ Delivery(r)
  \/ \E s \in Sessions : Unroute(s) \/ LoseLink(s) \/ CloseDone(s)

Spec == Init /\ [][Next]_vars

\* Handlers run and the thirty-second timer fires; clients and sessions do as they
\* like.
FairSpec ==
  /\ Spec
  /\ \A r \in Requests : WF_vars(handleRequest(r)) /\ WF_vars(ResponseSend(r))

-----------------------------------------------------------------------------
\* The type invariant; a request under way has a session, so no nil session is used.
TypeOK ==
  /\ req \in [Requests -> {"new", "body", "send", "wait", "cleanup", "respond", "done"}]
  /\ tunnel \in [Requests -> Sessions \cup {None}]
  /\ \A r \in Requests : req[r] \in {"body", "send", "wait"} => tunnel[r] \in Sessions
  /\ result \in [Requests -> {"idle", "waiting", "answer", "gaveUp"}]
  /\ status \in [Requests -> {"none", "client", "proxy"}]
  /\ pending \subseteq Requests
  /\ chan \in [Requests -> {"empty", "response"}]
  /\ deliver \in [Requests -> {"none", "sent", "send", "done"}]
  /\ cli \in [Requests -> {"none", "asked", "forward", "end"}]
  /\ routed \subseteq Sessions /\ link \subseteq Sessions /\ done \subseteq Sessions

\* httpRequests holds no request that has been answered to the visitor: time-outs,
\* disconnects and late responses leave nothing behind.
NoStaleRequest ==
  \A r \in pending : req[r] \in {"send", "wait", "cleanup"}

replyBar == [r \in Requests |-> IF deliver[r] # "none" THEN "answer" ELSE "none"]

R == INSTANCE Rendezvous WITH outcome <- result, reply <- replyBar

\* SendHTTPRequest implements the rendezvous: a request is settled once, with the
\* client's response to this very request or with an error.
RefinesRendezvous == R!Spec

\* Every request of a visitor is answered, whatever becomes of the session, the
\* client and the local server.
VisitorAnswered ==
  \A r \in Requests : (req[r] # "new") ~> (req[r] = "done" /\ status[r] # "none")
=============================================================================
