--------------------------- MODULE ProxyRendezvous --------------------------
(***************************************************************************)
(* One TCP connection through the tunnel: a visitor connects to a public   *)
(* port, the server asks the client over the control connection, the       *)
(* client dials its backend and then the server, and the data connection   *)
(* is handed to the goroutine that waits for it.  Four copying goroutines  *)
(* then move the bytes.  A connection is its own proxy ID (IDs are random, *)
(* 128 bits).  A socket is "none", "open" or "closed"; closing one end     *)
(* makes reads of the other end fail.                                      *)
(*                                                                         *)
(* Left out: the bytes and their counters, and clients that repeat or make *)
(* up a "proxy" message: the client modelled is the repository's own.      *)
(***************************************************************************)
EXTENDS Integers

CONSTANT Publics     \* connections of visitors

VARIABLES
  pub, result,       \* handlePublicConnection: its place, what it waited for
  waiting, chan,     \* proxyWaiting; the waiter's channel of capacity 1
  disp, cancel,      \* dispatchProxyConnection, cancelProxyConnection
  cli,               \* the client's handleProxy
  link,              \* control connection
  visitor, public,   \* the two ends of the visitor's connection
  server, data,      \* the server's and the client's end of the data connection
  local, backend,    \* the client's and the backend's end of the local connection
  copies,            \* copying goroutines that run
  writing,           \* those of them that are in dst.Write, the others in src.Read
  activeSessions     \* the client's count

serverVars == <<pub, result, waiting, chan, disp, cancel>>
socketVars == <<visitor, public, server, data, local, backend>>
copyVars == <<copies, writing>>
vars == <<serverVars, cli, link, socketVars, copyVars, activeSessions>>

Init ==
  /\ pub = [p \in Publics |-> "new"]
  /\ result = [p \in Publics |-> "idle"]
  /\ waiting = {}
  /\ chan = [p \in Publics |-> "empty"]
  /\ disp = [p \in Publics |-> "none"]
  /\ cancel = [p \in Publics |-> "none"]
  /\ cli = [p \in Publics |-> "none"]
  /\ link = "up"
  /\ visitor = [p \in Publics |-> "none"]
  /\ public = [p \in Publics |-> "none"]
  /\ server = [p \in Publics |-> "none"]
  /\ data = [p \in Publics |-> "none"]
  /\ local = [p \in Publics |-> "none"]
  /\ backend = [p \in Publics |-> "none"]
  /\ copies = {} /\ writing = {}
  /\ activeSessions = 0

At(f, p, v) == f' = [f EXCEPT ![p] = v]

-----------------------------------------------------------------------------
(* The server: handlePublicConnection                                      *)

AcceptPublic(p) ==
  /\ pub[p] = "new"
  /\ At(pub, p, "register") /\ At(visitor, p, "open") /\ At(public, p, "open")
  /\ UNCHANGED <<result, waiting, chan, disp, cancel, cli, link, server, data,
                 local, backend, copyVars, activeSessions>>

\* proxyID is drawn and the waiter entered into proxyWaiting.
RegisterWaiter(p) ==
  /\ pub[p] = "register"
  /\ waiting' = waiting \cup {p}
  /\ At(pub, p, "send") /\ At(result, p, "waiting")
  /\ UNCHANGED <<chan, disp, cancel, cli, link, socketVars, copyVars, activeSessions>>

\* No random bytes for the ID.
NoProxyID(p) ==
  /\ pub[p] = "register"
  /\ At(pub, p, "closing")
  /\ UNCHANGED <<result, waiting, chan, disp, cancel, cli, link, socketVars,
                 copyVars, activeSessions>>

\* A write to a lost control connection may still succeed.
SendProxy(p) ==
  /\ pub[p] = "send"
  /\ At(pub, p, "wait") /\ At(cli, p, "asked")
  /\ UNCHANGED <<result, waiting, chan, disp, cancel, link, socketVars, copyVars,
                 activeSessions>>

SendProxyFails(p) ==
  /\ pub[p] = "send" /\ link = "lost"
  /\ At(pub, p, "cleanup") /\ At(result, p, "gaveUp")
  /\ UNCHANGED <<waiting, chan, disp, cancel, cli, link, socketVars, copyVars,
                 activeSessions>>

\* The data connection is received: handleProxyStream starts to copy.
GetConn(p) ==
  /\ pub[p] = "wait" /\ chan[p] = "conn"
  /\ At(chan, p, "empty") /\ At(pub, p, "stream") /\ At(result, p, "answer")
  /\ copies' = copies \cup {<<"toPublic", p>>, <<"toClient", p>>}
  /\ UNCHANGED <<waiting, disp, cancel, cli, link, socketVars, writing,
                 activeSessions>>

\* Mutant: the nil of a cancellation is taken for a connection.
GetRefusalAsConn(p) ==
  /\ pub[p] = "wait" /\ chan[p] = "refused"
  /\ At(chan, p, "empty") /\ At(pub, p, "cleanup") /\ At(result, p, "answer")
  /\ UNCHANGED <<waiting, disp, cancel, cli, link, socketVars, copyVars,
                 activeSessions>>

GetRefusal(p) ==
  /\ pub[p] = "wait" /\ chan[p] = "refused"
  /\ At(chan, p, "empty") /\ At(pub, p, "cleanup") /\ At(result, p, "refusal")
  /\ UNCHANGED <<waiting, disp, cancel, cli, link, socketVars, copyVars,
                 activeSessions>>

\* Ten seconds have passed.  A select may take the timer although the channel is
\* ready, too.
WaitTimeout(p) ==
  /\ pub[p] = "wait"
  /\ At(pub, p, "cleanup") /\ At(result, p, "gaveUp")
  /\ UNCHANGED <<waiting, chan, disp, cancel, cli, link, socketVars, copyVars,
                 activeSessions>>

StreamEnds(p) ==
  /\ pub[p] = "stream"
  /\ copies \cap {<<"toPublic", p>>, <<"toClient", p>>} = {}
  /\ At(pub, p, "cleanup")
  /\ UNCHANGED <<result, waiting, chan, disp, cancel, cli, link, socketVars,
                 copyVars, activeSessions>>

\* The deferred functions run in reverse order: first the waiter is removed.
Cleanup(p) ==
  /\ pub[p] = "cleanup"
  /\ waiting' = waiting \ {p}
  /\ At(pub, p, "closing")
  /\ UNCHANGED <<result, chan, disp, cancel, cli, link, socketVars, copyVars,
                 activeSessions>>

ClosePublic(p) ==
  /\ pub[p] = "closing"
  /\ At(public, p, "closed") /\ At(pub, p, "done")
  /\ UNCHANGED <<result, waiting, chan, disp, cancel, cli, link, visitor, server,
                 data, local, backend, copyVars, activeSessions>>

-----------------------------------------------------------------------------
(* The server: dispatchProxyConnection and cancelProxyConnection           *)

TakeWaiter(p) == waiting' = waiting \ {p}

\* Mutant: a data connection nobody waits for is not closed.
DispatchTakeLeaks(p) ==
  /\ disp[p] = "take"
  /\ TakeWaiter(p)
  /\ At(disp, p, IF p \in waiting THEN "send" ELSE "done")
  /\ UNCHANGED <<pub, result, chan, cancel, cli, link, socketVars, copyVars,
                 activeSessions>>

DispatchTake(p) ==
  /\ disp[p] = "take"
  /\ TakeWaiter(p)
  /\ IF p \in waiting
       THEN At(disp, p, "send") /\ UNCHANGED server
       ELSE At(disp, p, "done") /\ At(server, p, "closed")
  /\ UNCHANGED <<pub, result, chan, cancel, cli, link, visitor, public, data,
                 local, backend, copyVars, activeSessions>>

\* The client answers an ID once, so the channel has room whenever a connection is
\* dispatched: the branch that waits ten seconds for room is dead.  The receiver
\* may have left by then.
DispatchSend(p) ==
  /\ disp[p] = "send" /\ chan[p] = "empty"
  /\ At(chan, p, "conn") /\ At(disp, p, "done")
  /\ UNCHANGED <<pub, result, waiting, cancel, cli, link, socketVars, copyVars,
                 activeSessions>>

\* The first message on a data connection cannot be read.
DataHandshakeFails(p) ==
  /\ server[p] = "open" /\ disp[p] = "none" /\ data[p] = "closed"
  /\ At(server, p, "closed")
  /\ UNCHANGED <<serverVars, cli, link, visitor, public, data, local, backend,
                 copyVars, activeSessions>>

\* "proxy_error" is read from the control connection.
CancelTake(p) ==
  /\ cancel[p] = "sent" /\ link = "up"
  /\ TakeWaiter(p)
  /\ At(cancel, p, IF p \in waiting THEN "send" ELSE "done")
  /\ UNCHANGED <<pub, result, chan, disp, cli, link, socketVars, copyVars,
                 activeSessions>>

CancelSend(p) ==
  /\ cancel[p] = "send"
  /\ At(cancel, p, "done")
  /\ IF chan[p] = "empty" THEN At(chan, p, "refused") ELSE UNCHANGED chan
  /\ UNCHANGED <<pub, result, waiting, disp, cli, link, socketVars, copyVars,
                 activeSessions>>

-----------------------------------------------------------------------------
(* The client: handleProxy                                                 *)

ReceiveProxy(p) ==
  /\ cli[p] = "asked" /\ link = "up"
  /\ At(cli, p, "dialLocal")
  /\ UNCHANGED <<serverVars, link, socketVars, copyVars, activeSessions>>

\* The error is reported, if there is still a control connection.
reportProxyError(p) ==
  IF link = "up" THEN At(cancel, p, "sent") ELSE UNCHANGED cancel

DialLocal(p) ==
  /\ cli[p] = "dialLocal"
  /\ At(cli, p, "dialServer") /\ At(local, p, "open") /\ At(backend, p, "open")
  /\ activeSessions' = activeSessions + 1
  /\ UNCHANGED <<serverVars, link, visitor, public, server, data, copyVars>>

DialLocalFails(p) ==
  /\ cli[p] = "dialLocal"
  /\ At(cli, p, "end")
  /\ reportProxyError(p)
  /\ UNCHANGED <<pub, result, waiting, chan, disp, link, socketVars, copyVars,
                 activeSessions>>

DialServer(p) ==
  /\ cli[p] = "dialServer"
  /\ At(cli, p, "hello") /\ At(server, p, "open") /\ At(data, p, "open")
  /\ UNCHANGED <<serverVars, link, visitor, public, local, backend, copyVars,
                 activeSessions>>

\* The server is unreachable, or at its connection limit and closes at once.
DialServerFails(p) ==
  /\ cli[p] = "dialServer"
  /\ At(cli, p, "end") /\ At(local, p, "closed")
  /\ reportProxyError(p)
  /\ UNCHANGED <<pub, result, waiting, chan, disp, link, visitor, public, server,
                 data, backend, copyVars, activeSessions>>

\* The "proxy" message arrives and the client starts to copy.
Hello(p) ==
  /\ cli[p] = "hello"
  /\ At(cli, p, "copy") /\ At(disp, p, "take")
  /\ copies' = copies \cup {<<"toServer", p>>, <<"toLocal", p>>}
  /\ UNCHANGED <<pub, result, waiting, chan, cancel, link, socketVars, writing,
                 activeSessions>>

HelloFails(p) ==
  /\ cli[p] = "hello"
  /\ At(cli, p, "end") /\ At(local, p, "closed") /\ At(data, p, "closed")
  /\ UNCHANGED <<serverVars, link, visitor, public, server, backend, copyVars,
                 activeSessions>>

-----------------------------------------------------------------------------
(* Copying: proxyCopy on the server, proxyCopyCount on the client          *)

ServerCopies == {"toPublic", "toClient"}
ClientCopies == {"toServer", "toLocal"}

\* A read fails when either end of the connection is closed.
ReadFails(k, p) ==
  "closed" \in CASE k = "toPublic" -> {server[p], data[p]}
                 [] k = "toClient" -> {public[p], visitor[p]}
                 [] k = "toServer" -> {local[p], backend[p]}
                 [] k = "toLocal"  -> {data[p], server[p]}

\* The destination of one direction is the source of the other.
WriteFails(k, p) ==
  ReadFails(CASE k = "toPublic" -> "toClient" [] k = "toClient" -> "toPublic"
              [] k = "toServer" -> "toLocal"  [] k = "toLocal"  -> "toServer", p)

\* Mutant: only the source is closed when a copy on the server ends.
CloseServerSideHalf(k, p) ==
  IF k = "toPublic" THEN At(server, p, "closed") /\ UNCHANGED public
                    ELSE At(public, p, "closed") /\ UNCHANGED server

CloseServerSide(k, p) == At(public, p, "closed") /\ At(server, p, "closed")

ActiveAfter(k) == IF k = "toServer" THEN activeSessions - 1 ELSE activeSessions

\* src.Read returns bytes.
ReadData(k, p) ==
  /\ <<k, p>> \in copies \ writing /\ ~ReadFails(k, p)
  /\ writing' = writing \cup {<<k, p>>}
  /\ UNCHANGED <<serverVars, cli, link, socketVars, copies, activeSessions>>

\* dst.Write returns: whoever reads the other end has made room.  There is no
\* deadline, so it may never return while that connection is open.
WriteDone(k, p) ==
  /\ <<k, p>> \in writing
  /\ writing' = writing \ {<<k, p>>}
  /\ UNCHANGED <<serverVars, cli, link, socketVars, copies, activeSessions>>

CopyEnds(k, p) ==
  /\ copies' = copies \ {<<k, p>>} /\ writing' = writing \ {<<k, p>>}
  /\ IF k \in ServerCopies
       THEN CloseServerSide(k, p) /\ UNCHANGED <<data, local>>
       ELSE /\ At(data, p, "closed") /\ At(local, p, "closed")
            /\ UNCHANGED <<public, server>>
  /\ activeSessions' = ActiveAfter(k)
  /\ UNCHANGED <<serverVars, cli, link, visitor, backend>>

ReadError(k, p)  == <<k, p>> \in copies \ writing /\ ReadFails(k, p) /\ CopyEnds(k, p)
WriteError(k, p) == <<k, p>> \in writing /\ WriteFails(k, p) /\ CopyEnds(k, p)

proxyCopy(k, p) ==
  ReadData(k, p) \/ WriteDone(k, p) \/ ReadError(k, p) \/ WriteError(k, p)

-----------------------------------------------------------------------------
(* The world around the tunnel                                             *)

VisitorLeaves(p) ==
  /\ visitor[p] = "open"
  /\ At(visitor, p, "closed")
  /\ UNCHANGED <<serverVars, cli, link, public, server, data, local, backend,
                 copyVars, activeSessions>>

BackendLeaves(p) ==
  /\ backend[p] = "open"
  /\ At(backend, p, "closed")
  /\ UNCHANGED <<serverVars, cli, link, visitor, public, server, data, local,
                 copyVars, activeSessions>>

LoseControl ==
  /\ link = "up"
  /\ link' = "lost"
  /\ UNCHANGED <<serverVars, cli, socketVars, copyVars, activeSessions>>

PublicHandler(p) ==
  \/ RegisterWaiter(p) \/ NoProxyID(p) \/ SendProxy(p) \/ SendProxyFails(p)
  \/ GetConn(p) \/ GetRefusal(p) \/ WaitTimeout(p) \/ StreamEnds(p)
  \/ Cleanup(p) \/ ClosePublic(p)

ServerSide(p) ==
  \/ DispatchTake(p) \/ DispatchSend(p) \/ DataHandshakeFails(p)
  \/ CancelTake(p) \/ CancelSend(p)

handleProxy(p) ==
  \/ ReceiveProxy(p) \/ DialLocal(p) \/ DialLocalFails(p)
  \/ DialServer(p) \/ DialServerFails(p) \/ Hello(p) \/ HelloFails(p)

Next ==
  \/ LoseControl
  \/ \E p \in Publics :
       \/ AcceptPublic(p) \/ PublicHandler(p) \/ ServerSide(p) \/ handleProxy(p)
       \/ VisitorLeaves(p) \/ BackendLeaves(p)
       \/ \E k \in ServerCopies \cup ClientCopies : proxyCopy(k, p)

Spec == Init /\ [][Next]_vars

\* On the data connection the reader is the other process's copier: while it keeps
\* coming back to its Read, a Write into that connection returns.
Drained(k, p) ==
  \/ k = "toClient" /\ <<"toLocal", p>> \in copies \ writing
  \/ k = "toServer" /\ <<"toPublic", p>> \in copies \ writing

\* The goroutines of the server and of the client run, a blocked Read or Write fails
\* when the connection is closed, and the ten-second timer fires.  Nothing is assumed
\* of visitors, backends or the control connection: they may stop reading for good,
\* and then a Write to them does not return.
FairSpec ==
  /\ Spec
  /\ \A p \in Publics :
       /\ WF_vars(PublicHandler(p))
       /\ WF_vars(ServerSide(p))
       /\ WF_vars(handleProxy(p))
       /\ \A k \in ServerCopies \cup ClientCopies :
            WF_vars(ReadError(k, p)) /\ WF_vars(WriteError(k, p))
       /\ \A k \in {"toClient", "toServer"} : SF_vars(Drained(k, p) /\ WriteDone(k, p))

-----------------------------------------------------------------------------
Sockets == [Publics -> {"none", "open", "closed"}]

HandlerType ==
  /\ pub \in [Publics -> {"new", "register", "send", "wait", "stream", "cleanup",
                          "closing", "done"}]
  /\ result \in [Publics -> {"idle", "waiting", "answer", "refusal", "gaveUp"}]
  /\ waiting \subseteq Publics
  /\ chan \in [Publics -> {"empty", "conn", "refused"}]
  /\ disp \in [Publics -> {"none", "take", "send", "done"}]
  /\ cancel \in [Publics -> {"none", "sent", "send", "done"}]
  /\ cli \in [Publics -> {"none", "asked", "dialLocal", "dialServer", "hello",
                          "copy", "end"}]
  /\ link \in {"up", "lost"}

SocketType ==
  /\ visitor \in Sockets /\ public \in Sockets /\ server \in Sockets
  /\ data \in Sockets /\ local \in Sockets /\ backend \in Sockets
  /\ copies \subseteq (ServerCopies \cup ClientCopies) \X Publics
  /\ writing \subseteq copies

\* The type invariant; the client's count of sessions never becomes negative.
TypeOK == HandlerType /\ SocketType /\ activeSessions \in Nat

\* proxyWaiting holds nobody whose handler is past its clean-up: entries do not pile
\* up however dispatch, cancellation, time-out and a failed send interleave.
NoStaleWaiter ==
  \A p \in waiting : pub[p] \in {"send", "wait", "stream", "cleanup"}

\* The comment of handleConnection passes the responsibility for a data connection
\* on to the handlers.  An open one on the server is read for its first message,
\* dispatched, in the channel of a handler that still waits for it, or being copied;
\* the one exception, which the code has, is the connection that is put into the
\* channel of a handler whose ten seconds have just passed.
OnlyLateConnectionLeaks ==
  \A p \in Publics :
    server[p] = "open" =>
      \/ disp[p] \in {"none", "take", "send"}
      \/ chan[p] = "conn" /\ (pub[p] = "wait" \/ result[p] = "gaveUp")
      \/ /\ pub[p] = "stream"
         /\ copies \cap {<<"toPublic", p>>, <<"toClient", p>>} # {}

\* What the client has said to a request: a data connection or an error report.
replyBar == [p \in Publics |-> IF disp[p] # "none" THEN "answer"
                               ELSE IF cancel[p] # "none" THEN "refusal"
                               ELSE "none"]

R == INSTANCE Rendezvous WITH Requests <- Publics, outcome <- result, reply <- replyBar

\* The proxy handshake implements the rendezvous: each visitor's request is settled
\* once, with the client's own answer or refusal to it or by giving up.
RefinesRendezvous == R!Spec

\* A copier waits for a visitor or a backend that takes no more bytes.
Stuck(p) ==
  \/ <<"toLocal", p>> \in writing /\ backend[p] = "open"
  \/ <<"toPublic", p>> \in writing /\ visitor[p] = "open"

\* When the visitor or the backend closes its connection in mid-stream, all four
\* sockets are closed and all four copying goroutines end, unless the side that is
\* still there has stopped reading for good: nothing in proxyCopy ends that Write.
HangUpPropagates ==
  \A p \in Publics :
    (pub[p] = "stream" /\ "closed" \in {visitor[p], backend[p]}) ~>
      \/ /\ {public[p], server[p], data[p], local[p]} = {"closed"}
         /\ \A k \in ServerCopies \cup ClientCopies : <<k, p>> \notin copies
      \/ []Stuck(p)
=============================================================================
