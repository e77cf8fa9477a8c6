---------------------------- MODULE TunnelClient ----------------------------
(***************************************************************************)
(* The tunnel client's control connection over several sessions: run()     *)
(* connects, receives, tears everything down and connects again, while     *)
(* the loops it started for one session (heartbeat, traffic, display, UDP  *)
(* reader, handshake retry, UDP ping) notice the end each in its own time. *)
(* They all work on the fields of one client struct, most of them without  *)
(* a lock, and look a channel up anew each time round: a slow loop may     *)
(* find a field that is nil, or the one of the next session.               *)
(* A channel is named by its field and the session it was made for.        *)
(***************************************************************************)
EXTENDS Integers

CONSTANTS
  MaxSessions,   \* bound on the connections dialled
  MaxRetries     \* maxRetries of udpHandshakeRetry (20)

ASSUME ClientAssumption == MaxSessions \in Nat /\ MaxRetries \in Nat

VARIABLES
  protocol, uiEnabled,
  followed,      \* the loops a behaviour follows; one affects another only by a panic
  run,           \* where run() is
  session,       \* connections dialled; c.done is the channel of the last one
  enc, statusCh, trafficQuit,   \* sessions of these fields, 0 for nil
  closedChans,
  loops,         \* per loop and session: where it is and the channels it waits on
  udpConn,       \* session of c.udpConn, 0 for nil
  udpSockets,    \* sessions whose UDP socket is open
  udpReady,
  reader,        \* readUDPControl of each session's socket, and the packet it holds
  retry,         \* udpHandshakeRetry of each session
  pinger,        \* c.udpPingTicker, c.udpPingStop: the session whose reader made them, 0 for nil
  pingLoops      \* udpPingLoops that run: the "current" one, "stopped" ones that have not noticed

pingVars == <<pinger, pingLoops>>
configVars == <<protocol, uiEnabled, followed>>
clientVars ==
  <<configVars, run, session, enc, statusCh, trafficQuit, closedChans, loops,
    udpConn, udpSockets, udpReady, reader, retry, pingVars>>
fieldVars == <<session, enc, statusCh, trafficQuit, closedChans>>
udpVars == <<udpConn, udpSockets, udpReady, reader, retry, pingVars>>

ClientSessions == 1 .. MaxSessions
Kinds == {"heartbeat", "traffic", "display"}
CloseSteps == <<"close_done", "stop_ping", "close_udp", "drop_encoder", "close_quit",
                "close_status", "drop_status">>

ClientInit ==
  /\ protocol \in {"tcp", "udp"} /\ uiEnabled \in BOOLEAN /\ followed \in SUBSET Kinds
  /\ run = "connect" /\ session = 0
  /\ enc = 0 /\ statusCh = 0 /\ trafficQuit = 0 /\ closedChans = {}
  /\ loops = [k \in Kinds, s \in ClientSessions |-> [at |-> "none", on |-> {}]]
  /\ udpConn = 0 /\ udpSockets = {} /\ udpReady = FALSE
  /\ reader = [s \in ClientSessions |-> "none"]
  /\ retry = [s \in ClientSessions |-> [at |-> "none", attempts |-> 0, on |-> 0]]
  /\ pinger = 0 /\ pingLoops = {}

\* The loop's channel is closed; the loop itself notices later.
stopUDPPing ==
  /\ pinger' = 0
  /\ pingLoops' = IF "current" \in pingLoops THEN {"stopped"} ELSE pingLoops

\* Mutant: the lines of closeUDPChannel are forgotten.
closeUDPChannelForgotten == UNCHANGED <<udpSockets, udpConn>>

\* The socket is closed and c.udpConn is nil, under udpMu.
closeUDPChannel == udpSockets' = udpSockets \ {udpConn} /\ udpConn' = 0

-----------------------------------------------------------------------------
\* connectControl: dialled; every field is made anew.  A failed dial changes nothing.
Dial ==
  /\ run = "connect" /\ session < MaxSessions
  /\ run' = "register" /\ session' = session + 1
  /\ enc' = session' /\ statusCh' = session' /\ trafficQuit' = session'
  /\ stopUDPPing
  /\ UNCHANGED <<configVars, closedChans, loops, udpConn, udpSockets, udpReady, reader, retry>>

\* connectControl gives up: the deferred clean-up leaves done and statusCh as they are.
RegisterFails ==
  /\ run = "register" /\ run' = "connect"
  /\ enc' = 0
  /\ closedChans' = closedChans \cup {<<"quit", trafficQuit>>} /\ trafficQuit' = 0
  /\ closeUDPChannel /\ stopUDPPing
  /\ UNCHANGED <<configVars, session, statusCh, loops, udpReady, reader, retry>>

\* setupUDPChannel: a socket, its reader, and the first handshakes.
setupUDPChannel ==
  /\ udpSockets' = (udpSockets \ {udpConn}) \cup {session} /\ udpConn' = session
  /\ udpReady' = FALSE /\ stopUDPPing
  /\ reader' = [reader EXCEPT ![session] = "reading"]

\* connectControl: the server has answered.  Without a socket the client goes on all the same.
Registered ==
  /\ run = "register" /\ run' = "start_loops"
  /\ \/ protocol = "udp" /\ setupUDPChannel
     \/ UNCHANGED <<udpConn, udpSockets, udpReady, pingVars, reader>>
  /\ UNCHANGED <<fieldVars, configVars, loops, retry>>

\* What a loop waits on when it goes into its select now.
Waits(k) ==
  {<<"done", session>>} \cup (IF k = "heartbeat" THEN {} ELSE {<<"quit", trafficQuit>>})
    \cup (IF k = "display" THEN {<<"status", statusCh>>} ELSE {})
Park(k, s) == loops' = [loops EXCEPT ![<<k, s>>] = [at |-> "wait", on |-> Waits(k)]]

\* The end of connectControl, and of setupUDPChannel, which starts udpHandshakeRetry.
StartLoops ==
  /\ run = "start_loops" /\ run' = "receive"
  /\ loops' = [k \in Kinds, s \in ClientSessions |->
       IF s # session \/ k \notin followed \/ (k = "display" /\ ~uiEnabled) THEN loops[k, s]
       ELSE [at |-> IF k = "traffic" THEN "first" ELSE "wait", on |-> Waits(k)]]
  /\ retry' = IF reader[session] = "none" THEN retry ELSE [retry EXCEPT ![session].at = "check"]
  /\ UNCHANGED <<fieldVars, configVars, udpConn, udpSockets, udpReady, reader, pingVars>>

\* receiveLoop ends: the server or the network has gone.
ReceiveEnds ==
  /\ run = "receive" /\ run' = CloseSteps[1]
  /\ UNCHANGED <<fieldVars, udpVars, configVars, loops>>

\* closeControl, one assignment or channel at a time.
CloseControl ==
  \E i \in 1 .. 7 :
    /\ run = CloseSteps[i] /\ run' = IF i = 7 THEN "connect" ELSE CloseSteps[i + 1]
    /\ closedChans' = closedChans \cup
         (CASE i = 1 -> {<<"done", session>>} [] i = 5 -> {<<"quit", trafficQuit>>}
            [] i = 6 -> {<<"status", statusCh>>} [] OTHER -> {})
    /\ IF i = 2 THEN stopUDPPing ELSE UNCHANGED pingVars
    /\ IF i = 3 THEN closeUDPChannel /\ udpReady' = FALSE
       ELSE UNCHANGED <<udpSockets, udpConn, udpReady>>
    /\ enc' = IF i = 4 THEN 0 ELSE enc
    /\ trafficQuit' = IF i = 5 THEN 0 ELSE trafficQuit
    /\ statusCh' = IF i = 7 THEN 0 ELSE statusCh
    /\ UNCHANGED <<configVars, session, loops, reader, retry>>

-----------------------------------------------------------------------------
\* A loop's select: its ticker has fired, or a channel it waits on is closed; either may win.
LoopFires(k, s) ==
  /\ loops[k, s].at = "wait" /\ loops' = [loops EXCEPT ![<<k, s>>].at = "fired"]
  /\ UNCHANGED <<fieldVars, udpVars, configVars, run>>
LoopEnds(k, s) ==
  /\ loops[k, s].at = "wait" /\ loops[k, s].on \cap closedChans # {}
  /\ loops' = [loops EXCEPT ![<<k, s>>] = [at |-> "ended", on |-> {}]]
  /\ UNCHANGED <<fieldVars, udpVars, configVars, run>>

\* heartbeatLoop encodes with whatever c.enc is now; a nil encoder is a panic.
heartbeatLoop(s) ==
  /\ loops["heartbeat", s].at = "fired"
  /\ run' = IF enc = 0 THEN "crashed" ELSE run
  /\ \/ Park("heartbeat", s)
     \/ loops' = [loops EXCEPT ![<<"heartbeat", s>>] = [at |-> "ended", on |-> {}]]   \* Encode fails
  /\ UNCHANGED <<fieldVars, udpVars, configVars>>

(* trafficLoop sends to whatever c.statusCh is now: a closed channel is a  *)
(* panic, a nil one blocks for ever, except for the very first send.       *)
trafficLoop(s) ==
  /\ loops["traffic", s].at \in {"first", "fired"}
  /\ run' = IF <<"status", statusCh>> \in closedChans THEN "crashed" ELSE run
  /\ IF statusCh = 0 /\ loops["traffic", s].at = "fired"
     THEN loops' = [loops EXCEPT ![<<"traffic", s>>] = [at |-> "stuck", on |-> {}]]
     ELSE Park("traffic", s)
  /\ UNCHANGED <<fieldVars, udpVars, configVars>>

displayLoop(s) ==
  /\ loops["display", s].at = "fired" /\ Park("display", s)
  /\ UNCHANGED <<fieldVars, udpVars, configVars, run>>

-----------------------------------------------------------------------------
\* readUDPControl: the server's answer to a handshake has come.  A pong only touches what is shown.
ReadPacket(s) ==
  /\ reader[s] = "reading" /\ s \in udpSockets
  /\ reader' = [reader EXCEPT ![s] = "handshake"]
  /\ UNCHANGED <<fieldVars, configVars, run, loops, udpConn, udpSockets, udpReady, retry, pingVars>>

\* readUDPControl: the socket is closed or the read fails; the reader stops the ping and goes.
ReaderEnds(s) ==
  /\ reader[s] = "reading"
  /\ reader' = [reader EXCEPT ![s] = "ended"]
  /\ stopUDPPing
  /\ UNCHANGED <<fieldVars, configVars, run, loops, udpConn, udpSockets, udpReady, retry>>

\* handleUDPControlPacket: a handshake marks the channel ready, then starts the ping.
handleUDPControlPacket(s) ==
  /\ reader[s] = "handshake" /\ udpReady' = TRUE
  /\ reader' = [reader EXCEPT ![s] = "ready"]
  /\ UNCHANGED <<fieldVars, configVars, run, loops, udpConn, udpSockets, retry, pingVars>>

\* startUDPPing, unless there is a ticker already.
startUDPPing(s) ==
  /\ reader[s] = "ready" /\ reader' = [reader EXCEPT ![s] = "reading"]
  /\ IF pinger = 0 THEN pinger' = s /\ pingLoops' = pingLoops \cup {"current"}
     ELSE UNCHANGED pingVars
  /\ UNCHANGED <<fieldVars, configVars, run, loops, udpConn, udpSockets, udpReady, retry>>

\* udpPingLoop ends: its stop channel is closed, or the done channel of the session there is now.
\* Until then it pings, a stopped one perhaps once more, over whichever socket there is.
udpPingLoop ==
  /\ \E l \in pingLoops : /\ l = "stopped" \/ <<"done", session>> \in closedChans
                          /\ pingLoops' = pingLoops \ {l}
  /\ UNCHANGED <<fieldVars, configVars, run, loops, udpConn, udpSockets, udpReady, reader,
                 retry, pinger>>

\* udpHandshakeRetry: is the channel ready, or gone?
RetryChecks(s) ==
  /\ retry[s].at = "check"
  /\ retry' = [retry EXCEPT ![s].at = IF udpReady \/ udpConn = 0 THEN "ended" ELSE "wait",
                            ![s].on = session]
  /\ UNCHANGED <<fieldVars, configVars, run, loops, udpConn, udpSockets, udpReady, reader,
                 pingVars>>

\* Its select: another handshake; or too many of them, or ten seconds, and the channel is closed,
\* ready or not.
RetryTicks(s) ==
  /\ retry[s].at = "wait" /\ retry[s].attempts < MaxRetries
  /\ retry' = [retry EXCEPT ![s].at = "check", ![s].attempts = @ + 1]
  /\ UNCHANGED <<fieldVars, configVars, run, loops, udpConn, udpSockets, udpReady, reader,
                 pingVars>>
RetryGivesUp(s) ==
  /\ retry[s].at = "wait"
  /\ retry' = [retry EXCEPT ![s].at = "ended"]
  /\ closeUDPChannel
  /\ UNCHANGED <<fieldVars, configVars, run, loops, udpReady, reader, pingVars>>
RetryDone(s) ==
  /\ retry[s].at = "wait" /\ <<"done", retry[s].on>> \in closedChans
  /\ retry' = [retry EXCEPT ![s].at = "ended"]
  /\ UNCHANGED <<fieldVars, configVars, run, loops, udpConn, udpSockets, udpReady, reader,
                 pingVars>>

ClientNext ==
  /\ run # "crashed"
  /\ \/ Dial \/ RegisterFails \/ Registered \/ StartLoops \/ ReceiveEnds \/ CloseControl
     \/ \E s \in ClientSessions :
          \/ \E k \in Kinds : LoopFires(k, s) \/ LoopEnds(k, s)
          \/ heartbeatLoop(s) \/ trafficLoop(s) \/ displayLoop(s)
          \/ ReadPacket(s) \/ ReaderEnds(s) \/ handleUDPControlPacket(s)
          \/ startUDPPing(s)
          \/ RetryChecks(s) \/ RetryTicks(s) \/ RetryGivesUp(s) \/ RetryDone(s)
     \/ udpPingLoop

ClientSpec == ClientInit /\ [][ClientNext]_clientVars

-----------------------------------------------------------------------------
(* No reconnect leaves a UDP control socket of an earlier connection open  *)
(* or in use: the one in c.udpConn is the only one open, and belongs to    *)
(* the connection the client is on or making, whether the connection       *)
(* before ended in closeControl, in a failed registration or with the      *)
(* handshake retry of a still earlier one closing the socket first (client *)
(* main.go, connectControl, setupUDPChannel, closeControl,                 *)
(* udpHandshakeRetry).                                                     *)
OneControlSocket == udpSockets = {udpConn} \ {0} /\ udpConn \in {0, session}

(* The client outlives the loss of its connection.  The wiki says of it    *)
(* that it reconnects by itself when the network fails.                    *)
ClientSurvives == run # "crashed"
=============================================================================
