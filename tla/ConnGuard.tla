----------------------------- MODULE ConnGuard -----------------------------
(***************************************************************************)
(* The WAF's front door, as the connections of one address meet it: the    *)
(* sniffing listener that looks at the ClientHello before TLS does, the    *)
(* ConnState hook that counts and limits connections, and the store that   *)
(* keeps a TLS fingerprint under the remote address (host and port) of its *)
(* connection.  net/http runs the hook for a new connection in the accept  *)
(* loop and the hook for a closed one in the connection's own goroutine,   *)
(* so one opening and any number of closings overlap.                      *)
(***************************************************************************)
EXTENDS Integers, FiniteSets

CONSTANTS
  Conns,         \* connections, each used once
  Ports,         \* remote ports of the address
  PortOf,        \* the port each connection comes from
  MaxPerIP,      \* ConnectionLimit.MaxPerIP
  MaxCPS,        \* connections per second (20)
  JA3Enabled,    \* Fingerprint.JA3.Enabled
  NoConn

ASSUME GuardAssumption ==
  /\ PortOf \in [Conns -> Ports]
  /\ MaxPerIP \in Nat /\ MaxCPS \in Nat /\ JA3Enabled \in BOOLEAN
  /\ NoConn \notin Conns

VARIABLES
  listening,     \* Serve is still in its accept loop
  alarm,         \* stats.IsUnderAttack, as the listener reads it
  conn,          \* where each connection is
  serve,         \* the connection the accept loop is running the hook for
  loaded,        \* what a hook has read of connCount and not yet written back
  connCount,     \* connCount[ip]; an absent entry and 0 behave alike
  ActiveConns,
  cps, newSecond,   \* CPS and whether ConnLastReset is a second ago
  banned,        \* banIP has been called
  fpStore,       \* per port: whose hello is stored
  used           \* per connection: whose fingerprint its last request got

guardVars == <<listening, alarm, conn, serve, loaded, connCount, ActiveConns,
               cps, newSecond, banned, fpStore, used>>

States == {"none", "sniffing", "peeking", "accepted", "counting", "open", "serving", "closing", "storing", "closed"}
Alive(c) == conn[c] \notin {"none", "closing", "storing", "closed"}

GuardInit ==
  /\ listening = TRUE /\ alarm = FALSE
  /\ conn = [c \in Conns |-> "none"]
  /\ serve = NoConn
  /\ loaded = [c \in Conns |-> 0]
  /\ connCount = 0 /\ ActiveConns = 0
  /\ cps = 0 /\ newSecond = TRUE
  /\ banned = FALSE
  /\ fpStore = [p \in Ports |-> NoConn]
  /\ used = [c \in Conns |-> NoConn]

\* FingerprintStore: entries are kept under host and port; nothing removes one.
StoreFor(c) == [fpStore EXCEPT ![PortOf[c]] = c]
LookupFor(c) == fpStore[PortOf[c]]

\* SniffingListener.Accept: the accept loop now waits for five bytes.
Accept(c) ==
  /\ listening /\ serve = NoConn /\ conn[c] = "none"
  /\ \A d \in Conns : PortOf[d] = PortOf[c] => ~Alive(d)
  /\ serve' = c
  /\ conn' = [conn EXCEPT ![c] = "sniffing"]
  /\ UNCHANGED <<listening, alarm, loaded, connCount, ActiveConns, cps, newSecond, banned,
                 fpStore, used>>

\* sniff: nothing within 500 ms, no TLS record, or a record beyond the buffer.
SniffPasses ==
  /\ serve # NoConn /\ conn[serve] = "sniffing"
  /\ conn' = [conn EXCEPT ![serve] = "accepted"]
  /\ UNCHANGED <<listening, alarm, serve, loaded, connCount, ActiveConns, cps, newSecond,
                 banned, fpStore, used>>

\* sniff: a TLS record has begun; the deadline is lifted for the second Peek.
SniffHeader ==
  /\ serve # NoConn /\ conn[serve] = "sniffing"
  /\ conn' = [conn EXCEPT ![serve] = "peeking"]
  /\ UNCHANGED <<listening, alarm, serve, loaded, connCount, ActiveConns, cps, newSecond,
                 banned, fpStore, used>>

(* sniff: the peer has sent the rest, or has hung up.  The hello is one of *)
(* a browser, of a known tool, or cannot be parsed.  A known tool under    *)
(* attack is closed and Accept returns an error, which ends Serve.         *)
SniffHello(hello) ==
  /\ serve # NoConn /\ conn[serve] = "peeking"
  /\ fpStore' = IF hello = "unparsed" THEN fpStore ELSE StoreFor(serve)
  /\ IF alarm /\ hello = "tool"
     THEN conn' = [conn EXCEPT ![serve] = "closed"] /\ listening' = FALSE /\ serve' = NoConn
     ELSE conn' = [conn EXCEPT ![serve] = "accepted"] /\ UNCHANGED <<listening, serve>>
  /\ UNCHANGED <<alarm, loaded, connCount, ActiveConns, cps, newSecond, banned, used>>

\* StateNew, CheckConnRate: a connection too many is closed and not counted.
StateNewRate ==
  /\ serve # NoConn /\ conn[serve] = "accepted"
  /\ ActiveConns' = ActiveConns + 1
  /\ cps' = IF newSecond THEN 1 ELSE cps + 1
  /\ newSecond' = FALSE
  /\ IF cps' > MaxCPS
     THEN banned' = TRUE /\ conn' = [conn EXCEPT ![serve] = "closing"] /\ serve' = NoConn
     ELSE conn' = [conn EXCEPT ![serve] = "counting"] /\ UNCHANGED <<banned, serve>>
  /\ loaded' = [loaded EXCEPT ![serve] = connCount]
  /\ UNCHANGED <<listening, alarm, connCount, fpStore, used>>

\* StateNew, the second half of IncrementConnCount, and the limit.
StateNewCount ==
  /\ serve # NoConn /\ conn[serve] = "counting"
  /\ connCount' = loaded[serve] + 1
  /\ IF connCount' > MaxPerIP
     THEN banned' = TRUE /\ conn' = [conn EXCEPT ![serve] = "closing"]
     ELSE conn' = [conn EXCEPT ![serve] = "open"] /\ UNCHANGED banned
  /\ serve' = NoConn
  /\ UNCHANGED <<listening, alarm, loaded, ActiveConns, cps, newSecond, fpStore, used>>

\* Mutant: the handshake's hello is no longer stored.
HandshakeUnrecorded(c) ==
  /\ conn[c] = "open"
  /\ conn' = [conn EXCEPT ![c] = "serving"]
  /\ UNCHANGED <<listening, alarm, serve, loaded, connCount, ActiveConns, cps, newSecond,
                 banned, fpStore, used>>

\* The TLS handshake; GetConfigForClient replaces what the sniffer stored.
Handshake(c) ==
  /\ conn[c] = "open"
  /\ conn' = [conn EXCEPT ![c] = "serving"]
  /\ fpStore' = IF JA3Enabled THEN StoreFor(c) ELSE fpStore
  /\ UNCHANGED <<listening, alarm, serve, loaded, connCount, ActiveConns, cps, newSecond,
                 banned, used>>

\* handleRequest: GetCompositeForRequest looks up the connection's address.
GetCompositeForRequest(c) ==
  /\ conn[c] = "serving"
  /\ used' = [used EXCEPT ![c] = LookupFor(c)]
  /\ UNCHANGED <<listening, alarm, conn, serve, loaded, connCount, ActiveConns, cps,
                 newSecond, banned, fpStore>>

\* The peer, a timeout, a failed handshake or a hijack ends a connection.
EndConn(c) ==
  /\ conn[c] \in {"open", "serving"}
  /\ conn' = [conn EXCEPT ![c] = "closing"]
  /\ UNCHANGED <<listening, alarm, serve, loaded, connCount, ActiveConns, cps, newSecond,
                 banned, fpStore, used>>

\* StateClosed or StateHijacked, up to what DecrementConnCount loads.
StateClosedLoad(c) ==
  /\ conn[c] = "closing"
  /\ ActiveConns' = ActiveConns - 1
  /\ loaded' = [loaded EXCEPT ![c] = connCount]
  /\ conn' = [conn EXCEPT ![c] = "storing"]
  /\ UNCHANGED <<listening, alarm, serve, connCount, cps, newSecond, banned, fpStore, used>>

\* The second half of DecrementConnCount: nothing loaded, nothing stored.
StateClosedStore(c) ==
  /\ conn[c] = "storing"
  /\ connCount' = IF loaded[c] = 0 THEN connCount ELSE loaded[c] - 1
  /\ conn' = [conn EXCEPT ![c] = "closed"]
  /\ UNCHANGED <<listening, alarm, serve, loaded, ActiveConns, cps, newSecond, banned,
                 fpStore, used>>

\* attackDetector's flag, and the second of CheckConnRate.
Alarm ==
  /\ alarm' = ~alarm
  /\ UNCHANGED <<listening, conn, serve, loaded, connCount, ActiveConns, cps, newSecond,
                 banned, fpStore, used>>
SecondPasses ==
  /\ ~newSecond
  /\ newSecond' = TRUE
  /\ UNCHANGED <<listening, alarm, conn, serve, loaded, connCount, ActiveConns, cps, banned,
                 fpStore, used>>

GuardNext ==
  \/ \E c \in Conns :
       \/ Accept(c) \/ Handshake(c) \/ GetCompositeForRequest(c) \/ EndConn(c)
       \/ StateClosedLoad(c) \/ StateClosedStore(c)
  \/ SniffPasses \/ SniffHeader
  \/ \E hello \in {"browser", "tool", "unparsed"} : SniffHello(hello)
  \/ StateNewRate \/ StateNewCount
  \/ Alarm \/ SecondPasses

GuardSpec == GuardInit /\ [][GuardNext]_guardVars

GuardTypeOK ==
  /\ listening \in BOOLEAN /\ alarm \in BOOLEAN /\ banned \in BOOLEAN /\ newSecond \in BOOLEAN
  /\ conn \in [Conns -> States] /\ serve \in Conns \cup {NoConn}
  /\ loaded \in [Conns -> Nat] /\ connCount \in Nat /\ ActiveConns \in Nat /\ cps \in Nat
  /\ fpStore \in [Ports -> Conns \cup {NoConn}] /\ used \in [Conns -> Conns \cup {NoConn}]

(* Entries outlive their connections and are found by host and port.  Even *)
(* so a request is judged by the fingerprint of its own connection, also   *)
(* when the sniffer could not read the hello and an earlier connection of  *)
(* the same port left one behind (early_reject.go sniff, interceptor.go    *)
(* GetConfigForClient, GetCompositeForRequest).                            *)
FingerprintIsOwn == \A c \in Conns : used[c] \in {c, NoConn}
=============================================================================
