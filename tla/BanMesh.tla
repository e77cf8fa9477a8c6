------------------------------ MODULE BanMesh ------------------------------
(***************************************************************************)
(* The ban tables of a cluster of WAF nodes (packages/mango-waf): the      *)
(* `banned` sync.Map of each node (core/pipeline.go), its copy in the XDP  *)
(* map of the network card (core/xdp.go), the BannedIPs statistic and the  *)
(* gossip that spreads bans (cluster/gossip.go).                           *)
(*                                                                         *)
(* Handlers are the goroutines that look up or set a ban: HTTP requests,   *)
(* connection callbacks and gossip deliveries.  The sync.Map makes each    *)
(* Load, Store, LoadOrStore and Delete atomic and nothing more, so a       *)
(* handler's operations are separate steps.                                *)
(*                                                                         *)
(* Time is counted in ticks.  A table entry is the time left to its        *)
(* expiry: 0 once the expiry has passed, Absent when there is no entry.    *)
(***************************************************************************)
EXTENDS Integers

CONSTANTS
  Nodes,         \* WAF nodes of one mesh, named by cfg.Cluster.NodeName
  IPs,           \* client addresses
  XdpNodes,      \* nodes whose XDPManager is Enabled
  Handlers,      \* goroutines that run at once, over all nodes
  MaxDuration,   \* the longest ban, in ticks
  Fresh,         \* the 60 s after which NotifyMsg ignores a ban, in ticks
  MaxDecisions,  \* bound: bans decided on the nodes
  None           \* no operation, no address

ASSUME BanMeshAssumption ==
  /\ XdpNodes \subseteq Nodes
  /\ MaxDuration \in Nat \ {0}
  /\ Fresh \in Nat
  /\ MaxDecisions \in Nat
  /\ None \notin IPs

Absent == -1
Durations == 1 .. MaxDuration

VARIABLES
  banned,     \* Pipeline.banned of each node, per address
  BannedIPs,  \* stats.BannedIPs of each node
  xdp,        \* addresses in the XDP map of each node
  gossip,     \* ban messages that may still arrive
  pc,         \* next step of each handler
  op,         \* the operation a handler is in
  cleanPc,    \* next step of Cleanup on each node
  cleanIp,    \* the address Cleanup is removing
  decided,    \* number of decisions so far
  bound       \* history: how long the decisions so far can keep an address banned

vars == <<banned, BannedIPs, xdp, gossip, pc, op, cleanPc, cleanIp, decided, bound>>
tables == <<banned, BannedIPs, xdp>>
cleanVars == <<cleanPc, cleanIp>>

\* "local": an engine calls BanIPLocal; "conn": a connection limit calls
\* banIP, which tells no other node; "remote": gossip calls BanIPRemote
Ban == [kind: {"local", "conn", "remote"}, node: Nodes, ip: IPs, dur: Durations]

\* isBanned has loaded an expired entry
Lookup == [kind: {"lookup"}, node: Nodes, ip: IPs]

BanMessage == [src: Nodes, ip: IPs, dur: Durations, age: 0 .. Fresh + 1]

Init ==
  /\ banned = [n \in Nodes |-> [i \in IPs |-> Absent]]
  /\ BannedIPs = [n \in Nodes |-> 0]
  /\ xdp = [n \in Nodes |-> {}]
  /\ gossip = {}
  /\ pc = [h \in Handlers |-> "idle"]
  /\ op = [h \in Handlers |-> None]
  /\ cleanPc = [n \in Nodes |-> "range"]
  /\ cleanIp = [n \in Nodes |-> None]
  /\ decided = 0
  /\ bound = [i \in IPs |-> 0]

-----------------------------------------------------------------------------
\* isBanned: an absent or a live entry is only read

\* loads an entry whose expiry has passed
isBanned(h, n, i) ==
  /\ pc[h] = "idle"
  /\ banned[n][i] = 0
  /\ pc' = [pc EXCEPT ![h] = "delete"]
  /\ op' = [op EXCEPT ![h] = [kind |-> "lookup", node |-> n, ip |-> i]]
  /\ UNCHANGED <<tables, gossip, cleanVars, decided, bound>>

\* deletes whatever entry the address has by now; neither BannedIPs nor XDP follow
isBannedDelete(h) ==
  /\ pc[h] = "delete"
  /\ banned' = [banned EXCEPT ![op[h].node][op[h].ip] = Absent]
  /\ pc' = [pc EXCEPT ![h] = "idle"]
  /\ op' = [op EXCEPT ![h] = None]
  /\ UNCHANGED <<BannedIPs, xdp, gossip, cleanVars, decided, bound>>

-----------------------------------------------------------------------------
\* banIP, step by step

\* LoadOrStore: a new entry is stored and counted, an old one is left for now
LoadOrStore(h, b) ==
  /\ op' = [op EXCEPT ![h] = b]
  /\ IF banned[b.node][b.ip] = Absent
     THEN /\ banned' = [banned EXCEPT ![b.node][b.ip] = b.dur]
          /\ BannedIPs' = [BannedIPs EXCEPT ![b.node] = @ + 1]
          /\ pc' = [pc EXCEPT ![h] = "xdp"]
     ELSE /\ pc' = [pc EXCEPT ![h] = "store"]
          /\ UNCHANGED <<banned, BannedIPs>>
  /\ UNCHANGED xdp

\* Store: replaces the entry that LoadOrStore found, or the one there is by now
banIPStore(h) ==
  /\ pc[h] = "store"
  /\ banned' = [banned EXCEPT ![op[h].node][op[h].ip] = op[h].dur]
  /\ pc' = [pc EXCEPT ![h] = "xdp"]
  /\ UNCHANGED <<BannedIPs, xdp, gossip, op, cleanVars, decided, bound>>

\* Mutant: every node passes a ban on
XdpBanIPEchoes(h) ==
  /\ pc[h] = "xdp"
  /\ xdp' = [xdp EXCEPT ![op[h].node] = @ \cup {op[h].ip}]
  /\ pc' = [pc EXCEPT ![h] = "cast"]
  /\ UNCHANGED <<banned, BannedIPs, gossip, op, cleanVars, decided, bound>>

\* bpftool puts the address into the XDP map, or fails with a warning; only
\* BanIPLocal goes on to tell the mesh
XdpBanIP(h) ==
  /\ pc[h] = "xdp"
  /\ \/ op[h].node \in XdpNodes /\ xdp' = [xdp EXCEPT ![op[h].node] = @ \cup {op[h].ip}]
     \/ UNCHANGED xdp
  /\ IF op[h].kind = "local"
     THEN pc' = [pc EXCEPT ![h] = "cast"] /\ UNCHANGED op
     ELSE pc' = [pc EXCEPT ![h] = "idle"] /\ op' = [op EXCEPT ![h] = None]
  /\ UNCHANGED <<banned, BannedIPs, gossip, cleanVars, decided, bound>>

-----------------------------------------------------------------------------
\* Who bans

Later(x, y) == IF x < y THEN y ELSE x

Decide(h, b) ==
  /\ pc[h] = "idle"
  /\ decided < MaxDecisions
  /\ decided' = decided + 1
  /\ bound' = [bound EXCEPT ![b.ip] = Later(@, b.dur)]
  /\ LoadOrStore(h, b)
  /\ UNCHANGED <<gossip, cleanVars>>

\* an engine of the pipeline bans an address and will tell the mesh
BanIPLocal(h, n, i, d) == Decide(h, [kind |-> "local", node |-> n, ip |-> i, dur |-> d])

\* too many connections, or too many in a second: banned on this node only
ConnStateNew(h, n, i, d) == Decide(h, [kind |-> "conn", node |-> n, ip |-> i, dur |-> d])

\* BroadcastBan stamps the message with the time of sending, not of the ban
BroadcastBan(h) ==
  /\ pc[h] = "cast"
  /\ gossip' = gossip \cup
       {[src |-> op[h].node, ip |-> op[h].ip, dur |-> op[h].dur, age |-> 0]}
  /\ bound' = [bound EXCEPT ![op[h].ip] = Later(@, op[h].dur + Fresh)]
  /\ pc' = [pc EXCEPT ![h] = "idle"]
  /\ op' = [op EXCEPT ![h] = None]
  /\ UNCHANGED <<tables, cleanVars, decided>>

\* Mutant: a stale ban is applied too
NotifyMsgStale(h, n, m) ==
  /\ pc[h] = "idle"
  /\ m.src # n
  /\ LoadOrStore(h, [kind |-> "remote", node |-> n, ip |-> m.ip, dur |-> m.dur])
  /\ UNCHANGED <<gossip, cleanVars, decided, bound>>

\* NotifyMsg: a ban of another node that is not stale is applied in full length.
\* memberlist may deliver a message several times, late, or to no one
NotifyMsg(h, n, m) ==
  /\ pc[h] = "idle"
  /\ m.src # n
  /\ m.age <= Fresh
  /\ LoadOrStore(h, [kind |-> "remote", node |-> n, ip |-> m.ip, dur |-> m.dur])
  /\ UNCHANGED <<gossip, cleanVars, decided, bound>>

\* no copy of the message is left in the network
Lose(m) ==
  /\ gossip' = gossip \ {m}
  /\ UNCHANGED <<tables, pc, op, cleanVars, decided, bound>>

-----------------------------------------------------------------------------
\* Cleanup of each node, run by cleanupWorker

\* Range comes to an entry whose expiry has passed
CleanupRange(n, i) ==
  /\ cleanPc[n] = "range"
  /\ banned[n][i] = 0
  /\ cleanPc' = [cleanPc EXCEPT ![n] = "delete"]
  /\ cleanIp' = [cleanIp EXCEPT ![n] = i]
  /\ UNCHANGED <<tables, gossip, pc, op, decided, bound>>

CleanupDelete(n) ==
  /\ cleanPc[n] = "delete"
  /\ banned' = [banned EXCEPT ![n][cleanIp[n]] = Absent]
  /\ BannedIPs' = [BannedIPs EXCEPT ![n] = @ - 1]
  /\ cleanPc' = [cleanPc EXCEPT ![n] = "unban"]
  /\ UNCHANGED <<xdp, gossip, pc, op, cleanIp, decided, bound>>

\* the error of UnbanIP is ignored
XdpUnbanIP(n) ==
  /\ cleanPc[n] = "unban"
  /\ \/ xdp' = [xdp EXCEPT ![n] = @ \ {cleanIp[n]}]
     \/ UNCHANGED xdp
  /\ cleanPc' = [cleanPc EXCEPT ![n] = "range"]
  /\ cleanIp' = [cleanIp EXCEPT ![n] = None]
  /\ UNCHANGED <<banned, BannedIPs, gossip, pc, op, decided, bound>>

-----------------------------------------------------------------------------
\* A tick passes on every node.  A goroutine takes less than a tick from its
\* reading of the clock to its Store
Tick ==
  /\ \A h \in Handlers : pc[h] # "store"
  /\ banned' = [n \in Nodes |-> [i \in IPs |->
       IF banned[n][i] > 0 THEN banned[n][i] - 1 ELSE banned[n][i]]]
  /\ gossip' = {[m EXCEPT !.age = IF @ <= Fresh THEN @ + 1 ELSE @] : m \in gossip}
  /\ bound' = [i \in IPs |-> IF bound[i] > 0 THEN bound[i] - 1 ELSE 0]
  /\ UNCHANGED <<BannedIPs, xdp, pc, op, cleanVars, decided>>

\* what a handler does once it has begun
Proceed(h) == isBannedDelete(h) \/ banIPStore(h) \/ XdpBanIP(h) \/ BroadcastBan(h)

\* what Cleanup of a node does
Cleanup(n) == (\E i \in IPs : CleanupRange(n, i)) \/ CleanupDelete(n) \/ XdpUnbanIP(n)

Next ==
  \/ \E h \in Handlers, n \in Nodes, i \in IPs : isBanned(h, n, i)
  \/ \E h \in Handlers, n \in Nodes, i \in IPs, d \in Durations : BanIPLocal(h, n, i, d)
  \/ \E h \in Handlers, n \in Nodes, i \in IPs, d \in Durations : ConnStateNew(h, n, i, d)
  \/ \E h \in Handlers, n \in Nodes, m \in gossip : NotifyMsg(h, n, m)
  \/ \E m \in gossip : Lose(m)
  \/ \E h \in Handlers : Proceed(h)
  \/ \E n \in Nodes : Cleanup(n)
  \/ Tick

Spec == Init /\ [][Next]_vars

\* Time passes; memberlist retransmits a message a limited number of times; the
\* scheduler runs every goroutine; cleanupWorker ticks forever
FairSpec ==
  /\ Spec
  /\ SF_vars(Tick)
  /\ WF_vars(\E m \in gossip : Lose(m))
  /\ \A h \in Handlers : WF_vars(Proceed(h))
  /\ \A n \in Nodes : WF_vars(Cleanup(n))

-----------------------------------------------------------------------------
TableType ==
  /\ banned \in [Nodes -> [IPs -> Absent .. MaxDuration]]
  /\ BannedIPs \in [Nodes -> Int]
  /\ xdp \in [Nodes -> SUBSET IPs]

HandlerType ==
  /\ pc \in [Handlers -> {"idle", "delete", "store", "xdp", "cast"}]
  /\ op \in [Handlers -> Ban \cup Lookup \cup {None}]
  /\ \A h \in Handlers :
       /\ pc[h] = "delete" => op[h] \in Lookup
       /\ pc[h] \in {"store", "xdp", "cast"} => op[h] \in Ban

CleanType ==
  /\ cleanPc \in [Nodes -> {"range", "delete", "unban"}]
  /\ cleanIp \in [Nodes -> IPs \cup {None}]
  /\ \A n \in Nodes : cleanPc[n] # "range" => cleanIp[n] \in IPs

\* Types, and what the control state says about the operation in progress
TypeOK ==
  /\ TableType
  /\ gossip \subseteq BanMessage
  /\ HandlerType
  /\ CleanType
  /\ decided \in 0 .. MaxDecisions
  /\ bound \in [IPs -> Nat]

\* Late and repeated gossip cannot stretch a ban: on every node an address is
\* free again at most the freshness window of NotifyMsg (60 s) after the ban that
\* was decided and announced last has run out
MeshBanBounded == \A n \in Nodes, i \in IPs : banned[n][i] <= bound[i]

\* What makes MeshBanBounded inductive: a renewal under way and a message that would
\* still be accepted are within the bound too
PendingBounded ==
  /\ \A h \in Handlers : pc[h] = "store" => op[h].dur <= bound[op[h].ip]
  /\ \A m \in gossip : m.age <= Fresh => m.dur + Fresh - m.age <= bound[m.ip]

\* Once no node decides on a new ban, all the tables empty: applying a ban of
\* another node does not announce it again, and Cleanup or isBanned removes what
\* has expired
BansEnd == <>[](\A n \in Nodes, i \in IPs : banned[n][i] = Absent)

=============================================================================
