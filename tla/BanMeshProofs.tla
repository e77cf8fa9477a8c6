--------------------------- MODULE BanMeshProofs ---------------------------
(***************************************************************************)
(* Proofs about BanMesh, for any set of nodes, addresses and handlers and  *)
(* any durations: type correctness, and that gossip cannot keep an address *)
(* banned beyond what was decided and announced.                           *)
(***************************************************************************)
EXTENDS BanMesh, TLAPS

\* The arithmetic facts about the constants that the steps use
LEMMA ConstantFacts ==
  /\ MaxDuration \in Nat /\ Fresh \in Nat /\ MaxDecisions \in Nat
  /\ Absent \in Int /\ Absent < 0
  /\ \A d \in Durations : d \in Nat /\ d > 0 /\ d <= MaxDuration
  BY BanMeshAssumption DEF Absent, Durations

\* A deletion, a new ban and a renewal store an entry that the table may hold
LEMMA EntryType ==
  ASSUME TableType, NEW n \in Nodes, NEW i \in IPs, NEW d \in Durations \cup {Absent},
         banned' = [banned EXCEPT ![n][i] = d]
  PROVE  banned' \in [Nodes -> [IPs -> Absent .. MaxDuration]]
  <1>1. d \in Absent .. MaxDuration
    BY ConstantFacts
  <1> QED
    BY <1>1 DEF TableType

\* banIP's first step keeps the types, whoever calls it
LEMMA LoadOrStoreType ==
  ASSUME TypeOK, NEW h \in Handlers, NEW b \in Ban, LoadOrStore(h, b)
  PROVE  TableType' /\ HandlerType'
  <1>1. b.node \in Nodes /\ b.ip \in IPs /\ b.dur \in Durations
    BY DEF Ban
  <1>2. TableType'
    <2>1. CASE banned[b.node][b.ip] = Absent
      <3>1. banned' \in [Nodes -> [IPs -> Absent .. MaxDuration]]
        BY <1>1, <2>1, EntryType DEF LoadOrStore, TypeOK
      <3> QED
        BY <1>1, <2>1, <3>1 DEF LoadOrStore, TypeOK, TableType
    <2>2. CASE banned[b.node][b.ip] # Absent
      BY <2>2 DEF LoadOrStore, TypeOK, TableType
    <2> QED
      BY <2>1, <2>2
  <1>3. HandlerType'
    BY DEF LoadOrStore, TypeOK, HandlerType
  <1> QED
    BY <1>2, <1>3

\* Init gives well-typed tables, empty gossip and idle handlers
LEMMA InitType == Init => TypeOK
  <1> SUFFICES ASSUME Init PROVE TypeOK
    OBVIOUS
  <1>1. Absent \in Absent .. MaxDuration
    BY ConstantFacts
  <1>2. TableType
    BY <1>1 DEF Init, TableType
  <1>3. HandlerType /\ CleanType
    BY DEF Init, HandlerType, CleanType
  <1>4. decided \in 0 .. MaxDecisions
    BY ConstantFacts DEF Init
  <1> QED
    BY <1>2, <1>3, <1>4 DEF Init, TypeOK

\* Every step of a handler, of Cleanup, of the network and of the clock keeps the types
LEMMA NextType == TypeOK /\ [Next]_vars => TypeOK'
  <1> SUFFICES ASSUME TypeOK, [Next]_vars PROVE TypeOK'
    OBVIOUS
  <1>1. ASSUME NEW h \in Handlers, NEW n \in Nodes, NEW i \in IPs, isBanned(h, n, i)
        PROVE  TypeOK'
    <2>1. [kind |-> "lookup", node |-> n, ip |-> i] \in Lookup
      BY DEF Lookup
    <2>2. HandlerType'
      BY <1>1, <2>1 DEF isBanned, TypeOK, HandlerType
    <2> QED
      BY <1>1, <2>2 DEF isBanned, TypeOK, TableType, CleanType, tables, cleanVars
  <1>2. ASSUME NEW h \in Handlers, NEW b \in Ban, Decide(h, b)
        PROVE  TypeOK'
    <2>1. TableType' /\ HandlerType'
      BY <1>2, LoadOrStoreType DEF Decide
    <2>2. decided' \in 0 .. MaxDecisions
      BY <1>2, ConstantFacts DEF Decide, TypeOK
    <2>3. bound' \in [IPs -> Nat]
      <3>1. b.dur \in Nat /\ b.ip \in IPs
        BY ConstantFacts DEF Ban
      <3>2. Later(bound[b.ip], b.dur) \in Nat
        BY <3>1 DEF Later, TypeOK
      <3> QED
        BY <1>2, <3>2 DEF Decide, TypeOK
    <2> QED
      BY <1>2, <2>1, <2>2, <2>3 DEF Decide, TypeOK, CleanType, cleanVars
  <1>3. ASSUME NEW h \in Handlers, NEW n \in Nodes, NEW m \in gossip, NotifyMsg(h, n, m)
        PROVE  TypeOK'
    <2>1. [kind |-> "remote", node |-> n, ip |-> m.ip, dur |-> m.dur] \in Ban
      BY DEF TypeOK, BanMessage, Ban
    <2>2. TableType' /\ HandlerType'
      BY <1>3, <2>1, LoadOrStoreType DEF NotifyMsg
    <2> QED
      BY <1>3, <2>2 DEF NotifyMsg, TypeOK, CleanType, cleanVars
  <1>4. ASSUME NEW m \in gossip, Lose(m)
        PROVE  TypeOK'
    BY <1>4 DEF Lose, TypeOK, TableType, HandlerType, CleanType, tables, cleanVars
  <1>5. ASSUME NEW h \in Handlers, isBannedDelete(h)
        PROVE  TypeOK'
    <2>1. op[h].node \in Nodes /\ op[h].ip \in IPs
      BY <1>5 DEF isBannedDelete, TypeOK, HandlerType, Lookup
    <2>2. banned' \in [Nodes -> [IPs -> Absent .. MaxDuration]]
      BY <1>5, <2>1, EntryType DEF isBannedDelete, TypeOK
    <2>3. HandlerType'
      BY <1>5 DEF isBannedDelete, TypeOK, HandlerType
    <2> QED
      BY <1>5, <2>2, <2>3 DEF isBannedDelete, TypeOK, TableType, CleanType, cleanVars
  <1>6. ASSUME NEW h \in Handlers, banIPStore(h)
        PROVE  TypeOK'
    <2>1. op[h].node \in Nodes /\ op[h].ip \in IPs /\ op[h].dur \in Durations
      BY <1>6 DEF banIPStore, TypeOK, HandlerType, Ban
    <2>2. banned' \in [Nodes -> [IPs -> Absent .. MaxDuration]]
      BY <1>6, <2>1, EntryType DEF banIPStore, TypeOK
    <2>3. HandlerType'
      BY <1>6 DEF banIPStore, TypeOK, HandlerType
    <2> QED
      BY <1>6, <2>2, <2>3 DEF banIPStore, TypeOK, TableType, CleanType, cleanVars
  <1>7. ASSUME NEW h \in Handlers, XdpBanIP(h)
        PROVE  TypeOK'
    <2>1. op[h].node \in Nodes /\ op[h].ip \in IPs
      BY <1>7 DEF XdpBanIP, TypeOK, HandlerType, Ban
    <2>2. xdp' \in [Nodes -> SUBSET IPs]
      BY <1>7, <2>1 DEF XdpBanIP, TypeOK, TableType
    <2>3. HandlerType'
      BY <1>7 DEF XdpBanIP, TypeOK, HandlerType
    <2> QED
      BY <1>7, <2>2, <2>3 DEF XdpBanIP, TypeOK, TableType, CleanType, cleanVars
  <1>8. ASSUME NEW h \in Handlers, BroadcastBan(h)
        PROVE  TypeOK'
    <2>1. op[h].node \in Nodes /\ op[h].ip \in IPs /\ op[h].dur \in Durations
      BY <1>8 DEF BroadcastBan, TypeOK, HandlerType, Ban
    <2>2. gossip' \subseteq BanMessage
      <3>1. [src |-> op[h].node, ip |-> op[h].ip, dur |-> op[h].dur, age |-> 0] \in BanMessage
        BY <2>1, ConstantFacts DEF BanMessage
      <3> QED
        BY <1>8, <3>1 DEF BroadcastBan, TypeOK
    <2>3. bound' \in [IPs -> Nat]
      <3>1. Later(bound[op[h].ip], op[h].dur + Fresh) \in Nat
        BY <2>1, ConstantFacts DEF Later, TypeOK
      <3> QED
        BY <1>8, <2>1, <3>1 DEF BroadcastBan, TypeOK
    <2>4. HandlerType'
      BY <1>8 DEF BroadcastBan, TypeOK, HandlerType
    <2> QED
      BY <1>8, <2>2, <2>3, <2>4 DEF BroadcastBan, TypeOK, TableType, CleanType, tables, cleanVars
  <1>9. ASSUME NEW n \in Nodes, NEW i \in IPs, CleanupRange(n, i)
        PROVE  TypeOK'
    <2>1. CleanType'
      BY <1>9 DEF CleanupRange, TypeOK, CleanType
    <2> QED
      BY <1>9, <2>1 DEF CleanupRange, TypeOK, TableType, HandlerType, tables
  <1>10. ASSUME NEW n \in Nodes, CleanupDelete(n)
         PROVE  TypeOK'
    <2>1. cleanIp[n] \in IPs
      BY <1>10 DEF CleanupDelete, TypeOK, CleanType
    <2>2. banned' \in [Nodes -> [IPs -> Absent .. MaxDuration]]
      BY <1>10, <2>1, EntryType DEF CleanupDelete, TypeOK
    <2>3. CleanType'
      BY <1>10 DEF CleanupDelete, TypeOK, CleanType
    <2>4. BannedIPs' \in [Nodes -> Int]
      BY <1>10 DEF CleanupDelete, TypeOK, TableType
    <2> QED
      BY <1>10, <2>2, <2>3, <2>4 DEF CleanupDelete, TypeOK, TableType, HandlerType
  <1>11. ASSUME NEW n \in Nodes, XdpUnbanIP(n)
         PROVE  TypeOK'
    <2>1. CleanType' /\ TableType'
      BY <1>11 DEF XdpUnbanIP, TypeOK, CleanType, TableType
    <2> QED
      BY <1>11, <2>1 DEF XdpUnbanIP, TypeOK, HandlerType
  <1>12. ASSUME Tick
         PROVE  TypeOK'
    <2>1. banned' \in [Nodes -> [IPs -> Absent .. MaxDuration]]
      <3>1. \A n \in Nodes, i \in IPs : banned[n][i] \in Absent .. MaxDuration
        BY DEF TypeOK, TableType
      <3>2. \A n \in Nodes, i \in IPs :
              (IF banned[n][i] > 0 THEN banned[n][i] - 1 ELSE banned[n][i])
                \in Absent .. MaxDuration
        BY <3>1, ConstantFacts
      <3> QED
        BY <1>12, <3>2 DEF Tick
    <2>2. gossip' \subseteq BanMessage
      <3>1. ASSUME NEW m \in gossip
            PROVE  [m EXCEPT !.age = IF @ <= Fresh THEN @ + 1 ELSE @] \in BanMessage
        <4>1. m \in BanMessage
          BY DEF TypeOK
        <4>2. (IF m.age <= Fresh THEN m.age + 1 ELSE m.age) \in 0 .. Fresh + 1
          BY <4>1, ConstantFacts DEF BanMessage
        <4> QED
          BY <4>1, <4>2 DEF BanMessage
      <3> QED
        BY <1>12, <3>1 DEF Tick
    <2>3. bound' \in [IPs -> Nat]
      <3>1. \A i \in IPs : (IF bound[i] > 0 THEN bound[i] - 1 ELSE 0) \in Nat
        BY DEF TypeOK
      <3> QED
        BY <1>12, <3>1 DEF Tick
    <2> QED
      BY <1>12, <2>1, <2>2, <2>3 DEF Tick, TypeOK, TableType, HandlerType, CleanType, cleanVars
  <1>13. CASE UNCHANGED vars
    BY <1>13 DEF vars, TypeOK, TableType, HandlerType, CleanType
  <1>14. ASSUME NEW h \in Handlers, NEW n \in Nodes, NEW i \in IPs, NEW d \in Durations,
                BanIPLocal(h, n, i, d) \/ ConnStateNew(h, n, i, d)
         PROVE  TypeOK'
    <2>1. /\ [kind |-> "local", node |-> n, ip |-> i, dur |-> d] \in Ban
          /\ [kind |-> "conn", node |-> n, ip |-> i, dur |-> d] \in Ban
      BY DEF Ban
    <2> QED
      BY <1>2, <1>14, <2>1 DEF BanIPLocal, ConnStateNew
  <1> QED
    BY <1>1, <1>3, <1>4, <1>5, <1>6, <1>7, <1>8, <1>9, <1>10, <1>11, <1>12, <1>13, <1>14
       DEF Next, Proceed, Cleanup

\* The ban tables, the gossip and the handlers stay well typed, for every set of
\* nodes, addresses and handlers
THEOREM TypeCorrect == Spec => []TypeOK
  <1> QED
    BY InitType, NextType, PTL DEF Spec

-----------------------------------------------------------------------------
\* A decision or a broadcast only ever extends the bound
LEMMA LaterFacts ==
  ASSUME NEW x \in Nat, NEW y \in Nat
  PROVE  Later(x, y) \in Nat /\ x <= Later(x, y) /\ y <= Later(x, y)
  BY DEF Later

\* What the types say about messages and operations, in the form the steps use
LEMMA TypeFacts ==
  ASSUME TypeOK
  PROVE  /\ \A i \in IPs : bound[i] \in Nat
         /\ \A n \in Nodes, i \in IPs : banned[n][i] \in Int
         /\ \A m \in gossip : /\ m \in BanMessage
                              /\ m.ip \in IPs /\ m.dur \in Nat /\ m.dur > 0
                              /\ m.age \in Nat
         /\ \A b \in Ban : b.node \in Nodes /\ b.ip \in IPs /\ b.dur \in Nat /\ b.dur > 0
         /\ \A h \in Handlers : pc[h] \in {"store", "xdp", "cast"} => op[h] \in Ban
  <1>1. \A m \in gossip : m \in BanMessage
    BY DEF TypeOK
  <1>2. \A m \in gossip : m.ip \in IPs /\ m.dur \in Durations /\ m.age \in Nat
    BY <1>1, ConstantFacts DEF BanMessage
  <1>3. \A b \in Ban : b.node \in Nodes /\ b.ip \in IPs /\ b.dur \in Durations
    BY DEF Ban
  <1>4. \A n \in Nodes, i \in IPs : banned[n][i] \in Int
    BY ConstantFacts DEF TypeOK, TableType
  <1> QED
    BY <1>1, <1>2, <1>3, <1>4, ConstantFacts DEF TypeOK, HandlerType

\* banIP's first step keeps the bound when the ban itself is within it
LEMMA LoadOrStoreBounded ==
  ASSUME TypeOK, TypeOK', MeshBanBounded, NEW h \in Handlers, NEW b \in Ban,
         LoadOrStore(h, b), pc[h] = "idle", b.dur <= bound'[b.ip],
         \A i \in IPs : bound[i] <= bound'[i],
         \A g \in Handlers : pc[g] = "store" => op[g].dur <= bound[op[g].ip]
  PROVE  /\ MeshBanBounded'
         /\ \A g \in Handlers : pc'[g] = "store" => op'[g].dur <= bound'[op'[g].ip]
  <1>1. /\ \A i \in IPs : bound[i] \in Nat /\ bound'[i] \in Nat
        /\ \A n \in Nodes, i \in IPs : banned[n][i] \in Int
        /\ b.node \in Nodes /\ b.ip \in IPs /\ b.dur \in Nat
    BY TypeFacts DEF TypeOK
  <1>2. MeshBanBounded'
    <2> SUFFICES ASSUME NEW n \in Nodes, NEW i \in IPs PROVE banned'[n][i] <= bound'[i]
      BY DEF MeshBanBounded
    <2>1. banned[n][i] <= bound'[i]
      BY <1>1 DEF MeshBanBounded
    <2>2. banned'[n][i] = banned[n][i] \/ (banned'[n][i] = b.dur /\ i = b.ip)
      BY <1>1 DEF LoadOrStore, TypeOK, TableType
    <2> QED
      BY <2>1, <2>2
  <1>3. ASSUME NEW g \in Handlers, pc'[g] = "store"
        PROVE  op'[g].dur <= bound'[op'[g].ip]
    <2>1. CASE g = h
      BY <2>1 DEF LoadOrStore, TypeOK, HandlerType
    <2>2. CASE g # h
      <3>1. pc[g] = "store" /\ op'[g] = op[g]
        BY <1>3, <2>2 DEF LoadOrStore, TypeOK, HandlerType
      <3>2. op[g] \in Ban
        BY <3>1 DEF TypeOK, HandlerType
      <3>3. op[g].ip \in IPs /\ op[g].dur \in Nat
        BY <3>2, TypeFacts
      <3>4. bound[op[g].ip] <= bound'[op[g].ip] /\ op[g].dur <= bound[op[g].ip]
        BY <3>1, <3>3
      <3> QED
        BY <1>1, <3>1, <3>3, <3>4
    <2> QED
      BY <2>1, <2>2
  <1> QED
    BY <1>2, <1>3

\* A step that only removes entries and messages and moves no handler to a Store keeps
\* the bound
LEMMA RemovalBounded ==
  ASSUME TypeOK, MeshBanBounded, PendingBounded, UNCHANGED bound,
         \A n \in Nodes, i \in IPs : banned'[n][i] = banned[n][i] \/ banned'[n][i] = Absent,
         gossip' \subseteq gossip,
         \A h \in Handlers : pc'[h] = "store" => pc[h] = "store" /\ op'[h] = op[h]
  PROVE  MeshBanBounded' /\ PendingBounded'
  <1>1. MeshBanBounded'
    BY TypeFacts, ConstantFacts DEF MeshBanBounded
  <1>2. PendingBounded'
    BY DEF PendingBounded
  <1> QED
    BY <1>1, <1>2

\* Every step keeps the tables, the renewals under way and the messages that can still
\* be accepted within the bound
LEMMA NextBounded ==
  TypeOK /\ TypeOK' /\ MeshBanBounded /\ PendingBounded /\ [Next]_vars
    => MeshBanBounded' /\ PendingBounded'
  <1> SUFFICES ASSUME TypeOK, TypeOK', MeshBanBounded, PendingBounded, [Next]_vars
               PROVE  MeshBanBounded' /\ PendingBounded'
    OBVIOUS
  <1>1. ASSUME NEW h \in Handlers, NEW n \in Nodes, NEW i \in IPs, isBanned(h, n, i)
        PROVE  MeshBanBounded' /\ PendingBounded'
    BY <1>1, RemovalBounded DEF isBanned, tables, TypeOK, HandlerType
  <1>2. ASSUME NEW h \in Handlers, NEW b \in Ban, Decide(h, b)
        PROVE  MeshBanBounded' /\ PendingBounded'
    <2>1. b.ip \in IPs /\ b.dur \in Nat /\ bound[b.ip] \in Nat
      BY TypeFacts
    <2>2. b.dur <= bound'[b.ip] /\ \A i \in IPs : bound[i] <= bound'[i]
      BY <1>2, <2>1, LaterFacts, TypeFacts DEF Decide, TypeOK
    <2>3. /\ MeshBanBounded'
          /\ \A g \in Handlers : pc'[g] = "store" => op'[g].dur <= bound'[op'[g].ip]
      BY <1>2, <2>2, LoadOrStoreBounded DEF Decide, PendingBounded
    <2>4. ASSUME NEW m \in gossip', m.age <= Fresh
          PROVE  m.dur + Fresh - m.age <= bound'[m.ip]
      <3>1. m \in gossip
        BY <1>2 DEF Decide
      <3>2. m.dur + Fresh - m.age <= bound[m.ip] /\ bound[m.ip] <= bound'[m.ip]
        BY <2>2, <2>4, <3>1, TypeFacts DEF PendingBounded
      <3>3. bound[m.ip] \in Nat /\ bound'[m.ip] \in Nat /\ m.dur \in Nat /\ m.age \in Nat
        BY <3>1, TypeFacts DEF TypeOK
      <3> QED
        BY <3>2, <3>3, ConstantFacts
    <2> QED
      BY <2>3, <2>4 DEF PendingBounded
  <1>3. ASSUME NEW h \in Handlers, NEW n \in Nodes, NEW m \in gossip, NotifyMsg(h, n, m)
        PROVE  MeshBanBounded' /\ PendingBounded'
    <2> DEFINE b == [kind |-> "remote", node |-> n, ip |-> m.ip, dur |-> m.dur]
    <2>1. b \in Ban
      BY DEF TypeOK, BanMessage, Ban
    <2>2. m.dur <= bound[m.ip] /\ \A i \in IPs : bound[i] <= bound[i]
      BY <1>3, TypeFacts, ConstantFacts DEF NotifyMsg, PendingBounded
    <2>3. /\ MeshBanBounded'
          /\ \A g \in Handlers : pc'[g] = "store" => op'[g].dur <= bound'[op'[g].ip]
      BY <1>3, <2>1, <2>2, LoadOrStoreBounded DEF NotifyMsg, PendingBounded
    <2> QED
      BY <1>3, <2>3 DEF NotifyMsg, PendingBounded
  <1>4. ASSUME NEW m \in gossip, Lose(m)
        PROVE  MeshBanBounded' /\ PendingBounded'
    BY <1>4, RemovalBounded DEF Lose, tables
  <1>5. ASSUME NEW h \in Handlers, isBannedDelete(h)
        PROVE  MeshBanBounded' /\ PendingBounded'
    <2>1. op[h].node \in Nodes /\ op[h].ip \in IPs
      BY <1>5 DEF isBannedDelete, TypeOK, HandlerType, Lookup
    <2> QED
      BY <1>5, <2>1, RemovalBounded DEF isBannedDelete, TypeOK, TableType, HandlerType
  <1>6. ASSUME NEW h \in Handlers, banIPStore(h)
        PROVE  MeshBanBounded' /\ PendingBounded'
    <2>1. op[h] \in Ban /\ op[h].dur <= bound[op[h].ip]
      BY <1>6, TypeFacts DEF banIPStore, PendingBounded
    <2>2. MeshBanBounded'
      <3> SUFFICES ASSUME NEW n \in Nodes, NEW i \in IPs PROVE banned'[n][i] <= bound'[i]
        BY DEF MeshBanBounded
      <3>1. op[h].node \in Nodes /\ op[h].ip \in IPs
        BY <2>1, TypeFacts
      <3>2. banned'[n][i] = banned[n][i] \/ (banned'[n][i] = op[h].dur /\ i = op[h].ip)
        BY <1>6, <3>1 DEF banIPStore, TypeOK, TableType
      <3> QED
        BY <1>6, <2>1, <3>2 DEF banIPStore, MeshBanBounded
    <2>3. PendingBounded'
      BY <1>6 DEF banIPStore, PendingBounded, TypeOK, HandlerType
    <2> QED
      BY <2>2, <2>3
  <1>7. ASSUME NEW h \in Handlers, XdpBanIP(h)
        PROVE  MeshBanBounded' /\ PendingBounded'
    BY <1>7, RemovalBounded DEF XdpBanIP, TypeOK, HandlerType
  <1>8. ASSUME NEW h \in Handlers, BroadcastBan(h)
        PROVE  MeshBanBounded' /\ PendingBounded'
    <2>1. op[h].ip \in IPs /\ op[h].dur \in Nat
      BY <1>8, TypeFacts DEF BroadcastBan
    <2>2. op[h].dur + Fresh <= bound'[op[h].ip] /\ \A i \in IPs : bound[i] <= bound'[i]
      <3>1. op[h].dur + Fresh \in Nat /\ bound[op[h].ip] \in Nat
        BY <2>1, TypeFacts, ConstantFacts
      <3>2. \A i \in IPs : bound'[i] = IF i = op[h].ip
                                      THEN Later(bound[op[h].ip], op[h].dur + Fresh)
                                      ELSE bound[i]
        BY <1>8, <2>1 DEF BroadcastBan, TypeOK
      <3>3. /\ op[h].dur + Fresh <= Later(bound[op[h].ip], op[h].dur + Fresh)
            /\ bound[op[h].ip] <= Later(bound[op[h].ip], op[h].dur + Fresh)
        BY <3>1, LaterFacts
      <3> QED
        BY <2>1, <3>2, <3>3, TypeFacts
    <2>3. /\ \A i \in IPs : bound[i] \in Nat /\ bound'[i] \in Nat
          /\ UNCHANGED banned
      BY <1>8 DEF BroadcastBan, tables, TypeOK
    <2>4. MeshBanBounded'
      BY <2>2, <2>3, TypeFacts DEF MeshBanBounded
    <2>5. ASSUME NEW g \in Handlers, pc'[g] = "store"
          PROVE  op'[g].dur <= bound'[op'[g].ip]
      <3>1. pc[g] = "store" /\ op'[g] = op[g]
        BY <1>8, <2>5 DEF BroadcastBan, TypeOK, HandlerType
      <3>2. op[g].ip \in IPs /\ op[g].dur \in Nat /\ op[g].dur <= bound[op[g].ip]
        BY <3>1, TypeFacts DEF PendingBounded
      <3> QED
        BY <2>2, <2>3, <3>1, <3>2
    <2>6. ASSUME NEW m \in gossip', m.age <= Fresh
          PROVE  m.dur + Fresh - m.age <= bound'[m.ip]
      <3>1. CASE m \in gossip
        <4>1. /\ m.ip \in IPs /\ m.dur \in Nat /\ m.age \in Nat
              /\ m.dur + Fresh - m.age <= bound[m.ip]
          BY <2>6, <3>1, TypeFacts DEF PendingBounded
        <4> QED
          BY <2>2, <2>3, <4>1, ConstantFacts
      <3>2. CASE m = [src |-> op[h].node, ip |-> op[h].ip, dur |-> op[h].dur, age |-> 0]
        BY <2>1, <2>2, <2>3, <3>2, ConstantFacts
      <3> QED
        BY <1>8, <3>1, <3>2 DEF BroadcastBan
    <2> QED
      BY <2>4, <2>5, <2>6 DEF PendingBounded
  <1>9. ASSUME NEW n \in Nodes, NEW i \in IPs, CleanupRange(n, i)
        PROVE  MeshBanBounded' /\ PendingBounded'
    BY <1>9, RemovalBounded DEF CleanupRange, tables
  <1>10. ASSUME NEW n \in Nodes, CleanupDelete(n)
         PROVE  MeshBanBounded' /\ PendingBounded'
    <2>1. cleanIp[n] \in IPs
      BY <1>10 DEF CleanupDelete, TypeOK, CleanType
    <2> QED
      BY <1>10, <2>1, RemovalBounded DEF CleanupDelete, TypeOK, TableType
  <1>11. ASSUME NEW n \in Nodes, XdpUnbanIP(n)
         PROVE  MeshBanBounded' /\ PendingBounded'
    BY <1>11, RemovalBounded DEF XdpUnbanIP
  <1>12. ASSUME Tick
         PROVE  MeshBanBounded' /\ PendingBounded'
    <2>1. \A i \in IPs : bound'[i] = IF bound[i] > 0 THEN bound[i] - 1 ELSE 0
      BY <1>12 DEF Tick
    <2>2. MeshBanBounded'
      <3> SUFFICES ASSUME NEW n \in Nodes, NEW i \in IPs PROVE banned'[n][i] <= bound'[i]
        BY DEF MeshBanBounded
      <3>1. banned'[n][i] = IF banned[n][i] > 0 THEN banned[n][i] - 1 ELSE banned[n][i]
        BY <1>12 DEF Tick
      <3>2. banned[n][i] <= bound[i]
        BY DEF MeshBanBounded
      <3> QED
        BY <2>1, <3>1, <3>2, TypeFacts
    <2>3. ASSUME NEW m \in gossip', m.age <= Fresh
          PROVE  m.dur + Fresh - m.age <= bound'[m.ip]
      <3>1. PICK k \in gossip : m = [k EXCEPT !.age = IF @ <= Fresh THEN @ + 1 ELSE @]
        BY <1>12 DEF Tick
      <3>2. k \in BanMessage /\ k.age \in Nat /\ k.dur \in Nat /\ k.dur > 0 /\ k.ip \in IPs
        BY TypeFacts
      <3>3. /\ m.dur = k.dur /\ m.ip = k.ip
            /\ m.age = IF k.age <= Fresh THEN k.age + 1 ELSE k.age
        BY <3>1, <3>2 DEF BanMessage
      <3>4. k.age <= Fresh /\ m.age = k.age + 1
        BY <2>3, <3>2, <3>3, ConstantFacts
      <3>5. k.dur + Fresh - k.age <= bound[k.ip]
        BY <3>4 DEF PendingBounded
      <3>6. bound[k.ip] \in Nat /\ bound'[k.ip] = IF bound[k.ip] > 0 THEN bound[k.ip] - 1 ELSE 0
        BY <2>1, <3>2, TypeFacts
      <3> QED
        BY <2>3, <3>2, <3>3, <3>4, <3>5, <3>6, ConstantFacts
    <2>4. \A h \in Handlers : pc'[h] # "store"
      BY <1>12 DEF Tick
    <2> QED
      BY <2>2, <2>3, <2>4 DEF PendingBounded
  <1>13. CASE UNCHANGED vars
    BY <1>13 DEF vars, MeshBanBounded, PendingBounded
  <1>14. ASSUME NEW h \in Handlers, NEW n \in Nodes, NEW i \in IPs, NEW d \in Durations,
                BanIPLocal(h, n, i, d) \/ ConnStateNew(h, n, i, d)
         PROVE  MeshBanBounded' /\ PendingBounded'
    <2>1. /\ [kind |-> "local", node |-> n, ip |-> i, dur |-> d] \in Ban
          /\ [kind |-> "conn", node |-> n, ip |-> i, dur |-> d] \in Ban
      BY DEF Ban
    <2> QED
      BY <1>2, <1>14, <2>1 DEF BanIPLocal, ConnStateNew
  <1> QED
    BY <1>1, <1>3, <1>4, <1>5, <1>6, <1>7, <1>8, <1>9, <1>10, <1>11, <1>12, <1>13, <1>14
       DEF Next, Proceed, Cleanup

\* On every node of a mesh of any size an address is free again at most the freshness
\* window after the last announced ban has run out, however gossip is delayed or repeated
THEOREM MeshBanBoundedHolds == Spec => []MeshBanBounded
  <1>1. Init => MeshBanBounded /\ PendingBounded
    BY ConstantFacts DEF Init, MeshBanBounded, PendingBounded
  <1> QED
    BY <1>1, NextBounded, TypeCorrect, PTL DEF Spec
=============================================================================
