------------------------- MODULE ReverseProxyProofs -------------------------
(***************************************************************************)
(* What the pools, the proxy and the cache of ReverseProxy guarantee for   *)
(* any domains, any number of backends and any number of visitors.         *)
(***************************************************************************)
EXTENDS ReverseProxy, TLAPS

CacheType == cache \in [Hosts -> [left : -1 .. TTL, by : Kinds]]

\* A value that the code wraps around is at most one turn too large.
LEMMA Wrap ==
  \A n \in Nat \ {0}, a \in Nat :
    /\ a < n => a % n = a
    /\ n <= a /\ a < n + n => a % n = a - n
OBVIOUS

\* A backend the round robin looks at is one of the pool.
LEMMA CandidateInPool ==
  ASSUME PoolType, NEW d \in Domains, NEW n \in Backends(d)
  PROVE  Candidate(d, n) \in Backends(d)
<1>1. Size[d] \in Nat \ {0} /\ n \in 0 .. Size[d] - 1
  BY ReverseProxyAssumption DEF Backends
<1>2. Current[d] \in Nat /\ Current[d] < Size[d]
  BY <1>1 DEF PoolType
<1> QED
  BY <1>1, <1>2 DEF Candidate, Backends

\* The initial state is well typed.
LEMMA InitType == Init => TypeOK
BY ReverseProxyAssumption
DEF Init, TypeOK, PoolType, CheckerType, RequestType, PerBackend, Backends,
    MaxFailures, NoRequest, NoPage, Kinds

\* A probe changes one backend of the pool that is locked.
LEMMA ProbeType ==
  ASSUME PoolType, CheckerType, Probe
  PROVE  PoolType'
<1> DEFINE d == checking
           b == next
<1>1. d \in Domains /\ b \in Backends(d)
  BY ReverseProxyAssumption DEF Probe, CheckerType, Backends
<1>2. UNCHANGED <<up, Current, neverDown, skipped>>
  BY DEF Probe, history
<1>3. PICK i \in BOOLEAN, f \in 0 .. MaxFailures :
        /\ IsAlive' = [IsAlive EXCEPT ![d] = [IsAlive[d] EXCEPT ![b] = i]]
        /\ Failures' = [Failures EXCEPT ![d] = [Failures[d] EXCEPT ![b] = f]]
  <2>1. CASE up[d][b]
    <3>1. GoodProbe(d, b)
      BY <2>1 DEF Probe
    <3>2. 0 \in 0 .. MaxFailures
      BY DEF MaxFailures
    <3> USE <3>2
    <3> WITNESS TRUE \in BOOLEAN, 0 \in 0 .. MaxFailures
    <3> QED
      BY <3>1 DEF GoodProbe
  <2>2. CASE ~up[d][b]
    <3>1. FailedProbe(d, b)
      BY <2>2 DEF Probe
    <3>2. IsAlive[d][b] \in BOOLEAN /\ Failures[d][b] \in 0 .. MaxFailures
      BY <1>1 DEF PoolType
    <3> DEFINE i == IsAlive[d][b] /\ Failures[d][b] + 1 < MaxFailures
               f == IF Failures[d][b] < MaxFailures THEN Failures[d][b] + 1
                                                    ELSE Failures[d][b]
    <3>3. i \in BOOLEAN
      OBVIOUS
    <3>4. f \in 0 .. MaxFailures
      BY <3>2 DEF MaxFailures
    <3> HIDE DEF i, f
    <3> USE <3>3, <3>4
    <3> WITNESS i \in BOOLEAN, f \in 0 .. MaxFailures
    <3> QED
      BY <3>1 DEF FailedProbe, i, f
  <2> QED
    BY <2>1, <2>2
<1>4. [IsAlive[d] EXCEPT ![b] = i] \in [Backends(d) -> BOOLEAN]
  BY <1>1 DEF PoolType
<1>5. [Failures[d] EXCEPT ![b] = f] \in [Backends(d) -> 0 .. MaxFailures]
  BY <1>1 DEF PoolType
<1>6. DOMAIN IsAlive' = Domains /\ DOMAIN Failures' = Domains
  BY <1>3 DEF PoolType
<1>7. ASSUME NEW e \in Domains
      PROVE  /\ IsAlive'[e] \in [Backends(e) -> BOOLEAN]
             /\ Failures'[e] \in [Backends(e) -> 0 .. MaxFailures]
  BY <1>1, <1>3, <1>4, <1>5 DEF PoolType
<1> QED
  BY <1>2, <1>6, <1>7 DEF PoolType, Backends

\* A pick moves the pointer inside its pool and counts whom it passed over.
LEMMA PickType ==
  ASSUME PoolType, RequestType, NEW r \in Requests, NEW k \in Kinds, Pick(r, k)
  PROVE  PoolType'
<1> DEFINE d == req[r].pool
<1>1. d \in Domains
  BY DEF Pick, RequestType
<1>2. PICK n \in Backends(d) :
        /\ Advance(d, Candidate(d, n))
        /\ CountSkips(d, Candidate(d, n))
  BY DEF Pick
<1>3. Size[d] \in Nat \ {0} /\ Candidate(d, n) \in 0 .. Size[d] - 1
  BY <1>1, CandidateInPool, ReverseProxyAssumption DEF Backends
<1>4. (Candidate(d, n) + 1) % Size[d] \in 0 .. Size[d] - 1
  BY <1>3
<1>5. /\ DOMAIN Current' = Domains
      /\ \A e \in Domains : Current'[e] \in Nat /\ (Size[e] > 0 => Current'[e] < Size[e])
  <2>1. PICK v : Current' = [Current EXCEPT ![d] = v] /\ v \in 0 .. Size[d] - 1
    BY <1>2, <1>4 DEF Advance
  <2>2. DOMAIN Current' = Domains
    BY <2>1 DEF PoolType
  <2>3. ASSUME NEW e \in Domains
        PROVE  Current'[e] \in Nat /\ (Size[e] > 0 => Current'[e] < Size[e])
    BY <1>1, <1>3, <2>1 DEF PoolType
  <2> QED
    BY <2>2, <2>3
<1>6. [c \in Backends(d) |-> IF c = Candidate(d, n) \/ ~IsAlive[d][c]
                               THEN 0 ELSE skipped[d][c] + 1] \in [Backends(d) -> Nat]
  BY <1>1 DEF PoolType
<1>7. DOMAIN skipped' = Domains /\ \A e \in Domains : skipped'[e] \in [Backends(e) -> Nat]
  BY <1>1, <1>2, <1>6 DEF PoolType, CountSkips
<1>8. UNCHANGED <<up, IsAlive, Failures, neverDown>>
  BY DEF Pick
<1> QED
  BY <1>5, <1>7, <1>8 DEF PoolType, Backends

\* Only probes, picks and the fate of backends touch the pools, and they keep their type.
LEMMA PoolTypeStep == TypeOK /\ [Next]_vars => PoolType'
<1> SUFFICES ASSUME TypeOK, [Next]_vars PROVE PoolType'
  OBVIOUS
<1> DEFINE quiet == UNCHANGED <<up, IsAlive, Failures, Current, neverDown, skipped>>
<1>0. PoolType /\ CheckerType /\ RequestType
  BY DEF TypeOK
<1>1. quiet => PoolType'
  BY <1>0 DEF PoolType, Backends
<1>2. CASE Probe
  BY <1>0, <1>2, ProbeType
<1>3. ASSUME NEW r \in Requests, NEW k \in Kinds, Pick(r, k) PROVE PoolType'
  BY <1>0, <1>3, PickType
<1>4. ASSUME NEW d \in Domains, NEW b \in Backends(d), Fall(d, b) PROVE PoolType'
  <2>1. /\ up' = [up EXCEPT ![d] = [up[d] EXCEPT ![b] = FALSE]]
        /\ neverDown' = [neverDown EXCEPT ![d] = [neverDown[d] EXCEPT ![b] = FALSE]]
        /\ UNCHANGED <<IsAlive, Failures, Current, skipped>>
    BY <1>4 DEF Fall, poolVars
  <2>2. /\ [up[d] EXCEPT ![b] = FALSE] \in [Backends(d) -> BOOLEAN]
        /\ [neverDown[d] EXCEPT ![b] = FALSE] \in [Backends(d) -> BOOLEAN]
    BY <1>0 DEF PoolType
  <2>3. /\ DOMAIN up' = Domains /\ DOMAIN neverDown' = Domains
        /\ \A e \in Domains : /\ up'[e] \in [Backends(e) -> BOOLEAN]
                              /\ neverDown'[e] \in [Backends(e) -> BOOLEAN]
    BY <1>0, <2>1, <2>2 DEF PoolType
  <2> QED
    BY <1>0, <2>1, <2>3 DEF PoolType, Backends
<1>5. ASSUME NEW d \in Domains, NEW b \in Backends(d), Recover(d, b) PROVE PoolType'
  <2>1. /\ up' = [up EXCEPT ![d] = [up[d] EXCEPT ![b] = TRUE]]
        /\ UNCHANGED <<IsAlive, Failures, Current, neverDown, skipped>>
    BY <1>5 DEF Recover, poolVars, history
  <2>2. [up[d] EXCEPT ![b] = TRUE] \in [Backends(d) -> BOOLEAN]
    BY <1>0 DEF PoolType
  <2>3. /\ DOMAIN up' = Domains
        /\ \A e \in Domains : up'[e] \in [Backends(e) -> BOOLEAN]
    BY <1>0, <2>1, <2>2 DEF PoolType
  <2> QED
    BY <1>0, <2>1, <2>3 DEF PoolType, Backends
<1>6. HealthTick \/ (\E d \in Domains : LockPool(d)) \/ UnlockPool => quiet
  BY DEF HealthTick, LockPool, UnlockPool, poolVars, history
<1>7. ASSUME NEW r \in Requests
      PROVE  proxyRequest(r) => quiet \/ \E k \in Kinds : Pick(r, k)
  BY DEF proxyRequest, ChoosePool, NotConfigured, NoneAlive, CacheHit, CacheMiss,
         CacheDel, ForwardStorable, Forward, Store, proxyWebSocket, poolVars, history
<1>8. (\E r \in Requests, h \in Hosts : Arrive(r, h)) => quiet
  BY DEF Arrive, poolVars, history
<1>9. (\E h \in Hosts : Age(h) \/ Evict(h)) => quiet
  BY DEF Age, Evict, poolVars, history
<1>10. UNCHANGED vars => quiet
  BY DEF vars, poolVars, history
<1> QED
  BY <1>1, <1>2, <1>3, <1>4, <1>5, <1>6, <1>7, <1>8, <1>9, <1>10 DEF Next, runHealthChecks

\* The checker never probes past the end of the pool it has locked.
LEMMA CheckerTypeStep == TypeOK /\ [Next]_vars => CheckerType'
<1> SUFFICES ASSUME TypeOK, [Next]_vars PROVE CheckerType'
  OBVIOUS
<1> DEFINE quiet == UNCHANGED <<checking, next, left>>
<1>0. CheckerType
  BY DEF TypeOK
<1>1. quiet => CheckerType'
  BY <1>0 DEF CheckerType
<1>2. CASE HealthTick
  BY <1>0, <1>2 DEF HealthTick, CheckerType
<1>3. ASSUME NEW d \in Domains, LockPool(d) PROVE CheckerType'
  BY <1>0, <1>3, ReverseProxyAssumption DEF LockPool, CheckerType
<1>4. CASE Probe
  BY <1>0, <1>4, ReverseProxyAssumption DEF Probe, CheckerType
<1>5. CASE UnlockPool
  BY <1>0, <1>5 DEF UnlockPool, CheckerType
<1>6. ASSUME NEW r \in Requests PROVE proxyRequest(r) => quiet
  BY DEF proxyRequest, ChoosePool, NotConfigured, Pick, NoneAlive, CacheHit, CacheMiss,
         CacheDel, ForwardStorable, Forward, Store, proxyWebSocket, checkerVars
<1>7. (\E r \in Requests, h \in Hosts : Arrive(r, h)) => quiet
  BY DEF Arrive, checkerVars
<1>8. (\E d \in Domains : \E b \in Backends(d) : Fall(d, b) \/ Recover(d, b)) => quiet
  BY DEF Fall, Recover, checkerVars
<1>9. (\E h \in Hosts : Age(h) \/ Evict(h)) => quiet
  BY DEF Age, Evict, checkerVars
<1>10. UNCHANGED vars => quiet
  BY DEF vars, checkerVars
<1> QED
  BY <1>1, <1>2, <1>3, <1>4, <1>5, <1>6, <1>7, <1>8, <1>9, <1>10 DEF Next, runHealthChecks

Places == {"idle", "choose", "lock", "get", "delete", "forward", "store", "websocket"}

RequestRecords ==
  [host : Hosts \cup {None}, kind : Kinds, pool : Domains \cup {None}]

\* How a handler that goes to place l with locals q keeps the type of requests.
LEMMA RequestMoves ==
  ASSUME RequestType, NEW r \in Requests, NEW l \in Places, NEW q \in RequestRecords,
         pc' = [pc EXCEPT ![r] = l], req' = [req EXCEPT ![r] = q],
         l # "idle" => q.host \in Hosts, l = "lock" => q.pool \in Domains
  PROVE  RequestType'
BY DEF RequestType, Places, RequestRecords

\* The same for a handler whose locals do not change.
LEMMA RequestGoes ==
  ASSUME RequestType, NEW r \in Requests, NEW l \in Places \ {"lock"},
         pc[r] # "idle", Goto(r, l)
  PROVE  RequestType'
BY DEF RequestType, Places, Goto

\* A handler that has answered is idle and has forgotten its request.
LEMMA RequestAnswers ==
  ASSUME RequestType, NEW r \in Requests, Answer(r)
  PROVE  RequestType'
<1>1. NoRequest \in RequestRecords /\ "idle" \in Places
  BY DEF NoRequest, RequestRecords, Kinds, Places
<1> QED
  BY <1>1, RequestMoves DEF Answer

\* Every handler stays at a place of its code, with locals that fit the place.
LEMMA RequestTypeStep == TypeOK /\ [Next]_vars => RequestType'
<1> SUFFICES ASSUME TypeOK, [Next]_vars PROVE RequestType'
  OBVIOUS
<1> DEFINE quiet == UNCHANGED <<pc, req>>
<1>0. RequestType
  BY DEF TypeOK
<1>1. quiet => RequestType'
  BY <1>0 DEF RequestType
<1>2. runHealthChecks => quiet
  BY DEF runHealthChecks, HealthTick, LockPool, Probe, UnlockPool
<1>3. (\E d \in Domains : \E b \in Backends(d) : Fall(d, b) \/ Recover(d, b)) => quiet
  BY DEF Fall, Recover
<1>4. (\E h \in Hosts : Age(h) \/ Evict(h)) => quiet
  BY DEF Age, Evict
<1>5. UNCHANGED vars => quiet
  BY DEF vars
<1>6. ASSUME NEW r \in Requests, NEW h \in Hosts, Arrive(r, h) PROVE RequestType'
  <2>1. /\ [NoRequest EXCEPT !.host = h] \in RequestRecords
        /\ [NoRequest EXCEPT !.host = h].host = h
        /\ "choose" \in Places
    BY DEF NoRequest, RequestRecords, Kinds, Places
  <2> QED
    BY <1>0, <1>6, <2>1, RequestMoves DEF Arrive
<1>7. ASSUME NEW r \in Requests, proxyRequest(r) PROVE RequestType'
  <2>0. req[r] \in RequestRecords /\ (pc[r] # "idle" => req[r].host \in Hosts)
    BY <1>0 DEF RequestType, RequestRecords
  <2>1. ASSUME NEW d \in Domains, ChoosePool(r, d) PROVE RequestType'
    <3>1. PICK q : q = [req[r] EXCEPT !.pool = d]
      OBVIOUS
    <3>2. /\ q \in RequestRecords /\ q.host \in Hosts /\ q.pool \in Domains
          /\ "lock" \in Places
      BY <2>0, <2>1, <3>1 DEF RequestRecords, Places, ChoosePool
    <3>3. pc' = [pc EXCEPT ![r] = "lock"] /\ req' = [req EXCEPT ![r] = q]
      BY <2>1, <3>1 DEF ChoosePool
    <3> QED
      BY <1>0, <3>2, <3>3, RequestMoves
  <2>2. ASSUME NEW k \in Kinds, Pick(r, k) PROVE RequestType'
    <3>1. PICK q : q = [req[r] EXCEPT !.kind = k]
      OBVIOUS
    <3>2. q \in RequestRecords /\ q.host \in Hosts
      BY <2>0, <2>2, <3>1 DEF RequestRecords, Pick
    <3>3. AfterPick[k] \in Places /\ AfterPick[k] # "lock"
      BY DEF AfterPick, Kinds, Places
    <3>4. pc' = [pc EXCEPT ![r] = AfterPick[k]] /\ req' = [req EXCEPT ![r] = q]
      BY <2>2, <3>1 DEF Pick
    <3> QED
      BY <1>0, <3>2, <3>3, <3>4, RequestMoves
  <2>3. CASE NotConfigured(r) \/ NoneAlive(r) \/ CacheHit(r) \/ Forward(r) \/ Store(r)
               \/ proxyWebSocket(r)
    <3>1. Answer(r)
      BY <2>3 DEF NotConfigured, NoneAlive, CacheHit, Forward, Store, proxyWebSocket
    <3> QED
      BY <1>0, <3>1, RequestAnswers
  <2>4. CASE CacheMiss(r) \/ CacheDel(r) \/ ForwardStorable(r)
    <3>1. PICK l \in Places \ {"lock"} : Goto(r, l) /\ pc[r] # "idle"
      BY <2>4 DEF CacheMiss, CacheDel, ForwardStorable, Places
    <3> QED
      BY <1>0, <3>1, RequestGoes
  <2> QED
    BY <1>7, <2>1, <2>2, <2>3, <2>4 DEF proxyRequest
<1> QED
  BY <1>1, <1>2, <1>3, <1>4, <1>5, <1>6, <1>7 DEF Next

\* A page that is stored or ages keeps its type.
LEMMA CacheTypeStep == TypeOK /\ [Next]_vars => CacheType'
<1> SUFFICES ASSUME TypeOK, [Next]_vars PROVE CacheType'
  OBVIOUS
<1> DEFINE Pages == [left : -1 .. TTL, by : Kinds]
<1>0. cache \in [Hosts -> Pages] /\ RequestType /\ TTL \in Nat \ {0}
  BY ReverseProxyAssumption DEF TypeOK
<1>1. ASSUME NEW h, NEW p \in Pages, cache' = [cache EXCEPT ![h] = p] PROVE CacheType'
  BY <1>0, <1>1 DEF CacheType
<1>2. UNCHANGED cache => CacheType'
  BY <1>0 DEF CacheType
<1>3. NoPage \in Pages
  BY <1>0 DEF NoPage, Kinds
<1>4. ASSUME NEW r \in Requests, proxyRequest(r) PROVE CacheType'
  <2>1. CASE CacheDel(r)
    BY <1>1, <1>3, <2>1 DEF CacheDel
  <2>2. CASE Store(r)
    <3>1. [left |-> TTL, by |-> req[r].kind] \in Pages
      BY <1>0 DEF RequestType
    <3> QED
      BY <1>1, <1>2, <2>2, <3>1 DEF Store
  <2>3. CASE ~CacheDel(r) /\ ~Store(r)
    BY <1>2, <1>4, <2>3 DEF proxyRequest, ChoosePool, NotConfigured, Pick, NoneAlive, CacheHit,
       CacheMiss, ForwardStorable, Forward, proxyWebSocket
  <2> QED
    BY <2>1, <2>2, <2>3
<1>5. ASSUME NEW h \in Hosts, Age(h) PROVE CacheType'
  <2>1. PICK p : p = [cache[h] EXCEPT !.left = cache[h].left - 1]
    OBVIOUS
  <2>2. p \in Pages
    BY <1>0, <1>5, <2>1 DEF Age
  <2> QED
    BY <1>1, <1>5, <2>1, <2>2 DEF Age
<1>6. ASSUME NEW h \in Hosts, Evict(h) PROVE CacheType'
  BY <1>1, <1>3, <1>6 DEF Evict
<1>7. \/ runHealthChecks \/ UNCHANGED vars
      \/ \E r \in Requests, h \in Hosts : Arrive(r, h)
      \/ \E d \in Domains : \E b \in Backends(d) : Fall(d, b) \/ Recover(d, b)
      => UNCHANGED cache
  BY DEF runHealthChecks, HealthTick, LockPool, Probe, UnlockPool, Arrive, Fall, Recover, vars
<1> QED
  BY <1>2, <1>4, <1>5, <1>6, <1>7 DEF Next

\* The pools, the checker, the requests and the cache of any configuration stay well
\* typed; the round robin's pointer never leaves its pool.
THEOREM TypeCorrect == Spec => []TypeOK
<1>1. TypeOK /\ [Next]_vars => TypeOK'
  BY PoolTypeStep, CheckerTypeStep, RequestTypeStep, CacheTypeStep DEF TypeOK, CacheType
<1> QED
  BY InitType, <1>1, PTL DEF Spec

-----------------------------------------------------------------------------
\* A backend that never failed passes its probes, and only a failed probe takes a
\* backend out of the rotation.
UpInv ==
  \A d \in Domains : \A b \in Backends(d) :
    neverDown[d][b] => up[d][b] /\ IsAlive[d][b]

\* A backend that never failed is up and in the rotation after every step.
LEMMA UpInvStep == TypeOK /\ UpInv /\ [Next]_vars => UpInv'
<1> SUFFICES ASSUME TypeOK, UpInv, [Next]_vars PROVE UpInv'
  OBVIOUS
<1> DEFINE quiet == UNCHANGED <<up, IsAlive, neverDown>>
<1>0. PoolType /\ CheckerType
  BY DEF TypeOK
<1>1. quiet => UpInv'
  BY DEF UpInv, Backends
<1>2. CASE Probe
  <2>1. checking \in Domains /\ next \in Backends(checking)
    BY <1>0, <1>2, ReverseProxyAssumption DEF Probe, CheckerType, Backends
  <2>2. UNCHANGED <<up, neverDown>>
    BY <1>2 DEF Probe, history
  <2>3. CASE up[checking][next]
    <3>1. \A d \in Domains : \A b \in Backends(d) :
            ~(d = checking /\ b = next) => IsAlive'[d][b] = IsAlive[d][b]
      BY <1>0, <1>2, <2>1, <2>3 DEF Probe, GoodProbe, PoolType
    <3>2. IsAlive'[checking][next]
      BY <1>0, <1>2, <2>1, <2>3 DEF Probe, GoodProbe, PoolType
    <3> QED
      BY <2>2, <2>3, <3>1, <3>2 DEF UpInv, Backends
  <2>4. CASE ~up[checking][next]
    <3>1. ~neverDown[checking][next]
      BY <2>1, <2>4 DEF UpInv
    <3>2. \A d \in Domains : \A b \in Backends(d) :
            ~(d = checking /\ b = next) => IsAlive'[d][b] = IsAlive[d][b]
      BY <1>0, <1>2, <2>1, <2>4 DEF Probe, FailedProbe, PoolType
    <3> QED
      BY <2>2, <3>1, <3>2 DEF UpInv, Backends
  <2> QED
    BY <2>3, <2>4
<1>3. ASSUME NEW d \in Domains, NEW b \in Backends(d), Fall(d, b) PROVE UpInv'
  BY <1>0, <1>3 DEF Fall, UpInv, poolVars, PoolType, Backends
<1>4. ASSUME NEW d \in Domains, NEW b \in Backends(d), Recover(d, b) PROVE UpInv'
  BY <1>0, <1>4 DEF Recover, UpInv, poolVars, history, PoolType, Backends
<1>5. HealthTick \/ (\E d \in Domains : LockPool(d)) \/ UnlockPool => quiet
  BY DEF HealthTick, LockPool, UnlockPool, poolVars, history
<1>6. ASSUME NEW r \in Requests PROVE proxyRequest(r) => quiet
  BY DEF proxyRequest, ChoosePool, NotConfigured, Pick, NoneAlive, CacheHit, CacheMiss,
         CacheDel, ForwardStorable, Forward, Store, proxyWebSocket, poolVars, history
<1>7. (\E r \in Requests, h \in Hosts : Arrive(r, h)) => quiet
  BY DEF Arrive, poolVars, history
<1>8. (\E h \in Hosts : Age(h) \/ Evict(h)) => quiet
  BY DEF Age, Evict, poolVars, history
<1>9. UNCHANGED vars => quiet
  BY DEF vars, poolVars, history
<1> QED
  BY <1>1, <1>2, <1>3, <1>4, <1>5, <1>6, <1>7, <1>8, <1>9 DEF Next, runHealthChecks

\* In any pool, a backend that never failed is in the rotation for ever: the health
\* checks of the others and the requests do not take it out.
THEOREM AlwaysUpServesHolds == Spec => []AlwaysUpServes
<1>1. Init => UpInv
  BY DEF Init, UpInv, PerBackend
<1>2. UpInv => AlwaysUpServes
  BY DEF UpInv, AlwaysUpServes
<1> QED
  BY <1>1, <1>2, UpInvStep, TypeCorrect, PTL DEF Spec

-----------------------------------------------------------------------------
\* What is about to be stored was asked for by a request that the cache is for.
StoreInv ==
  /\ \A h \in Hosts : cache[h].by = "cached"
  /\ \A r \in Requests : pc[r] = "store" => req[r].kind = "cached"

\* What may not be cached never reaches the place that stores.
LEMMA StoreInvStep == TypeOK /\ StoreInv /\ [Next]_vars => StoreInv'
<1> SUFFICES ASSUME TypeOK, StoreInv, [Next]_vars PROVE StoreInv'
  OBVIOUS
<1> DEFINE quiet == UNCHANGED <<pc, req, cache>>
<1>0. /\ pc \in [Requests -> Places] /\ req \in [Requests -> RequestRecords]
      /\ cache \in [Hosts -> [left : -1 .. TTL, by : Kinds]]
  BY DEF TypeOK, RequestType, Places, RequestRecords
<1>1. quiet => StoreInv'
  BY DEF StoreInv
<1>2. ASSUME NEW r \in Requests, NEW h \in Hosts, Arrive(r, h) PROVE StoreInv'
  BY <1>0, <1>2 DEF Arrive, StoreInv
<1>3. ASSUME NEW r \in Requests, proxyRequest(r) PROVE StoreInv'
  <2>1. ASSUME NEW d \in Domains, ChoosePool(r, d) PROVE StoreInv'
    BY <1>0, <2>1 DEF ChoosePool, StoreInv
  <2>2. ASSUME NEW k \in Kinds, Pick(r, k) PROVE StoreInv'
    <3>1. AfterPick[k] # "store"
      BY DEF AfterPick, Kinds
    <3>2. UNCHANGED cache /\ pc' = [pc EXCEPT ![r] = AfterPick[k]]
      BY <2>2 DEF Pick
    <3>3. \A q \in Requests \ {r} : req'[q] = req[q]
      BY <1>0, <2>2 DEF Pick
    <3> QED
      BY <1>0, <3>1, <3>2, <3>3 DEF StoreInv
  <2>3. CASE NotConfigured(r) \/ NoneAlive(r) \/ CacheHit(r) \/ Forward(r) \/ proxyWebSocket(r)
    <3>1. Answer(r) /\ UNCHANGED cache
      BY <2>3 DEF NotConfigured, NoneAlive, CacheHit, Forward, proxyWebSocket
    <3> QED
      BY <1>0, <3>1 DEF Answer, StoreInv
  <2>4. CASE CacheMiss(r)
    BY <1>0, <2>4 DEF CacheMiss, Goto, StoreInv
  <2>5. CASE CacheDel(r)
    BY <1>0, <2>5 DEF CacheDel, Goto, StoreInv, NoPage
  <2>6. CASE ForwardStorable(r)
    BY <1>0, <2>6 DEF ForwardStorable, MayStore, Goto, StoreInv
  <2>7. CASE Store(r)
    BY <1>0, <2>7 DEF Store, Answer, StoreInv
  <2> QED
    BY <1>3, <2>1, <2>2, <2>3, <2>4, <2>5, <2>6, <2>7 DEF proxyRequest
<1>4. ASSUME NEW h \in Hosts, Age(h) \/ Evict(h) PROVE StoreInv'
  BY <1>0, <1>4 DEF Age, Evict, StoreInv, NoPage
<1>5. runHealthChecks => quiet
  BY DEF runHealthChecks, HealthTick, LockPool, Probe, UnlockPool
<1>6. (\E d \in Domains : \E b \in Backends(d) : Fall(d, b) \/ Recover(d, b)) => quiet
  BY DEF Fall, Recover
<1>7. UNCHANGED vars => quiet
  BY DEF vars
<1> QED
  BY <1>1, <1>2, <1>3, <1>4, <1>5, <1>6, <1>7 DEF Next

\* However the handlers of many visitors interleave, no answer to a request that
\* bypasses the cache is in it.
THEOREM BypassNotStoredHolds == Spec => []BypassNotStored
<1>1. Init => StoreInv
  BY DEF Init, StoreInv, NoPage, NoRequest
<1>2. StoreInv => BypassNotStored
  BY DEF StoreInv, BypassNotStored
<1> QED
  BY <1>1, <1>2, StoreInvStep, TypeCorrect, PTL DEF Spec

-----------------------------------------------------------------------------
\* how many backends of pool d the pointer has before b
Distance(d, b) == IF b >= Current[d] THEN b - Current[d] ELSE b - Current[d] + Size[d]

\* A backend that was passed over is the nearer to the pointer, the more often.
TurnInv ==
  \A d \in Domains : \A b \in Backends(d) : skipped[d][b] + Distance(d, b) < Size[d]

\* The n-th backend looked at is at distance n.
LEMMA CandidateDistance ==
  ASSUME PoolType, NEW d \in Domains, NEW b \in Backends(d)
  PROVE  /\ Distance(d, b) \in Backends(d)
         /\ Candidate(d, Distance(d, b)) = b
<1>1. Size[d] \in Nat \ {0} /\ b \in 0 .. Size[d] - 1
  BY ReverseProxyAssumption DEF Backends
<1>2. Current[d] \in 0 .. Size[d] - 1
  BY <1>1 DEF PoolType
<1>3. Distance(d, b) \in 0 .. Size[d] - 1
  BY <1>1, <1>2 DEF Distance
<1>4. PICK a \in Nat : a = Current[d] + Distance(d, b)
  BY <1>2, <1>3
<1>5. a % Size[d] = b
  <2>1. /\ a < Size[d] => a % Size[d] = a
        /\ Size[d] <= a /\ a < Size[d] + Size[d] => a % Size[d] = a - Size[d]
    BY <1>1, Wrap
  <2>2. (a = b /\ a < Size[d]) \/ (a - Size[d] = b /\ Size[d] <= a /\ a < Size[d] + Size[d])
    BY <1>1, <1>2, <1>4 DEF Distance
  <2> QED
    BY <2>1, <2>2
<1>6. Candidate(d, Distance(d, b)) = b
  BY <1>4, <1>5 DEF Candidate
<1> QED
  BY <1>3, <1>6 DEF Backends

\* Picking the n-th backend looked at brings every backend behind it n + 1 nearer.
LEMMA PickTurns ==
  ASSUME TypeOK, TurnInv, NEW r \in Requests, NEW k \in Kinds, Pick(r, k)
  PROVE  TurnInv'
<1>0. PoolType /\ RequestType
  BY DEF TypeOK
<1>1. PICK d \in Domains : d = req[r].pool
  BY <1>0 DEF Pick, RequestType
<1>a. PICK s \in Nat : s = Size[d]
  BY ReverseProxyAssumption
<1>2. PICK n \in Backends(d) :
        /\ \A m \in 0 .. n - 1 : ~IsAlive[d][Candidate(d, m)]
        /\ Advance(d, Candidate(d, n))
        /\ CountSkips(d, Candidate(d, n))
  BY <1>1 DEF Pick
<1>b. Candidate(d, n) \in Backends(d)
  BY <1>0, CandidateInPool
<1>c. PICK c, x : c = Current[d] /\ x = Candidate(d, n)
  OBVIOUS
<1>3. s \in Nat \ {0} /\ n \in 0 .. s - 1 /\ x \in 0 .. s - 1 /\ c \in 0 .. s - 1
  <2>1. s \in Nat \ {0} /\ n \in 0 .. s - 1 /\ x \in 0 .. s - 1
    BY <1>a, <1>b, <1>c DEF Backends
  <2>2. Current[d] \in Nat /\ (Size[d] > 0 => Current[d] < Size[d])
    BY <1>0 DEF PoolType
  <2> QED
    BY <1>a, <1>c, <2>1, <2>2
<1>4. x = IF c + n < s THEN c + n ELSE c + n - s
  <2>1. c + n \in Nat /\ c + n < s + s
    BY <1>3
  <2>2. (c + n) % s = IF c + n < s THEN c + n ELSE c + n - s
    <3>1. PICK a \in Nat : a = c + n
      BY <2>1
    <3>2. /\ a < s => a % s = a
          /\ s <= a /\ a < s + s => a % s = a - s
      BY <1>3, Wrap
    <3> QED
      BY <1>3, <2>1, <3>1, <3>2
  <2> QED
    BY <1>a, <1>c, <2>2 DEF Candidate
<1>5. Current'[d] = IF x + 1 < s THEN x + 1 ELSE 0
  <2>1. (x + 1) % s = IF x + 1 < s THEN x + 1 ELSE x + 1 - s
    <3>1. x + 1 \in Nat /\ x + 1 < s + s
      BY <1>3
    <3>2. PICK a \in Nat : a = x + 1
      BY <3>1
    <3>3. /\ a < s => a % s = a
          /\ s <= a /\ a < s + s => a % s = a - s
      BY <1>3, Wrap
    <3> QED
      BY <1>3, <3>1, <3>2, <3>3
  <2>2. Current'[d] = (x + 1) % s
    BY <1>0, <1>2, <1>a, <1>c DEF Advance, PoolType
  <2> QED
    BY <1>3, <2>1, <2>2
<1>6. ASSUME NEW b \in Backends(d)
      PROVE  skipped'[d][b] + Distance(d, b)' < s
  <2>0. b \in 0 .. s - 1
    BY <1>a DEF Backends
  <2>1. skipped'[d][b] = IF b = x \/ ~IsAlive[d][b] THEN 0 ELSE skipped[d][b] + 1
    BY <1>0, <1>2, <1>c DEF CountSkips, PoolType
  <2>2. Distance(d, b)' = IF b >= Current'[d] THEN b - Current'[d] ELSE b - Current'[d] + s
    BY <1>a DEF Distance
  <2>3. skipped[d][b] \in Nat /\ skipped[d][b] + Distance(d, b) < s
    BY <1>0, <1>a DEF TurnInv, PoolType
  <2>4. CASE b = x \/ ~IsAlive[d][b]
    BY <1>3, <1>5, <2>0, <2>1, <2>2, <2>4
  <2>5. CASE b # x /\ IsAlive[d][b]
    <3>1. Distance(d, b) \in 0 .. s - 1 /\ Candidate(d, Distance(d, b)) = b
      BY <1>0, <1>a, CandidateDistance DEF Backends
    <3>2. Distance(d, b) > n
      <4>1. Distance(d, b) # n
        BY <1>c, <2>5, <3>1
      <4>2. ~(Distance(d, b) \in 0 .. n - 1)
        BY <1>2, <2>5, <3>1
      <4> QED
        BY <1>3, <3>1, <4>1, <4>2
    <3>3. Distance(d, b) = IF b >= c THEN b - c ELSE b - c + s
      BY <1>a, <1>c DEF Distance
    <3>4. Distance(d, b)' = Distance(d, b) - n - 1
      BY <1>3, <1>4, <1>5, <2>0, <2>2, <3>2, <3>3
    <3> QED
      BY <1>3, <2>1, <2>3, <2>5, <3>1, <3>4
  <2> QED
    BY <2>4, <2>5
<1>7. ASSUME NEW e \in Domains, e # d, NEW b \in Backends(e)
      PROVE  skipped'[e][b] + Distance(e, b)' < Size[e]
  <2>1. skipped'[e] = skipped[e] /\ Current'[e] = Current[e]
    BY <1>0, <1>2, <1>7 DEF Advance, CountSkips, PoolType
  <2> QED
    BY <2>1 DEF TurnInv, Distance
<1> QED
  BY <1>6, <1>7, <1>a DEF TurnInv, Backends

\* A pick brings every living backend that it passes over nearer to the pointer.
LEMMA TurnInvStep == TypeOK /\ TurnInv /\ [Next]_vars => TurnInv'
<1> SUFFICES ASSUME TypeOK, TurnInv, [Next]_vars PROVE TurnInv'
  OBVIOUS
<1> DEFINE quiet == UNCHANGED <<Current, skipped>>
<1>1. quiet => TurnInv'
  BY DEF TurnInv, Distance, Backends
<1>2. ASSUME NEW r \in Requests, NEW k \in Kinds, Pick(r, k) PROVE TurnInv'
  BY <1>2, PickTurns
<1>3. runHealthChecks => quiet
  BY DEF runHealthChecks, HealthTick, LockPool, Probe, UnlockPool, poolVars, history
<1>4. ASSUME NEW r \in Requests
      PROVE  proxyRequest(r) => quiet \/ \E k \in Kinds : Pick(r, k)
  BY DEF proxyRequest, ChoosePool, NotConfigured, NoneAlive, CacheHit, CacheMiss,
         CacheDel, ForwardStorable, Forward, Store, proxyWebSocket, poolVars, history
<1>5. (\E r \in Requests, h \in Hosts : Arrive(r, h)) => quiet
  BY DEF Arrive, poolVars, history
<1>6. (\E d \in Domains : \E b \in Backends(d) : Fall(d, b) \/ Recover(d, b)) => quiet
  BY DEF Fall, Recover, poolVars, history
<1>7. (\E h \in Hosts : Age(h) \/ Evict(h)) => quiet
  BY DEF Age, Evict, poolVars, history
<1>8. UNCHANGED vars => quiet
  BY DEF vars, poolVars, history
<1> QED
  BY <1>1, <1>2, <1>3, <1>4, <1>5, <1>6, <1>7, <1>8 DEF Next

\* For pools of any size, whichever backends leave and rejoin the rotation between
\* picks: a living backend is passed over fewer times than its pool has backends.
THEOREM RoundRobinHolds == Spec => []RoundRobin
<1>1. Init => TurnInv
  BY ReverseProxyAssumption DEF Init, TurnInv, Distance, PerBackend, Backends
<1>2. TypeOK /\ TurnInv => RoundRobin
  <2> SUFFICES ASSUME TypeOK, TurnInv, NEW d \in Domains, NEW b \in Backends(d)
               PROVE  skipped[d][b] < Size[d]
    BY DEF RoundRobin
  <2>1. PoolType
    BY DEF TypeOK
  <2>2. skipped[d][b] \in Nat /\ Distance(d, b) \in 0 .. Size[d] - 1
    BY <2>1, CandidateDistance DEF PoolType, Backends
  <2>3. skipped[d][b] + Distance(d, b) < Size[d] /\ Size[d] \in Nat
    BY ReverseProxyAssumption DEF TurnInv
  <2> QED
    BY <2>2, <2>3
<1> QED
  BY <1>1, <1>2, TurnInvStep, TypeCorrect, PTL DEF Spec
=============================================================================
