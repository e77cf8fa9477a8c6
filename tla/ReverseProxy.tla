---------------------------- MODULE ReverseProxy ----------------------------
(***************************************************************************)
(* Behind the protection layers of the WAF: the pools of backends with     *)
(* their round robin and health checks (core/upstream.go), the forwarding  *)
(* of a request (core/proxy.go) and the response cache (core/cache.go).    *)
(*                                                                         *)
(* Backends of a domain are numbered from 0 as in the configuration.  The  *)
(* health checker holds the mutex of a pool while it probes all of its     *)
(* backends; requests need the same mutex to pick one.  Time is counted in *)
(* ticks, and a cached response is the time left to its Expiry.            *)
(*                                                                         *)
(* Left out: contents and headers beyond what decides on caching, the      *)
(* statistics, backend URLs that do not parse, and Purge and Close, which  *)
(* nothing calls.                                                          *)
(***************************************************************************)
EXTENDS Integers

CONSTANTS
  Domains,       \* configured domains, each with a pool
  Size,          \* [Domains -> Nat]: number of backends of a domain
  Hosts,         \* Host headers
  Contains,      \* [Hosts -> SUBSET Domains]: names the host contains
  Requests,      \* requests that were allowed
  TTL,           \* ticks a response is cached
  None

ASSUME ReverseProxyAssumption ==
  /\ Size \in [Domains -> Nat]
  /\ Contains \in [Hosts -> SUBSET Domains]
  /\ TTL \in Nat \ {0}
  /\ None \notin Domains /\ None \notin Hosts

MaxFailures == 3

Backends(d) == 0 .. Size[d] - 1

VARIABLES
  up,                          \* external: whether a backend would pass a probe
  IsAlive, Failures, Current,  \* the pools
  checking, next, left,        \* runHealthChecks: pool locked, backend, pools to do
  pc, req,                     \* proxyRequest: place and locals
  cache,                       \* per host: time left of its page, and what asked for it
  neverDown, skipped           \* history: see AlwaysUpServes and RoundRobin

poolVars    == <<IsAlive, Failures, Current>>
checkerVars == <<checking, next, left>>
history     == <<neverDown, skipped>>
vars == <<up, poolVars, checkerVars, pc, req, cache, history>>

\* the locals of a request that has not begun
NoRequest == [host |-> None, kind |-> "cached", pool |-> None]

NoPage == [left |-> -1, by |-> "cached"]

PerBackend(v) == [d \in Domains |-> [b \in Backends(d) |-> v]]

Init ==
  /\ up = PerBackend(TRUE)
  /\ IsAlive = PerBackend(TRUE)
  /\ Failures = PerBackend(0)
  /\ Current = [d \in Domains |-> 0]
  /\ checking = None /\ next = 0 /\ left = {}
  /\ pc = [r \in Requests |-> "idle"]
  /\ req = [r \in Requests |-> NoRequest]
  /\ cache = [h \in Hosts |-> NoPage]
  /\ neverDown = PerBackend(TRUE)
  /\ skipped = PerBackend(0)

-----------------------------------------------------------------------------
(* runHealthChecks                                                         *)

\* the ticker fires
HealthTick ==
  /\ checking = None /\ left = {}
  /\ left' = Domains
  /\ UNCHANGED <<up, poolVars, checking, next, pc, req, cache, history>>

\* Range over the map: any pool that was not yet visited; its mutex is taken
LockPool(d) ==
  /\ checking = None /\ d \in left
  /\ checking' = d /\ next' = 0 /\ left' = left \ {d}
  /\ UNCHANGED <<up, poolVars, pc, req, cache, history>>

\* Failures beyond the limit make no difference and are not counted here.
FailedProbe(d, b) ==
  /\ Failures' = [Failures EXCEPT ![d][b] = IF @ < MaxFailures THEN @ + 1 ELSE @]
  /\ IsAlive' = [IsAlive EXCEPT ![d][b] = @ /\ Failures[d][b] + 1 < MaxFailures]

\* Mutant: a probe that is answered counts as failed too.
GoodProbeSwapped(d, b) ==
  /\ Failures' = [Failures EXCEPT ![d][b] = IF @ < MaxFailures THEN @ + 1 ELSE @]
  /\ IsAlive' = [IsAlive EXCEPT ![d][b] = @ /\ Failures[d][b] + 1 < MaxFailures]

\* Mutant: a backend that is down stays down.
GoodProbeOnly(d, b) ==
  /\ Failures' = [Failures EXCEPT ![d][b] = 0]
  /\ UNCHANGED IsAlive

GoodProbe(d, b) ==
  /\ Failures' = [Failures EXCEPT ![d][b] = 0]
  /\ IsAlive' = [IsAlive EXCEPT ![d][b] = TRUE]

\* the GET to the next backend of the locked pool
Probe ==
  /\ checking # None /\ next < Size[checking]
  /\ IF up[checking][next] THEN GoodProbe(checking, next)
                           ELSE FailedProbe(checking, next)
  /\ next' = next + 1
  /\ UNCHANGED <<up, Current, checking, left, pc, req, cache, history>>

\* Mutant: the pool stays locked when a check ends.
UnlockPoolForgotten ==
  /\ checking # None /\ next = Size[checking] /\ next > Size[checking]
  /\ checking' = None /\ next' = 0
  /\ UNCHANGED <<up, poolVars, left, pc, req, cache, history>>

UnlockPool ==
  /\ checking # None /\ next = Size[checking]
  /\ checking' = None /\ next' = 0
  /\ UNCHANGED <<up, poolVars, left, pc, req, cache, history>>

-----------------------------------------------------------------------------
(* GetNext                                                                 *)

Goto(r, l) == pc' = [pc EXCEPT ![r] = l] /\ UNCHANGED req

\* the handler returns
Answer(r) ==
  /\ pc' = [pc EXCEPT ![r] = "idle"]
  /\ req' = [req EXCEPT ![r] = NoRequest]

\* the next request of a visitor
Arrive(r, h) ==
  /\ pc[r] = "idle"
  /\ pc' = [pc EXCEPT ![r] = "choose"]
  /\ req' = [req EXCEPT ![r] = [NoRequest EXCEPT !.host = h]]
  /\ UNCHANGED <<up, poolVars, checkerVars, cache, history>>

\* the first match in the map's order, which is random; any pool without a match
Candidates(h) == IF Contains[h] # {} THEN Contains[h] ELSE Domains

ChoosePool(r, d) ==
  /\ pc[r] = "choose" /\ d \in Candidates(req[r].host) /\ Size[d] > 0
  /\ pc' = [pc EXCEPT ![r] = "lock"]
  /\ req' = [req EXCEPT ![r].pool = d]
  /\ UNCHANGED <<up, poolVars, checkerVars, cache, history>>

\* no pool, or a pool of a domain without backends
NotConfigured(r) ==
  /\ pc[r] = "choose"
  /\ Candidates(req[r].host) = {} \/ \E d \in Candidates(req[r].host) : Size[d] = 0
  /\ Answer(r)
  /\ UNCHANGED <<up, poolVars, checkerVars, cache, history>>

\* the n-th backend the round robin of pool d looks at
Candidate(d, n) == (Current[d] + n) % Size[d]

Advance(d, b) == Current' = [Current EXCEPT ![d] = (b + 1) % Size[d]]

\* how many picks a living backend has been passed over by
CountSkips(d, b) ==
  skipped' = [skipped EXCEPT ![d] = [c \in Backends(d) |->
                IF c = b \/ ~IsAlive[d][c] THEN 0 ELSE skipped[d][c] + 1]]

Kinds == {"cached", "bypass", "websocket"}

AfterPick == [cached |-> "get", bypass |-> "forward", websocket |-> "websocket"]

\* Under the pool's mutex: the first backend that is alive.  proxyRequest then looks
\* at the kind of the request: "cached", a GET or HEAD the cache is asked for;
\* "bypass", ShouldBypass holds; "websocket", an upgrade.
Pick(r, k) ==
  LET d == req[r].pool
  IN /\ pc[r] = "lock" /\ checking # d
     /\ \E n \in Backends(d) :
          /\ IsAlive[d][Candidate(d, n)]
          /\ \A m \in 0 .. n - 1 : ~IsAlive[d][Candidate(d, m)]
          /\ Advance(d, Candidate(d, n))
          /\ CountSkips(d, Candidate(d, n))
     /\ req' = [req EXCEPT ![r].kind = k]
     /\ pc' = [pc EXCEPT ![r] = AfterPick[k]]
     /\ UNCHANGED <<up, IsAlive, Failures, checkerVars, cache, neverDown>>

NoneAlive(r) ==
  /\ pc[r] = "lock" /\ checking # req[r].pool
  /\ \A b \in Backends(req[r].pool) : ~IsAlive[req[r].pool][b]
  /\ Answer(r)
  /\ UNCHANGED <<up, poolVars, checkerVars, cache, history>>

-----------------------------------------------------------------------------
(* The cache, and forwarding                                               *)

CacheHit(r) ==
  /\ pc[r] = "get" /\ cache[req[r].host].left > 0
  /\ Answer(r)
  /\ UNCHANGED <<up, poolVars, checkerVars, cache, history>>

\* Get finds nothing, or a page past its Expiry, which it deletes afterwards
CacheMiss(r) ==
  /\ pc[r] = "get" /\ cache[req[r].host].left <= 0
  /\ Goto(r, IF cache[req[r].host] = NoPage THEN "forward" ELSE "delete")
  /\ UNCHANGED <<up, poolVars, checkerVars, cache, history>>

\* by key: a page stored since is deleted with it
CacheDel(r) ==
  /\ pc[r] = "delete"
  /\ cache' = [cache EXCEPT ![req[r].host] = NoPage]
  /\ Goto(r, "forward")
  /\ UNCHANGED <<up, poolVars, checkerVars, history>>

\* the closure of ModifyResponse uses what ShouldBypass said of the request
MayStore(r) == req[r].kind = "cached"

\* An answer that Store takes: static or public, not private, without cookies, of any
\* status.  A backend that fails its probes may still answer.
ForwardStorable(r) ==
  /\ pc[r] = "forward" /\ MayStore(r)
  /\ Goto(r, "store")
  /\ UNCHANGED <<up, poolVars, checkerVars, cache, history>>

\* any other answer, copied to the visitor, or an error of the connection or a
\* time-out of the headers: 502.  Nothing bounds the time the copy takes.
Forward(r) ==
  /\ pc[r] = "forward"
  /\ Answer(r)
  /\ UNCHANGED <<up, poolVars, checkerVars, cache, history>>

\* the body has been read to its end; Ristretto keeps the page, or drops the write
Store(r) ==
  /\ pc[r] = "store"
  /\ \/ cache' = [cache EXCEPT ![req[r].host] = [left |-> TTL, by |-> req[r].kind]]
     \/ UNCHANGED cache
  /\ Answer(r)
  /\ UNCHANGED <<up, poolVars, checkerVars, history>>

\* hijacked: the dial fails, or one of the two copies ends
proxyWebSocket(r) ==
  /\ pc[r] = "websocket"
  /\ Answer(r)
  /\ UNCHANGED <<up, poolVars, checkerVars, cache, history>>

-----------------------------------------------------------------------------
(* The world around the proxy                                              *)

Fall(d, b) ==
  /\ up[d][b]
  /\ up' = [up EXCEPT ![d][b] = FALSE]
  /\ neverDown' = [neverDown EXCEPT ![d][b] = FALSE]
  /\ UNCHANGED <<poolVars, checkerVars, pc, req, cache, skipped>>

Recover(d, b) ==
  /\ ~up[d][b]
  /\ up' = [up EXCEPT ![d][b] = TRUE]
  /\ UNCHANGED <<poolVars, checkerVars, pc, req, cache, history>>

\* a page comes to its Expiry, or Ristretto evicts it
Age(h) ==
  /\ cache[h].left > 0
  /\ cache' = [cache EXCEPT ![h].left = @ - 1]
  /\ UNCHANGED <<up, poolVars, checkerVars, pc, req, history>>

Evict(h) ==
  /\ cache[h] # NoPage
  /\ cache' = [cache EXCEPT ![h] = NoPage]
  /\ UNCHANGED <<up, poolVars, checkerVars, pc, req, history>>

-----------------------------------------------------------------------------
runHealthChecks == HealthTick \/ (\E d \in Domains : LockPool(d)) \/ Probe \/ UnlockPool

proxyRequest(r) ==
  \/ (\E d \in Domains : ChoosePool(r, d)) \/ NotConfigured(r)
  \/ (\E k \in Kinds : Pick(r, k)) \/ NoneAlive(r)
  \/ CacheHit(r) \/ CacheMiss(r) \/ CacheDel(r)
  \/ ForwardStorable(r) \/ Forward(r) \/ Store(r)
  \/ proxyWebSocket(r)

Next ==
  \/ runHealthChecks
  \/ \E r \in Requests : proxyRequest(r)
  \/ \E r \in Requests, h \in Hosts : Arrive(r, h)
  \/ \E d \in Domains : \E b \in Backends(d) : Fall(d, b) \/ Recover(d, b)
  \/ \E h \in Hosts : Age(h) \/ Evict(h)

Spec == Init /\ [][Next]_vars

\* The ticker fires for ever and a probe ends within the three seconds of its client,
\* so the checker goes on.  A request waits for the mutex of its pool, which
\* sync.RWMutex hands to one that waits long enough however often the checker takes
\* it: strong fairness.  Nothing is assumed of backends and visitors, and nothing of a
\* request once its backend is picked: the transport has a time-out for the headers of
\* an answer only, so copying a body, io.ReadAll of Store and a websocket may last for
\* ever.
FairSpec ==
  /\ Spec
  /\ WF_vars(runHealthChecks)
  /\ \A r \in Requests :
       /\ WF_vars((\E d \in Domains : ChoosePool(r, d)) \/ NotConfigured(r))
       /\ SF_vars((\E k \in Kinds : Pick(r, k)) \/ NoneAlive(r))

-----------------------------------------------------------------------------
PoolType ==
  /\ DOMAIN up = Domains /\ DOMAIN neverDown = Domains
  /\ DOMAIN IsAlive = Domains /\ DOMAIN Failures = Domains
  /\ DOMAIN skipped = Domains /\ DOMAIN Current = Domains
  /\ \A d \in Domains :
       /\ up[d] \in [Backends(d) -> BOOLEAN]
       /\ neverDown[d] \in [Backends(d) -> BOOLEAN]
       /\ IsAlive[d] \in [Backends(d) -> BOOLEAN]
       /\ Failures[d] \in [Backends(d) -> 0 .. MaxFailures]
       /\ skipped[d] \in [Backends(d) -> Nat]
       /\ Current[d] \in Nat /\ (Size[d] > 0 => Current[d] < Size[d])

CheckerType ==
  /\ checking \in Domains \cup {None}
  /\ next \in Nat /\ (checking # None => next <= Size[checking])
  /\ left \subseteq Domains

RequestType ==
  /\ pc \in [Requests -> {"idle", "choose", "lock", "get", "delete", "forward",
                          "store", "websocket"}]
  /\ req \in [Requests -> [host : Hosts \cup {None}, kind : Kinds,
                           pool : Domains \cup {None}]]
  /\ \A r \in Requests :
       /\ pc[r] # "idle" => req[r].host \in Hosts
       /\ pc[r] = "lock" => req[r].pool \in Domains

\* The type invariant: in particular the pointer of the round robin stays inside its
\* pool and the checker never probes past its end.
TypeOK ==
  /\ PoolType /\ CheckerType /\ RequestType
  /\ cache \in [Hosts -> [left : -1 .. TTL, by : Kinds]]

\* Round robin: whichever backends come and go, a backend that is alive is not
\* passed over by as many picks as its pool has backends (GetNext).
RoundRobin ==
  \A d \in Domains : \A b \in Backends(d) : skipped[d][b] < Size[d]

\* A backend that never failed is never taken out of the rotation, so no request of
\* its pool gets a 503, however probes, failures of others and requests interleave.
AlwaysUpServes ==
  \A d \in Domains : \A b \in Backends(d) : neverDown[d][b] => IsAlive[d][b]

\* What was fetched for a request that bypasses the cache (credentials, a session
\* cookie, a rule) is not in the cache, where it would be shown to other visitors:
\* the decision is taken when the request arrives and used when the answer does.
BypassNotStored ==
  \A h \in Hosts : cache[h].by # "bypass"

\* What the pool believes of a backend follows what it is: a backend that stays up
\* is alive in the end, one that stays down is not.
HealthNoticed ==
  \A d \in Domains : \A b \in Backends(d) :
    /\ <>[](up[d][b]) => <>[](IsAlive[d][b])
    /\ <>[](~up[d][b]) => <>[](~IsAlive[d][b])

\* A request does not wait for ever for the mutex of its pool, although the health
\* check holds it over a probe of every backend, hanging ones too, and takes it again
\* with every tick: it is answered with an error or gets a backend.
RequestRouted ==
  \A r \in Requests : pc[r] = "choose" ~> pc[r] \in {"idle", "get", "forward", "websocket"}
=============================================================================
