# A TLA+ development for auto-code-platform

The repository holds four programs that share little code but one style: small
servers whose state is changed by many concurrent handlers.

| program | language | what it does |
|---|---|---|
| `packages/api`, `packages/worker`, `packages/shared`, `packages/database` | TypeScript | a REST API accepts coding jobs, a Redis sorted set queues them, a worker clones the repository, lets LLM agents change it, opens a pull request and asks a human |
| `packages/proxvn-tunnel` | Go | a tunnel: a client behind NAT keeps a control connection to a server that offers its TCP, UDP or HTTP service on a public port or subdomain |
| `packages/mango-waf` | Go | a reverse proxy that scores, challenges, limits and bans visitors, with the bans shared over a gossip mesh and an XDP map |
| `packages/auto-anti` | TypeScript | an editor extension with an account-rotating API proxy |

The modules are written from the source. A definition that models code has the
name of the function it models, or of its step; `PROJECT.json` maps each to
file and lines. Comments that start with `Mutant:` mark definitions that change one of
the model's definitions the way a plausible bug would; the runs' properties
are each shown to fail when the mutant takes the place of its original.

## 1. Inventory

### 1.1 Jobs (api, worker, shared, database)

*State.* PostgreSQL rows `Job` (status, riskLevel), `Approval` (decision), `Run`;
the Redis sorted set `autocode:job:queue`; the worker's `activeJobs` and
`isShuttingDown`; a directory per job on the workspace volume; the work branch
and the pull request on GitHub.

*Operations.* `POST /jobs`, `PATCH /jobs/:id/cancel`, `POST /jobs/:id/retry`,
`POST /approvals/:id/decide`; the poll loop (`zpopmin`, start, shutdown);
`executeJob` with its five `updateJobStatus` calls, clone, plan, code, test, review,
push, pull request, final update, catch and finally.

*Interaction.* API and worker meet only in the database and in Redis. Nothing
locks a row across two queries: each handler reads, decides and writes in
different awaits, and the worker's last update asks nobody.

*Hard.* Requests that overlap each other and an execution; a process that dies
between two awaits (nothing records who has popped a job); Redis or database
calls that fail between two dependent writes; directories and branches that
outlive the run that made them.

*Correct when* a job shown as active is really being driven; the concurrency
limit holds; two executions of one job do not use the same directory; nothing is approved
or completed without a pull request and, unless its risk is LOW, a human; queued jobs are
taken.

### 1.2 Tunnel (proxvn-tunnel)

*State.* Server: `clients`, `availablePorts`, `usedPorts`, `portReservations`,
`proxyWaiting`, `httpRequests`, the HTTP proxy's subdomains, a `clientSession`
per control connection (encoder, listener, `done`, `closeOnce`) and
`connSemaphore`. Client: `key`, `remotePort`, the control connection, counters,
UDP sessions.

*Operations.* Accept and handshake, registration, listener, control loop,
heartbeat checker, `removeClient`, `Close`; the proxy handshake
(`handlePublicConnection`, `dispatchProxyConnection`, `cancelProxyConnection`,
the client's `handleProxy`); HTTP requests (`SendHTTPRequest`,
`handleHTTPResponse`, the client's `handleHTTPRequest`); UDP sessions; rate
limiting; the client's loops per session (heartbeat, traffic, display, UDP
reader, ping and handshake retry); the file server and a management API.

*Interaction.* A goroutine per connection, joined by four mutexes, by channels of
capacity one, and by the messages of the control connection.

*Hard.* Several goroutines wind up one session; reconnects with the id and the
key of a session that is still there; time-outs that race with the answer;
sockets whose owner changes; resources (ports, subdomains, semaphore slots)
that must come back on every path; client loops that notice the end of their
session late and find the fields of the next one, or none; datagrams that
arrive after the session they belong to.

*Correct when* the pool neither loses nor doubles ports; a removal touches only what
belongs to the session removed; a waiter gets one answer, its own; sessions,
listeners and copies end when a peer has gone; no socket is left behind by a session
that ended or was replaced; the client survives the loss of its connection, which it
does not.

### 1.3 WAF (mango-waf)

*State.* `sync.Map`s of bans, connection counts and fingerprints; token buckets;
atomic statistics; attack state and stage; challenge sessions and proof
cookies; upstream pools with health; the response cache; alert cool-downs; the
memberlist; the XDP map.

*Operations.* `Process` and its layers, `banIP`, `isBanned`, `Cleanup`, gossip
delivery and broadcast, connection callbacks, `rpsCounter`, `attackDetector`,
challenge issue and check, backend choice and health check, caching, alerts.

*Engines.* What `Process` asks: the limiter, the ClientHello reader and the
fingerprint store, threat feeds and reputation, the rules, the behaviour profile,
the bot classifier, the learner. Each has its caches, windows and thresholds.

*Hard.* Maps that are atomic per operation only; two tickers that exchange samples
through one integer; gossip that is lost, late or repeated; clean-ups that race
with renewals; a map of buckets swapped under its users; verdicts and reputations
that are cached and shared by address; some fifty thresholds whose combinations
nobody has tried; lengths that a peer announces.

*Correct when* bans last as long as decided and then end everywhere; counters
count; limits limit; nothing is served without the proof the mode asks for, and an
honest browser can always get one; a ban needs evidence that is current; stricter
rules do not block less; an attack is noticed and its end too.

### 1.4 Editor extension, front ends

State is the list of accounts with their cool-downs and the index of the current
one. The rest is user interface.

Every component, with its sources and what is done about it, is in
`PROJECT.json` under `components`; what is hard to test, line by line, under
`hazards`.

## 2. Modules

| module | models | composed with |
|---|---|---|
| `JobLifecycle` | API handlers, queue, worker, executor, git effects | |
| `TunnelRegistry` | sessions, port pool, reservations, client table, subdomains, listeners, heartbeat | |
| `Rendezvous` | abstract: what a waiter on the server is promised | implemented by the next two |
| `ProxyRendezvous` | one TCP connection through the tunnel, server and client | `INSTANCE Rendezvous` |
| `HttpTunnel` | one HTTP request through the tunnel, server and client | `INSTANCE Rendezvous` |
| `TunnelClient` | the client's control connection over several sessions, and its loops | `MCEngines`, `MCTunnelClient` |
| `UdpSessions` | UDP sessions on both ends over several registrations | `MCEngines` |
| `BanMesh` | ban tables, clean-up, XDP copy, gossip | |
| `ReverseProxy` | upstream pools with health checks, forwarding, response cache | |
| `Shield` | the request pipeline, its layers and the challenges, for a visitor and the addresses it names | `MCShield` |
| `AttackWatch` | the counting of requests, the attack detector, alerts | `MCShield` |
| `ConnGuard` | accepting, sniffing, connection counts and limits, the fingerprint store | `MCEngines` |
| `RateLimiter` | token buckets and the replacement of their map | `MCEngines` |
| `ClientHello` | the reader of ClientHello messages | `MCEngines` |
| `Fingerprint` | JA3, known clients, the composite score of requests on one connection | `MCEngines` |
| `Intel` | threat feeds, reputation cache, reserved ranges, geography | `MCEngines` |
| `BotWatch` | behaviour profile, bot classifier and its cache, the detector's bucket | `MCEngines` |
| `Filtering` | the loop that copies what passes a test out of a list | `Fingerprint`, `Rules` |
| `Learner` | hourly windows, calibration, recommended challenge | `MCEngines` |
| `Rules` | built-in and custom rules, the verdict of `Inspect` | `MCEngines` |
| `MC...` | model values, symmetry; `MCEngines` and `MCShield` join parts that share no variable | extends its components |
| `...Proofs` | theorems about its component; `TunnelClientProofs` also about `UdpSessions`, `WafProofs` about the WAF's modules except `BanMesh` and `ReverseProxy` | extends its components |

`MCEngines` and `MCShield` have a variable `focus`, chosen once: a behaviour
exercises the part it names and leaves the others alone. The parts share no state in
the code either, so nothing is lost by not interleaving them. Fairness is asked of the
steps of the part that is exercised; the connections of one port, which nothing tells
apart, are symmetric in `MCEngines`, whose run has no liveness property.

### 2.1 JobLifecycle

Every await on whose outcome the control flow depends is a step: a status that
was read may be stale when it is used. `UpdateRead`/`UpdateWrite` are the two
halves of `updateJobStatus`, `CancelRead`/`CancelWrite`, `RetryRead`/`RetryWrite`,
`DecideRead`/`DecideMark`/`DecideWrite` those of the handlers. `zpopmin` is a
round trip (`PollIssue`, `PollPop` or `PollNothing`, then `StartJob` or
`PollReplyLost`). `Throw` lets every await of the try block reject. `Crash`,
`ShutDown`, `StopWaiting`, `Exit` and `Restart` are the process's life (the
compose file restarts it); the workspace volume survives. `stranded` is a history
variable: the jobs that a named failure has cut off from what drove them.

Assumed: git's check for an empty directory is atomic with the creation of its
first file; nobody deletes work branches on the remote; the LLM agents' answers are
any plan, any change, any score. `Step`, `Log` and `Run` rows, tokens and cost
and the notification channel are written and never read by the control flow.

The risk of a job starts at MEDIUM and is only ever raised: no code assigns LOW, the
level that `risk-levels.ts:48` and `job-states.ts:49` let merge by itself
(`canAutoMerge`). `HumanGate` therefore speaks of the other levels, and the branch
that completes a job without a human is modelled and never taken.

### 2.2 TunnelRegistry

A session is a connection with three goroutines: handler (`pc`), listener
(`lpc`), heartbeat checker. Each critical section of `portMu`, `clientsMu`,
`session.mu` and the proxy's `mu` is one step; `removeClient` keeps
`clientsMu` until the port is released, which `clientsMuFree` expresses.
`availablePorts` is a sorted slice of which the code takes the first element, so
it is modelled as the number of times each port occurs: a count above one
would be a port listed twice. A reservation past its expiry is refused by its only
reader whether or not it was deleted, so expiry is one step. `Return` forgets what
only the finished handler could read. `Peek` without deadline is why the
handshake has no time-out of its own.

### 2.3 ProxyRendezvous and HttpTunnel

Both have the same shape and both implement `Rendezvous`: a request is put, the client
may reply once, late or never, and the request is settled once, with the client's own
reply or by giving up. `ProxyRendezvous` goes on to the four copying goroutines
and the closing of six socket ends; each copier alternates between a `Read` and a `Write`
that has no deadline, so a peer that stops reading holds it. The client of this repository
answers an ID once, so the branch of `dispatchProxyConnection` that waits for room in the
channel is dead and left out (`RoomToSend` in the proofs); a client that repeats a "proxy"
message is not modelled.
A data connection that breaks is one whose end is closed. Proxy and request ids
are 128 random bits and are taken to be unique. In `HttpTunnel` a session loses its
route, its link and its `done` in any order, which contains every order
`TunnelRegistry` can produce; the main domain's own pages are left out.

### 2.4 BanMesh

Handlers are goroutines (requests, connection callbacks, gossip deliveries);
every `Load`, `Store`, `LoadOrStore` and `Delete` of the `sync.Map` is a step.
Time is in ticks and a table entry is the time left. A tick does not pass between a
goroutine's reading of the clock and its `Store`; it may pass anywhere else.
Gossip is a set of messages with their age: delivery leaves the message in
place (repetition), `Lose` ends it. `bound` is a history variable: how long what
was decided and announced so far can keep an address banned. The system
commands for ipset and iptables are not tracked.

### 2.5 ReverseProxy

The health checker is one goroutine: it takes the mutex of a pool, probes its
backends one after the other (`Probe`) and lets go (`UnlockPool`). A request runs
through `ChoosePool`, `Pick` under the same mutex, the cache (`CacheHit`, or
`CacheMiss` and the `CacheDel` of an expired page), and `Forward` with `Store`, or
`proxyWebSocket`. `up` says whether a backend would pass a probe; backends fall and
recover at any time, also between two probes and while a request is with them.
Which pool a host gets depends on `strings.Contains` over a map in random order, so
every pool whose name the host contains is possible. A page is the time left to its
`Expiry`, one per host, with the kind of request it was fetched for. `neverDown` and
`skipped` are history variables. Failures beyond the third are not counted, as nothing
reads them.

### 2.6 TunnelClient and UdpSessions

`TunnelClient` is the struct `client` of `cmd/client/main.go` over the sessions of
`run`: `connectControl`, `setupUDPChannel`, the receive loop, `closeControl` and the
next round. A channel is named by its field and by the session it was made for,
so a loop that reads a field late may find the channel of the session after its own,
or nothing. Each loop has a step for its wait and a step for what it does with the
field, because the tickers and `closeControl` are not synchronised. `followed` picks
which loops of a behaviour are looked at; a loop influences another only by a panic.

`UdpSessions` has the map of sessions of both ends, the client's socket, reader and
backend timer per session, the server's key and last address, and a network that
loses, repeats and reorders datagrams. A datagram is who it is for, under which key it is
sealed, if any, and which registration's socket it belongs to. `handleUDPDataPacket` is
three steps (`DataOpened`, `DataFindsSession`, `DataWritten`), since no lock is held between
the decryption, the lookup and the `Write`: a reader of an earlier registration may write to
the session that has the identifier by then, and an end without a key takes plain text.
`startBackendWait` and `cancelBackendWait` know only the identifier, which may have been
opened again since. Nothing in the repository sends `udp_open`, so its sender is the
environment. `stopUDPPing` closes a channel; the ping loop notices later (`udpPingLoop`).

### 2.7 Shield and AttackWatch

`Shield` is one visitor: `handleRequest` takes a verification or sends the request
through `Layers`, in the order of the code; of those that hit, the first decides. What
an engine says of a request is an input (`finds`, `fp`), load and alarm too.
A proof cookie is the address it was issued for, and its age. An address is what
`extractIP` makes of a request: it believes `X-Forwarded-For` and `X-Real-IP`, so the
visitor may name any (`ChangeAddress`), and the WAF may remember nothing of that one or as
much as of the last. Addresses are taken to contain no underscore, the separator of the
cookie. `AutoStage`
is the decision table of mode auto with all of its thresholds. `honest` marks a
browser to which no engine objects and which answers what it is asked.

`AttackWatch` has three tickers: `rpsCounter` publishes, `attackDetector` compares,
`adaptiveSampler` copies. In every second each ticks once, in any order; hence a
sample may be read twice or overwritten unread.

### 2.8 The engines

* `ConnGuard`: `Accept`, the two `Peek`s, the `ConnState` hook with the load and the
  store of the counter as two steps, the handshake's entry in the fingerprint store
  under host and port, and the request that looks it up. Ports are reused.
* `RateLimiter`: the read-locked lookup, the second look under the write lock, the
  bucket a handler keeps, and the whole map replaced meanwhile. Time is integral.
* `ClientHello`: cursor and lengths; whatever a length field says is any number up
  to `MaxField`. Bytes read are remembered as a range. The message lies in the buffer of
  the sniffer's `Peek`, behind whose end a slice panics (`BufferRoom`).
* `Fingerprint`: what becomes of a hello on its two ways, through the sniffer as it is and
  through the interceptor out of what `crypto/tls` hands over, without extensions and with
  a version made up from the supported ones (`extractFromStdlibHello`); the composite
  of JA3 and User-Agent; requests of one connection share an entry. The hashes of
  `InitKnownBrowsers` are taken to be of hellos with extensions, as JA3 hashes of browsers
  are.
* `Intel`: feeds that fail or not, a cached report with its age, reserved ranges,
  allowed and blocked countries, the sum of penalties and the verdict.
* `BotWatch`: the profile's counters, the bands each analysis sorts them into, their
  weighted sum, the classifier's verdict and the cache in front of it. What depends on
  the clock or on URL statistics is any of its bands.
* `Learner`: windows of samples per hour, calibration as a range (the standard
  deviation of values between 0 and the peak is at most half the peak), the level.
* `Rules`: the 26 built-in rules with level, targets and action, the defaults of the
  custom file, `Inspect`. A request is which patterns occur in which of its parts. The
  body is never read, so its value is the empty string, which some patterns match.

## 3. Runs

| run | instance | shows |
|---|---|---|
| `job_race` | 1 job, 2 executors, 2 requests, 2 retries, no crash | `NoSilentOrphan`, `WorkspaceMutex`, `AskedOnce`, `HumanGate` when one job is executed twice at once under competing requests |
| `job_live` | 1 job, 2 executors, concurrency 1, 1 request, 1 retry, 1 crash or shutdown | `QueueDrains` with crashes at every await |
| `registry_pool` | 3 connections of 2 processes with the same id, 2 ports, 2 subdomains, 2 slots | `PortPartition`, `RouteIsMine`, `EvictsOnlyItself`; leaks exhaust the pool, so the fallback port is used |
| `registry_live` | 1 process that reconnects, 2 ports, TCP and HTTP | `ListenerDiesWithSession`, `ClosesDown` |
| `proxy` | 1 visitor, blocked writes included | `OnlyLateConnectionLeaks`, `HangUpPropagates`, refinement of `Rendezvous` |
| `http` | 2 requests, 2 sessions | `VisitorAnswered`, refinement of `Rendezvous` |
| `upstream` | a domain with 2 backends and one with none, a host of the first and a host of neither, 1 visitor that sends request after request | `AlwaysUpServes`, `HealthNoticed`, `RequestRouted` |
| `bans` | 2 nodes, one with XDP, 2 handlers, 1 decision, bans of 1 and 2 ticks | `MeshBanBounded`, `BansEnd` |
| `shield` | one visitor that names two addresses, in all six modes, and an honest one in the four that can admit it; requests of every trust and with every finding, calm and under attack; a bucket of two, one refusal before a ban, proofs and forms of one tick; loads around a threshold of one | `ProofNeeded`, `VisitorAdmitted`; `SustainedAttackNoticed`, `AttackEnds` |
| `engines` | see below | one property per engine |

What `engines` shows, part by part:

| part | instance | property |
|---|---|---|
| limiter | 2 handlers, 2 replacements of the map | `BurstBound`: an address gets one bucket per map and no more, and no bucket gives more than its burst and its refill |
| guard | 3 connections from 2 ports, limit 2 | `FingerprintIsOwn`: a request is judged by the hello of its own connection, also on a reused port |
| hello | every message of up to 56 bytes, announced lengths up to 9 | `HelloReads`: nothing behind the message is read but one byte of the buffer, when the cipher list has an odd length and ends the message; the panic happens only when such a message fills the buffer |
| fingerprint | 2 requests on a connection, two GREASE values | `FingerprintBand`: the sniffer turns away tools only; with the interceptor every client has the score of an unknown one, 25.75; without it each request is judged inside the band of its client, whatever User-Agents are claimed |
| intel | 2 feeds, reports around every threshold, reports kept 2 ticks | `BanNeedsEvidence`: an address is banned on evidence that is current |
| bots | thresholds scaled to 2, 3 and 4 requests, 4 User-Agents | `DdosVerdictExtreme`, `BotVerdictEarned` |
| learner | 2 hours, windows of 2 samples, 5 rates | `ChallengeNeedsSpike`: traffic like that learned is not challenged, also in an hour that was idle |
| rules | all levels, custom files of up to 2 of 4 rules, 2 patterns in a request | `InspectStrict`: a higher level or more patterns never block less |
| client | 2 sessions, each loop | `OneControlSocket`: no reconnect leaves a UDP control socket of an earlier connection open or in use |
| udp | 3 openings of one identifier at both ends together, 2 registrations | `SocketsOwned`: no backend socket is left behind, and none of the map is closed |

*Why the bounds are enough to be interesting.* Every race the hazards name is between
two actors over one object, and each instance has two of the actors and one or two
of the object: two executors and two requests on a job, a session and its
successor under one id, handler, dispatcher and client over one visitor, two handlers and
a clean-up on one table entry. Three connections with two ports and two slots let one
session be replaced and leak while another finds the pool empty. A retry bound of two
lets a job run three times and twice at once. Where the code has no bound
(`MaxRetries`, `MaxCrashes`, `MaxDecisions`) the theorems below do not depend on it.
In `upstream` a pick is atomic under the mutex, so one visitor that never stops makes
every sequence of picks; what several visitors do to the cache is covered by the theorem.
In `proxy` visitors share only the control connection and a map keyed by random IDs, so
one is enough for the temporal properties; the invariant is proved for any number.
Deadlock is checked in the job runs and in `upstream`; elsewhere the system may come to rest (all
sessions or requests done), and the configurations say so.

The engines keep their thresholds as constants where the code counts up to them and
literally where a number is compared (`AutoStage`, the scores of `BotWatch`, `Intel`
and `Fingerprint`): the instance has inputs on both sides of each.

Two runs show what the code does against its own documentation; each is a
finding in `PROJECT.json`:

| run | violated | what happens |
|---|---|---|
| `job_terminal` | `TerminalStatusesAreFinal` | a cancelled job is executed and ends as AWAITING_APPROVAL or FAILED |
| `client_crash` | `ClientSurvives` | the connection fails while a loop is between its ticker and its use of the encoder or the status channel, which `closeControl` has cleared or closed: the client panics instead of reconnecting |

### Fairness

* `JobLifecycle!Fairness`: the poll loop is an endless loop with a sleep, the
  compose file restarts the process (`restart: unless-stopped`), and Redis serves
  infinitely many of the polls (strong fairness of `PollPop`; a poll that fails is
  repeated). That every await of an executor settles (weak fairness of `ExecStep`) is an
  assumption about the environment and not a promise of the code: `git clone` and
  `git push` have no time-out and `timeoutMs` of a job is enforced nowhere. A worker
  whose slots are all held by such calls takes no job; `QueueDrains` is to be read under
  that assumption, and no property claims that an execution ends.
* `TunnelRegistry!FairSpec`: goroutines are scheduled; a handler only waits for
  data, so its steps are fair once the link is lost; a link that died silently is
  closed by the heartbeat checker, whose ticker fires. Nothing is assumed of clients.
* `ProxyRendezvous`, `HttpTunnel`: handlers run, the ten and thirty second timers
  fire, a blocked read or write fails when an end is closed. A write to the other process
  returns while its copier keeps coming back to its `Read`; a write to a visitor or a
  backend may block for ever, and `HangUpPropagates` excepts exactly that.
* `BanMesh!FairSpec`: time passes (strong, because a tick is excluded during a
  `Store`), a message is retransmitted a limited number of times
  (`TransmitLimitedQueue`), handlers go on, `cleanupWorker` ticks for ever.
* `ReverseProxy!FairSpec`: the checker's ticker fires and its probes time out (weak
  fairness of `runHealthChecks`), and `sync.RWMutex` hands the mutex to whoever waits
  long enough (strong fairness of picking). Nothing is assumed of backends and visitors,
  nor of a request once its backend is picked: only the headers of an answer have a time-out
  (`proxy.go:67-77`), so forwarding, storing and a websocket may last for ever, and
  no property claims that they end.
* `Shield!ShieldFairness`: the honest visitor goes on browsing and answers what it is
  shown; time passes (strong, since a request may come first for ever); bans run out.
  It is used for `VisitorAdmitted` only, which says nothing of visitors that are not honest.
* `AttackWatch!WatchFairness`: the three tickers fire and seconds pass.

## 4. Proofs

All for any values of the constants that satisfy the named assumptions
(`ConstantsAssumption`, `RegistryAssumption`, `NoneAssumption`, `BanMeshAssumption`,
`ReverseProxyAssumption`, `ClientAssumption` and one per engine), hence for any
number of jobs, sessions, visitors, nodes or backends. `BotAssumption` orders two
thresholds as the code does (`behavior.go:270,281`: 20 requests are fewer than 50).

* **JobLifecycle.** `TypeCorrect` is inductive as it stands: it contains that a busy
  executor or handler has a job. `NoSilentOrphanHolds` is inductive relative to it;
  `ExecShapes` first reduces the 23 executor steps to six shapes (one that keeps
  driving its job without making another active, and the five that end it).
  `WorkspaceMutexHolds` needs `CtxInv`: an execution that has its directory never
  comes back to the clone. `AskedOnceHolds` and `HumanGateHolds` share `GateInv`: one
  execution of a job at most is between push and question (`PushInv`, because
  the branch exists from then on), no code assigns the risk that merges by itself, and a
  handler about to set a status has stored its decision (`DecisionInv`). Steps that
  touch none of this are `Quiet` and are dealt with once. `ConcurrencyBoundHolds` adds
  `SlotInv`: the slot is free from the poll on, since nothing else starts a job.
* **TunnelRegistry.** The inductive invariant `RegistryInv` joins the properties with
  `Early`: what a handler that has not got far cannot have set (a port, a subdomain, a
  listener). `UniquePorts` rests on `PortPartition`: a holder's port is in `used`, so it
  is not listed and neither branch of `getNextPublicPort` gives it out again.
  `BindConflictHolds` then follows from `UniquePorts` and `ListenerDiesWithSession`
  without an induction of its own. `EvictsOnlyItselfHolds` is an action property.
* **ProxyRendezvous, HttpTunnel.** `Order` says how far dispatch, cancellation and
  the client can be while the handler is at a given place; with it and with `RoomToSend`
  (a connection is dispatched into an empty channel) `OnlyLateConnectionLeaks`,
  `NoStaleWaiter` and `NoStaleRequest` are inductive, and every step maps to a step of
  `Rendezvous` or a stutter (`ImplementsRendezvous`, the safety half `SafeSpec`).
* **BanMesh.** `MeshBanBounded` is not inductive: a renewal under way and a message
  in the network may still raise an entry. `PendingBounded` bounds both: a
  renewal by `bound`, a message of age `a` by `dur + Fresh - a <= bound`, which
  a tick preserves because both sides fall by one.
* **ReverseProxy.** `RoundRobin` is not inductive: how often a backend may still be
  passed over depends on the pointer. `TurnInv` adds its `Distance` from the pointer:
  passed over plus distance stays below the size of the pool, since a pick of the
  n-th backend looked at brings every living one behind it n + 1 nearer.
  `AlwaysUpServes` needs that a backend which never failed is up (`UpInv`), and
  `BypassNotStored` that what is about to be stored may be (`StoreInv`).
* **TunnelClient, UdpSessions.** `OneControlSocket` is not inductive: a dial would leave the
  socket of the last connection in the field. `SocketInv` adds that there is none from the
  third step of `closeControl` on until the next registration has been answered.
  `UdpInv` has two halves: `WireInv`, the types of the server's end and of what is under way;
  and `MapInv`, that the client's map names each session under its own identifier, without
  which a late reader or timer that removes by identifier could close a socket it does not
  own.
* **Limiter and front door.** `LimiterInv` bounds what every bucket holds and has given
  together, at its last refill; `BurstBound` alone says nothing of what it holds. A bucket
  more than maps thrown away exists only while the map has one. `GuardInv`
  says that live connections have different ports and that one being served finds
  itself; `FingerprintIsOwnHolds` assumes `JA3Enabled`, as all four sample configurations
  have it: without it an unreadable hello leaves the entry of the port's last owner.
* **ClientHello.** The cursor may point anywhere after a length that lies; `HelloInv`
  bounds it only where it is used next, and the end of the extensions. The bytes that
  the headers of record and handshake take off the buffer leave the message inside
  `BufferRoom`, so the odd byte is the only one that can pass it.
* **Intel, BotWatch.** `CacheInv` and `BotInv` relate what is cached to when it was earned:
  a report was given no longer ago than its entry is old, a critical verdict is
  at least as old as the request that last earned one. The rest is arithmetic on
  penalties and weights: `ScoreEvidence`, `DdosScore`, `CriticalSignature`.
* **AttackWatch.** `WatchInv` says what a detector that ran before the counter has read.
* **Shield.** `EscalationEverywhere` is about the operators of the last layer alone:
  `StageMonotone` for the decision table, `RaisedMonotone` for the learner. Of the whole
  pipeline it would be false: an empty bucket is answered with the proof of work
  (`pipeline.go:199-213`) where the last layer would ask for a captcha or drop.
  `ProofNeededHolds` is an action property: `LayersGuarded` shows of each layer that it lets
  a clean request in only on a valid proof, and `ProofInv`, that a proof is at least as old
  as the last verification of the address it was issued for, turns that into a statement
  about the history `proven`, for every visitor and any changes of address.

* **Induction over data.** `Fingerprint`, `Rules` and `Learner` compute with loops over
  lists. The library's induction theorems take a formula as a parameter, which the
  installed provers cannot instantiate; the same induction for a *set* of naturals
  (`NatSetInduction`) follows from the well-founded order of the naturals, and suffices.
  The loops are recursive functions over the positions of the list (`Keep`, `Total`);
  `KeepRecursion` and `SumRecursion` show that such functions exist, which a
  definition by recursion takes for granted. `KeepValues` says which values a
  selection has, `KeepTakesOut` that a value failing the test vanishes wherever it stands
  and the rest keeps its order, `TotalBound` that a sum is at least its length times any
  lower bound of its terms.
* **Fingerprint.** `GreaseFiltered` and `JA3Names` give every hello the sniffer sees the name
  of its client, `JA3Converted` none to what the interceptor makes of it;
  `CompositeInBand` bounds the scores. `FpInv` says that the entry the requests share is in
  the client's band once anybody has written it, so whose score is read does not matter.
  `FpAssumption`: what a browser puts in as GREASE is what `isGREASE` takes for it.
* **Learner.** `LearnerInv` keeps a common bound of the peaks, without which their maximum
  need not exist, and that a threshold is 0 or at least the smallest. The mean of a window
  is not below its least sample (`TotalBound`), and `LevelNeedsSpike` carries that over to
  the level.
* **Rules.** `InspectDecides` replaces the loops by what they decide: `Inspect` blocks
  exactly when a rule of its list objects, with the action of such a rule. `RulesInv`
  says that the verdict is that on all patterns found, by rules that are built in (none of
  which drops, `OwaspTame`) or entries of the file with their defaults, and that the
  built-in ones of the level are among them. `RulesAssumption` gives the entries the
  fields of the struct `Rule`.

*Proved, not in a run.* `UniquePorts`, `BindConflict` (a registration is told a port
that is still bound only by a session about to close), `NoStaleWaiter`,
`NoStaleRequest`, `RoundRobin`, `BypassNotStored`, `ConcurrencyBound`, `AbovePeaks`,
`EscalationEverywhere` and the type invariants of
`JobLifecycle`, `BanMesh` and `ReverseProxy` hold for every size by the theorems
above, so no run repeats them on a small one.

*Only model-checked.* Liveness (`HealthNoticed`, `RequestRouted`, `QueueDrains`, `ClosesDown`, `HangUpPropagates`, `VisitorAnswered`, `BansEnd`,
`VisitorAdmitted`, `AttackEnds` and the liveness half of `RefinesRendezvous`) is out of
the prover's reach. Every invariant and every action property that a passing run checks
is also proved.

## 5. Observations without a run

### Jobs

* No code assigns the risk LOW, so nothing merges by itself although
  `risk-levels.ts:4-14,48` and `job-states.ts:49` provide for it.
* `index.ts:57` pops a job before anything records who has it, and `jobs.ts:57` enqueues
  after it has created the row: a crash, a lost reply or a failing Redis in between leaves
  the job QUEUED for ever. Both are strandings `NoSilentOrphan` names.
* `git.ts` runs clone and push without a time-out, and `timeoutMs` is enforced nowhere.
* `executor.ts:92-93` overwrites a CRITICAL risk by a HIGH of a later run.
* `executor.ts:182` reviews the diff of two commits before the commit is made, so
  the reviewer sees no changes.
* `approvals.ts:82` sets a job to CODING without enqueueing it; a human has to cancel it.
  It is one of the strandings `NoSilentOrphan` names.
* `approvals.ts:57-68`: two decisions that overlap both find the approval undecided, and
  the later one replaces the earlier (`DecideRead`, `DecideMark`), although line 63
  answers "already decided" to a second one.
* `git.ts:37`: the directory a crash leaves behind makes every later clone of that job
  fail; `git.ts:69`: a retry of a run that has pushed is refused by the remote.

### Tunnel

* `cmd/server/main.go:1364`: a session replaced under its id never gives its port back,
  although the comment there says "Still release the port back to pool";
  `1385-1387`: nor does a replaced HTTP session unregister its subdomain.
* `cmd/server/main.go:1067`: a data connection dispatched to a waiter that has just timed
  out stays open, although the comment says "Don't close immediately here,
  responsibility passed to handlers".
* `cmd/server/main.go:1367-1380` puts a reserved port back into the pool, where it is
  given to the next client although it is announced as reserved for five minutes;
  `wiki/HTTP-Tunneling.md:285` likewise promises a subdomain across reconnects.
* `cmd/server/main.go:1502-1504`, `1528`: an empty pool hands out its first port, in use.
* `cmd/server/main.go:1031`: `dst.Write` has no deadline; while a visitor or a backend that
  has stopped reading keeps its connection open, the hang-up of the other side reaches
  nobody behind it.
* `cmd/client/main.go:760`: the deferred `stopUDPPing` of an old session's reader stops the
  ping of the new one; `1084-1104`: a handshake retry of an old session that gives up closes
  the new one's socket; `885`, `900`: readers and timers of UDP sessions act on whichever
  session has their identifier.
* `cmd/server/main.go:708`: `Peek` without deadline keeps a slot of `connSemaphore`
  for a peer that sends nothing.
* `cmd/client/main.go:648`: the count of active sessions is not lowered when the
  dial to the server fails.
* Neither end ever sends `udp_open`, and the server opens no public UDP port, so a UDP
  tunnel carries no data (`docs/COMPLETE_GUIDE.md:46` shows a "Public UDP Port").
  The server's pong echoes the identifier field, so the client's round-trip time is read
  from a shifted timestamp. `startBackendWait` resets `idleCount`, so
  `backendIdleRetries` is never reached. The time-out of `udpHandshakeRetry` closes
  a channel that became ready since its last look. The server's `handleUDPOpen`
  overwrites a session without closing it, and does not close those of a client
  that has gone.

* Management API: the schema makes identifiers of 32 hexadecimal digits while
  `uuid.String()` writes them with dashes, so deleting a user by the identifier the API
  lists answers "user not found"; `CreateTunnel` and `CreateConnection` have no caller.

### WAF

* `pipeline.go:600` and `711`: `isBanned` and `Cleanup` load an expired entry and
  delete by key; a ban stored in between is deleted while it is live. The
  first removes it without counting `BannedIPs` down or telling XDP; the iptables
  fallback at 694 has no time-out.
* `pipeline.go:571`: connection counts are loaded and stored in two steps and drift.
* Bans for too many connections are not announced, although `mango-waf/README.md:281`
  says that other nodes ban at once.
* `early_reject.go:93` lifts the deadline before the second `Peek`, in the accept loop: a
  peer that stops there stops every later connection; and a rejected tool is an error of
  `Accept`, which ends `Serve`.
* Challenges: silent mode never leads to a `mango_proof`; the difficulties for
  `rate_limited` and `bot_suspicious` are not capped at 6 as the others are, while the default
  `PowDifficulty` in code is 3000000 and 3 in `default.yaml`; in calm traffic a visitor of low
  trust never gets a captcha though one of medium trust does; with a limit below 7
  the alarm makes the answer to medium trust milder (`EscalationEverywhere` is therefore
  about limits of seven and more, and compares a visitor only with one of the same trust);
  `extractIP` (`server.go:508-522`) believes `X-Forwarded-For` and `X-Real-IP`, so the
  address of a proof, of a bucket and of a ban is the one the request names; a verification is accepted from a banned address;
  `RateLimitHits` is never reset.
* Never read or called: `pipeline.validator`, `TrustScore`, `WhitelistIP`,
  `AddBlacklist`, `AddWhitelist`, `CleanupExpired`, `RemoveRule`, `EnableRule`,
  `DisableRule`, `AttackDetector.Analyze`, `ParseH2Frames`, `DetectAnomaly`, `SendBan`,
  `SendReport`. SIGHUP replaces the global configuration, which the parts have copied.
* Fingerprints: no JA4 is known and the HTTP/2 table is keyed by names instead of hashes.
  `extractFromStdlibHello` (`interceptor.go:119-171`) fills in no extensions, so with JA3 or
  JA4 enabled no client is known behind the handshake and every composite is 25.75; without
  them the composites of the sniffer's entry are below 20 for a tool, 25.75 for an unknown
  client and from 44.25 to 63 for a browser. Nobody reaches the fast track.
  `tls_parser.go:92-93` takes two bytes where a cipher list of odd length has one left, and
  panics when that byte is behind the peek buffer of `early_reject.go:65`.
* Intelligence: the country is always "XX" and the ASN 0; a failed query is
  cached as a default reputation; entries of feeds are never removed.
* Detection: a behaviour ban needs more than three User-Agents; `Analyze` is always told
  that the response was 200; a known tool's JA3 does not raise the classifier's threat;
  the learner compares one address's rate with the mean of the whole site.
* Rules: the last blocking rule decides, so a later custom "block" turns a "drop" into a
  mere block; "challenge" rules have no effect; rule 920100 does not compile (no look-ahead
  in Go's regexp), 920170 looks for a header's name among values; the body is never
  read, so a rule on it sees the empty string; `default.yaml:233` speaks of 28 rules, there are 26.
* `upstream.go:80-85`: a host that contains the names of two domains gets either pool,
  by the random order of the map; `mango-waf/README.md:167-176` gives each its own backends.
* `proxy.go:19` picks a backend before it looks into the cache: a cached page is not
  served when no backend is alive.
* `proxy.go:132` dials the backend's URL with its scheme as an address, so the upgrade to a
  websocket fails for backends configured as the sample configuration does.
* `api/dashboard.go:140-151` answers "purged" and purges nothing.
* `cache.go:205-209` caches any "public" answer, of any status, while
  `mango-waf/README.md:49` speaks of static files; `cache.go:177` deletes by key, so an
  answer stored since the expired one was read goes with it.

## 6. Not modelled

Prompts, file contents and code generation; SQL, JSON and TLS; signature texts, the
HTTP/2 frame parser and silent JavaScript of the WAF; challenge pages, command lines,
statistics and logs; the file server; the management API, which wraps single SQL
statements; the tunnel server's counting windows (their refusal is an action); patching
of editor files and the front ends. They are data or I/O around the control that is
modelled, or hold no state. The account rotation of the editor extension holds
state, and is the first component to add. The reason for each part is in
`PROJECT.json`.

## 7. Plan

1. Proofs: what the ClientHello parser returns for every well-formed message, now that
   loops over data can be reasoned about; the type invariants of `Shield` and `ConnGuard`.
2. `Accounts`: rotation with cool-downs and the retries of a request over accounts
   in the editor extension.
3. The tunnel server's rate limiter and the token store of its file server.
