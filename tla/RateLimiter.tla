---------------------------- MODULE RateLimiter ----------------------------
(***************************************************************************)
(* perf.IPRateLimiter of the WAF, as one address sees it: a map from       *)
(* addresses to token buckets, looked up under a read lock, filled under   *)
(* the write lock after a second look, and replaced as a whole by          *)
(* cleanupLoop once other addresses have filled it.  Handlers keep the     *)
(* bucket they found, whatever happens to the map meanwhile.               *)
(***************************************************************************)
EXTENDS Integers, Sequences

CONSTANTS
  Handlers,   \* request goroutines of the address
  Capacity,   \* burst
  Rate,       \* tokens per unit of time
  MaxTime,    \* bound on the clock
  MaxSwaps    \* bound on the maps cleanupLoop throws away

ASSUME LimiterAssumption ==
  Capacity \in Nat \ {0} /\ Rate \in Nat /\ MaxTime \in Nat /\ MaxSwaps \in Nat

VARIABLES
  limiter,   \* rl.limiters[ip]: an index of buckets, 0 when the map has none
  buckets,   \* every bucket ever created, in order of creation
  handler,   \* where each handler is, and the bucket it holds
  clock,     \* time.Now()
  swaps      \* how often cleanupLoop has replaced the map (history)

limiterVars == <<limiter, buckets, handler, clock, swaps>>

\* tokens and lastTime as in the code; born and taken are history.
TokenBucket == [tokens : Nat, last : Nat, born : Nat, taken : Nat]

NewTokenBucket == [tokens |-> Capacity, last |-> clock, born |-> clock, taken |-> 0]

Idle == [at |-> "idle", held |-> 0]

LimiterInit ==
  /\ limiter = 0
  /\ buckets = <<>>
  /\ handler = [h \in Handlers |-> Idle]
  /\ clock = 0
  /\ swaps = 0

\* Allow, the look under the read lock.
AllowRead(h) ==
  /\ handler[h].at = "idle"
  /\ handler' = [handler EXCEPT ![h] =
       IF limiter # 0 THEN [at |-> "found", held |-> limiter]
                      ELSE [at |-> "missed", held |-> 0]]
  /\ UNCHANGED <<limiter, buckets, clock, swaps>>

\* Mutant: the second look was forgotten: each handler that missed makes a bucket.
AllowCreateUnchecked(h) ==
  /\ handler[h].at = "missed"
  /\ buckets' = Append(buckets, NewTokenBucket)
  /\ limiter' = Len(buckets) + 1
  /\ handler' = [handler EXCEPT ![h] = [at |-> "found", held |-> Len(buckets) + 1]]
  /\ UNCHANGED <<clock, swaps>>

\* Allow, the second look and the creation under the write lock.
AllowCreate(h) ==
  /\ handler[h].at = "missed"
  /\ IF limiter # 0
     THEN UNCHANGED <<buckets, limiter>>
     ELSE /\ buckets' = Append(buckets, NewTokenBucket)
          /\ limiter' = Len(buckets) + 1
  /\ handler' = [handler EXCEPT ![h] = [at |-> "found", held |-> limiter']]
  /\ UNCHANGED <<clock, swaps>>

\* The tokens of bucket b after the refill of AllowN, cut at the capacity.
Refill(b) ==
  LET full == b.tokens + (clock - b.last) * Rate
  IN  IF full > Capacity THEN Capacity ELSE full

\* AllowN(1) on the bucket the handler holds, under the bucket's own lock.
AllowN(h) ==
  /\ handler[h].at = "found"
  /\ LET b == buckets[handler[h].held]
         n == IF Refill(b) >= 1 THEN 1 ELSE 0
     IN  buckets' = [buckets EXCEPT ![handler[h].held] =
           [b EXCEPT !.tokens = Refill(b) - n, !.last = clock, !.taken = @ + n]]
  /\ handler' = [handler EXCEPT ![h] = Idle]
  /\ UNCHANGED <<limiter, clock, swaps>>

\* cleanupLoop: more than 10000 addresses, so every bucket is forgotten.
cleanupLoop ==
  /\ limiter # 0
  /\ swaps < MaxSwaps
  /\ limiter' = 0
  /\ swaps' = swaps + 1
  /\ UNCHANGED <<buckets, handler, clock>>

LimiterTick ==
  /\ clock < MaxTime
  /\ clock' = clock + 1
  /\ UNCHANGED <<limiter, buckets, handler, swaps>>

LimiterNext ==
  \/ \E h \in Handlers : AllowRead(h) \/ AllowCreate(h) \/ AllowN(h)
  \/ cleanupLoop
  \/ LimiterTick

LimiterSpec == LimiterInit /\ [][LimiterNext]_limiterVars

LimiterTypeOK ==
  /\ limiter \in 0 .. Len(buckets)
  /\ buckets \in Seq(TokenBucket)
  /\ handler \in [Handlers -> [at : {"idle", "missed", "found"}, held : Nat]]
  /\ \A h \in Handlers : handler[h].at = "found" => handler[h].held \in 1 .. Len(buckets)
  /\ clock \in Nat
  /\ swaps \in Nat

(* What an address may spend: every map thrown away gives it one more      *)
(* bucket and never more, however its handlers race for the missing entry; *)
(* and no bucket, also one that is no longer in the map, gives more than   *)
(* its burst and what its own lifetime refilled (pool.go, Allow, AllowN    *)
(* and cleanupLoop).                                                       *)
BurstBound ==
  /\ Len(buckets) <= swaps + 1
  /\ \A i \in 1 .. Len(buckets) :
       buckets[i].taken <= Capacity + (clock - buckets[i].born) * Rate
=============================================================================
