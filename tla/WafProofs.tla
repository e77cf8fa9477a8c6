----------------------------- MODULE WafProofs -----------------------------
(***************************************************************************)
(* Proofs about the parts of the WAF that judge one address: its rate      *)
(* limiter, its connections and their fingerprints, the ClientHello        *)
(* parser, intelligence, behaviour and bots, the attack detector, the      *)
(* learner, the rules and the request pipeline.                            *)
(***************************************************************************)
EXTENDS RateLimiter, ConnGuard, ClientHello, Fingerprint, Intel, BotWatch, AttackWatch, Shield,
        Learner, Rules, SequenceTheorems, WellFoundedInduction, TLAPS

-----------------------------------------------------------------------------
(* The rate limiter.  What a bucket has given and still holds never        *)
(* exceeds its burst and what it has been refilled with up to its last     *)
(* use; and there is at most one bucket per map, the present one included. *)
BucketBound(b) ==
  /\ b.born <= b.last /\ b.last <= clock
  /\ b.tokens + b.taken <= Capacity + (b.last - b.born) * Rate

LimiterInv ==
  /\ LimiterTypeOK
  /\ Len(buckets) <= swaps + (IF limiter # 0 THEN 1 ELSE 0)
  /\ \A i \in 1 .. Len(buckets) : BucketBound(buckets[i])

\* Two refills one after the other are one refill over both times.
LEMMA RefillAdds ==
  ASSUME NEW a \in Nat, NEW b \in Nat, NEW c \in Nat, NEW r \in Nat, a <= b, b <= c
  PROVE  /\ (b - a) * r + (c - b) * r = (c - a) * r
         /\ (c - b) * r \in Nat /\ (b - a) * r \in Nat /\ (c - a) * r \in Nat
<1>1. (b - a) * r + (c - b) * r = (c - a) * r
  OBVIOUS
<1>2. \A n \in Nat : n * r \in Nat
  OBVIOUS
<1>3. c - b \in Nat /\ b - a \in Nat /\ c - a \in Nat
  OBVIOUS
<1> QED
  BY <1>1, <1>2, <1>3

\* A use of a bucket keeps its bound: the refill is cut at the burst, and one token is taken (AllowN).
LEMMA AllowNBound ==
  ASSUME LimiterInv, NEW b \in TokenBucket, BucketBound(b), NEW n \in {0, 1}, n <= Refill(b),
         NEW c, c = [b EXCEPT !.tokens = Refill(b) - n, !.last = clock, !.taken = @ + n]
  PROVE  c \in TokenBucket /\ BucketBound(c)
<1>1. clock \in Nat /\ b.tokens \in Nat /\ b.last \in Nat /\ b.born \in Nat /\ b.taken \in Nat
  BY DEF LimiterInv, LimiterTypeOK, TokenBucket
<1>2. Capacity \in Nat /\ Rate \in Nat
  BY LimiterAssumption
<1>3. PICK g \in Nat : g = (clock - b.last) * Rate
  BY <1>1, <1>2, RefillAdds DEF BucketBound
<1>4. PICK h \in Nat : h = (b.last - b.born) * Rate
  BY <1>1, <1>2, RefillAdds DEF BucketBound
<1>5. h + g = (clock - b.born) * Rate
  BY <1>1, <1>2, <1>3, <1>4, RefillAdds DEF BucketBound
<1>6. Refill(b) \in Nat /\ Refill(b) <= b.tokens + g
  BY <1>1, <1>2, <1>3 DEF Refill
<1>7. c.tokens = Refill(b) - n /\ c.last = clock /\ c.taken = b.taken + n /\ c.born = b.born
  BY <1>1 DEF TokenBucket
<1>8. c \in TokenBucket
  <2>1. PICK t \in Nat : t = Refill(b) - n
    BY <1>6
  <2>2. b.taken + n \in Nat
    BY <1>1
  <2>3. c = [tokens |-> t, last |-> clock, born |-> b.born, taken |-> b.taken + n]
    BY <2>1 DEF TokenBucket
  <2> QED
    BY <1>1, <2>2, <2>3 DEF TokenBucket
<1>9. b.tokens + b.taken <= Capacity + h /\ b.born <= clock
  BY <1>1, <1>4 DEF BucketBound
<1>10. c.tokens + c.taken <= Capacity + (clock - b.born) * Rate
  BY <1>1, <1>2, <1>5, <1>6, <1>7, <1>9
<1> QED
  BY <1>1, <1>7, <1>8, <1>9, <1>10 DEF BucketBound

\* Every step of the handlers, of cleanupLoop and of the clock keeps the invariant (pool.go).
THEOREM LimiterInductive == LimiterInv /\ [LimiterNext]_limiterVars => LimiterInv'
<1> SUFFICES ASSUME LimiterInv, [LimiterNext]_limiterVars PROVE LimiterInv'
  OBVIOUS
<1>1. /\ buckets \in Seq(TokenBucket) /\ Len(buckets) \in Nat /\ limiter \in 0 .. Len(buckets)
      /\ buckets \in [1 .. Len(buckets) -> TokenBucket] /\ clock \in Nat /\ swaps \in Nat
  BY DEF LimiterInv, LimiterTypeOK
<1>2. CASE UNCHANGED limiterVars
  BY <1>2 DEF limiterVars, LimiterInv, LimiterTypeOK, BucketBound
<1>3. ASSUME NEW h \in Handlers, AllowRead(h) PROVE LimiterInv'
  BY <1>1, <1>3 DEF AllowRead, LimiterInv, LimiterTypeOK, BucketBound
<1>4. ASSUME NEW h \in Handlers, AllowCreate(h) PROVE LimiterInv'
  <2>1. CASE limiter # 0
    BY <1>1, <1>4, <2>1 DEF AllowCreate, LimiterInv, LimiterTypeOK, BucketBound
  <2>2. CASE limiter = 0
    <3> DEFINE new == NewTokenBucket
    <3>1. new \in TokenBucket /\ BucketBound(new)
      BY <1>1, LimiterAssumption DEF NewTokenBucket, TokenBucket, BucketBound
    <3>2. /\ buckets' = Append(buckets, new) /\ limiter' = Len(buckets) + 1
          /\ handler' = [handler EXCEPT ![h] = [at |-> "found", held |-> limiter']]
          /\ UNCHANGED <<clock, swaps>>
      BY <1>4, <2>2 DEF AllowCreate
    <3> HIDE DEF new
    <3>3. /\ buckets' \in Seq(TokenBucket) /\ Len(buckets') = Len(buckets) + 1
          /\ buckets'[Len(buckets) + 1] = new
          /\ \A i \in 1 .. Len(buckets) : buckets'[i] = buckets[i]
      BY <1>1, <3>1, <3>2
    <3>4. LimiterTypeOK'
      BY <1>1, <3>2, <3>3 DEF LimiterInv, LimiterTypeOK
    <3>5. \A i \in 1 .. Len(buckets') : BucketBound(buckets'[i])
      BY <1>1, <3>1, <3>3 DEF LimiterInv
    <3>6. \A i \in 1 .. Len(buckets') : BucketBound(buckets[i])'
      BY <3>2, <3>5 DEF BucketBound
    <3> QED
      BY <1>1, <2>2, <3>2, <3>3, <3>4, <3>6 DEF LimiterInv
  <2> QED
    BY <2>1, <2>2
<1>5. ASSUME NEW h \in Handlers, AllowN(h) PROVE LimiterInv'
  <2> DEFINE k == handler[h].held
             n == IF Refill(buckets[k]) >= 1 THEN 1 ELSE 0
  <2>1. k \in 1 .. Len(buckets)
    BY <1>5 DEF AllowN, LimiterInv, LimiterTypeOK
  <2>2. PICK c : c = [buckets[k] EXCEPT !.tokens = Refill(buckets[k]) - n, !.last = clock,
                                        !.taken = @ + n]
    OBVIOUS
  <2>3. /\ buckets' = [buckets EXCEPT ![k] = c] /\ handler' = [handler EXCEPT ![h] = Idle]
        /\ UNCHANGED <<limiter, clock, swaps>>
    BY <1>5, <2>2 DEF AllowN
  <2>4. buckets[k] \in TokenBucket /\ BucketBound(buckets[k])
    BY <1>1, <2>1 DEF LimiterInv
  <2>5. Refill(buckets[k]) \in Nat
    <3>1. buckets[k].tokens \in Nat /\ buckets[k].last \in Nat /\ buckets[k].last <= clock
      BY <2>4 DEF TokenBucket, BucketBound
    <3>2. (clock - buckets[k].last) * Rate \in Nat
      BY <1>1, <3>1, LimiterAssumption, RefillAdds
    <3> QED
      BY <3>1, <3>2, LimiterAssumption DEF Refill
  <2>6. n \in {0, 1} /\ n <= Refill(buckets[k])
    BY <2>5
  <2> HIDE DEF n
  <2>7. c \in TokenBucket /\ BucketBound(c)
    BY <2>2, <2>4, <2>6, AllowNBound
  <2>8. buckets' \in [1 .. Len(buckets) -> TokenBucket]
    BY <1>1, <2>3, <2>7
  <2>9. buckets' \in Seq(TokenBucket) /\ Len(buckets') = Len(buckets)
    BY <1>1, <2>8
  <2>10. \A i \in 1 .. Len(buckets) : BucketBound(buckets'[i])
    BY <1>1, <2>3, <2>7 DEF LimiterInv
  <2>11. \A i \in 1 .. Len(buckets) : BucketBound(buckets[i])'
    BY <2>3, <2>10 DEF BucketBound
  <2>12. LimiterTypeOK'
    BY <1>1, <2>3, <2>9 DEF LimiterInv, LimiterTypeOK, Idle
  <2> QED
    BY <2>3, <2>9, <2>11, <2>12 DEF LimiterInv
<1>6. CASE cleanupLoop
  BY <1>1, <1>6 DEF cleanupLoop, LimiterInv, LimiterTypeOK, BucketBound
<1>7. CASE LimiterTick
  <2>1. clock' = clock + 1 /\ UNCHANGED <<limiter, buckets, handler, swaps>>
    BY <1>7 DEF LimiterTick
  <2>2. \A i \in 1 .. Len(buckets) : BucketBound(buckets[i])'
    <3>1. \A i \in 1 .. Len(buckets) : buckets[i] \in TokenBucket /\ BucketBound(buckets[i])
      BY <1>1 DEF LimiterInv
    <3>2. \A b \in TokenBucket : BucketBound(b) =>
            /\ b.born <= b.last /\ b.last <= clock'
            /\ b.tokens + b.taken <= Capacity + (b.last - b.born) * Rate
      BY <1>1, <2>1 DEF BucketBound, TokenBucket
    <3> QED
      BY <2>1, <3>1, <3>2 DEF BucketBound
  <2> QED
    BY <1>1, <2>1, <2>2 DEF LimiterInv, LimiterTypeOK
<1> QED
  BY <1>2, <1>3, <1>4, <1>5, <1>6, <1>7 DEF LimiterNext

(* BurstBound for every burst, rate and number of handlers and of maps     *)
(* thrown away (pool.go Allow, AllowN and cleanupLoop).                    *)
THEOREM BurstBoundHolds == LimiterSpec => []BurstBound
<1>1. LimiterInit => LimiterInv
  BY DEF LimiterInit, LimiterInv, LimiterTypeOK, Idle
<1>2. LimiterInv => BurstBound
  <2> SUFFICES ASSUME LimiterInv PROVE BurstBound
    OBVIOUS
  <2>1. buckets \in [1 .. Len(buckets) -> TokenBucket] /\ clock \in Nat /\ swaps \in Nat
    BY DEF LimiterInv, LimiterTypeOK
  <2>2. ASSUME NEW i \in 1 .. Len(buckets)
        PROVE  buckets[i].taken <= Capacity + (clock - buckets[i].born) * Rate
    <3>1. PICK b \in TokenBucket : b = buckets[i]
      BY <2>1
    <3>2. b.tokens \in Nat /\ b.last \in Nat /\ b.born \in Nat /\ b.taken \in Nat
      BY DEF TokenBucket
    <3>3. /\ b.born <= b.last /\ b.last <= clock
          /\ b.tokens + b.taken <= Capacity + (b.last - b.born) * Rate
      BY <3>1 DEF LimiterInv, BucketBound
    <3>4. Rate \in Nat /\ Capacity \in Nat /\ clock \in Nat /\ b.born <= b.last /\ b.last <= clock
      BY <2>1, <3>3, LimiterAssumption
    <3>5. PICK g \in Nat : g = (clock - b.last) * Rate
      BY <3>2, <3>4, RefillAdds
    <3>6. PICK f \in Nat : f = (b.last - b.born) * Rate
      BY <3>2, <3>4, RefillAdds
    <3>7. f + g = (clock - b.born) * Rate
      <4>1. PICK x \in Int, y \in Int, r \in Int, c \in Int : x = b.born /\ y = b.last /\ r = Rate /\ c = clock
        BY <3>2, <3>4
      <4>2. f = (y - x) * r /\ g = (c - y) * r
        BY <3>5, <3>6, <4>1
      <4>3. (y - x) * r + (c - y) * r = (c - x) * r
        OBVIOUS
      <4> QED
        BY <4>1, <4>2, <4>3
    <3>8. b.tokens + b.taken <= Capacity + f
      BY <3>3, <3>6
    <3>9. b.taken <= Capacity + (f + g)
      BY <3>2, <3>4, <3>8
    <3> QED
      BY <3>1, <3>7, <3>9
  <2>3. Len(buckets) <= swaps + 1
    BY <2>1 DEF LimiterInv, LimiterTypeOK
  <2> QED
    BY <2>2, <2>3 DEF BurstBound
<1> QED
  BY <1>1, <1>2, LimiterInductive, PTL DEF LimiterSpec

-----------------------------------------------------------------------------
(* Connections.  The hook runs for one connection at a time; two live      *)
(* connections never share a port, so what a served connection finds under *)
(* its port is what its own handshake stored.                              *)
Opening == {"sniffing", "peeking", "accepted", "counting"}

GuardInv ==
  /\ conn \in [Conns -> States] /\ serve \in Conns \cup {NoConn}
  /\ fpStore \in [Ports -> Conns \cup {NoConn}] /\ used \in [Conns -> Conns \cup {NoConn}]
  /\ \A c \in Conns : conn[c] \in Opening <=> c = serve
  /\ \A c, d \in Conns : Alive(c) /\ Alive(d) /\ PortOf[c] = PortOf[d] => c = d
  /\ \A c \in Conns : conn[c] = "serving" => LookupFor(c) = c
  /\ FingerprintIsOwn

(* With JA3 enabled every step of the accept loop and of the connections   *)
(* keeps the fingerprints apart.                                           *)
LEMMA GuardInductive ==
  ASSUME JA3Enabled, GuardInv, [GuardNext]_guardVars
  PROVE  GuardInv'
<1> USE GuardAssumption DEF GuardInv, Alive, LookupFor, StoreFor, FingerprintIsOwn, States, Opening
<1>1. CASE UNCHANGED guardVars
  BY <1>1 DEF guardVars
<1>2. ASSUME NEW c \in Conns, Accept(c) PROVE GuardInv'
  BY <1>2 DEF Accept
<1>3. ASSUME NEW c \in Conns, Handshake(c) PROVE GuardInv'
  BY <1>3 DEF Handshake
<1>4. ASSUME NEW c \in Conns, GetCompositeForRequest(c) PROVE GuardInv'
  BY <1>4 DEF GetCompositeForRequest
<1>5. ASSUME NEW c \in Conns, EndConn(c) PROVE GuardInv'
  BY <1>5 DEF EndConn
<1>6. ASSUME NEW c \in Conns, StateClosedLoad(c) \/ StateClosedStore(c) PROVE GuardInv'
  BY <1>6 DEF StateClosedLoad, StateClosedStore
<1>7. CASE SniffPasses \/ SniffHeader
  BY <1>7 DEF SniffPasses, SniffHeader
<1>8. ASSUME NEW hello \in {"browser", "tool", "unparsed"}, SniffHello(hello) PROVE GuardInv'
  BY <1>8 DEF SniffHello
<1>9. CASE StateNewRate
  BY <1>9 DEF StateNewRate
<1>10. CASE StateNewCount
  BY <1>10 DEF StateNewCount
<1>11. CASE Alarm \/ SecondPasses
  BY <1>11 DEF Alarm, SecondPasses
<1> QED
  BY <1>1, <1>2, <1>3, <1>4, <1>5, <1>6, <1>7, <1>8, <1>9, <1>10, <1>11 DEF GuardNext

(* FingerprintIsOwn for any connections, ports and limits, provided JA3 is *)
(* enabled: without it GetConfigForClient stores nothing, and a hello the  *)
(* sniffer cannot parse leaves an older one of the port in place           *)
(* (interceptor.go GetConfigForClient, early_reject.go sniff).             *)
THEOREM FingerprintIsOwnHolds ==
  ASSUME JA3Enabled PROVE GuardSpec => []FingerprintIsOwn
<1>1. GuardInit => GuardInv
  BY GuardAssumption DEF GuardInit, GuardInv, Alive, FingerprintIsOwn, States, Opening
<1>2. GuardInv /\ [GuardNext]_guardVars => GuardInv'
  BY GuardInductive
<1>3. GuardInv => FingerprintIsOwn
  BY DEF GuardInv
<1> QED
  BY <1>1, <1>2, <1>3, PTL DEF GuardSpec

-----------------------------------------------------------------------------
(* The ClientHello parser.  The cursor may point anywhere behind a field   *)
(* that announced too much; only what was read, and the end of the         *)
(* extensions, are bounded by the message.                                 *)
HelloInv ==
  /\ helloLen \in 0 .. MaxBytes /\ helloPos \in Nat /\ helloEnd \in Nat /\ helloRead \in Nat
  /\ helloAt \in {"record", "body", "ciphers", "compression", "extensions", "extension", "done", "error",
                 "panic"}
  /\ helloAt \notin {"record", "error"} => helloLen <= BufferRoom
  /\ helloAt = "compression" => helloPos <= helloLen
  /\ helloAt = "extension" => helloEnd <= helloLen
  /\ HelloReads

\* The parsers of extension contents stay within the n bytes they are given.
LEMMA ContentsRead ==
  ASSUME NEW n \in Nat, NEW head \in Nat, NEW inner \in Nat, NEW width \in {1, 2}
  PROVE  /\ NameRead(n, head, inner) \in 0 .. n
         /\ ListRead(n, head, width, inner) \in 0 .. n
<1>1. NameRead(n, head, inner) \in 0 .. n
  BY DEF NameRead
<1>2. CASE n < head
  BY <1>1, <1>2 DEF ListRead
<1>3. CASE n >= head
  <2> DEFINE whole == IF head + inner < n THEN inner ELSE n - head
  <2>1. whole \in Nat /\ head + whole <= n
    BY <1>3
  <2>2. ListRead(n, head, width, inner) = head + width * (whole \div width)
    BY <1>3 DEF ListRead
  <2> HIDE DEF whole
  <2>3. 1 * (whole \div 1) \in 0 .. whole /\ 2 * (whole \div 2) \in 0 .. whole
    BY <2>1
  <2>4. width * (whole \div width) \in 0 .. whole
    BY <2>3
  <2> QED
    BY <1>1, <2>1, <2>2, <2>4
<1> QED
  BY <1>2, <1>3

\* Every field of every message keeps the invariant (tls_parser.go).
THEOREM HelloInductive == HelloInv /\ [HelloNext]_helloVars => HelloInv'
<1> SUFFICES ASSUME HelloInv, [HelloNext]_helloVars PROVE HelloInv'
  OBVIOUS
<1> USE HelloAssumption DEF HelloInv, HelloReads, Field, Body, BufferRoom, Fail
<1>1. CASE UNCHANGED helloVars
  BY <1>1 DEF helloVars
<1>2. CASE ParseClientHello
  BY <1>2 DEF ParseClientHello
<1>3. CASE ParseSession
  BY <1>3 DEF ParseSession
<1>4. CASE ParseCiphers
  BY <1>4 DEF ParseCiphers
<1>5. CASE ParseCompression
  BY <1>5 DEF ParseCompression
<1>6. CASE ParseExtensions
  BY <1>6 DEF ParseExtensions
<1>7. CASE ParseExtension
  <2>1. CASE helloPos + 4 > helloEnd /\ helloAt' = "done" /\ UNCHANGED <<helloPos, helloRead>>
    BY <1>7, <2>1 DEF ParseExtension
  <2>2. CASE helloPos + 4 <= helloEnd
    <3> DEFINE start == helloPos + 4
               N(extLen) == IF helloLen - start > extLen THEN extLen ELSE helloLen - start
    <3>1. PICK extLen \in Field, inner \in Field :
            /\ \E r \in {0, NameRead(N(extLen), 5, inner), ListRead(N(extLen), 2, 2, inner),
                         ListRead(N(extLen), 2, 1, inner), ListRead(N(extLen), 1, 1, inner),
                         ListRead(N(extLen), 1, 2, inner)} : helloRead' = start + r
            /\ helloPos' = start + extLen
      BY <1>7, <2>2 DEF ParseExtension
    <3> DEFINE n == N(extLen)
    <3>2. helloEnd <= helloLen /\ extLen \in Nat /\ inner \in Nat
      BY <1>7 DEF ParseExtension
    <3>3. n \in Nat /\ start + n <= helloLen
      BY <2>2, <3>2
    <3>4. \E r \in 0 .. n : helloRead' = start + r
      <4>1. PICK r \in {0, NameRead(n, 5, inner), ListRead(n, 2, 2, inner), ListRead(n, 2, 1, inner),
                        ListRead(n, 1, 1, inner), ListRead(n, 1, 2, inner)} : helloRead' = start + r
        BY <3>1
      <4> HIDE DEF n, start
      <4>2. /\ NameRead(n, 5, inner) \in 0 .. n
            /\ ListRead(n, 2, 2, inner) \in 0 .. n /\ ListRead(n, 2, 1, inner) \in 0 .. n
            /\ ListRead(n, 1, 1, inner) \in 0 .. n /\ ListRead(n, 1, 2, inner) \in 0 .. n
        BY <3>2, <3>3, ContentsRead
      <4>3. r \in 0 .. n
        BY <3>3, <4>1, <4>2
      <4> QED
        BY <4>1, <4>3
    <3>5. helloAt = "extension" /\ UNCHANGED <<helloAt, helloLen, helloEnd>>
      BY <1>7, <2>2 DEF ParseExtension
    <3> QED
      BY <3>1, <3>3, <3>4, <3>5
  <2> QED
    BY <1>7, <2>1, <2>2 DEF ParseExtension
<1> QED
  BY <1>1, <1>2, <1>3, <1>4, <1>5, <1>6, <1>7 DEF HelloNext

(* HelloReads for buffers, messages and lengths of any size: no byte       *)
(* behind the message is read, but for one after an odd list of cipher     *)
(* suites, and only a message that fills the buffer makes that one panic   *)
(* (tls_parser.go parseClientHelloBody, early_reject.go).                  *)
THEOREM HelloReadsHolds == HelloSpec => []HelloReads
<1>1. HelloInit => HelloInv
  BY HelloAssumption DEF HelloInit, HelloInv, HelloReads
<1>2. HelloInv => HelloReads
  BY DEF HelloInv
<1> QED
  BY <1>1, <1>2, HelloInductive, PTL DEF HelloSpec

-----------------------------------------------------------------------------
(* The attack detector.  A value that is published stays until the counter *)
(* runs again, so a detector that ran before the counter in this second    *)
(* has read the value of the last one.                                     *)
WatchInv ==
  /\ requests \in Nat /\ CurrentRPS \in Nat /\ loud \in 0 .. 2
  /\ loud >= 1 <=> CurrentRPS > RPSThreshold
  /\ loud >= 1 /\ "attackDetector" \in ticked /\ "rpsCounter" \notin ticked => IsUnderAttack
  /\ SustainedAttackNoticed

\* Every ticker, request, alert of another node and new second keeps the invariant (server.go).
THEOREM WatchInductive == WatchInv /\ [WatchNext]_watchVars => WatchInv'
<1> SUFFICES ASSUME WatchInv, [WatchNext]_watchVars PROVE WatchInv'
  OBVIOUS
<1> USE WatchAssumption DEF WatchInv, SustainedAttackNoticed
<1>1. CASE UNCHANGED watchVars
  BY <1>1 DEF watchVars
<1>2. CASE CountRequest
  BY <1>2 DEF CountRequest
<1>3. CASE rpsCounter
  BY <1>3 DEF rpsCounter
<1>4. CASE attackDetector
  <2>1. /\ ticked' = ticked \cup {"attackDetector"} /\ UNCHANGED <<requests, CurrentRPS, loud>>
        /\ CurrentRPS > RPSThreshold => IsUnderAttack' = TRUE
    BY <1>4 DEF attackDetector
  <2> QED
    BY <2>1
<1>5. CASE adaptiveSampler
  BY <1>5 DEF adaptiveSampler
<1>6. CASE NextSecond
  BY <1>6 DEF NextSecond
<1>7. ASSUME NEW t \in AlertTypes, RemoteSilence(t) PROVE WatchInv'
  BY <1>7 DEF RemoteSilence
<1> QED
  BY <1>1, <1>2, <1>3, <1>4, <1>5, <1>6, <1>7 DEF WatchNext

(* SustainedAttackNoticed for every load, threshold and order of the       *)
(* tickers within their second (server.go rpsCounter, attackDetector).     *)
THEOREM SustainedAttackNoticedHolds == WatchSpec => []SustainedAttackNoticed
<1>1. WatchInit => WatchInv
  BY WatchAssumption DEF WatchInit, WatchInv, SustainedAttackNoticed
<1>2. WatchInv => SustainedAttackNoticed
  BY DEF WatchInv
<1> QED
  BY <1>1, <1>2, WatchInductive, PTL DEF WatchSpec

-----------------------------------------------------------------------------
(* Intelligence.  A reputation in the cache is the default one or a report *)
(* AbuseIPDB gave no longer ago than the entry is old; and the table of    *)
(* known threats holds the address only if a feed had it.                  *)
CacheInv ==
  /\ repAge \in 0 .. Old /\ told \in [Reports -> 0 .. Old]
  /\ rep = Default \/ (rep \in Reports /\ told[rep] <= repAge)
  /\ knownBad => everListed
  /\ reserved \in BOOLEAN

IntelInv == CacheInv /\ BanNeedsEvidence

(* What the points add up to: without a country that is blocked, a score   *)
(* of 0 takes a report above 50, or two of the three sources.              *)
LEMMA ScoreEvidence ==
  ASSUME NEW r, r \in Reports \/ r = Default, Score(r) = 0, Lookup \notin geoCfg.blocked
  PROVE  \/ r.abuse > 50
         \/ knownBad /\ (geoCfg.allowed # {} \/ r # Default)
         \/ geoCfg.allowed # {} /\ r # Default
<1>1. r.abuse \in 0 .. 100 /\ r.tor \in BOOLEAN /\ r.datacenter \in BOOLEAN
  <2>1. CASE r \in Reports
    <3>1. r \in [abuse : 0 .. 100, tor : BOOLEAN, datacenter : BOOLEAN]
      BY <2>1, IntelAssumption
    <3> QED
      BY <3>1
  <2>2. CASE r = Default
    <3>1. Default \in [abuse : 0 .. 100, tor : BOOLEAN, datacenter : BOOLEAN]
      BY DEF Default
    <3> QED
      BY <2>2, <3>1
  <2> QED
    BY <2>1, <2>2
<1>2. r = Default => ReputationPenalty(r) = 0
  BY DEF Default, ReputationPenalty
<1>3. ReputationPenalty(r) \in Int /\ (~(r.abuse > 50) => ReputationPenalty(r) <= 120)
  BY <1>1 DEF ReputationPenalty
<1>4. FeedPenalty \in {0, 80} /\ (FeedPenalty = 80 => knownBad)
  BY DEF FeedPenalty, IsKnownThreat
<1>5. GeoPenalty \in {0, 60} /\ (GeoPenalty = 60 => geoCfg.allowed # {})
  BY DEF GeoPenalty
<1>6. 140 - FeedPenalty - GeoPenalty - ReputationPenalty(r) <= 0
  BY <1>3, <1>4, <1>5 DEF Score
<1> QED
  BY <1>2, <1>3, <1>4, <1>5, <1>6

\* Looking the address up keeps the cache honest, and its verdict earned (Evaluate, Check).
LEMMA EvaluateKeeps ==
  ASSUME IntelInv, Evaluate PROVE IntelInv'
<1> USE IntelAssumption
<1>1. UNCHANGED <<geoCfg, reserved, abuseKey, knownBad, everListed>>
  BY DEF Evaluate
<1>2. Old \in Nat /\ CacheTTL \in Nat /\ 0 < CacheTTL
  BY DEF Old
<1>3. CASE IsWhitelisted \/ Lookup \in geoCfg.blocked
  <2>1. trust' = Score(Default) /\ UNCHANGED <<rep, repAge, told>>
    BY <1>3 DEF Evaluate
  <2>2. CacheInv'
    BY <1>1, <2>1 DEF IntelInv, CacheInv
  <2>3. IsWhitelisted => trust' = 200
    BY <2>1 DEF Score
  <2> QED
    BY <1>1, <1>3, <2>2, <2>3 DEF IntelInv, BanNeedsEvidence
<1>4. ASSUME ~IsWhitelisted, Lookup \notin geoCfg.blocked,
             NEW r, r \in Reports \/ r = Default, trust' = Score(r),
             r # Default => told'[r] < CacheTTL,
             CacheInv'
      PROVE  IntelInv'
  <2>1. CASE trust' = 0
    <3>1. \/ r.abuse > 50
          \/ knownBad /\ (geoCfg.allowed # {} \/ r # Default)
          \/ geoCfg.allowed # {} /\ r # Default
      BY <1>4, <2>1, ScoreEvidence
    <3>2. knownBad => everListed
      BY DEF IntelInv, CacheInv
    <3>3. r.abuse > 50 => r # Default
      BY DEF Default
    <3> QED
      BY <1>1, <1>4, <3>1, <3>2, <3>3 DEF IntelInv, BanNeedsEvidence
  <2>2. CASE trust' # 0
    BY <1>4, <2>2 DEF IntelInv, BanNeedsEvidence
  <2> QED
    BY <2>1, <2>2
<1>5. CASE ~(IsWhitelisted \/ Lookup \in geoCfg.blocked)
  <2>1. CASE CacheHit
    <3>1. trust' = Score(rep) /\ UNCHANGED <<rep, repAge, told>>
      BY <1>5, <2>1 DEF Evaluate
    <3>2. CacheInv'
      BY <1>1, <3>1 DEF IntelInv, CacheInv
    <3>3. rep # Default => rep \in Reports /\ told'[rep] < CacheTTL
      BY <1>2, <2>1, <3>1 DEF IntelInv, CacheInv, CacheHit, Old
    <3> QED
      BY <1>4, <1>5, <3>1, <3>2, <3>3
  <2>2. CASE ~CacheHit
    <3>1. /\ repAge' = 0 /\ trust' = Score(rep')
          /\ \/ rep' = Default /\ UNCHANGED told
             \/ rep' \in Reports /\ told' = [told EXCEPT ![rep'] = 0]
      BY <1>5, <2>2 DEF Evaluate
    <3>2. CacheInv'
      BY <1>1, <1>2, <3>1 DEF IntelInv, CacheInv, Old
    <3>3. rep' # Default => rep' \in Reports /\ told'[rep'] < CacheTTL
      BY <1>2, <3>1 DEF IntelInv, CacheInv
    <3> QED
      BY <1>4, <1>5, <3>1, <3>2, <3>3
  <2> QED
    BY <2>1, <2>2
<1> QED
  BY <1>3, <1>5

\* Every fetch, refresh, lookup and tick keeps the invariant.
THEOREM IntelInductive == IntelInv /\ [IntelNext]_intelVars => IntelInv'
<1> SUFFICES ASSUME IntelInv, [IntelNext]_intelVars PROVE IntelInv'
  OBVIOUS
<1>1. CASE UNCHANGED intelVars
  BY <1>1 DEF intelVars, IntelInv, CacheInv, BanNeedsEvidence
<1>2. ASSUME NEW f \in Feeds, FetchFeed(f) PROVE IntelInv'
  <2>1. /\ UNCHANGED <<geoCfg, reserved, rep, repAge, trust, told>>
        /\ \/ UNCHANGED <<knownBad, everListed>>
           \/ knownBad' = TRUE /\ everListed' = TRUE
    BY <1>2 DEF FetchFeed
  <2> QED
    BY <2>1 DEF IntelInv, CacheInv, BanNeedsEvidence
<1>3. CASE UpdateAll
  <2>1. UNCHANGED <<geoCfg, reserved, rep, repAge, trust, told, knownBad, everListed>>
    BY <1>3 DEF UpdateAll
  <2> QED
    BY <2>1 DEF IntelInv, CacheInv, BanNeedsEvidence
<1>4. CASE Evaluate
  BY <1>4, EvaluateKeeps
<1>5. CASE IntelTick
  <2>1. CacheInv'
    BY <1>5, IntelAssumption DEF IntelTick, IntelInv, CacheInv, Old
  <2>2. BanNeedsEvidence'
    BY <1>5 DEF IntelTick, BanNeedsEvidence
  <2> QED
    BY <2>1, <2>2 DEF IntelInv
<1> QED
  BY <1>1, <1>2, <1>3, <1>4, <1>5 DEF IntelNext

(* BanNeedsEvidence for any feeds, reports and life of the cache: no       *)
(* single source short of an abuse report above 50 bans an address         *)
(* (intelligence.go Evaluate, reputation.go Check, feeds.go fetchFeed).    *)
THEOREM BanNeedsEvidenceHolds == IntelSpec => []BanNeedsEvidence
<1>1. IntelInit => IntelInv
  BY IntelAssumption DEF IntelInit, IntelInv, CacheInv, BanNeedsEvidence, Old
<1>2. IntelInv => BanNeedsEvidence
  BY DEF IntelInv
<1> QED
  BY <1>1, <1>2, IntelInductive, PTL DEF IntelSpec

-----------------------------------------------------------------------------
(* Behaviour and bots.  A cached critical verdict is at least as old as    *)
(* the last request that earned one.                                       *)
Profile ==
  [total : Nat, methods : SUBSET {"GET", "POST"}, uas : SUBSET (1 .. 4), static : BOOLEAN, api : BOOLEAN]

BotInv ==
  /\ profile \in Profile
  /\ botCache \in [threat : DOMAIN Level, age : Nat] /\ critAge \in Nat
  /\ botCache.threat = "critical" => critAge <= botCache.age
  /\ DdosVerdictExtreme /\ BotVerdictEarned

\* The measured part of a behaviour score takes at most 58 of 100 points.
LEMMA MeasuredBound ==
  ASSUME NEW m, m \in MeasuredEarly \/ m \in MeasuredLate PROVE m \in 0 .. 5800
<1>1. PICK t \in {100, 80, 50, 20, 0}, e \in {80, 90, 60, 30, 0}, v \in {100, 80, 60, 30, 0} :
        m = 25 * t + 20 * e + 15 * v
  BY DEF MeasuredEarly, MeasuredLate, Measured, Regular, analyzeURLEntropy, analyzeSpeed
<1>2. t \in 0 .. 100 /\ e \in 0 .. 90 /\ v \in 0 .. 100
  BY <1>1
<1> QED
  BY <1>1, <1>2

(* A score below 20 needs more than three User-Agents and a diversity      *)
(* penalty above 80, which nobody has who loaded a static file or sent few *)
(* requests (computeVerdict, analyzeDiversity, analyzeUAConsistency).      *)
LEMMA DdosScore ==
  ASSUME NEW p \in Profile, "ddos" \in Verdicts(p)
  PROVE  Cardinality(p.uas) > 3 /\ p.total > ManyReqs /\ ~p.static
<1>1. p.total \in Nat /\ p.static \in BOOLEAN /\ p.api \in BOOLEAN
  BY DEF Profile
<1>2. PICK s \in BehaviorScores(p) : s < 2000
  BY DEF Verdicts
<1>3. PICK m \in MeasuredEarly \cup MeasuredLate, few \in BOOLEAN :
        s = 10000 - m - 20 * analyzeDiversity(p, few) - 10 * analyzeErrorPattern
              - 10 * analyzeUAConsistency(p)
  <2>1. p.total < MinReqs => s = 7000
    BY <1>2 DEF BehaviorScores
  <2>2. ~(p.total < MinReqs)
    BY <1>2, <2>1
  <2> DEFINE M == IF p.total - 1 < MinSamples THEN MeasuredEarly ELSE MeasuredLate
  <2>3. \E m \in M, few \in BOOLEAN :
          s = 10000 - m - 20 * analyzeDiversity(p, few) - 10 * analyzeErrorPattern
                - 10 * analyzeUAConsistency(p)
    BY <1>2, <2>2 DEF BehaviorScores
  <2>4. M \subseteq MeasuredEarly \cup MeasuredLate
    OBVIOUS
  <2> HIDE DEF M
  <2>5. PICK m \in M, few \in BOOLEAN :
          s = 10000 - m - 20 * analyzeDiversity(p, few) - 10 * analyzeErrorPattern
                - 10 * analyzeUAConsistency(p)
    BY <2>3
  <2>6. m \in MeasuredEarly \cup MeasuredLate
    BY <2>4
  <2> QED
    BY <2>5, <2>6
<1>4. m \in 0 .. 5800
  BY <1>3, MeasuredBound
<1>5. /\ analyzeDiversity(p, few) \in 0 .. 100
      /\ p.static => analyzeDiversity(p, few) <= 60
      /\ ~(p.total > ManyReqs) => analyzeDiversity(p, few) <= 50
  BY <1>1, BotAssumption DEF analyzeDiversity
<1>6. analyzeUAConsistency(p) \in {0, 60} /\ (analyzeUAConsistency(p) = 60 => Cardinality(p.uas) > 3)
  BY DEF analyzeUAConsistency
<1>7. analyzeErrorPattern = 0
  BY DEF analyzeErrorPattern
<1>8. PICK d \in 0 .. 100, u \in {0, 60} : d = analyzeDiversity(p, few) /\ u = analyzeUAConsistency(p)
  BY <1>5, <1>6
<1>9. 10000 - m - 20 * d - 10 * 0 - 10 * u < 2000
  BY <1>2, <1>3, <1>7, <1>8
<1>10. u = 60 /\ d > 80
  <2>1. m \in Int /\ m <= 5800 /\ d \in Int /\ d <= 100 /\ u \in Int /\ (u = 0 \/ u = 60)
    BY <1>4
  <2> QED
    BY <1>9, <2>1
<1> QED
  BY <1>1, <1>5, <1>6, <1>8, <1>10

\* The classifier calls an address critical only for a critical signature of this request (Classify).
LEMMA CriticalSignature ==
  ASSUME NEW h \in Hits, NEW verdict
  PROVE  /\ Threat(h, verdict) \in DOMAIN Level
         /\ Threat(h, verdict) = "critical" => \E s \in h.sigs : Signatures[s] = "critical"
<1> DEFINE threats == {"none"} \cup {Signatures[s] : s \in h.sigs}
           n == MatchCount(h, verdict)
<1>1. h.sigs \subseteq DOMAIN Signatures
  BY BotAssumption
<1>2. \A s \in DOMAIN Signatures : Signatures[s] \in {"none", "low", "medium", "high", "critical"}
  BY DEF Signatures
<1>3. /\ DOMAIN Level = {"none", "low", "medium", "high", "critical"}
      /\ Level["none"] = 0 /\ Level["low"] = 1 /\ Level["medium"] = 2
      /\ Level["high"] = 3 /\ Level["critical"] = 4
  BY DEF Level
<1>4. threats \subseteq {"none", "low", "medium", "high", "critical"} /\ "none" \in threats
  BY <1>1, <1>2
<1> HIDE DEF threats
<1>5. \E t \in threats : \A u \in threats : Level[u] <= Level[t]
  <2>1. CASE "critical" \in threats
    BY <1>3, <1>4, <2>1
  <2>2. CASE "critical" \notin threats /\ "high" \in threats
    BY <1>3, <1>4, <2>2
  <2>3. CASE "critical" \notin threats /\ "high" \notin threats /\ "medium" \in threats
    BY <1>3, <1>4, <2>3
  <2>4. CASE threats \subseteq {"none", "low"}
    BY <1>3, <1>4, <2>4
  <2> QED
    BY <1>4, <2>1, <2>2, <2>3, <2>4
<1>6. (CHOOSE t \in threats : \A u \in threats : Level[u] <= Level[t]) \in threats
  BY <1>5
<1>7. Threat(h, verdict) \in {"none", "low"} \/ Threat(h, verdict) \in threats
  BY <1>6 DEF Threat, threats
<1>8. "critical" \in threats => \E s \in h.sigs : Signatures[s] = "critical"
  BY DEF threats
<1> QED
  BY <1>3, <1>4, <1>7, <1>8

\* A request keeps the invariant: its verdicts are those of the profile it has just extended (layers 6 to 9).
LEMMA HitKeeps ==
  ASSUME BotInv, NEW h \in Hits, Hit(h) PROVE BotInv'
<1>1. h.url \in {"static", "api", "page"} /\ h.method \in {"GET", "POST"} /\ h.ua \in 1 .. 4
  BY BotAssumption
<1>2. profile' \in Profile
  <2>1. /\ profile.total \in Nat /\ profile.methods \in SUBSET {"GET", "POST"}
        /\ profile.uas \in SUBSET (1 .. 4) /\ profile.static \in BOOLEAN /\ profile.api \in BOOLEAN
    BY DEF BotInv, Profile
  <2>2. (IF profile.total > HammerReqs THEN profile.total ELSE profile.total + 1) \in Nat
    BY <2>1
  <2>3. /\ (profile.static \/ h.url = "static") \in BOOLEAN
        /\ (profile.api \/ h.url = "api") \in BOOLEAN
    OBVIOUS
  <2>4. /\ profile.methods \cup {h.method} \in SUBSET {"GET", "POST"}
        /\ profile.uas \cup {h.ua} \in SUBSET (1 .. 4)
    BY <1>1, <2>1
  <2>5. Track(profile, h) \in Profile
    BY <2>2, <2>3, <2>4 DEF Track, Profile
  <2> QED
    BY <2>5 DEF Hit
<1>3. /\ botCache.threat \in DOMAIN Level /\ botCache.age \in Nat /\ critAge \in Nat
      /\ VerdictTTL \in Nat /\ 0 < VerdictTTL
      /\ botCache.threat = "critical" => critAge <= botCache.age
  BY BotAssumption DEF BotInv
<1>4. critAge' = IF \E s \in h.sigs : Signatures[s] = "critical" THEN 0 ELSE critAge
  BY DEF Hit
<1>5. PICK verdict \in Verdicts(profile') :
        \/ /\ verdict = "ddos"
           /\ botOut' = "behavior_ddos" /\ UNCHANGED <<botCache, detTokens>>
        \/ /\ verdict # "ddos"
           /\ Classify(h, verdict)
           /\ CASE botCache'.threat = "critical" -> botOut' = "bot_critical" /\ UNCHANGED detTokens
                [] botCache'.threat = "high" -> botOut' = "bot_suspicious" /\ UNCHANGED detTokens
                [] OTHER -> \E calm \in BOOLEAN : CheckRateLimit(calm)
  BY DEF Hit
<1>6. CASE verdict = "ddos"
  <2>1. botOut' = "behavior_ddos" /\ UNCHANGED botCache
    BY <1>5, <1>6
  <2>2. DdosVerdictExtreme'
    BY <1>2, <1>5, <1>6, DdosScore DEF DdosVerdictExtreme
  <2>3. BotVerdictEarned'
    BY <2>1 DEF BotVerdictEarned
  <2>4. critAge' \in Nat /\ critAge' <= critAge
    BY <1>3, <1>4
  <2> QED
    BY <1>2, <1>3, <2>1, <2>2, <2>3, <2>4 DEF BotInv
<1>7. CASE verdict # "ddos"
  <2>1. /\ Classify(h, verdict)
        /\ CASE botCache'.threat = "critical" -> botOut' = "bot_critical" /\ UNCHANGED detTokens
             [] botCache'.threat = "high" -> botOut' = "bot_suspicious" /\ UNCHANGED detTokens
             [] OTHER -> \E calm \in BOOLEAN : CheckRateLimit(calm)
    BY <1>5, <1>7
  <2>2. /\ botCache' \in [threat : DOMAIN Level, age : Nat] /\ critAge' \in Nat
        /\ botCache'.threat = "critical" => critAge' <= botCache'.age /\ botCache'.age < VerdictTTL
    <3>1. CASE Cached
      <4>1. botCache' = botCache /\ botCache.age < VerdictTTL
        BY <2>1, <3>1 DEF Classify, Cached
      <4>2. critAge' \in Nat /\ critAge' <= critAge
        BY <1>3, <1>4
      <4> QED
        BY <1>3, <4>1, <4>2 DEF BotInv
    <3>2. CASE ~Cached
      <4>1. botCache' = [threat |-> Threat(h, verdict), age |-> 0]
        BY <2>1, <3>2 DEF Classify
      <4>2. /\ Threat(h, verdict) \in DOMAIN Level
            /\ Threat(h, verdict) = "critical" => \E s \in h.sigs : Signatures[s] = "critical"
        BY CriticalSignature
      <4>3. botCache'.threat = Threat(h, verdict) /\ botCache'.age = 0
        BY <4>1
      <4>4. botCache'.threat = "critical" => critAge' = 0
        BY <1>4, <4>2, <4>3
      <4>5. critAge' \in Nat
        BY <1>3, <1>4
      <4>6. botCache' \in [threat : DOMAIN Level, age : Nat]
        BY <4>1, <4>2
      <4> QED
        BY <1>3, <4>3, <4>4, <4>5, <4>6
    <3> QED
      BY <3>1, <3>2
  <2>3. botOut' # "behavior_ddos" /\ (botOut' = "bot_critical" => botCache'.threat = "critical")
    <3>1. CASE botCache'.threat = "critical"
      <4>1. botOut' = "bot_critical"
        BY <2>1, <3>1
      <4> QED
        BY <3>1, <4>1
    <3>2. CASE botCache'.threat = "high"
      <4>1. botOut' = "bot_suspicious"
        BY <2>1, <3>2
      <4> QED
        BY <4>1
    <3>3. CASE botCache'.threat # "critical" /\ botCache'.threat # "high"
      <4>1. PICK calm \in BOOLEAN : CheckRateLimit(calm)
        BY <2>1, <3>3
      <4>2. botOut' \in {"passed", "det_rate_limited"}
        BY <4>1 DEF CheckRateLimit
      <4> QED
        BY <4>2
    <3> QED
      BY <3>1, <3>2, <3>3
  <2>4. DdosVerdictExtreme' /\ BotVerdictEarned'
    <3>1. botOut' = "bot_critical" => critAge' < VerdictTTL
      BY <1>3, <2>2, <2>3
    <3> QED
      BY <2>3, <3>1 DEF DdosVerdictExtreme, BotVerdictEarned
  <2> QED
    BY <1>2, <2>2, <2>4 DEF BotInv
<1> QED
  BY <1>6, <1>7

\* So do the passing of a second and the clean-up.
THEOREM BotInductive == BotInv /\ [BotNext]_botVars => BotInv'
<1> SUFFICES ASSUME BotInv, [BotNext]_botVars PROVE BotInv'
  OBVIOUS
<1>1. CASE UNCHANGED botVars
  BY <1>1 DEF botVars, BotInv, DdosVerdictExtreme, BotVerdictEarned
<1>2. CASE BotTick
  <2>1. PICK age : age = IF botCache.age > VerdictTTL THEN botCache.age ELSE botCache.age + 1
    OBVIOUS
  <2>2. /\ botCache' = [botCache EXCEPT !.age = age] /\ botOut' = "none" /\ UNCHANGED profile
        /\ critAge' = IF critAge > VerdictTTL THEN critAge ELSE critAge + 1
    BY <1>2, <2>1 DEF BotTick
  <2>3. botCache.threat \in DOMAIN Level /\ botCache.age \in Nat /\ critAge \in Nat /\ VerdictTTL \in Nat
    BY BotAssumption DEF BotInv
  <2>4. age \in Nat /\ critAge' \in Nat /\ (critAge <= botCache.age => critAge' <= age)
    BY <2>1, <2>2, <2>3
  <2>5. botCache'.threat = botCache.threat /\ botCache'.age = age
    BY <2>2 DEF BotInv
  <2>6. botCache' \in [threat : DOMAIN Level, age : Nat]
    BY <2>2, <2>4 DEF BotInv
  <2>7. DdosVerdictExtreme' /\ BotVerdictEarned'
    BY <2>2 DEF DdosVerdictExtreme, BotVerdictEarned
  <2> QED
    BY <2>2, <2>4, <2>5, <2>6, <2>7 DEF BotInv
<1>3. CASE BotCleanup
  <2>1. profile' = NoProfile /\ botCache' = NoVerdict /\ critAge' = VerdictTTL + 1 /\ botOut' = "none"
    BY <1>3 DEF BotCleanup, CleanupProfile, CleanupCache
  <2>2. NoProfile \in Profile
    BY DEF NoProfile, Profile
  <2>3. NoVerdict \in [threat : DOMAIN Level, age : Nat] /\ NoVerdict.threat # "critical"
    BY BotAssumption DEF NoVerdict, Level
  <2> QED
    BY <2>1, <2>2, <2>3, BotAssumption DEF BotInv, DdosVerdictExtreme, BotVerdictEarned
<1> QED
  BY <1>1, <1>2, <1>3, HitKeeps DEF BotNext

\* A fresh address has no profile and no verdict.
LEMMA BotInitInv == BotInit => BotInv
<1> SUFFICES ASSUME BotInit PROVE BotInv
  OBVIOUS
<1>1. NoProfile \in Profile
  BY DEF NoProfile, Profile
<1>2. NoVerdict \in [threat : DOMAIN Level, age : Nat] /\ NoVerdict.threat # "critical"
  BY BotAssumption DEF NoVerdict, Level
<1> QED
  BY <1>1, <1>2, BotAssumption DEF BotInit, BotInv, DdosVerdictExtreme, BotVerdictEarned

(* DdosVerdictExtreme for every set of requests and every thresholds with  *)
(* ManyReqs <= HammerReqs, 20 and 50 in the code: a visitor who loaded one *)
(* static file, or with one User-Agent, is never banned for its behaviour  *)
(* (behavior.go computeVerdict, pipeline.go layer 6).                      *)
THEOREM DdosVerdictExtremeHolds == BotSpec => []DdosVerdictExtreme
<1>1. BotInv => DdosVerdictExtreme
  BY DEF BotInv
<1> QED
  BY <1>1, BotInitInv, BotInductive, PTL DEF BotSpec

(* BotVerdictEarned for every life of the cache: a critical verdict is     *)
(* acted on only within that life of a request that carried the mark of a  *)
(* tool (classifier.go Classify).                                          *)
THEOREM BotVerdictEarnedHolds == BotSpec => []BotVerdictEarned
<1>1. BotInv => BotVerdictEarned
  BY DEF BotInv
<1> QED
  BY <1>1, BotInitInv, BotInductive, PTL DEF BotSpec

-----------------------------------------------------------------------------
(* The pipeline's challenges.  For any limit of at least seven requests a  *)
(* second and any threshold, the stage of mode auto only ever grows with   *)
(* the rate, the load and the alarm (determineStageWithFP).                *)
LEMMA StageMonotone ==
  ASSUME NEW limit \in Nat, limit >= 7, NEW threshold \in Nat, NEW fp \in Trust,
         NEW a \in BOOLEAN, NEW b \in BOOLEAN, a => b,
         NEW l \in Nat, NEW m \in Nat, l <= m, NEW x \in Nat, NEW y \in Nat, x <= y
  PROVE  /\ AutoStage(limit, threshold, x, fp, a, l) \in {0, 1, 2, 4}
         /\ AutoStage(limit, threshold, y, fp, b, m) \in {0, 1, 2, 4}
         /\ AutoStage(limit, threshold, x, fp, a, l) <= AutoStage(limit, threshold, y, fp, b, m)
<1>1. PICK h \in Nat : h = (limit * 3) \div 2 /\ 10 <= h
  OBVIOUS
<1>2. CASE fp = "high"
  BY <1>2 DEF AutoStage
<1>3. CASE fp = "medium"
  BY <1>1, <1>3 DEF AutoStage
<1>4. CASE fp = "none"
  BY <1>4 DEF AutoStage
<1>5. CASE fp = "low"
  BY <1>5 DEF AutoStage
<1> QED
  BY <1>2, <1>3, <1>4, <1>5 DEF Trust

\* The adaptive learner raises a stage and never lowers it, more so at a higher rate (GetDecision).
LEMMA RaisedMonotone ==
  ASSUME NEW s \in {0, 1, 2, 4}, NEW t \in {0, 1, 2, 4}, s <= t,
         NEW expected \in Nat, NEW x \in Nat, NEW y \in Nat, x <= y
  PROVE  Raised(s, expected, x) <= Raised(t, expected, y)
<1>1. /\ LearnerDecision(expected, x) \in {0, 1, 2} /\ LearnerDecision(expected, y) \in {0, 1, 2}
      /\ LearnerDecision(expected, x) <= LearnerDecision(expected, y)
  BY DEF LearnerDecision
<1> QED
  BY <1>1 DEF Raised

(* The stage mode auto chooses, and the learner raises, is never milder    *)
(* for more requests, more load or an alarm: for every limit of at least   *)
(* seven, every threshold, load and rate, and whatever the learner expects *)
(* (pipeline.go determineStageWithFP, adaptive.go GetDecision).  It is of  *)
(* the last layer alone: the limiter's, which comes before, answers an     *)
(* empty bucket with a proof of work where the stage would be a captcha.   *)
THEOREM EscalationEverywhere ==
  ASSUME NEW limit \in Nat, limit >= 7, NEW threshold \in Nat, NEW fp \in Trust,
         NEW a \in BOOLEAN, NEW b \in BOOLEAN, a => b,
         NEW l \in Nat, NEW m \in Nat, l <= m, NEW x \in Nat, NEW y \in Nat, x <= y,
         NEW expected \in Nat
  PROVE  Raised(AutoStage(limit, threshold, x, fp, a, l), expected, x)
           <= Raised(AutoStage(limit, threshold, y, fp, b, m), expected, y)
<1> DEFINE s == AutoStage(limit, threshold, x, fp, a, l)
           t == AutoStage(limit, threshold, y, fp, b, m)
<1>1. s \in {0, 1, 2, 4} /\ t \in {0, 1, 2, 4} /\ s <= t
  BY StageMonotone
<1> HIDE DEF s, t
<1>2. Raised(s, expected, x) <= Raised(t, expected, y)
  BY <1>1, RaisedMonotone
<1> QED
  BY <1>2 DEF s, t

(* A proof is at least as old as the last verification of the address it   *)
(* was issued for.                                                         *)
ProofInv ==
  /\ ipBanned \in BOOLEAN /\ address \in Addresses
  /\ cookie.age \in Nat /\ proven \in [Addresses -> Nat]
  /\ cookie.age <= CookieTTL => cookie.for \in Addresses /\ proven[cookie.for] <= cookie.age

Layer ==
  [hit : BOOLEAN, at : {"early", "intel", "limiter", "late", "stage"},
   reply : {"allow", "block", "drop", "challenge"}, ban : BOOLEAN, stage : Nat, difficulty : Nat]

\* The layers that let nobody in, unless p.
Guarded(p) == {l \in Layer : l.hit /\ l.reply = "allow" => p}

\* A verdict that does not hit, or does not allow, lets nobody in.
LEMMA VerdictGuarded ==
  ASSUME NEW p \in BOOLEAN, NEW at \in {"early", "intel", "limiter", "late", "stage"}, NEW hit \in BOOLEAN,
         NEW reply \in {"allow", "block", "drop"}, NEW ban \in BOOLEAN, hit /\ reply = "allow" => p
  PROVE  Verdict(at, hit, reply, ban) \in Guarded(p)
<1>1. Verdict(at, hit, reply, ban) \in Layer
  BY DEF Verdict, Layer
<1>2. Verdict(at, hit, reply, ban).hit = hit /\ Verdict(at, hit, reply, ban).reply = reply
  BY DEF Verdict
<1> QED
  BY <1>1, <1>2 DEF Guarded

\* A challenge lets nobody in.
LEMMA ChallengeGuarded ==
  ASSUME NEW p \in BOOLEAN, NEW at \in {"early", "intel", "limiter", "late", "stage"}, NEW hit \in BOOLEAN,
         NEW stage \in Nat, NEW difficulty \in Nat
  PROVE  Challenge(at, hit, stage, difficulty) \in Guarded(p)
<1>1. Challenge(at, hit, stage, difficulty) \in Layer
  BY DEF Challenge, Layer
<1>2. Challenge(at, hit, stage, difficulty).reply = "challenge"
  BY DEF Challenge
<1> QED
  BY <1>1, <1>2 DEF Guarded

(* In the modes that challenge everybody, no layer lets a clean request in *)
(* without a valid proof: neither a list nor a fingerprint exempts it, and *)
(* the stage is 0 only for a proof (determineStageWithFP).                 *)
LEMMA LayersGuarded ==
  ASSUME ProofInv, NEW r \in Requests, Clean(r), mode \in {"silent", "challenge", "captcha", "emergency"}
  PROVE  Layers(r) \in Seq(Guarded(VerifyProof))
<1> DEFINE G == Guarded(VerifyProof)
<1>1. VerifyProof \in BOOLEAN
  BY DEF VerifyProof
<1>2. /\ r.finds = {} /\ r.attack \in BOOLEAN /\ r.expected \in Nat /\ r.load \in Nat
      /\ PowDifficulty \in Nat /\ MaxHits \in Nat
  BY ShieldAssumption DEF Clean
<1>3. isWhitelisted(r) = FALSE
  BY <1>2 DEF isWhitelisted
<1>4. StageLayer(r) \in G
  <2> DEFINE rps == state.rps + 1
             stage == determineStageWithFP(r, rps, hasValidProof)
  <2>1. (VerifyProof /\ stage = 0) \/ (~VerifyProof /\ stage \in {1, 2, 3, 4})
    BY <1>1 DEF determineStageWithFP, hasValidProof
  <2> HIDE DEF stage
  <2>2. Raised(stage, r.expected, rps) \in Nat
    BY <2>1 DEF Raised, LearnerDecision
  <2>3. Difficulty(r, rps) \in Nat
    BY <1>2 DEF Difficulty
  <2>4. CASE stage = 0
    <3>1. StageLayer(r) = Verdict("stage", TRUE, "allow", FALSE)
      BY <2>4 DEF StageLayer, stage
    <3> QED
      BY <1>1, <2>1, <2>4, <3>1 DEF G, Guarded, Layer, Verdict
  <2>5. CASE stage = 4
    <3>1. StageLayer(r) = IF stage \in {0, 4}
                          THEN Verdict("stage", TRUE, IF stage = 0 THEN "allow" ELSE "drop", FALSE)
                          ELSE Challenge("stage", TRUE, Raised(stage, r.expected, rps), Difficulty(r, rps))
      BY DEF StageLayer, stage
    <3>2. (IF stage = 0 THEN "allow" ELSE "drop") = "drop"
      BY <2>5
    <3>3. StageLayer(r) = Verdict("stage", TRUE, "drop", FALSE)
      BY <2>5, <3>1, <3>2
    <3> QED
      BY <1>1, <3>3 DEF G, Guarded, Layer, Verdict
  <2>6. CASE stage \notin {0, 4}
    <3>1. StageLayer(r) = Challenge("stage", TRUE, Raised(stage, r.expected, rps), Difficulty(r, rps))
      BY <2>6 DEF StageLayer, stage
    <3> QED
      BY <1>1, <2>2, <2>3, <3>1, ChallengeGuarded DEF G
  <2> QED
    BY <2>4, <2>5, <2>6
<1> HIDE DEF G
<1>5. validateRequest(r) \in Seq(G)
  <2> DEFINE h1 == "invalid_host" \in r.finds
             h2 == "bad_ua" \in r.finds
             e1 == Verdict("early", h1, "block", FALSE)
             e2 == Verdict("early", h2, "block", FALSE)
  <2>1. h1 \in BOOLEAN /\ h2 \in BOOLEAN
    OBVIOUS
  <2> HIDE DEF h1, h2
  <2>2. e1 \in G
    BY <1>1, <2>1, VerdictGuarded DEF G
  <2>3. e2 \in G
    BY <1>1, <2>1, VerdictGuarded DEF G
  <2>4. validateRequest(r) = <<e1, e2>>
    BY DEF validateRequest, h1, h2
  <2> HIDE DEF e1, e2
  <2> QED
    BY <2>2, <2>3, <2>4
<1>6. EarlyLayers(r) \in Seq(G)
  <2> DEFINE h1 == ipBanned
             h2 == r.attack /\ mode = "emergency" /\ ~isWhitelisted(r)
             h3 == "conn_limit" \in r.finds
             h4 == "attack_tool_ja3" \in r.finds
             h5 == "fp_malicious" \in r.finds
             h6 == "fp_trusted" \in r.finds /\ ~r.attack
             h7 == "intel_blocked" \in r.finds /\ ~IsFeatureDisabled("reputation_lookup", r.load)
             e1 == Verdict("early", h1, "drop", FALSE)
             e2 == Verdict("early", h2, "block", FALSE)
             e3 == Verdict("early", h3, "block", TRUE)
             e4 == Verdict("early", h4, "drop", TRUE)
             e5 == Verdict("early", h5, "block", TRUE)
             e6 == Verdict("early", h6, "allow", FALSE)
             e7 == Verdict("intel", h7, "block", TRUE)
  <2>1. /\ h1 \in BOOLEAN /\ h2 \in BOOLEAN /\ h3 \in BOOLEAN /\ h4 \in BOOLEAN
        /\ h5 \in BOOLEAN /\ h6 \in BOOLEAN /\ h7 \in BOOLEAN
    BY <1>2, <1>3 DEF ProofInv, IsFeatureDisabled
  <2>2. h6 = FALSE
    BY <1>2, <1>3
  <2> HIDE DEF h1, h2, h3, h4, h5, h6, h7
  <2>3. e1 \in G
    BY <1>1, <2>1, VerdictGuarded DEF G
  <2>4. e2 \in G
    BY <1>1, <2>1, VerdictGuarded DEF G
  <2>5. e3 \in G
    BY <1>1, <2>1, VerdictGuarded DEF G
  <2>6. e4 \in G
    BY <1>1, <2>1, VerdictGuarded DEF G
  <2>7. e5 \in G
    BY <1>1, <2>1, VerdictGuarded DEF G
  <2>8. e6 \in G
    BY <1>1, <2>1, <2>2, VerdictGuarded DEF G
  <2>9. e7 \in G
    BY <1>1, <2>1, VerdictGuarded DEF G
  <2>10. EarlyLayers(r) = <<e1, e2, e3>> \o validateRequest(r) \o <<e4, e5, e6, e7>>
    BY DEF EarlyLayers, h1, h2, h3, h4, h5, h6, h7
  <2> HIDE DEF e1, e2, e3, e4, e5, e6, e7
  <2> QED
    BY <1>5, <2>3, <2>4, <2>5, <2>6, <2>7, <2>8, <2>9, <2>10
<1>7. LimiterLayers \in Seq(G)
  <2> DEFINE h1 == tokens = 0 /\ state.hits + 1 > MaxHits
             h2 == tokens = 0
             e1 == Verdict("limiter", h1, "drop", TRUE)
             e2 == Challenge("limiter", h2, 1, PowDifficulty)
  <2>1. h1 \in BOOLEAN /\ h2 \in BOOLEAN
    OBVIOUS
  <2> HIDE DEF h1, h2
  <2>2. e1 \in G
    BY <1>1, <2>1, VerdictGuarded DEF G
  <2>3. e2 \in G
    BY <1>1, <2>1, <1>2, ChallengeGuarded DEF G
  <2>4. LimiterLayers = <<e1, e2>>
    BY DEF LimiterLayers, h1, h2
  <2> HIDE DEF e1, e2
  <2> QED
    BY <2>2, <2>3, <2>4
<1>8. LateLayers(r) \in Seq(G)
  <2> DEFINE h1 == isWhitelisted(r)
             h2 == "waf_drop" \in r.finds /\ ~IsFeatureDisabled("waf_deep_inspect", r.load)
             h3 == "waf_block" \in r.finds /\ ~IsFeatureDisabled("waf_deep_inspect", r.load)
             h4 == "behavior_ddos" \in r.finds
             h5 == "bot_critical" \in r.finds
             h6 == "bot_suspicious" \in r.finds
             h7 == "det_rate_limited" \in r.finds
             e1 == Verdict("late", h1, "allow", FALSE)
             e2 == Verdict("late", h2, "drop", TRUE)
             e3 == Verdict("late", h3, "block", FALSE)
             e4 == Verdict("late", h4, "block", TRUE)
             e5 == Verdict("late", h5, "drop", TRUE)
             e6 == Challenge("late", h6, 2, PowDifficulty + 1)
             e7 == Challenge("late", h7, 1, PowDifficulty)
  <2>1. /\ h1 \in BOOLEAN /\ h2 \in BOOLEAN /\ h3 \in BOOLEAN /\ h4 \in BOOLEAN
        /\ h5 \in BOOLEAN /\ h6 \in BOOLEAN /\ h7 \in BOOLEAN
    BY <1>2 DEF isWhitelisted, IsFeatureDisabled
  <2>2. h1 = FALSE
    BY <1>2, <1>3
  <2> HIDE DEF h1, h2, h3, h4, h5, h6, h7
  <2>3. e1 \in G
    BY <1>1, <2>1, <2>2, VerdictGuarded DEF G
  <2>4. e2 \in G
    BY <1>1, <2>1, VerdictGuarded DEF G
  <2>5. e3 \in G
    BY <1>1, <2>1, VerdictGuarded DEF G
  <2>6. e4 \in G
    BY <1>1, <2>1, VerdictGuarded DEF G
  <2>7. e5 \in G
    BY <1>1, <2>1, VerdictGuarded DEF G
  <2>8. e6 \in G
    BY <1>1, <2>1, <1>2, ChallengeGuarded DEF G
  <2>9. e7 \in G
    BY <1>1, <2>1, <1>2, ChallengeGuarded DEF G
  <2>10. LateLayers(r) = <<e1, e2, e3, e4, e5, e6, e7>>
    BY DEF LateLayers, h1, h2, h3, h4, h5, h6, h7
  <2> HIDE DEF e1, e2, e3, e4, e5, e6, e7
  <2> QED
    BY <2>3, <2>4, <2>5, <2>6, <2>7, <2>8, <2>9, <2>10
<1>9. <<StageLayer(r)>> \in Seq(G)
  BY <1>4
<1>10. Layers(r) \in Seq(G)
  BY <1>6, <1>7, <1>8, <1>9 DEF Layers
<1> QED
  BY <1>10 DEF G


\* Every step keeps the age of a proof and the time since the verification of its address together.
LEMMA ProofInductive ==
  ProofInv /\ [ShieldNext]_shieldVars => ProofInv'
<1> SUFFICES ASSUME ProofInv, [ShieldNext]_shieldVars PROVE ProofInv'
  OBVIOUS
<1> USE ShieldAssumption DEF ProofInv
<1>1. ASSUME Browse PROVE ProofInv'
  <2>1. PICK r \in Requests : Process(r)
    BY <1>1 DEF Browse, Request
  <2>2. UNCHANGED <<address, cookie, proven>>
    BY <2>1 DEF Process
  <2>3. ipBanned' \in BOOLEAN
    <3>1. PICK v : ipBanned' = (ipBanned \/ v.ban)
      BY <2>1 DEF Process
    <3> QED
      BY <3>1, Zenon
  <2> QED
    BY <2>2, <2>3
<1>2. CASE HandleVerification
  <2>1. CASE Browse
    BY <2>1, <1>1
  <2>2. CASE /\ cookie' = [for |-> address, age |-> 0] /\ proven' = [proven EXCEPT ![address] = 0]
             /\ UNCHANGED <<address, ipBanned>>
    BY <2>2
  <2> QED
    BY <1>2, <2>1, <2>2 DEF HandleVerification
<1>3. CASE ShieldTick
  <2>1. /\ proven' = [a \in Addresses |-> IF proven[a] > CookieTTL THEN proven[a] ELSE proven[a] + 1]
        /\ UNCHANGED <<address, ipBanned>>
    BY <1>3 DEF ShieldTick
  <2>2. proven' \in [Addresses -> Nat]
    BY <2>1
  <2>3. CASE cookie.age >= CookieTTL
    <3>1. cookie' = NoCookie
      BY <1>3, <2>3 DEF ShieldTick
    <3>2. cookie'.age = CookieTTL + 1
      BY <3>1 DEF NoCookie
    <3> QED
      BY <2>1, <2>2, <3>2
  <2>4. CASE cookie.age < CookieTTL
    <3>1. cookie' = [cookie EXCEPT !.age = @ + 1]
      BY <1>3, <2>4 DEF ShieldTick
    <3>2. cookie.for \in Addresses /\ proven[cookie.for] <= cookie.age
      BY <2>4
    <3>3. CASE cookie'.age = cookie.age + 1 /\ cookie'.for = cookie.for
      <4>1. proven'[cookie.for] = proven[cookie.for] + 1
        BY <2>1, <2>4, <3>2
      <4> QED
        BY <2>1, <2>2, <3>2, <3>3, <4>1
    <3> QED
      BY <3>1, <3>3
  <2> QED
    BY <2>3, <2>4
<1>4. CASE QuietPeriod \/ ShieldCleanup \/ BanExpires
  BY <1>4 DEF QuietPeriod, ShieldCleanup, BanExpires
<1>5. CASE ChangeAddress
  <2>1. address' \in Addresses /\ UNCHANGED <<cookie, proven>>
    BY <1>5 DEF ChangeAddress
  <2>2. ipBanned' \in BOOLEAN
    BY <1>5, Zenon DEF ChangeAddress, ProofInv
  <2> QED
    BY <2>1, <2>2
<1>6. CASE UNCHANGED shieldVars
  BY <1>6 DEF shieldVars
<1> QED
  BY <1>1, <1>2, <1>3, <1>4, <1>5, <1>6 DEF ShieldNext

(* In the modes that challenge everybody no request that nothing exempts   *)
(* is let in unless the address it names passed a verification within a    *)
(* proof's life (challenge.go VerifyProof, pipeline.go                     *)
(* determineStageWithFP, server.go extractIP), whatever the limits,        *)
(* thresholds, lifetimes, addresses and requests are.                      *)
THEOREM ProofNeededHolds == ShieldSpec => ProofNeeded
<1> DEFINE Everybody == {"silent", "challenge", "captcha", "emergency"}
           Needed == proven[address] > CookieTTL /\ mode \in Everybody /\ page'.kind = "content"
                       => \A r \in Requests : Clean(r) => ~Process(r)
<1>1. ShieldInit => ProofInv
  <2> SUFFICES ASSUME ShieldInit PROVE ProofInv
    OBVIOUS
  <2>1. cookie = NoCookie /\ proven = [a \in Addresses |-> CookieTTL + 1] /\ address \in Addresses
    BY DEF ShieldInit
  <2>2. cookie.age = CookieTTL + 1
    BY <2>1 DEF NoCookie
  <2>3. ipBanned \in BOOLEAN
    BY Zenon DEF ShieldInit
  <2> QED
    BY <2>1, <2>2, <2>3, ShieldAssumption DEF ProofInv
<1>2. ProofInv => [Needed]_shieldVars
  <2> SUFFICES ASSUME ProofInv, mode \in Everybody, page'.kind = "content",
                      NEW r \in Requests, Clean(r), Process(r)
               PROVE  proven[address] <= CookieTTL
    BY ShieldAssumption DEF ProofInv
  <2> DEFINE L == Layers(r)
  <2>1. L \in Seq(Guarded(VerifyProof))
    BY LayersGuarded
  <2> HIDE DEF L
  <2>2. PICK i \in 1 .. Len(L) :
          /\ L[i].hit
          /\ page' = CASE L[i].reply = "allow"     -> [kind |-> "content", difficulty |-> 0]
                       [] L[i].reply = "challenge" -> ServeChallenge(L[i])
                       [] OTHER                    -> [kind |-> "refused", difficulty |-> 0]
    BY DEF Process, L
  <2>3. L[i] \in Guarded(VerifyProof)
    BY <2>1, <2>2
  <2>4. L[i].reply = "allow"
    <3>1. ServeChallenge(L[i]).kind # "content"
      BY DEF ServeChallenge, serveJSChallenge, serveCAPTCHAChallenge, serveSilentChallenge
    <3> QED
      BY <2>2, <3>1
  <2>5. VerifyProof
    BY <2>2, <2>3, <2>4 DEF Guarded
  <2> QED
    BY <2>5, ShieldAssumption DEF VerifyProof, ProofInv
<1>3. ShieldSpec => [][Needed]_shieldVars
  BY <1>1, <1>2, ProofInductive, PTL DEF ShieldSpec
<1> QED
  BY <1>3 DEF ProofNeeded

-----------------------------------------------------------------------------
(* Induction over data.  The library's induction theorems take a formula   *)
(* as a parameter; these take a set, and rest on the well-founded order of *)
(* the naturals.                                                           *)
\* The order of the naturals as a set of pairs.
Less == {p \in Nat \X Nat : p[1] < p[2]}

\* Every set of naturals has a least element: WFMin, which names no operator.
LEMMA LeastNatural ==
  ASSUME NEW T \in SUBSET Nat, T # {} PROVE \E x \in T : \A y \in T : x <= y
<1>1. IsWellFoundedOn(Less, Nat)
  BY NatLessThanWellFounded, Zenon DEF OpToRel, Less
<1>2. PICK x \in T : \A y \in T : ~ (<<y, x>> \in Less)
  BY <1>1, WFMin
<1>3. ASSUME NEW y \in T PROVE x <= y
  <2>1. y < x => <<y, x>> \in Less
    BY DEF Less
  <2> QED
    BY <1>2, <2>1
<1> QED
  BY <1>3

\* Induction over the naturals, for a set.
LEMMA NatSetInduction ==
  ASSUME NEW A \in SUBSET Nat, 0 \in A, \A n \in A : n + 1 \in A
  PROVE  A = Nat
<1> SUFFICES ASSUME Nat \ A # {} PROVE FALSE
  OBVIOUS
<1>1. PICK x \in Nat \ A : \A y \in Nat \ A : x <= y
  BY LeastNatural
<1>2. x # 0 /\ x - 1 \in Nat
  BY <1>1
<1>3. x - 1 \in A
  BY <1>1, <1>2
<1>4. (x - 1) + 1 = x
  BY <1>1
<1> QED
  BY <1>1, <1>3, <1>4

\* One step of the loop of Keep, and f doing the first n.
KeepStep(f, i, s, S) ==
  IF i = 0 THEN <<>> ELSE IF s[i] \in S THEN Append(f[i - 1], s[i]) ELSE f[i - 1]

Keeps(f, n, s, S) == f = [i \in 0 .. n |-> KeepStep(f, i, s, S)]

\* Keep's recursion defines a function.
LEMMA KeepRecursion ==
  ASSUME NEW s, NEW S, NEW n \in Nat
  PROVE  \E f : Keeps(f, n, s, S)
<1> DEFINE A == {k \in Nat : \E f : Keeps(f, k, s, S)}
<1>1. 0 \in A
  <2> DEFINE f == [i \in 0 .. 0 |-> <<>>]
  <2>1. f = [i \in 0 .. 0 |-> KeepStep(f, i, s, S)]
    BY DEF KeepStep
  <2> QED
    BY <2>1 DEF Keeps
<1>2. ASSUME NEW k \in A PROVE k + 1 \in A
  <2>1. PICK f : f = [i \in 0 .. k |-> KeepStep(f, i, s, S)]
    BY DEF Keeps
  <2> DEFINE g == [i \in 0 .. k + 1 |-> IF i = k + 1 THEN KeepStep(f, i, s, S) ELSE f[i]]
  <2>2. ASSUME NEW i \in 0 .. k + 1 PROVE g[i] = KeepStep(g, i, s, S)
    <3>1. CASE i = 0
      BY <2>1, <3>1 DEF KeepStep
    <3>2. CASE i # 0
      <4>1. i - 1 \in 0 .. k + 1 /\ i - 1 # k + 1
        BY <3>2
      <4>2. g[i - 1] = f[i - 1]
        BY <4>1
      <4>3. g[i] = KeepStep(f, i, s, S)
        BY <2>1
      <4> QED
        BY <4>2, <4>3, <3>2 DEF KeepStep
    <3> QED
      BY <3>1, <3>2
  <2>3. g = [i \in 0 .. k + 1 |-> KeepStep(g, i, s, S)]
    BY <2>2
  <2> HIDE DEF g
  <2> QED
    BY <2>3 DEF Keeps
<1> HIDE DEF A
<1>3. A = Nat
  <2>1. A \subseteq Nat
    BY DEF A
  <2> QED
    BY <1>1, <1>2, <2>1, NatSetInduction
<1> QED
  BY <1>3 DEF A

\* What Keep has copied after the first k values of s.
LEMMA KeepUnfolds ==
  ASSUME NEW V, NEW s \in Seq(V), NEW S
  PROVE  \E f : /\ Keep(s, S) = f[Len(s)]
                /\ Keeps(f, Len(s), s, S)
<1> DEFINE K == CHOOSE f : f = [i \in 0 .. Len(s) |-> KeepStep(f, i, s, S)]
<1>1. Len(s) \in Nat
  OBVIOUS
<1>2. \E f : f = [i \in 0 .. Len(s) |-> KeepStep(f, i, s, S)]
  <2>1. \E f : Keeps(f, Len(s), s, S)
    BY <1>1, KeepRecursion
  <2> QED
    BY <2>1 DEF Keeps
<1>3. K = [i \in 0 .. Len(s) |-> KeepStep(K, i, s, S)]
  BY <1>2, Zenon
<1>4. Keep(s, S) = K[Len(s)]
  BY Zenon DEF Keep, KeepStep
<1> HIDE DEF K
<1> QED
  BY <1>3, <1>4, Zenon DEF Keeps

\* The values of a sequence, and of one with one more.
LEMMA RangeAppend ==
  ASSUME NEW V, NEW s \in Seq(V), NEW v
  PROVE  Range(s) = {s[i] : i \in 1 .. Len(s)} /\ Range(Append(s, v)) = Range(s) \cup {v}
<1> DEFINE t == Append(s, v)
<1>1. DOMAIN s = 1 .. Len(s) /\ Len(s) \in Nat
  OBVIOUS
<1>2. DOMAIN t = 1 .. Len(s) + 1 /\ t[Len(s) + 1] = v /\ \A i \in 1 .. Len(s) : t[i] = s[i]
  OBVIOUS
<1> HIDE DEF t
<1>3. Range(s) = {s[i] : i \in 1 .. Len(s)}
  BY <1>1 DEF Range
<1>4. Range(t) = {t[i] : i \in 1 .. Len(s) + 1}
  BY <1>2 DEF Range
<1>5. \A i \in Nat : i \in 1 .. Len(s) + 1 <=> i \in 1 .. Len(s) \/ i = Len(s) + 1
  BY <1>1
<1>6. Range(t) = Range(s) \cup {v}
  BY <1>1, <1>2, <1>3, <1>4, <1>5
<1> QED
  BY <1>3, <1>6 DEF t

\* Keep is a sequence of the same type, with those values of s that are in S.
LEMMA KeepValues ==
  ASSUME NEW V, NEW s \in Seq(V), NEW S
  PROVE  Keep(s, S) \in Seq(V) /\ Range(Keep(s, S)) = Range(s) \cap S
<1>1. PICK f : /\ Keep(s, S) = f[Len(s)]
              /\ Keeps(f, Len(s), s, S)
  BY KeepUnfolds
<1>a. ASSUME NEW i \in 0 .. Len(s) PROVE f[i] = KeepStep(f, i, s, S)
  BY <1>1, Zenon DEF Keeps
<1> DEFINE A == {k \in Nat : k <= Len(s) =>
                   f[k] \in Seq(V) /\ Range(f[k]) = {s[i] : i \in 1 .. k} \cap S}
<1>2. 0 \in A
  <2>1. f[0] = KeepStep(f, 0, s, S)
    BY <1>a
  <2>2. f[0] = <<>>
    BY <2>1 DEF KeepStep
  <2>3. f[0] \in Seq(V)
    BY <2>2
  <2>4. Range(f[0]) = {}
    BY <2>2 DEF Range
  <2>5. {s[i] : i \in 1 .. 0} = {}
    OBVIOUS
  <2> QED
    BY <2>3, <2>4, <2>5
<1>3. ASSUME NEW k \in A PROVE k + 1 \in A
  <2> SUFFICES ASSUME k + 1 <= Len(s)
               PROVE  /\ f[k + 1] \in Seq(V)
                      /\ Range(f[k + 1]) = {s[i] : i \in 1 .. k + 1} \cap S
    OBVIOUS
  <2>1. k + 1 \in 1 .. Len(s) /\ s[k + 1] \in V /\ k \in 0 .. Len(s)
    OBVIOUS
  <2>2. f[k] \in Seq(V) /\ Range(f[k]) = {s[i] : i \in 1 .. k} \cap S
    BY <2>1
  <2>a. f[k + 1] = KeepStep(f, k + 1, s, S)
    <3>1. k + 1 \in 0 .. Len(s)
      BY <2>1
    <3> QED
      BY <3>1, <1>a
  <2>b. k + 1 # 0 /\ (k + 1) - 1 = k
    BY <2>1
  <2>3. f[k + 1] = IF s[k + 1] \in S THEN Append(f[k], s[k + 1]) ELSE f[k]
    BY <2>a, <2>b, Zenon DEF KeepStep
  <2>4. {s[i] : i \in 1 .. k + 1} = {s[i] : i \in 1 .. k} \cup {s[k + 1]}
    BY <2>1
  <2>5. Range(Append(f[k], s[k + 1])) = Range(f[k]) \cup {s[k + 1]}
    BY <2>1, <2>2, RangeAppend
  <2>6. CASE s[k + 1] \in S
    BY <2>1, <2>2, <2>3, <2>4, <2>5, <2>6
  <2>7. CASE s[k + 1] \notin S
    BY <2>1, <2>2, <2>3, <2>4, <2>7
  <2> QED
    BY <2>6, <2>7
<1> HIDE DEF A
<1>4. A = Nat
  <2>1. A \subseteq Nat
    BY DEF A
  <2> QED
    BY <1>2, <1>3, <2>1, NatSetInduction
<1>5. Len(s) \in A
  BY <1>4
<1> QED
  BY <1>1, <1>5 DEF A, Range

\* Keep of no value (filterGREASE16).
LEMMA KeepEmpty == ASSUME NEW S PROVE Keep(<<>>, S) = <<>>
<1>a. <<>> \in Seq({})
  OBVIOUS
<1>1. PICK s \in Seq({}) : s = <<>>
  BY <1>a
<1>2. PICK f : /\ Keep(s, S) = f[Len(s)]
               /\ Keeps(f, Len(s), s, S)
  BY KeepUnfolds
<1>3. Len(s) = 0 /\ 0 \in 0 .. Len(s)
  BY <1>1
<1>4. f[0] = KeepStep(f, 0, s, S)
  BY <1>2, <1>3, Zenon DEF Keeps
<1>5. f[0] = <<>>
  BY <1>4 DEF KeepStep
<1> QED
  BY <1>1, <1>2, <1>3, <1>5

\* One value more.
LEMMA KeepAppend ==
  ASSUME NEW V, NEW s \in Seq(V), NEW v \in V, NEW S
  PROVE  /\ v \in S => Keep(Append(s, v), S) = Append(Keep(s, S), v)
         /\ v \notin S => Keep(Append(s, v), S) = Keep(s, S)
<1> DEFINE t == Append(s, v)
<1>1. t \in Seq(V) /\ Len(s) \in Nat /\ Len(t) = Len(s) + 1 /\ t[Len(s) + 1] = v
  OBVIOUS
<1>2. \A i \in 1 .. Len(s) : t[i] = s[i]
  OBVIOUS
<1> HIDE DEF t
<1>3. PICK f : /\ Keep(s, S) = f[Len(s)]
               /\ Keeps(f, Len(s), s, S)
  BY KeepUnfolds
<1>4. PICK g : /\ Keep(t, S) = g[Len(t)]
               /\ Keeps(g, Len(t), t, S)
  BY <1>1, KeepUnfolds
<1>5. ASSUME NEW i \in 0 .. Len(s) PROVE f[i] = KeepStep(f, i, s, S)
  BY <1>3, Zenon DEF Keeps
<1>6. ASSUME NEW i \in 0 .. Len(t) PROVE g[i] = KeepStep(g, i, t, S)
  BY <1>4, Zenon DEF Keeps
<1> DEFINE A == {k \in Nat : k <= Len(s) => g[k] = f[k]}
<1>7. 0 \in A
  <2>1. f[0] = KeepStep(f, 0, s, S) /\ g[0] = KeepStep(g, 0, t, S)
    BY <1>1, <1>5, <1>6
  <2>2. f[0] = <<>> /\ g[0] = <<>>
    BY <2>1 DEF KeepStep
  <2> QED
    BY <2>2
<1>8. ASSUME NEW k \in A PROVE k + 1 \in A
  <2> SUFFICES ASSUME k + 1 <= Len(s) PROVE g[k + 1] = f[k + 1]
    OBVIOUS
  <2>1. k + 1 \in 0 .. Len(s) /\ k + 1 \in 0 .. Len(t) /\ k + 1 \in 1 .. Len(s)
    BY <1>1
  <2>2. k + 1 # 0 /\ (k + 1) - 1 = k
    OBVIOUS
  <2>3. f[k] = g[k] /\ t[k + 1] = s[k + 1]
    BY <1>1, <1>2, <2>1
  <2>4. f[k + 1] = KeepStep(f, k + 1, s, S) /\ g[k + 1] = KeepStep(g, k + 1, t, S)
    BY <1>5, <1>6, <2>1
  <2>5. f[k + 1] = IF s[k + 1] \in S THEN Append(f[k], s[k + 1]) ELSE f[k]
    BY <2>2, <2>4, Zenon DEF KeepStep
  <2>6. g[k + 1] = IF t[k + 1] \in S THEN Append(g[k], t[k + 1]) ELSE g[k]
    BY <2>2, <2>4, Zenon DEF KeepStep
  <2> QED
    BY <2>3, <2>5, <2>6
<1> HIDE DEF A
<1>9. Len(s) \in A
  <2>1. A \subseteq Nat
    BY DEF A
  <2> QED
    BY <1>1, <1>7, <1>8, <2>1, NatSetInduction
<1>10. g[Len(s)] = f[Len(s)]
  BY <1>1, <1>9 DEF A
<1>11. g[Len(s) + 1] = KeepStep(g, Len(s) + 1, t, S)
  BY <1>1, <1>6
<1>12. Len(s) + 1 # 0 /\ (Len(s) + 1) - 1 = Len(s)
  BY <1>1
<1>13. g[Len(s) + 1] = IF v \in S THEN Append(g[Len(s)], v) ELSE g[Len(s)]
  BY <1>1, <1>11, <1>12, Zenon DEF KeepStep
<1> QED
  BY <1>1, <1>3, <1>4, <1>10, <1>13 DEF t

\* A prefix and its next value are the next prefix.
LEMMA PrefixAppend ==
  ASSUME NEW V, NEW u \in Seq(V), NEW j \in Nat, j + 1 <= Len(u)
  PROVE  SubSeq(u, 1, j) \in Seq(V) /\ Append(SubSeq(u, 1, j), u[j + 1]) = SubSeq(u, 1, j + 1)
<1> DEFINE p == SubSeq(u, 1, j)
           q == SubSeq(u, 1, j + 1)
           r == Append(p, u[j + 1])
<1>1. \A i \in 1 .. j + 1 : u[i] \in V
  OBVIOUS
<1>2. \A i \in 1 .. j : u[i] \in V
  BY <1>1
<1>3. p \in Seq(V) /\ Len(p) = j /\ \A i \in 1 .. j : p[i] = u[i]
  BY <1>2, SubSeqProperties
<1>4. q \in Seq(V) /\ Len(q) = j + 1 /\ \A i \in 1 .. j + 1 : q[i] = u[i]
  BY <1>1, SubSeqProperties
<1> HIDE DEF p, q
<1>5. r \in Seq(V) /\ Len(r) = j + 1 /\ r[j + 1] = u[j + 1] /\ \A i \in 1 .. j : r[i] = p[i]
  BY <1>1, <1>3
<1> HIDE DEF r
<1>6. \A i \in 1 .. j + 1 : r[i] = q[i]
  BY <1>3, <1>4, <1>5
<1>7. r = q
  BY <1>4, <1>5, <1>6, SeqEqual
<1> QED
  BY <1>3, <1>7 DEF p, q, r

\* Keep takes a value that fails its test out of a sequence of values that pass, wherever it is.
LEMMA KeepTakesOut ==
  ASSUME NEW S, NEW s \in Seq(S), NEW t \in Seq(S), NEW g, g \notin S
  PROVE  Keep(s \o <<g>> \o t, S) = s \o t
<1> DEFINE V == S \cup {g}
           u == s \o t
           w == s \o <<g>> \o t
           n == Len(s)
<1>1. /\ u \in Seq(S) /\ Len(u) = n + Len(t) /\ n \in Nat /\ Len(t) \in Nat
      /\ \A i \in 1 .. n : u[i] = s[i]
      /\ \A i \in 1 .. Len(t) : u[n + i] = t[i]
  OBVIOUS
<1>2. /\ w \in Seq(V) /\ Len(w) = n + 1 + Len(t) /\ w[n + 1] = g
      /\ \A i \in 1 .. n : w[i] = s[i]
      /\ \A i \in 1 .. Len(t) : w[n + 1 + i] = t[i]
  <2> DEFINE x == s \o <<g>>
  <2>1. s \in Seq(V) /\ t \in Seq(V) /\ <<g>> \in Seq(V)
    BY SeqMonotonic
  <2>2. x \in Seq(V) /\ Len(x) = n + 1 /\ x[n + 1] = g /\ \A i \in 1 .. n : x[i] = s[i]
    BY <1>1, <2>1
  <2> HIDE DEF x, V
  <2>3. /\ x \o t \in Seq(V) /\ Len(x \o t) = n + 1 + Len(t)
        /\ \A i \in 1 .. n + 1 : (x \o t)[i] = x[i]
        /\ \A i \in 1 .. Len(t) : (x \o t)[n + 1 + i] = t[i]
    <3>1. Len(t) \in Nat /\ t \in Seq(V)
      BY <2>1
    <3> QED
      <4>1. /\ x \o t \in Seq(V) /\ Len(x \o t) = Len(x) + Len(t)
            /\ \A i \in 1 .. Len(x) + Len(t) :
                 (x \o t)[i] = IF i <= Len(x) THEN x[i] ELSE t[i - Len(x)]
        BY <2>2, <3>1, ConcatProperties, Zenon
      <4>2. ASSUME NEW i \in 1 .. Len(t) PROVE (x \o t)[n + 1 + i] = t[i]
        <5>1. /\ n + 1 + i \in 1 .. Len(x) + Len(t) /\ ~(n + 1 + i <= Len(x))
              /\ (n + 1 + i) - Len(x) = i
          BY <1>1, <2>2, <3>1
        <5> QED
          BY <4>1, <5>1
      <4>3. ASSUME NEW i \in 1 .. n + 1 PROVE (x \o t)[i] = x[i]
        <5>1. i \in 1 .. Len(x) + Len(t) /\ i <= Len(x)
          BY <1>1, <2>2, <3>1
        <5> QED
          BY <4>1, <5>1
      <4> QED
        BY <2>2, <4>1, <4>2, <4>3
  <2>4. n + 1 \in 1 .. n + 1 /\ \A i \in 1 .. n : i \in 1 .. n + 1
    BY <1>1
  <2> QED
    BY <2>2, <2>3, <2>4 DEF x
<1> HIDE DEF u, w, V, n
<1>3. PICK f : /\ Keep(w, S) = f[Len(w)]
               /\ Keeps(f, Len(w), w, S)
  BY <1>2, KeepUnfolds
<1>4. ASSUME NEW i \in 0 .. Len(w) PROVE f[i] = KeepStep(f, i, w, S)
  BY <1>3, Zenon DEF Keeps
<1> DEFINE At(k) == IF k <= n THEN k ELSE k - 1
           A == {k \in Nat : k <= Len(w) => f[k] = SubSeq(u, 1, At(k))}
<1>5. 0 \in A
  <2>1. f[0] = KeepStep(f, 0, w, S)
    BY <1>1, <1>2, <1>4
  <2>2. f[0] = <<>>
    BY <2>1 DEF KeepStep
  <2>3. SubSeq(u, 1, 0) = <<>>
    BY SubSeqEmpty
  <2>4. At(0) = 0
    BY <1>1
  <2> QED
    BY <2>2, <2>3, <2>4
<1>6. ASSUME NEW k \in A PROVE k + 1 \in A
  <2> SUFFICES ASSUME k + 1 <= Len(w) PROVE f[k + 1] = SubSeq(u, 1, At(k + 1))
    OBVIOUS
  <2>1. k \in Nat /\ k <= Len(w) /\ k + 1 \in 0 .. Len(w) /\ k + 1 # 0 /\ (k + 1) - 1 = k
    BY <1>1, <1>2
  <2>2. f[k] = SubSeq(u, 1, At(k))
    BY <2>1
  <2>3. f[k + 1] = KeepStep(f, k + 1, w, S)
    BY <1>4, <2>1
  <2>4. f[k + 1] = IF w[k + 1] \in S THEN Append(f[k], w[k + 1]) ELSE f[k]
    BY <2>1, <2>3, Zenon DEF KeepStep
  <2>5. CASE k + 1 <= n
    <3>1. k + 1 \in 1 .. n /\ k + 1 \in 1 .. Len(u) /\ At(k) = k /\ At(k + 1) = k + 1
      BY <1>1, <2>1, <2>5
    <3>2. w[k + 1] = u[k + 1] /\ u[k + 1] \in S
      BY <1>1, <1>2, <3>1
    <3> QED
      BY <1>1, <2>1, <2>2, <2>4, <3>1, <3>2, PrefixAppend
  <2>6. CASE k = n
    <3>1. At(k) = k /\ At(k + 1) = k
      BY <1>1, <2>6
    <3> QED
      BY <1>2, <2>2, <2>4, <2>6, <3>1
  <2>7. CASE k > n
    <3>1. PICK i \in 1 .. Len(t) : k = n + i
      <4>1. k - n \in 1 .. Len(t) /\ k = n + (k - n)
        BY <1>1, <1>2, <2>1, <2>7
      <4> QED
        BY <4>1
    <3>2. /\ k - 1 \in Nat /\ (k - 1) + 1 = k /\ k <= Len(u) /\ k \in 1 .. Len(u)
          /\ At(k) = k - 1 /\ At(k + 1) = k /\ k + 1 = n + 1 + i
      BY <1>1, <2>1, <2>7, <3>1
    <3>3. w[k + 1] = t[i] /\ u[k] = t[i] /\ u[k] \in S
      BY <1>1, <1>2, <3>1, <3>2
    <3>4. Append(SubSeq(u, 1, k - 1), u[k]) = SubSeq(u, 1, k)
      BY <1>1, <3>2, PrefixAppend
    <3> QED
      BY <2>2, <2>4, <3>2, <3>3, <3>4
  <2> QED
    BY <1>1, <2>1, <2>5, <2>6, <2>7
<1> HIDE DEF A
<1>7. Len(w) \in A
  <2>1. A \subseteq Nat
    BY DEF A
  <2> QED
    <3>1. A = Nat
      BY <1>5, <1>6, <2>1, NatSetInduction
    <3>2. Len(w) \in Nat
      BY <1>1, <1>2
    <3> QED
      BY <3>1, <3>2
<1>8. f[Len(w)] = SubSeq(u, 1, Len(u))
  <2>1. f[Len(w)] = SubSeq(u, 1, At(Len(w)))
    BY <1>1, <1>2, <1>7 DEF A
  <2>2. At(Len(w)) = Len(u)
    BY <1>1, <1>2
  <2> QED
    BY <2>1, <2>2
<1>9. SubSeq(u, 1, Len(u)) = u
  BY <1>1
<1> QED
  BY <1>3, <1>8, <1>9 DEF u, w

\* Keep leaves a sequence of values that pass as it is.
LEMMA KeepAll == ASSUME NEW S, NEW s \in Seq(S) PROVE Keep(s, S) = s
<1> DEFINE A == {k \in Nat : k <= Len(s) => Keep(SubSeq(s, 1, k), S) = SubSeq(s, 1, k)}
<1>1. 0 \in A
  <2>1. SubSeq(s, 1, 0) = <<>>
    BY SubSeqEmpty
  <2> QED
    BY <2>1, KeepEmpty
<1>2. ASSUME NEW k \in A PROVE k + 1 \in A
  <2> SUFFICES ASSUME k + 1 <= Len(s) PROVE Keep(SubSeq(s, 1, k + 1), S) = SubSeq(s, 1, k + 1)
    OBVIOUS
  <2> DEFINE p == SubSeq(s, 1, k)
  <2>1. p \in Seq(S) /\ Append(p, s[k + 1]) = SubSeq(s, 1, k + 1)
    BY PrefixAppend
  <2>2. Keep(p, S) = p /\ s[k + 1] \in S
    OBVIOUS
  <2> HIDE DEF p, A
  <2>3. Keep(Append(p, s[k + 1]), S) = Append(Keep(p, S), s[k + 1])
    <3>1. PICK v \in S : v = s[k + 1]
      BY <2>2
    <3>2. PICK q \in Seq(S) : q = p
      BY <2>1
    <3>3. Keep(Append(q, v), S) = Append(Keep(q, S), v)
      BY KeepAppend
    <3> QED
      BY <3>1, <3>2, <3>3
  <2> QED
    BY <2>1, <2>2, <2>3 DEF p
<1> HIDE DEF A
<1>3. Len(s) \in A
  <2>1. A \subseteq Nat
    BY DEF A
  <2>2. A = Nat
    BY <1>1, <1>2, <2>1, NatSetInduction
  <2> QED
    BY <2>2
<1>4. Keep(SubSeq(s, 1, Len(s)), S) = SubSeq(s, 1, Len(s))
  BY <1>3 DEF A
<1>5. SubSeq(s, 1, Len(s)) = s
  OBVIOUS
<1> QED
  BY <1>4, <1>5

-----------------------------------------------------------------------------
(* Fingerprints.                                                           *)
\* Every client is one of six.
LEMMA ClientCases ==
  ASSUME NEW c \in Clients
  PROVE  c = "chrome" \/ c = "firefox" \/ c = "safari" \/ c = "edge" \/ c = "tool" \/ c = "other"
BY DEF Clients, Browsers

\* What each client sends, apart from GREASE.
LEMMA ValuesOf ==
  /\ Values("chrome") = <<4865, 23>> /\ Values("firefox") = <<4867, 23>>
  /\ Values("safari") = <<4866, 10>> /\ Values("edge") = <<4865, 27>>
  /\ Values("tool") = <<157>> /\ Values("other") = <<53>>
BY DEF Values

\* None of these values is GREASE, and neither list is empty.
LEMMA HelloPlain ==
  ASSUME NEW c \in Clients
  PROVE  /\ Values(c) \in Seq(NotGREASE) /\ Values(c) # <<>>
         /\ Extensions(c) \in Seq(NotGREASE) /\ Extensions(c) # <<>>
<1>1. /\ 4865 \in NotGREASE /\ 4866 \in NotGREASE /\ 4867 \in NotGREASE /\ 157 \in NotGREASE
      /\ 53 \in NotGREASE /\ 23 \in NotGREASE /\ 27 \in NotGREASE /\ 10 \in NotGREASE
      /\ 0 \in NotGREASE /\ 11 \in NotGREASE /\ 43 \in NotGREASE
  BY DEF NotGREASE, isGREASE, Uint16
<1> DEFINE h1 == <<4865, 23>>
           h2 == <<4867, 23>>
           h3 == <<4866, 10>>
           h4 == <<4865, 27>>
           h5 == <<157>>
           h6 == <<53>>
           x1 == <<11>>
           x2 == <<0, 43>>
<1>2. /\ h1 \in Seq(NotGREASE) /\ h2 \in Seq(NotGREASE) /\ h3 \in Seq(NotGREASE)
      /\ h4 \in Seq(NotGREASE) /\ h5 \in Seq(NotGREASE) /\ h6 \in Seq(NotGREASE)
      /\ x1 \in Seq(NotGREASE) /\ x2 \in Seq(NotGREASE)
  BY <1>1
<1>3. /\ h1 # <<>> /\ h2 # <<>> /\ h3 # <<>> /\ h4 # <<>> /\ h5 # <<>> /\ h6 # <<>>
      /\ x1 # <<>> /\ x2 # <<>>
  OBVIOUS
<1>4. /\ Values("chrome") = h1 /\ Values("firefox") = h2 /\ Values("safari") = h3
      /\ Values("edge") = h4 /\ Values("tool") = h5 /\ Values("other") = h6
  BY ValuesOf
<1>5. Extensions(c) = x1 \/ Extensions(c) = x2
  BY Zenon DEF Extensions
<1> HIDE DEF h1, h2, h3, h4, h5, h6, x1, x2
<1>6. Values(c) \in Seq(NotGREASE) /\ Values(c) # <<>>
  BY <1>2, <1>3, <1>4, ClientCases, Zenon
<1> QED
  BY <1>2, <1>3, <1>5, <1>6, Zenon

\* Wherever GREASE is put in, the filter leaves what the client sends without it (filterGREASE16).
LEMMA GreaseFiltered ==
  ASSUME NEW h \in Seq(NotGREASE), h # <<>>, NEW t \in Greased(h)
  PROVE  filterGREASE16(t) = h
<1>3. \A g \in Greases : g \notin NotGREASE
  <2>1. \A g \in Greases : isGREASE(g)
    BY FpAssumption, Zenon
  <2>2. \A v \in NotGREASE : ~isGREASE(v)
    BY Zenon DEF NotGREASE
  <2> QED
    BY <2>1, <2>2, Zenon
<1>4. \/ t = h
      \/ \E g \in Greases : t = <<h[1]>> \o <<g>> \o Tail(h)
      \/ \E g \in Greases : t = h \o <<g>>
  BY Zenon DEF Greased
<1>5. CASE t = h
  BY <1>5, KeepAll DEF filterGREASE16
<1>6. ASSUME NEW g \in Greases, t = <<h[1]>> \o <<g>> \o Tail(h)
      PROVE  filterGREASE16(t) = h
  <2>1. <<h[1]>> \in Seq(NotGREASE) /\ Tail(h) \in Seq(NotGREASE)
    OBVIOUS
  <2>2. <<h[1]>> \o Tail(h) = h
    <3>1. /\ <<h[1]>> \o Tail(h) \in Seq(NotGREASE) /\ Len(<<h[1]>> \o Tail(h)) = Len(h)
      BY <2>1
    <3>2. \A i \in 1 .. Len(h) : (<<h[1]>> \o Tail(h))[i] = h[i]
      BY <2>1
    <3> QED
      BY <3>1, <3>2, SeqEqual
  <2> QED
    BY <1>3, <1>6, <2>1, <2>2, KeepTakesOut DEF filterGREASE16
<1>7. ASSUME NEW g \in Greases, t = h \o <<g>>
      PROVE  filterGREASE16(t) = h
  <2>1. <<>> \in Seq(NotGREASE) /\ h \o <<>> = h
    OBVIOUS
  <2>2. h \o <<g>> \o <<>> = h \o <<g>>
    OBVIOUS
  <2>3. Keep(h \o <<g>> \o <<>>, NotGREASE) = h \o <<>>
    BY <1>3, <2>1, KeepTakesOut
  <2> QED
    BY <1>7, <2>1, <2>2, <2>3 DEF filterGREASE16
<1> QED
  BY <1>4, <1>5, <1>6, <1>7

\* The name the lookup gives a client.
NameOf(c) == IF c = "other" THEN Unknown ELSE c

\* Clients differ in what they send (InitKnownBrowsers).
LEMMA ValuesDiffer == ASSUME NEW c \in Clients, NEW d \in Clients, Values(c) = Values(d) PROVE c = d
<1>1. /\ \A x, y, u, v \in Nat : <<x, y>> = <<u, v>> => x = u /\ y = v
      /\ \A x, u, v \in Nat : <<x>> # <<u, v>>
      /\ \A x, u \in Nat : <<x>> = <<u>> => x = u
  OBVIOUS
<1> QED
  BY <1>1, ValuesOf, ClientCases

\* The hello as it was sent is that of its client, wherever the GREASE is (JA3 of fingerprint.go).
LEMMA JA3Names ==
  ASSUME NEW c \in Clients, NEW v \in Greased(Values(c)), NEW x \in Greased(Extensions(c))
  PROVE  JA3(WithGrease(c, v, x)) = NameOf(c)
<1> DEFINE h == WithGrease(c, v, x)
<1>1. filterGREASE16(v) = Values(c) /\ filterGREASE16(x) = Extensions(c)
  BY HelloPlain, GreaseFiltered
<1>2. Plain(h).version = 771 /\ Plain(h).values = Values(c) /\ Plain(h).exts = Extensions(c)
  BY <1>1 DEF Plain, WithGrease
<1>3. \A d : /\ Hello(d).version = 771 /\ Hello(d).values = Values(d)
             /\ Hello(d).exts = Extensions(d)
  BY DEF Hello, WithGrease
<1>4. \A d \in Known : d \in Clients
  BY DEF Known, Clients
<1>5. \A d \in Known : SameJA3(Plain(h), Hello(d)) => d = c
  <2> SUFFICES ASSUME NEW d \in Known, SameJA3(Plain(h), Hello(d)) PROVE d = c
    OBVIOUS
  <2>1. Values(c) = Values(d)
    BY <1>2, <1>3 DEF SameJA3
  <2> QED
    BY <1>4, <2>1, ValuesDiffer
<1>6. SameJA3(Plain(h), Hello(c))
  BY <1>2, <1>3, Zenon DEF SameJA3
<1> HIDE DEF h
<1>7. CASE c = "other"
  <2>1. c \notin Known
    BY <1>7 DEF Known, Browsers
  <2> QED
    BY <1>5, <1>7, <2>1, Zenon DEF JA3, NameOf, h
<1>8. CASE c # "other"
  <2>1. c \in Known
    BY <1>8 DEF Known, Clients
  <2> DEFINE n == CHOOSE d \in Known : SameJA3(Plain(h), Hello(d))
  <2>2. n \in Known /\ SameJA3(Plain(h), Hello(n))
    BY <1>6, <2>1, Zenon
  <2>3. JA3(h) = n
    BY <1>6, <2>1, Zenon DEF JA3
  <2> HIDE DEF n
  <2>4. n = c
    BY <1>5, <2>2, Zenon
  <2> QED
    BY <1>8, <2>3, <2>4, Zenon DEF NameOf, h
<1> QED
  BY <1>7, <1>8

\* A hello without extensions is nobody's (extractFromStdlibHello).
LEMMA JA3Converted ==
  ASSUME NEW c, NEW v, NEW x
  PROVE  JA3(extractFromStdlibHello(WithGrease(c, v, x))) = Unknown
<1> DEFINE h == extractFromStdlibHello(WithGrease(c, v, x))
<1>1. filterGREASE16(<<>>) = <<>>
  <2>1. <<>> \in Seq(NotGREASE)
    OBVIOUS
  <2> QED
    BY <2>1, KeepAll DEF filterGREASE16
<1>2. h.exts = <<>>
  BY DEF extractFromStdlibHello, WithGrease
<1>3. Plain(h).exts = <<>>
  BY <1>1, <1>2 DEF Plain, extractFromStdlibHello, WithGrease
<1>4. \A d \in Known : ~SameJA3(Plain(h), Hello(d))
  <2> SUFFICES ASSUME NEW d \in Known PROVE ~SameJA3(Plain(h), Hello(d))
    OBVIOUS
  <2>1. d \in Clients
    BY DEF Known, Clients
  <2>2. Hello(d).exts = Extensions(d) /\ Extensions(d) # <<>>
    BY <2>1, HelloPlain DEF Hello, WithGrease
  <2> HIDE DEF h
  <2> QED
    BY <1>3, <2>2, Zenon DEF SameJA3
<1> HIDE DEF h
<1> QED
  BY <1>4, Zenon DEF JA3, h

\* The scores of an entry under a name, whatever User-Agent is claimed.
InBand(name, t) ==
  /\ t \in Nat /\ ~IsTrusted(t) /\ ~FpMalicious(t)
  /\ name = Unknown => t = 2575
  /\ name = "tool" <=> t < 2000
  /\ name \in Browsers <=> t >= 4000

\* CalculateComposite keeps an entry in the band of its name.
LEMMA CompositeInBand ==
  ASSUME NEW name \in Known \cup {Unknown}, NEW ua
  PROVE  InBand(name, CalculateComposite(name, ua))
<1> DEFINE a == IF name = Unknown THEN 20 ELSE TrustScore(name)
           b == checkUAConsistency(name, ua)
           t == CalculateComposite(name, ua)
<1>1. t = 30 * a + 25 * 25 + 20 * 30 + 25 * b
  BY DEF CalculateComposite
<1>2. CASE name = Unknown
  <2>1. a = 20 /\ b = 30 /\ name \notin Browsers /\ name # "tool"
    BY <1>2 DEF checkUAConsistency, Browsers, Unknown
  <2> HIDE DEF a, b, t
  <2>2. t = 2575
    BY <1>1, <2>1
  <2> QED
    BY <2>1, <2>2 DEF InBand, IsTrusted, FpMalicious, t
<1>3. CASE name = "tool"
  <2>1. a = 5 /\ b = 5 /\ name \notin Browsers /\ name # Unknown
    BY <1>3 DEF checkUAConsistency, TrustScore, Browsers, Unknown
  <2> HIDE DEF a, b, t
  <2>2. t = 1500
    BY <1>1, <2>1
  <2> QED
    BY <1>3, <2>1, <2>2 DEF InBand, IsTrusted, FpMalicious, t
<1>4. CASE name \in Browsers
  <2>1. name # Unknown /\ name # "tool"
    BY <1>4 DEF Browsers, Unknown
  <2>2. (a = 85 \/ a = 90) /\ (b = 95 \/ b = 90 \/ b = 20)
    <3>1. TrustScore(name) = 85 \/ TrustScore(name) = 90
      BY <2>1 DEF TrustScore
    <3>2. b = 95 \/ b = 90 \/ b = 20
      BY <2>1 DEF checkUAConsistency
    <3> QED
      BY <2>1, <3>1, <3>2
  <2> HIDE DEF a, b, t
  <2>3. t \in Nat /\ t >= 4275 /\ t <= 6300
    BY <1>1, <2>2
  <2> QED
    BY <1>4, <2>1, <2>3 DEF InBand, IsTrusted, FpMalicious, t
<1> QED
  BY <1>2, <1>3, <1>4 DEF Known

(* The hello is one of its client; the entry has the name of the client    *)
(* until the interceptor makes it an unknown one; and every score written, *)
(* and every one read, is in the band of the entry.                        *)
FpInv ==
  /\ fpClient \in Clients /\ fpIntercepts \in BOOLEAN
  /\ \E v \in Greased(Values(fpClient)), x \in Greased(Extensions(fpClient)) :
       fpHello = WithGrease(fpClient, v, x)
  /\ fpDoor \in {"new", "sniffed", "refused", "open"}
  /\ fpDoor = "refused" => fpClient = "tool"
  /\ fpDoor \in {"new", "sniffed"} => fpEntry \in {"none", NameOf(fpClient)}
  /\ fpDoor = "open" => IF fpIntercepts THEN fpEntry = Unknown
                                        ELSE fpEntry \in {"none", NameOf(fpClient)}
  /\ fpAt \in [FpRequests -> {"new", "stored", "judged"}]
  /\ fpJudged \in [FpRequests -> Nat] /\ fpTotal \in Nat
  /\ \A r \in FpRequests : fpAt[r] # "new" =>
       /\ fpDoor = "open" /\ fpEntry # "none" /\ InBand(fpEntry, fpTotal)
       /\ fpAt[r] = "judged" => InBand(fpEntry, fpJudged[r])

\* A client has a name of its own, or none.
LEMMA NameKnown == ASSUME NEW c \in Clients PROVE NameOf(c) \in Known \cup {Unknown} /\ NameOf(c) # "none"
BY ClientCases DEF NameOf, Known, Browsers, Unknown

\* The hello in the invariant is recognised by the sniffer and not by the interceptor.
LEMMA EntryNames ==
  ASSUME FpInv
  PROVE  JA3(fpHello) = NameOf(fpClient) /\ JA3(extractFromStdlibHello(fpHello)) = Unknown
<1>1. PICK v \in Greased(Values(fpClient)), x \in Greased(Extensions(fpClient)) :
        fpHello = WithGrease(fpClient, v, x)
  BY DEF FpInv
<1>2. fpClient \in Clients
  BY DEF FpInv
<1>3. JA3(WithGrease(fpClient, v, x)) = NameOf(fpClient)
  BY <1>2, JA3Names
<1>4. JA3(extractFromStdlibHello(WithGrease(fpClient, v, x))) = Unknown
  BY JA3Converted
<1> QED
  BY <1>1, <1>3, <1>4, Zenon

\* FpInv holds at the start and is kept by every step of door and requests.
LEMMA FpInductive ==
  /\ FpInit => FpInv
  /\ FpInv /\ [FpNext]_fpVars => FpInv'
<1>1. FpInit => FpInv
  BY DEF FpInit, FpInv
<1>2. ASSUME FpInv, NEW r \in FpRequests, FpScore(r) PROVE FpInv'
  <2>1. PICK ua \in Agents : fpTotal' = CalculateComposite(fpEntry, ua)
    BY <1>2 DEF FpScore
  <2>2. fpEntry \in Known \cup {Unknown} /\ fpEntry # "none" /\ fpDoor = "open"
    BY <1>2, NameKnown DEF FpInv, FpScore
  <2>3. InBand(fpEntry, fpTotal') /\ fpTotal' \in Nat
    BY <2>1, <2>2, CompositeInBand DEF InBand
  <2>4. /\ UNCHANGED <<fpIntercepts, fpClient, fpHello, fpDoor, fpEntry, fpJudged>>
        /\ fpAt' = [fpAt EXCEPT ![r] = "stored"]
    BY <1>2 DEF FpScore
  <2>5. \A q \in FpRequests : fpAt'[q] = "judged" => fpAt[q] = "judged"
    BY <1>2, <2>4 DEF FpInv
  <2>6. fpAt' \in [FpRequests -> {"new", "stored", "judged"}]
    BY <1>2, <2>4 DEF FpInv
  <2> QED
    BY <1>2, <2>2, <2>3, <2>4, <2>5, <2>6 DEF FpInv
<1>3. ASSUME FpInv, NEW r \in FpRequests, FpJudge(r) PROVE FpInv'
  <2>1. /\ UNCHANGED <<fpIntercepts, fpClient, fpHello, fpDoor, fpEntry, fpTotal>>
        /\ fpAt[r] = "stored" /\ fpAt' = [fpAt EXCEPT ![r] = "judged"]
        /\ fpJudged' = [fpJudged EXCEPT ![r] = fpTotal]
    BY <1>3 DEF FpJudge
  <2>2. fpDoor = "open" /\ fpEntry # "none" /\ InBand(fpEntry, fpTotal)
    BY <1>3, <2>1 DEF FpInv
  <2>3. /\ fpAt' \in [FpRequests -> {"new", "stored", "judged"}]
        /\ fpJudged' \in [FpRequests -> Nat]
    BY <1>3, <2>1 DEF FpInv
  <2>4. \A q \in FpRequests : fpAt'[q] = "judged" => InBand(fpEntry, fpJudged'[q])
    BY <1>3, <2>1, <2>2 DEF FpInv
  <2> QED
    BY <1>3, <2>1, <2>2, <2>3, <2>4 DEF FpInv
<1>4. ASSUME FpInv, UNCHANGED fpVars PROVE FpInv'
  BY <1>4 DEF FpInv, fpVars
<1>5. ASSUME FpInv, NEW underAttack \in BOOLEAN, FpSniff(underAttack) PROVE FpInv'
  <2>1. /\ UNCHANGED <<fpIntercepts, fpClient, fpHello, fpTotal, fpAt, fpJudged>>
        /\ fpDoor = "new" /\ fpEntry' = NameOf(fpClient)
    BY <1>5, EntryNames DEF FpSniff
  <2>2. \/ fpDoor' = "sniffed"
        \/ fpDoor' = "refused" /\ fpEntry' # Unknown /\ TrustScore(fpEntry') < 10
    BY <1>5 DEF FpSniff
  <2>3. fpDoor' = "refused" => fpClient = "tool"
    <3> SUFFICES ASSUME fpDoor' = "refused" PROVE fpClient = "tool"
      OBVIOUS
    <3>1. fpEntry' = fpClient
      BY <2>1, <2>2 DEF NameOf
    <3> QED
      BY <2>2, <3>1 DEF TrustScore
  <2> QED
    BY <1>5, <2>1, <2>2, <2>3 DEF FpInv
<1>6. ASSUME FpInv, FpUnsniffed PROVE FpInv'
  BY <1>6 DEF FpInv, FpUnsniffed
<1>7. ASSUME FpInv, FpHandshake PROVE FpInv'
  BY <1>7, EntryNames DEF FpInv, FpHandshake
<1> QED
  BY <1>1, <1>2, <1>3, <1>4, <1>5, <1>6, <1>7 DEF FpNext

(* For any number of requests and any GREASE values: the sniffer turns     *)
(* away tools only, the interceptor's entry gives every client the score   *)
(* of an unknown one, and without it each request has a score of its       *)
(* client, whatever it claims and however requests overtake each other     *)
(* (fingerprint.go, early_reject.go, interceptor.go).                      *)
THEOREM FingerprintBandHolds == FpSpec => []FingerprintBand
<1>1. FpInv => FingerprintBand
  <2> SUFFICES ASSUME FpInv PROVE FingerprintBand
    OBVIOUS
  <2>1. ASSUME NEW r \in FpRequests, fpAt[r] = "judged"
        PROVE  /\ ~IsTrusted(fpJudged[r]) /\ ~FpMalicious(fpJudged[r])
               /\ fpIntercepts => fpJudged[r] = 2575
               /\ ~fpIntercepts => /\ fpClient = "tool" <=> fpJudged[r] < 2000
                                   /\ fpClient \in Browsers <=> fpJudged[r] >= 4000
    <3>1. fpDoor = "open" /\ fpEntry # "none" /\ InBand(fpEntry, fpJudged[r])
      BY <2>1 DEF FpInv
    <3>2. fpIntercepts => fpEntry = Unknown
      BY <3>1 DEF FpInv
    <3>3. ~fpIntercepts => fpEntry = NameOf(fpClient)
      BY <3>1 DEF FpInv
    <3>4. (NameOf(fpClient) = "tool" <=> fpClient = "tool")
          /\ (NameOf(fpClient) \in Browsers <=> fpClient \in Browsers)
      BY DEF NameOf, Unknown, Browsers
    <3> QED
      BY <3>1, <3>2, <3>3, <3>4 DEF InBand
  <2> QED
    BY <2>1 DEF FpInv, FingerprintBand
<1> QED
  BY <1>1, FpInductive, PTL DEF FpSpec

-----------------------------------------------------------------------------
(* Numbers.                                                                *)
\* A bounded set of naturals has a greatest element: its least bound.
LEMMA MaxNatural ==
  ASSUME NEW T \in SUBSET Nat, T # {}, NEW b \in Nat, \A y \in T : y <= b
  PROVE  Max(T) \in T /\ \A y \in T : y <= Max(T)
<1> DEFINE U == {u \in Nat : \A y \in T : y <= u}
<1>1. PICK u \in U : \A v \in U : u <= v
  <2>1. U \in SUBSET Nat /\ U # {}
    OBVIOUS
  <2> HIDE DEF U
  <2> QED
    BY <2>1, LeastNatural
<1>2. u \in T
  <2>1. PICK t \in T : TRUE
    OBVIOUS
  <2> SUFFICES ASSUME u \notin T PROVE FALSE
    OBVIOUS
  <2>2. \A y \in T : y <= u - 1
    OBVIOUS
  <2>3. u - 1 \in Nat
    BY <2>1, <2>2
  <2>4. u - 1 \in U
    BY <2>2, <2>3
  <2> QED
    BY <1>1, <2>4
<1>3. \A y \in T : u >= y
  OBVIOUS
<1> HIDE DEF U
<1>4. Max(T) \in T /\ \A y \in T : Max(T) >= y
  BY <1>2, <1>3, Zenon DEF Max
<1> QED
  BY <1>4

\* The least element of a set of naturals.
LEMMA MinNatural ==
  ASSUME NEW T \in SUBSET Nat, T # {}
  PROVE  Min(T) \in T /\ \A y \in T : Min(T) <= y
<1>1. PICK x \in T : \A y \in T : x <= y
  BY LeastNatural
<1> QED
  BY <1>1, Zenon DEF Min

\* The greater of two.
LEMMA MaxOfTwo ==
  ASSUME NEW a \in Nat, NEW b \in Nat
  PROVE  Max({a, b}) \in Nat /\ a <= Max({a, b}) /\ b <= Max({a, b})
<1>1. {a, b} \in SUBSET Nat /\ {a, b} # {} /\ a + b \in Nat /\ \A y \in {a, b} : y <= a + b
  OBVIOUS
<1>2. Max({a, b}) \in {a, b} /\ \A y \in {a, b} : y <= Max({a, b})
  BY <1>1, MaxNatural
<1> QED
  BY <1>2

-----------------------------------------------------------------------------
\* One step of the recursion of Total, and f doing the first n.
SumStep(f, i, data) == IF i = 0 THEN 0 ELSE f[i - 1] + data[i]
Sums(f, n, data) == f = [i \in 0 .. n |-> SumStep(f, i, data)]

\* Total's recursion defines a function.
LEMMA SumRecursion ==
  ASSUME NEW data, NEW n \in Nat
  PROVE  \E f : Sums(f, n, data)
<1> DEFINE A == {k \in Nat : \E f : Sums(f, k, data)}
<1>1. 0 \in A
  <2> DEFINE f == [i \in 0 .. 0 |-> 0]
  <2>1. f = [i \in 0 .. 0 |-> SumStep(f, i, data)]
    BY DEF SumStep
  <2> QED
    BY <2>1 DEF Sums
<1>2. ASSUME NEW k \in A PROVE k + 1 \in A
  <2>1. PICK f : f = [i \in 0 .. k |-> SumStep(f, i, data)]
    BY DEF Sums
  <2> DEFINE g == [i \in 0 .. k + 1 |-> IF i = k + 1 THEN SumStep(f, i, data) ELSE f[i]]
  <2>2. ASSUME NEW i \in 0 .. k + 1 PROVE g[i] = SumStep(g, i, data)
    <3>1. CASE i = 0
      BY <2>1, <3>1 DEF SumStep
    <3>2. CASE i # 0
      <4>1. i - 1 \in 0 .. k + 1 /\ i - 1 # k + 1
        BY <3>2
      <4>2. g[i - 1] = f[i - 1]
        BY <4>1
      <4>3. g[i] = SumStep(f, i, data)
        BY <2>1
      <4> QED
        BY <4>2, <4>3, <3>2 DEF SumStep
    <3> QED
      BY <3>1, <3>2
  <2>3. g = [i \in 0 .. k + 1 |-> SumStep(g, i, data)]
    BY <2>2
  <2> HIDE DEF g
  <2> QED
    BY <2>3 DEF Sums
<1> HIDE DEF A
<1>3. A = Nat
  <2>1. A \subseteq Nat
    BY DEF A
  <2> QED
    BY <1>1, <1>2, <2>1, NatSetInduction
<1> QED
  BY <1>3 DEF A

\* A sum is a natural number, at least its length times any lower bound of its terms (meanFloat).
LEMMA TotalBound ==
  ASSUME NEW data \in Seq(Nat), NEW m \in Nat, \A i \in 1 .. Len(data) : m <= data[i]
  PROVE  Total(data) \in Nat /\ Len(data) * m <= Total(data)
<1> DEFINE K == CHOOSE f : f = [i \in 0 .. Len(data) |-> SumStep(f, i, data)]
<1>1. Len(data) \in Nat
  OBVIOUS
<1>2. \E f : f = [i \in 0 .. Len(data) |-> SumStep(f, i, data)]
  <2>1. \E f : Sums(f, Len(data), data)
    BY <1>1, SumRecursion
  <2> QED
    BY <2>1 DEF Sums
<1>3. K = [i \in 0 .. Len(data) |-> SumStep(K, i, data)]
  BY <1>2, Zenon
<1>4. Total(data) = K[Len(data)]
  BY Zenon DEF Total, SumStep
<1> HIDE DEF K
<1>5. ASSUME NEW i \in 0 .. Len(data) PROVE K[i] = SumStep(K, i, data)
  BY <1>3, Zenon
<1> DEFINE A == {k \in Nat : k <= Len(data) => K[k] \in Nat /\ k * m <= K[k]}
<1>6. 0 \in A
  <2>1. K[0] = 0
    BY <1>5 DEF SumStep
  <2>2. 0 * m = 0
    OBVIOUS
  <2> QED
    BY <2>1, <2>2
<1>7. ASSUME NEW k \in A PROVE k + 1 \in A
  <2> SUFFICES ASSUME k + 1 <= Len(data)
               PROVE  K[k + 1] \in Nat /\ (k + 1) * m <= K[k + 1]
    OBVIOUS
  <2>1. k + 1 \in 1 .. Len(data) /\ data[k + 1] \in Nat /\ m <= data[k + 1] /\ k \in Nat
    OBVIOUS
  <2>2. K[k] \in Nat /\ k * m <= K[k]
    BY <2>1
  <2>3. K[k + 1] = SumStep(K, k + 1, data)
    BY <1>5, <2>1
  <2>4. k + 1 # 0 /\ (k + 1) - 1 = k
    BY <2>1
  <2>5. K[k + 1] = K[k] + data[k + 1]
    BY <2>3, <2>4, Zenon DEF SumStep
  <2>6. (k + 1) * m = k * m + m /\ k * m \in Nat
    BY <2>1
  <2> QED
    BY <2>1, <2>2, <2>5, <2>6
<1> HIDE DEF A
<1>8. A = Nat
  <2>1. A \subseteq Nat
    BY DEF A
  <2> QED
    BY <1>6, <1>7, <2>1, NatSetInduction
<1>9. Len(data) \in A
  BY <1>1, <1>8
<1> QED
  BY <1>1, <1>4, <1>9 DEF A

-----------------------------------------------------------------------------
(* The adaptive learner.  The windows hold naturals, the peaks have a      *)
(* common bound, and a threshold is never below the smallest.              *)
LearnerInv ==
  /\ hour \in Hours
  /\ samples \in [Hours -> Seq(Nat)]
  /\ maxRPS \in [Hours -> Nat]
  /\ \E b \in Nat : \A h \in Hours : maxRPS[h] <= b
  /\ learned \in Nat /\ (learned = 0 \/ learned >= MinThreshold)

(* What a calibration learns is a number, not below the smallest threshold *)
(* nor below twice the peak of an hour that counts (calibrate).            *)
LEMMA CalibrateFloor ==
  ASSUME NEW window, NEW peaks \in [Hours -> Nat], NEW b \in Nat, \A h \in Hours : peaks[h] <= b,
         NEW t \in calibrate(window, peaks)
  PROVE  \/ t = learned
         \/ /\ t \in Nat /\ t >= MinThreshold
            /\ \A h \in Hours : Len(window[h]) > FewSamples => t >= 2 * peaks[h]
<1> DEFINE counted == {h \in Hours : Len(window[h]) > FewSamples}
           P == {peaks[h] : h \in counted}
           lo == Max({2 * Max(P), MinThreshold})
           hi == Max({(5 * Max(P)) \div 2, MinThreshold})
<1>1. CASE counted = {}
  <2>1. calibrate(window, peaks) = {learned}
    BY <1>1 DEF calibrate
  <2> QED
    BY <2>1
<1>2. CASE counted # {}
  <2>1. calibrate(window, peaks) = lo .. hi
    BY <1>2, Zenon DEF calibrate
  <2>2. P \in SUBSET Nat /\ P # {} /\ \A y \in P : y <= b
    BY <1>2
  <2> HIDE DEF P
  <2>3. Max(P) \in Nat /\ \A y \in P : y <= Max(P)
    BY <2>2, MaxNatural
  <2>4. MinThreshold \in Nat
    BY LearnerAssumption
  <2>5. 2 * Max(P) \in Nat /\ (5 * Max(P)) \div 2 \in Nat
    BY <2>3
  <2>6. lo \in Nat /\ hi \in Nat /\ lo >= MinThreshold /\ lo >= 2 * Max(P)
    BY <2>4, <2>5, MaxOfTwo
  <2> HIDE DEF lo, hi
  <2>7. t \in Nat /\ t >= MinThreshold /\ t >= 2 * Max(P)
    BY <2>1, <2>3, <2>4, <2>6
  <2>8. ASSUME NEW h \in Hours, Len(window[h]) > FewSamples PROVE t >= 2 * peaks[h]
    <3>1. peaks[h] \in P /\ peaks[h] \in Nat
      BY <2>8 DEF P
    <3> QED
      BY <2>3, <2>7, <3>1
  <2> QED
    BY <2>7, <2>8
<1> QED
  BY <1>1, <1>2

\* LearnerInv holds at the start and is kept by every step of the learner.
LEMMA LearnerInductive ==
  /\ LearnerInit => LearnerInv
  /\ LearnerInv /\ [LearnerNext]_learnerVars => LearnerInv'
<1>1. LearnerInit => LearnerInv
  <2> SUFFICES ASSUME LearnerInit PROVE LearnerInv
    OBVIOUS
  <2>1. samples \in [Hours -> Seq(Nat)] /\ maxRPS \in [Hours -> Nat] /\ learned = 0 /\ hour \in Hours
    BY DEF LearnerInit
  <2>2. \A h \in Hours : maxRPS[h] <= 0
    BY DEF LearnerInit
  <2> QED
    BY <2>1, <2>2 DEF LearnerInv
<1>2. ASSUME LearnerInv, NEW rps \in Rates, RecordSample(rps) PROVE LearnerInv'
  <2>1. rps \in Nat /\ MaxSamples \in Nat \ {0} /\ hour \in Hours /\ hour' = hour
    BY <1>2, LearnerAssumption DEF LearnerInv, RecordSample
  <2>2. samples' \in [Hours -> Seq(Nat)]
    <3> DEFINE kept == IF Len(samples[hour]) >= MaxSamples THEN Tail(samples[hour])
                       ELSE samples[hour]
    <3>1. samples[hour] \in Seq(Nat)
      BY <1>2, <2>1 DEF LearnerInv
    <3>2. kept \in Seq(Nat)
      <4>1. Len(samples[hour]) >= MaxSamples => samples[hour] # <<>>
        BY <2>1, <3>1
      <4> QED
        BY <3>1, <4>1
    <3>3. samples' = [samples EXCEPT ![hour] = Append(kept, rps)]
      BY <1>2 DEF RecordSample
    <3> HIDE DEF kept
    <3>4. Append(kept, rps) \in Seq(Nat)
      BY <2>1, <3>2
    <3> QED
      BY <1>2, <3>3, <3>4 DEF LearnerInv
  <2>3. /\ maxRPS' \in [Hours -> Nat]
        /\ \E b \in Nat : \A h \in Hours : maxRPS'[h] <= b
    <3>1. maxRPS[hour] \in Nat
      BY <1>2, <2>1 DEF LearnerInv
    <3>2. PICK x \in Nat : x = Max({maxRPS[hour], rps})
      BY <2>1, <3>1, MaxOfTwo
    <3>3. maxRPS' = [maxRPS EXCEPT ![hour] = x]
      BY <1>2, <3>2 DEF RecordSample
    <3>4. PICK b \in Nat : \A h \in Hours : maxRPS[h] <= b
      BY <1>2 DEF LearnerInv
    <3>5. maxRPS' \in [Hours -> Nat]
      BY <1>2, <3>3 DEF LearnerInv
    <3>6. \A h \in Hours : maxRPS'[h] <= b + x
      BY <1>2, <3>3, <3>4 DEF LearnerInv
    <3> QED
      BY <3>5, <3>6
  <2>4. learned' \in Nat /\ (learned' = 0 \/ learned' >= MinThreshold)
    <3>1. learned' = learned \/ learned' \in calibrate(samples', maxRPS')
      BY <1>2 DEF RecordSample
    <3>2. learned' = learned \/ (learned' \in Nat /\ learned' >= MinThreshold)
      BY <2>3, <3>1, CalibrateFloor
    <3> QED
      BY <1>2, <3>2 DEF LearnerInv
  <2> QED
    BY <2>1, <2>2, <2>3, <2>4 DEF LearnerInv
<1>3. ASSUME LearnerInv, NextHour PROVE LearnerInv'
  BY <1>3 DEF LearnerInv, NextHour
<1>4. ASSUME LearnerInv, UNCHANGED learnerVars PROVE LearnerInv'
  BY <1>4 DEF LearnerInv, learnerVars
<1> QED
  BY <1>1, <1>2, <1>3, <1>4 DEF LearnerNext

\* A raised level of n samples of at least m, which add up to sum, needs more than three times m.
LEMMA LevelNeedsSpike ==
  ASSUME NEW rps \in Nat, NEW sum \in Nat, NEW n \in Nat, LevelFor(rps, sum, n) > 0
  PROVE  /\ rps * n > 3 * sum
         /\ \A m \in Nat : n * m <= sum => rps > 3 * m
<1>1. rps * n > 10 * sum \/ rps * n > 3 * sum
  BY DEF LevelFor
<1>2. PICK q \in Nat : q = rps * n
  OBVIOUS
<1>3. q > 3 * sum
  BY <1>1, <1>2
<1>4. ASSUME NEW m \in Nat, n * m <= sum PROVE rps > 3 * m
  <2> SUFFICES ASSUME rps <= 3 * m PROVE FALSE
    OBVIOUS
  <2>1. PICK d \in Nat : 3 * m = rps + d
    <3>1. 3 * m - rps \in Nat /\ 3 * m = rps + (3 * m - rps)
      OBVIOUS
    <3> QED
      BY <3>1
  <2>2. (3 * m) * n = rps * n + d * n
    BY <2>1
  <2>3. d * n \in Nat /\ n * m \in Nat /\ (3 * m) * n = 3 * (n * m)
    OBVIOUS
  <2> QED
    BY <1>2, <1>3, <1>4, <2>2, <2>3
<1> QED
  BY <1>2, <1>3, <1>4

AbovePeaks ==
  learned' # learned =>
    \A h \in Hours : Len(samples'[h]) > FewSamples => learned' >= 2 * maxRPS'[h]

(* A new threshold is at least twice the highest rate ever sampled in an   *)
(* hour of which enough is known: traffic that has been seen before is     *)
(* below it (adaptive.go calibrate).                                       *)
THEOREM LearnedAbovePeaks == LearnerSpec => [][AbovePeaks]_learnerVars
<1>1. LearnerInv /\ [LearnerNext]_learnerVars => AbovePeaks
  <2> SUFFICES ASSUME LearnerInv, [LearnerNext]_learnerVars, learned' # learned,
                      NEW h \in Hours, Len(samples'[h]) > FewSamples
               PROVE  learned' >= 2 * maxRPS'[h]
    BY DEF AbovePeaks
  <2>1. LearnerInv'
    BY LearnerInductive
  <2>2. PICK rps \in Rates : RecordSample(rps)
    BY DEF LearnerNext, NextHour, learnerVars
  <2>3. learned' \in calibrate(samples', maxRPS')
    BY <2>2 DEF RecordSample
  <2>4. PICK b \in Nat : \A k \in Hours : maxRPS'[k] <= b
    BY <2>1 DEF LearnerInv
  <2>5. maxRPS' \in [Hours -> Nat]
    BY <2>1 DEF LearnerInv
  <2> QED
    BY <2>3, <2>4, <2>5, CalibrateFloor
<1> QED
  BY <1>1, LearnerInductive, PTL DEF LearnerSpec

(* Nobody is challenged on account of the learner in traffic like that it  *)
(* has learned, for any hours, rates, windows and thresholds (adaptive.go  *)
(* RecordSample, calibrate, GetDecision).                                  *)
THEOREM ChallengeNeedsSpikeHolds == LearnerSpec => []ChallengeNeedsSpike
<1>1. LearnerInv => ChallengeNeedsSpike
  <2> SUFFICES ASSUME LearnerInv, NEW rps \in Rates, GetDecision(rps) > 0
               PROVE  /\ \A i \in DOMAIN samples[hour] :
                           rps > 3 * Min({samples[hour][j] : j \in DOMAIN samples[hour]})
                      /\ Total(samples[hour]) = 0 => rps > MinThreshold /\ rps > learned
    BY DEF ChallengeNeedsSpike
  <2>1. rps \in Nat /\ MinThreshold \in Nat \ {0}
    BY LearnerAssumption
  <2>2. samples[hour] \in Seq(Nat) /\ learned \in Nat /\ (learned = 0 \/ learned >= MinThreshold)
    BY DEF LearnerInv
  <2> DEFINE data == samples[hour]
             T == {data[j] : j \in DOMAIN data}
  <2>3. learned # 0
    BY DEF GetDecision
  <2>4. Total(data) \in Nat
    <3>1. \A i \in 1 .. Len(data) : 0 <= data[i]
      BY <2>2
    <3> QED
      BY <2>2, <3>1, TotalBound
  <2>5. ASSUME Total(data) = 0 PROVE rps > MinThreshold /\ rps > learned
    <3>1. LevelFor(rps, learned, 3) > 0
      BY <2>3, <2>5 DEF GetDecision
    <3>2. rps * 3 > 3 * learned
      BY <2>1, <2>2, <3>1, LevelNeedsSpike
    <3> QED
      BY <2>1, <2>2, <2>3, <3>2
  <2>6. ASSUME NEW i \in DOMAIN data PROVE rps > 3 * Min(T)
    <3>1. T \in SUBSET Nat /\ T # {} /\ DOMAIN data = 1 .. Len(data) /\ Len(data) \in Nat \ {0}
      <4>1. DOMAIN data = 1 .. Len(data) /\ Len(data) \in Nat
        BY <2>2
      <4>2. i \in 1 .. Len(data)
        BY <2>6, <4>1
      <4>3. Len(data) # 0
        BY <4>1, <4>2
      <4>4. \A j \in DOMAIN data : data[j] \in Nat
        BY <2>2, <4>1
      <4>5. data[i] \in T
        BY <2>6
      <4> QED
        BY <4>1, <4>3, <4>4, <4>5
    <3> HIDE DEF T
    <3>2. Min(T) \in Nat /\ \A y \in T : Min(T) <= y
      BY <3>1, MinNatural
    <3>3. \A j \in 1 .. Len(data) : Min(T) <= data[j]
      BY <3>1, <3>2 DEF T
    <3>4. Len(data) * Min(T) <= Total(data)
      BY <2>2, <3>2, <3>3, TotalBound
    <3>5. CASE Total(data) = 0
      <4>1. Min(T) = 0
        BY <3>1, <3>2, <3>4, <3>5
      <4> QED
        BY <2>1, <2>2, <2>5, <3>5, <4>1
    <3>6. CASE Total(data) # 0
      <4>1. LevelFor(rps, Total(data), Len(data)) > 0
        BY <2>3, <3>6 DEF GetDecision
      <4> QED
        BY <2>1, <2>4, <3>1, <3>2, <3>4, <4>1, LevelNeedsSpike
    <3> QED
      BY <3>5, <3>6
  <2> QED
    BY <2>5, <2>6
<1> QED
  BY <1>1, LearnerInductive, PTL DEF LearnerSpec

-----------------------------------------------------------------------------
(* The rules engine.                                                       *)
\* A rule that blocks a request at a level.
Objects(r, level, request) ==
  /\ r.enabled /\ r.paranoia <= level /\ matchRule(r, request)
  /\ r.action \in {"block", "drop"}

(* Inspect blocks exactly when a rule of its list does, and its action is  *)
(* that of such a rule: the loop over all rules and the one that remembers *)
(* the last have no other outcome (engine.go Inspect).                     *)
LEMMA InspectDecides ==
  ASSUME NEW V, NEW list \in Seq(V), NEW level, NEW request
  PROVE  \/ /\ Inspect(list, level, request) = Nothing
            /\ ~ \E r \in Range(list) : Objects(r, level, request)
         \/ /\ Inspect(list, level, request).blocked = TRUE
            /\ \E r \in Range(list) :
                 Objects(r, level, request) /\ Inspect(list, level, request).action = r.action
<1> DEFINE M == {r \in Range(list) : r.enabled /\ r.paranoia <= level /\ matchRule(r, request)}
           m == Keep(list, M)
           B == {r \in Range(m) : r.action \in {"block", "drop"}}
           b == Keep(m, B)
           I == Inspect(list, level, request)
<1>1. m \in Seq(V) /\ Range(m) = Range(list) \cap M
  BY KeepValues
<1>2. b \in Seq(V) /\ Range(b) = Range(m) \cap B
  <2> HIDE DEF m, B
  <2> QED
    BY <1>1, KeepValues
<1>3. I = IF b = <<>> THEN Nothing
          ELSE [blocked |-> TRUE, action |-> Last(b).action, topRule |-> Last(b).id]
  BY Zenon DEF Inspect, Blocking
<1>4. \A r : r \in Range(b) <=> r \in Range(list) /\ Objects(r, level, request)
  <2>1. \A r : r \in B <=> r \in Range(m) /\ r.action \in {"block", "drop"}
    BY Zenon
  <2>2. \A r : r \in M <=> r \in Range(list) /\ r.enabled /\ r.paranoia <= level /\ matchRule(r, request)
    BY Zenon
  <2> HIDE DEF m, B, M, b
  <2> QED
    BY <1>1, <1>2, <2>1, <2>2, Zenon DEF Objects
<1> HIDE DEF b, I
<1>5. CASE b = <<>>
  <2>1. Range(b) = {}
    BY <1>5 DEF Range
  <2> QED
    BY <1>3, <1>4, <1>5, <2>1, Zenon DEF I
<1>6. CASE b # <<>>
  <2>1. Last(b) \in Range(b)
    <3>1. Len(b) \in DOMAIN b
      BY <1>2, <1>6
    <3> QED
      BY <3>1, Zenon DEF Last, Range
  <2>2. I.blocked = TRUE /\ I.action = Last(b).action
    <3>1. I = [blocked |-> TRUE, action |-> Last(b).action, topRule |-> Last(b).id]
      BY <1>3, <1>6, Zenon
    <3> QED
      BY <3>1
  <2> QED
    BY <1>4, <2>1, <2>2, Zenon DEF I
<1> QED
  BY <1>5, <1>6

-----------------------------------------------------------------------------
\* The built-in rules have a level and never drop a request (owasp.go).
Tame(r) == r.paranoia \in Int /\ (r.action = "block" \/ r.action = "challenge")

\* Rule makes such rules.
LEMMA RuleTame ==
  ASSUME NEW id, NEW level \in {1, 2}, NEW targets, NEW action \in {"block", "challenge"}
  PROVE  Tame(Rule(id, level, targets, action))
BY DEF Rule, Tame

\* So does Block.
LEMMA BlockTame == ASSUME NEW id, NEW targets PROVE Tame(Block(id, targets))
BY RuleTame, Zenon DEF Block

\* Sixteen such rules make a sequence of them.
LEMMA SeqOfSixteen ==
  ASSUME NEW e1, Tame(e1), NEW e2, Tame(e2), NEW e3, Tame(e3), NEW e4, Tame(e4),
         NEW e5, Tame(e5), NEW e6, Tame(e6), NEW e7, Tame(e7), NEW e8, Tame(e8),
         NEW e9, Tame(e9), NEW e10, Tame(e10), NEW e11, Tame(e11), NEW e12, Tame(e12),
         NEW e13, Tame(e13), NEW e14, Tame(e14), NEW e15, Tame(e15), NEW e16, Tame(e16)
  PROVE  \E V : /\ <<e1, e2, e3, e4, e5, e6, e7, e8, e9, e10, e11, e12, e13, e14, e15, e16>> \in Seq(V)
                /\ \A r \in V : Tame(r)
<1> DEFINE V == {e1, e2, e3, e4, e5, e6, e7, e8, e9, e10, e11, e12, e13, e14, e15, e16}
<1>1. \A r \in V : Tame(r)
  BY Zenon
<1>2. e1 \in V /\ e2 \in V /\ e3 \in V /\ e4 \in V /\ e5 \in V /\ e6 \in V /\ e7 \in V /\ e8 \in V
  BY Zenon
<1>3. e9 \in V /\ e10 \in V /\ e11 \in V /\ e12 \in V /\ e13 \in V /\ e14 \in V /\ e15 \in V /\ e16 \in V
  BY Zenon
<1> HIDE DEF V
<1>4. <<e1, e2, e3, e4, e5, e6, e7, e8, e9, e10, e11, e12, e13, e14, e15, e16>> \in Seq(V)
  BY <1>2, <1>3
<1> QED
  BY <1>1, <1>4

\* Ten of them.
LEMMA SeqOfTen ==
  ASSUME NEW e1, Tame(e1), NEW e2, Tame(e2), NEW e3, Tame(e3), NEW e4, Tame(e4),
         NEW e5, Tame(e5), NEW e6, Tame(e6), NEW e7, Tame(e7), NEW e8, Tame(e8),
         NEW e9, Tame(e9), NEW e10, Tame(e10)
  PROVE  \E V : /\ <<e1, e2, e3, e4, e5, e6, e7, e8, e9, e10>> \in Seq(V)
                /\ \A r \in V : Tame(r)
<1> DEFINE V == {e1, e2, e3, e4, e5, e6, e7, e8, e9, e10}
<1>1. \A r \in V : Tame(r)
  BY Zenon
<1>2. e1 \in V /\ e2 \in V /\ e3 \in V /\ e4 \in V /\ e5 \in V
  BY Zenon
<1>3. e6 \in V /\ e7 \in V /\ e8 \in V /\ e9 \in V /\ e10 \in V
  BY Zenon
<1> HIDE DEF V
<1>4. <<e1, e2, e3, e4, e5, e6, e7, e8, e9, e10>> \in Seq(V)
  BY <1>2, <1>3
<1> QED
  BY <1>1, <1>4

\* All of loadOWASPRules' list are such rules.
LEMMA OwaspTame == \E V : Owasp \in Seq(V) /\ \A r \in Range(Owasp) : Tame(r)
<1>1. \E V : OwaspRules \in Seq(V) /\ \A r \in V : Tame(r)
  <2> DEFINE e1 == [Block("920100", {"METHOD"}) EXCEPT !.compiles = FALSE]
             e2 == Block("920170", {"HEADERS"})
             e3 == Rule("920270", 2, {"URL"}, "block")
             e4 == Block("930100", {"URL", "ARGS"})
             e5 == Block("930110", {"URL", "ARGS"})
             e6 == Block("930120", {"URL"})
             e7 == Block("941100", {"ARGS", "URL", "HEADERS", "COOKIES"})
             e8 == Block("941110", {"ARGS", "URL"})
             e9 == Block("941120", {"ARGS", "URL"})
             e10 == Block("941130", {"ARGS", "URL"})
             e11 == Block("942100", {"ARGS", "URL", "COOKIES"})
             e12 == Block("942110", {"ARGS", "URL"})
             e13 == Block("942120", {"ARGS", "URL"})
             e14 == Block("942130", {"ARGS", "URL"})
             e15 == Block("942140", {"ARGS", "URL"})
             e16 == Block("942150", {"ARGS", "URL"})
  <2>1. Tame(e1)
    BY DEF Tame, Block, Rule
  <2>2. /\ Tame(e2) /\ Tame(e4) /\ Tame(e5) /\ Tame(e6) /\ Tame(e7)
        /\ Tame(e8) /\ Tame(e9) /\ Tame(e10) /\ Tame(e11) /\ Tame(e12)
        /\ Tame(e13) /\ Tame(e14) /\ Tame(e15) /\ Tame(e16)
    BY BlockTame, Zenon
  <2>3. Tame(e3)
    BY RuleTame, Zenon
  <2>4. OwaspRules = <<e1, e2, e3, e4, e5, e6, e7, e8, e9, e10, e11, e12, e13, e14, e15, e16>>
    BY Zenon DEF OwaspRules
  <2> HIDE DEF e1, e2, e3, e4, e5, e6, e7, e8, e9, e10, e11, e12, e13, e14, e15, e16
  <2> QED
    BY <2>1, <2>2, <2>3, <2>4, SeqOfSixteen
<1>2. \E V : OwaspRulesMore \in Seq(V) /\ \A r \in V : Tame(r)
  <2> DEFINE e1 == Block("932100", {"ARGS", "URL", "HEADERS"})
             e2 == Block("932110", {"ARGS", "URL"})
             e3 == Block("931100", {"ARGS"})
             e4 == Rule("934100", 2, {"ARGS", "URL"}, "block")
             e5 == Rule("944100", 2, {"ARGS", "URL", "HEADERS"}, "block")
             e6 == Block("913100", {"UA"})
             e7 == Rule("913110", 2, {"UA"}, "challenge")
             e8 == Block("921100", {"HEADERS", "ARGS"})
             e9 == Block("933100", {"ARGS", "URL"})
             e10 == Block("950100", {"ARGS"})
  <2>1. /\ Tame(e1) /\ Tame(e2) /\ Tame(e3) /\ Tame(e6) /\ Tame(e8)
        /\ Tame(e9) /\ Tame(e10)
    BY BlockTame, Zenon
  <2>2. Tame(e4) /\ Tame(e5) /\ Tame(e7)
    BY RuleTame, Zenon
  <2>3. OwaspRulesMore = <<e1, e2, e3, e4, e5, e6, e7, e8, e9, e10>>
    BY Zenon DEF OwaspRulesMore
  <2> HIDE DEF e1, e2, e3, e4, e5, e6, e7, e8, e9, e10
  <2> QED
    BY <2>1, <2>2, <2>3, SeqOfTen
<1>3. PICK V : OwaspRules \in Seq(V) /\ \A r \in V : Tame(r)
  BY <1>1
<1>4. PICK W : OwaspRulesMore \in Seq(W) /\ \A r \in W : Tame(r)
  BY <1>2
<1>5. OwaspRules \in Seq(V \cup W) /\ OwaspRulesMore \in Seq(V \cup W)
  BY <1>3, <1>4, SeqMonotonic
<1>6. Owasp \in Seq(V \cup W)
  BY <1>5, ConcatProperties DEF Owasp
<1>7. Range(Owasp) = {Owasp[i] : i \in 1 .. Len(Owasp)}
  BY <1>6, RangeAppend
<1>8. \A i \in 1 .. Len(Owasp) : Owasp[i] \in V \cup W
  BY <1>6
<1> QED
  BY <1>3, <1>4, <1>6, <1>7, <1>8

-----------------------------------------------------------------------------
\* The rules that can be loaded: built-in ones, and entries that compile, with their defaults.
Loaded == Range(Owasp) \cup {WithDefaults(e) : e \in {x \in Entries : x.compiles}}

\* The defaults of an entry touch its level and an empty action only (custom.go LoadCustomRules).
LEMMA DefaultsKeep ==
  ASSUME NEW e \in Entries
  PROVE  /\ WithDefaults(e).paranoia \in Int
         /\ WithDefaults(e).id = e.id /\ WithDefaults(e).targets = e.targets
         /\ WithDefaults(e).enabled = e.enabled /\ WithDefaults(e).compiles = e.compiles
         /\ WithDefaults(e).empty = e.empty
         /\ WithDefaults(e).action = "drop" => e.action = "drop"
<1>1. e \in RuleType
  BY RulesAssumption
<1>2. WithDefaults(e).paranoia \in Int
  BY <1>1 DEF RuleType, WithDefaults
<1>3. /\ WithDefaults(e).id = e.id /\ WithDefaults(e).targets = e.targets
      /\ WithDefaults(e).enabled = e.enabled /\ WithDefaults(e).compiles = e.compiles
      /\ WithDefaults(e).empty = e.empty
  BY <1>1 DEF RuleType, WithDefaults
<1>4. WithDefaults(e).action = "drop" => e.action = "drop"
  BY <1>1 DEF RuleType, WithDefaults
<1> QED
  BY <1>2, <1>3, <1>4

\* Every rule that can be loaded has a level.
LEMMA LoadedLevels == ASSUME NEW r \in Loaded PROVE r.paranoia \in Int
<1>1. CASE r \in Range(Owasp)
  BY <1>1, OwaspTame DEF Tame
<1>2. CASE r \notin Range(Owasp)
  <2>1. PICK e \in Entries : r = WithDefaults(e)
    BY <1>2 DEF Loaded
  <2> QED
    BY <2>1, DefaultsKeep
<1> QED
  BY <1>1, <1>2

\* The built-in rules of a level, which a stricter one has too (owasp.go loadOWASPRules).
LEMMA BuiltInLevels ==
  ASSUME NEW level \in Int
  PROVE  /\ loadOWASPRules(level) \in Seq(Loaded)
         /\ \A p \in Int : level <= p => Range(loadOWASPRules(level)) \subseteq Range(loadOWASPRules(p))
<1>1. Owasp \in Seq(Loaded)
  <2>1. PICK V : Owasp \in Seq(V)
    BY OwaspTame
  <2>2. Range(Owasp) = {Owasp[i] : i \in 1 .. Len(Owasp)}
    BY <2>1, RangeAppend
  <2>3. \A i \in 1 .. Len(Owasp) : Owasp[i] \in Loaded
    BY <2>2, Zenon DEF Loaded
  <2>4. Owasp = [i \in 1 .. Len(Owasp) |-> Owasp[i]] /\ Len(Owasp) \in Nat
    BY <2>1
  <2> QED
    BY <2>3, <2>4
<1> DEFINE K(p) == {r \in Range(Owasp) : r.paranoia <= p /\ r.compiles}
<1>2. \A p : loadOWASPRules(p) = Keep(Owasp, K(p))
  BY Zenon DEF loadOWASPRules
<1>3. \A r : \A p : r \in K(p) <=> r \in Range(Owasp) /\ r.paranoia <= p /\ r.compiles
  BY Zenon
<1> HIDE DEF K
<1>4. \A p : /\ loadOWASPRules(p) \in Seq(Loaded)
             /\ Range(loadOWASPRules(p)) = Range(Owasp) \cap K(p)
  BY <1>1, <1>2, KeepValues
<1>5. ASSUME NEW p \in Int, level <= p PROVE K(level) \subseteq K(p)
  <2> SUFFICES ASSUME NEW r \in K(level) PROVE r \in K(p)
    OBVIOUS
  <2>1. r \in Range(Owasp) /\ r.paranoia <= level /\ r.compiles
    BY <1>3, Zenon
  <2>2. r.paranoia \in Int
    BY <2>1, OwaspTame DEF Tame
  <2>3. r.paranoia <= p
    BY <1>5, <2>1, <2>2
  <2> QED
    BY <1>3, <2>1, <2>3, Zenon
<1> QED
  BY <1>4, <1>5

(* Nothing is inspected before all rules are loaded, and what is known of  *)
(* a request is the verdict on all patterns found so far.                  *)
RulesInv ==
  /\ paranoia \in Int
  /\ customFile \in Seq(Entries)
  /\ rules \in Seq(Loaded) /\ Range(loadOWASPRules(paranoia)) \subseteq Range(rules)
  /\ customFile # <<>> => hits = {}
  /\ hits # {} => inspected = Inspect(rules, paranoia, hits)

\* RulesInv holds at the start and is kept by every step.
LEMMA RulesInductive ==
  /\ RulesInit => RulesInv
  /\ RulesInv /\ [RulesNext]_rulesVars => RulesInv'
<1>1. RulesInit => RulesInv
  <2> SUFFICES ASSUME RulesInit PROVE RulesInv
    OBVIOUS
  <2>1. paranoia \in Int /\ hits = {} /\ rules = loadOWASPRules(paranoia) /\ inspected = Nothing
    BY DEF RulesInit
  <2>2. customFile \in Seq(Entries)
    <3>1. PICK n \in Nat : customFile \in [1 .. n -> Entries]
      BY RulesAssumption DEF RulesInit, BoundedSeq, SeqOf
    <3> QED
      BY <3>1
  <2>3. rules \in Seq(Loaded)
    BY <2>1, BuiltInLevels
  <2> QED
    BY <2>1, <2>2, <2>3 DEF RulesInv
<1>2. ASSUME RulesInv, LoadCustomRules PROVE RulesInv'
  <2> DEFINE e == Head(customFile)
  <2>1. customFile # <<>> /\ customFile \in Seq(Entries) /\ hits = {} /\ rules \in Seq(Loaded)
    BY <1>2 DEF RulesInv, LoadCustomRules
  <2>2. e \in Entries /\ customFile' \in Seq(Entries)
    BY <1>2, <2>1 DEF LoadCustomRules
  <2>3. paranoia' = paranoia /\ hits' = hits /\ inspected' = inspected
    BY <1>2 DEF LoadCustomRules
  <2>4. \/ rules' = rules
        \/ WithDefaults(e) \in Loaded /\ rules' = Append(rules, WithDefaults(e))
    <3>1. rules' = IF WithDefaults(e).compiles THEN Append(rules, WithDefaults(e)) ELSE rules
      BY <1>2, Zenon DEF LoadCustomRules, AddRule
    <3> HIDE DEF e
    <3>2. WithDefaults(e).compiles => WithDefaults(e) \in Loaded
      <4>1. WithDefaults(e).compiles = e.compiles
        BY <2>2, DefaultsKeep
      <4> QED
        BY <2>2, <4>1, Zenon DEF Loaded
    <3> QED
      BY <3>1, <3>2, Zenon
  <2> HIDE DEF e
  <2>5. rules' \in Seq(Loaded) /\ Range(rules) \subseteq Range(rules')
    <3>1. CASE rules' = rules
      BY <2>1, <3>1
    <3>2. CASE WithDefaults(e) \in Loaded /\ rules' = Append(rules, WithDefaults(e))
      <4>1. Append(rules, WithDefaults(e)) \in Seq(Loaded)
        BY <2>1, <3>2
      <4>2. Range(Append(rules, WithDefaults(e))) = Range(rules) \cup {WithDefaults(e)}
        BY <2>1, RangeAppend, Zenon
      <4> QED
        BY <3>2, <4>1, <4>2, Zenon
    <3> QED
      BY <2>4, <3>1, <3>2
  <2> QED
    BY <1>2, <2>1, <2>2, <2>3, <2>5 DEF RulesInv
<1>3. ASSUME RulesInv, InspectRequest PROVE RulesInv'
  <2>1. /\ customFile = <<>> /\ customFile' = customFile /\ paranoia' = paranoia /\ rules' = rules
        /\ inspected' = Inspect(rules, paranoia, hits')
    BY <1>3, Zenon DEF InspectRequest
  <2> QED
    BY <1>3, <2>1 DEF RulesInv
<1>4. ASSUME RulesInv, UNCHANGED rulesVars PROVE RulesInv'
  BY <1>4 DEF RulesInv, rulesVars
<1> QED
  BY <1>1, <1>2, <1>3, <1>4 DEF RulesNext

\* A rule that blocks a request also blocks it at a stricter level and with more patterns.
LEMMA ObjectsMonotone ==
  ASSUME NEW r \in Loaded, NEW l \in Int, NEW p \in Int, l <= p, NEW big, NEW small \in SUBSET big,
         Objects(r, l, small)
  PROVE  Objects(r, p, big)
<1>1. /\ r.enabled /\ r.paranoia <= l /\ matchRule(r, small) /\ r.action \in {"block", "drop"}
  BY Zenon DEF Objects
<1>2. r.paranoia <= p
  <2>1. r.paranoia \in Int /\ r.paranoia <= l
    BY <1>1, LoadedLevels
  <2> QED
    BY <2>1
<1>3. matchRule(r, big)
  BY <1>1, Zenon DEF matchRule
<1> QED
  BY <1>1, <1>2, <1>3, Zenon DEF Objects

\* The rules at a lower level are among those in force.
LEMMA RulesAtAmong ==
  ASSUME RulesInv, NEW level \in Int, level <= paranoia
  PROVE  RulesAt(level) \in Seq(Loaded) /\ Range(RulesAt(level)) \subseteq Range(rules)
<1> DEFINE a == loadOWASPRules(level)
           k == Len(loadOWASPRules(paranoia)) + 1
           n == Len(rules)
           b == SubSeq(rules, k, n)
<1>1. a \in Seq(Loaded) /\ Range(a) \subseteq Range(rules)
  BY BuiltInLevels DEF RulesInv
<1>2. k \in Nat \ {0} /\ n \in Nat /\ rules \in Seq(Loaded)
  <2>1. loadOWASPRules(paranoia) \in Seq(Loaded)
    BY BuiltInLevels DEF RulesInv
  <2> QED
    BY <2>1 DEF RulesInv
<1>3. Range(rules) = {rules[i] : i \in 1 .. n}
  BY <1>2, RangeAppend
<1>4. RulesAt(level) = a \o b
  BY Zenon DEF RulesAt
<1> HIDE DEF a, k, n
<1>5. \A i \in k .. n : rules[i] \in Loaded /\ rules[i] \in Range(rules)
  BY <1>2, <1>3 DEF n
<1>6. /\ b \in Seq(Loaded) /\ Len(b) = IF k <= n THEN n - k + 1 ELSE 0
      /\ \A i \in 1 .. n - k + 1 : b[i] = rules[k + i - 1]
  BY <1>2, <1>5, SubSeqProperties
<1> HIDE DEF b
<1>7. \A i \in 1 .. Len(b) : b[i] \in Range(rules)
  <2> TAKE i \in 1 .. Len(b)
  <2>1. i \in 1 .. n - k + 1 /\ k + i - 1 \in k .. n
    BY <1>2, <1>6
  <2> QED
    BY <1>5, <1>6, <2>1
<1>8. \A i \in 1 .. Len(a) : a[i] \in Range(rules)
  <2>1. Range(a) = {a[i] : i \in 1 .. Len(a)}
    BY <1>1, RangeAppend
  <2> QED
    BY <1>1, <2>1
<1>9. a \o b \in Seq(Loaded) /\ Len(a \o b) = Len(a) + Len(b)
  BY <1>1, <1>6, ConcatProperties
<1>10. \A i \in 1 .. Len(a \o b) : (a \o b)[i] \in Range(rules)
  <2> TAKE i \in 1 .. Len(a \o b)
  <2>1. (a \o b)[i] = IF i <= Len(a) THEN a[i] ELSE b[i - Len(a)]
    BY <1>1, <1>6, <1>9, ConcatProperties
  <2>2. CASE i <= Len(a)
    BY <1>1, <1>8, <2>1, <2>2
  <2>3. CASE ~(i <= Len(a))
    <3>1. i - Len(a) \in 1 .. Len(b)
      BY <1>1, <1>6, <1>9, <2>3
    <3> QED
      BY <1>7, <2>1, <2>3, <3>1
  <2> QED
    BY <2>2, <2>3
<1>11. Range(a \o b) = {(a \o b)[i] : i \in 1 .. Len(a \o b)}
  <2>1. PICK z \in Seq(Loaded) : z = a \o b
    BY <1>9
  <2>2. Range(z) = {z[i] : i \in 1 .. Len(z)}
    BY RangeAppend
  <2> QED
    BY <2>1, <2>2
<1> QED
  BY <1>4, <1>9, <1>10, <1>11

(* Stricter is stricter, and only a rule of the custom file drops, for any *)
(* custom file, however long, and any request (engine.go Inspect, owasp.go *)
(* loadOWASPRules, custom.go LoadCustomRules).                             *)
THEOREM InspectStrictHolds == RulesSpec => []InspectStrict
<1>1. ASSUME RulesInv, hits # {} PROVE InspectStrict
  <2>1. rules \in Seq(Loaded) /\ paranoia \in Int /\ inspected = Inspect(rules, paranoia, hits)
    BY <1>1 DEF RulesInv
  <2>2. Range(rules) \subseteq Loaded
    <3>1. Range(rules) = {rules[i] : i \in 1 .. Len(rules)}
      BY <2>1, RangeAppend
    <3> QED
      BY <2>1, <3>1
  <2>3. ASSUME NEW level \in 1 .. paranoia, NEW request \in SUBSET hits,
               Inspect(RulesAt(level), level, request).blocked
        PROVE  inspected.blocked
    <3>1. level \in Int /\ level <= paranoia
      BY <2>1
    <3>2. RulesAt(level) \in Seq(Loaded) /\ Range(RulesAt(level)) \subseteq Range(rules)
      BY <1>1, <3>1, RulesAtAmong
    <3>3. ~ Nothing.blocked
      BY DEF Nothing
    <3>4. PICK r \in Range(RulesAt(level)) : Objects(r, level, request)
      BY <2>3, <3>2, <3>3, InspectDecides, Zenon
    <3>5. r \in Loaded /\ r \in Range(rules)
      BY <2>2, <3>2
    <3>6. Objects(r, paranoia, hits)
      BY <2>1, <3>1, <3>4, <3>5, ObjectsMonotone
    <3>7. Inspect(rules, paranoia, hits).blocked = TRUE
      BY <2>1, <3>5, <3>6, InspectDecides, Zenon
    <3> QED
      BY <2>1, <3>7, Zenon
  <2>4. ASSUME inspected.action = "drop"
        PROVE  \E e \in Entries : e.action = "drop" /\ e.enabled /\ e.compiles /\ matchRule(e, hits)
    <3>1. Nothing.action # "drop"
      BY Zenon DEF Nothing
    <3>2. PICK r \in Range(rules) : Objects(r, paranoia, hits) /\ inspected.action = r.action
      BY <2>1, <2>4, <3>1, InspectDecides, Zenon
    <3>3. r \notin Range(Owasp)
      <4>1. r.action = "drop"
        BY <2>4, <3>2
      <4>2. ~Tame(r)
        BY <4>1 DEF Tame
      <4> QED
        BY <4>2, OwaspTame
    <3>4. PICK e \in Entries : e.compiles /\ r = WithDefaults(e)
      BY <2>2, <3>3, Zenon DEF Loaded
    <3>5. /\ r.id = e.id /\ r.targets = e.targets /\ r.enabled = e.enabled /\ r.empty = e.empty
          /\ r.action = "drop" => e.action = "drop"
      BY <3>4, DefaultsKeep
    <3>6. e.action = "drop"
      BY <2>4, <3>2, <3>5
    <3>7. e.enabled /\ matchRule(r, hits)
      BY <3>2, <3>5, Zenon DEF Objects
    <3>8. matchRule(e, hits)
      BY <3>5, <3>7 DEF matchRule
    <3> QED
      BY <3>4, <3>6, <3>7, <3>8, Zenon
  <2> QED
    BY <2>3, <2>4, Zenon DEF InspectStrict
<1>2. RulesInv => InspectStrict
  BY <1>1, Zenon DEF InspectStrict
<1> QED
  BY <1>2, RulesInductive, PTL DEF RulesSpec
=============================================================================
