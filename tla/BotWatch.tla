------------------------------ MODULE BotWatch ------------------------------
(***************************************************************************)
(* Layers 6 to 9 of the WAF's pipeline for one address: the behaviour      *)
(* profile, the bot classifier with its cache and the detection engine's   *)
(* token bucket.  What depends on the clock or on URL statistics           *)
(* (regularity, entropy, speed, share of different URLs) is any of the     *)
(* bands the code sorts it into.  The session tracker only writes to the   *)
(* log, and Analyze is always told that the response was 200.              *)
(***************************************************************************)
EXTENDS Integers, FiniteSets

CONSTANTS
  MinReqs,       \* requests before a verdict (5)
  MinSamples,    \* intervals before timing counts (10)
  ManyReqs,      \* requests before a browser must have loaded a static file (20)
  HammerReqs,    \* requests before the share of different URLs counts (50)
  VerdictTTL,    \* ticks the classifier's verdict is cached (30 s)
  DetBurst, DetRate,    \* the engine's token bucket
  Hits           \* [url, method, ua, sigs, fp]: requests to the site

Signatures ==
  [no_accept_header |-> "medium", no_accept_language |-> "low", no_accept_encoding |-> "low",
   connection_close |-> "medium", missing_referer_on_subresource |-> "low",
   ddos_ua_mhddos |-> "critical", ua_browser_no_sec_headers |-> "medium",
   post_no_content_type |-> "medium", path_traversal_attempt |-> "high",
   sql_injection_probe |-> "high", googlebot |-> "none", bingbot |-> "none"]

ASSUME BotAssumption ==
  /\ MinReqs \in Nat /\ MinSamples \in Nat /\ ManyReqs \in Nat /\ HammerReqs \in Nat
  /\ ManyReqs <= HammerReqs
  /\ VerdictTTL \in Nat \ {0} /\ DetBurst \in Nat \ {0} /\ DetRate \in Nat \ {0}
  /\ Hits \subseteq [url : {"static", "api", "page"}, method : {"GET", "POST"}, ua : 1 .. 4,
                     sigs : SUBSET DOMAIN Signatures, fp : {"none", "tool", "low", "fine"}]

VARIABLES
  profile,      \* [total, methods, uas, static, api]: the BehaviorProfile
  botCache,     \* [threat, age]: the cached BotClassResult
  detTokens,    \* the bucket; it may exceed the burst by a bonus
  botOut,       \* what the last request came to
  critAge       \* ticks since a request matched a critical signature (history)

botVars == <<profile, botCache, detTokens, botOut, critAge>>

NoProfile == [total |-> 0, methods |-> {}, uas |-> {}, static |-> FALSE, api |-> FALSE]
NoVerdict == [threat |-> "none", age |-> VerdictTTL]

BotInit ==
  /\ profile = NoProfile /\ botCache = NoVerdict /\ detTokens = DetBurst
  /\ botOut = "none" /\ critAge = VerdictTTL

-----------------------------------------------------------------------------
\* Analyze: the profile with one more request, counted as far as it matters.
Track(p, h) ==
  [total |-> IF p.total > HammerReqs THEN p.total ELSE p.total + 1,
   methods |-> p.methods \cup {h.method}, uas |-> p.uas \cup {h.ua},
   static |-> p.static \/ h.url = "static", api |-> p.api \/ h.url = "api"]

\* The bands of analyzeTimingRegularity, analyzeURLEntropy and analyzeSpeed, and their weights.
Regular == {100, 80, 50, 20, 0}
analyzeURLEntropy == {80, 90, 60, 30, 0}
analyzeSpeed == {100, 80, 60, 30, 0}
Measured(regular) ==
  {25 * t + 20 * e + 15 * v : t \in regular, e \in analyzeURLEntropy, v \in analyzeSpeed}
MeasuredEarly == Measured({0})
MeasuredLate == Measured(Regular)

\* Mutant: static files no longer count in a visitor's favour.
analyzeDiversityStrict(p, few) == 100

\* analyzeDiversity; few: less than one URL in twenty requests is a new one.
analyzeDiversity(p, few) ==
  LET penalty == (IF Cardinality(p.methods) = 1 THEN 20 ELSE 0)
                 + (IF ~p.static /\ p.total > ManyReqs THEN 40 ELSE 0)
                 + (IF ~p.static /\ p.api THEN 30 ELSE 0)
                 + (IF few /\ p.total > HammerReqs THEN 40 ELSE 0)
  IN  IF penalty > 100 THEN 100 ELSE penalty

\* analyzeErrorPattern: no request is ever recorded with an error.
analyzeErrorPattern == 0

analyzeUAConsistency(p) == IF Cardinality(p.uas) > 3 THEN 60 ELSE 0

\* computeVerdict: the scores there can be, in hundredths.
BehaviorScores(p) ==
  IF p.total < MinReqs THEN {7000}
  ELSE {10000 - m - 20 * analyzeDiversity(p, few) - 10 * analyzeErrorPattern
          - 10 * analyzeUAConsistency(p) :
        m \in IF p.total - 1 < MinSamples THEN MeasuredEarly ELSE MeasuredLate, few \in BOOLEAN}

\* Its classes, as layers 6 and 7 tell them apart.
Verdicts(p) ==
  {IF s < 2000 THEN "ddos" ELSE IF s < 3000 THEN "bot_below_30" ELSE IF s < 4000 THEN "bot"
   ELSE "other" : s \in BehaviorScores(p)}

Level == [none |-> 0, low |-> 1, medium |-> 2, high |-> 3, critical |-> 4]

\* Classify: the matches, with what the fingerprint and the behaviour add to them.
MatchCount(h, verdict) ==
  Cardinality(h.sigs)
    + (IF h.fp \in {"tool", "low"} THEN 2 ELSE 0) + (IF h.fp = "tool" THEN 3 ELSE 0)
    + (IF verdict = "other" THEN 0 ELSE 2) + (IF verdict = "bot_below_30" THEN 2 ELSE 0)

\* Its verdict: three matches and the highest threat among the signatures counts.
Threat(h, verdict) ==
  LET threats == {"none"} \cup {Signatures[s] : s \in h.sigs}
      n == MatchCount(h, verdict)
  IN  IF n >= 3 THEN CHOOSE t \in threats : \A u \in threats : Level[u] <= Level[t]
      ELSE IF n = 2 THEN "low" ELSE "none"

\* Mutant: the cached verdict is used a tick too long.
CachedLate == botCache.age <= VerdictTTL

Cached == botCache.age < VerdictTTL

\* Classify, with the cache, which is looked up by the address alone.
Classify(h, verdict) ==
  botCache' = IF Cached THEN botCache ELSE [threat |-> Threat(h, verdict), age |-> 0]

\* CheckRateLimit: in calm traffic five tokens are added, on top of a full bucket too.
CheckRateLimit(calm) ==
  LET t == (IF detTokens > DetBurst THEN DetBurst ELSE detTokens) + (IF calm THEN 5 ELSE 0)
  IN  /\ detTokens' = IF t > 0 THEN t - 1 ELSE 0
      /\ botOut' = IF t > 0 THEN "passed" ELSE "det_rate_limited"

\* A request that has come as far as layer 6.
Hit(h) ==
  /\ profile' = Track(profile, h)
  /\ critAge' = IF \E s \in h.sigs : Signatures[s] = "critical" THEN 0 ELSE critAge
  /\ \E verdict \in Verdicts(profile') :
       \/ /\ verdict = "ddos"
          /\ botOut' = "behavior_ddos" /\ UNCHANGED <<botCache, detTokens>>
       \/ /\ verdict # "ddos"
          /\ Classify(h, verdict)
          /\ CASE botCache'.threat = "critical" -> botOut' = "bot_critical" /\ UNCHANGED detTokens
               [] botCache'.threat = "high" -> botOut' = "bot_suspicious" /\ UNCHANGED detTokens
               [] OTHER -> \E calm \in BOOLEAN : CheckRateLimit(calm)

\* A second passes.
BotTick ==
  /\ botCache' = [botCache EXCEPT !.age = IF @ > VerdictTTL THEN @ ELSE @ + 1]
  /\ critAge' = IF critAge > VerdictTTL THEN critAge ELSE critAge + 1
  /\ detTokens' = IF detTokens + DetRate > DetBurst THEN DetBurst ELSE detTokens + DetRate
  /\ botOut' = "none" /\ UNCHANGED profile

\* Ten minutes without a request, and cleanupWorker removes profile, verdict and bucket.
CleanupProfile == profile' = NoProfile
CleanupCache == botCache' = NoVerdict
CleanupSessions == detTokens' = DetBurst
BotCleanup ==
  /\ CleanupSessions /\ CleanupProfile /\ CleanupCache
  /\ critAge' = VerdictTTL + 1 /\ botOut' = "none"

BotNext == (\E h \in Hits : Hit(h)) \/ BotTick \/ BotCleanup

BotSpec == BotInit /\ [][BotNext]_botVars

-----------------------------------------------------------------------------
(* An address is banned for its behaviour only at the extreme of every     *)
(* measure: more than three User-Agents, more than ManyReqs requests and   *)
(* not one static file since its profile began; a single client that       *)
(* merely floods is never banned here (behavior.go computeVerdict,         *)
(* pipeline.go layer 6).                                                   *)
DdosVerdictExtreme ==
  botOut = "behavior_ddos" =>
    Cardinality(profile.uas) > 3 /\ profile.total > ManyReqs /\ ~profile.static

(* A request is dropped, and its address banned, as a critical bot only if *)
(* this address sent a request with the mark of an attack tool less than   *)
(* the cache's life ago: a verdict is shared by all clients behind an      *)
(* address, but not longer (classifier.go Classify).                       *)
BotVerdictEarned ==
  botOut = "bot_critical" => critAge < VerdictTTL
=============================================================================
