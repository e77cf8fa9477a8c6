-------------------------------- MODULE Intel --------------------------------
(***************************************************************************)
(* The WAF's intelligence on one address: threat feeds fetched once an     *)
(* hour, each of which may fail, a reputation looked up at AbuseIPDB and   *)
(* kept for a while, the country, and the trust they add up to.            *)
(* Nothing adds to the block lists, so the reserved ranges are the only    *)
(* list; a geo database answers "unknown" for every address, and its       *)
(* answers carry no network, so the ASN layer takes nothing away.          *)
(***************************************************************************)
EXTENDS Integers, FiniteSets

CONSTANTS
  Feeds,       \* DefaultFeeds
  Reports,     \* [abuse, tor, datacenter]: what AbuseIPDB may say of the address
  CacheTTL     \* IPReputation.CacheTTL, in ticks

ASSUME IntelAssumption ==
  /\ CacheTTL \in Nat \ {0}
  /\ Reports \subseteq [abuse : 0 .. 100, tor : BOOLEAN, datacenter : BOOLEAN]

VARIABLES
  geoCfg,      \* the configured countries; none without a database
  reserved,    \* the address is private
  abuseKey,    \* an AbuseIPDB key is configured
  feedAt,      \* feeds still to be fetched by the running UpdateAll
  listed,      \* feeds that list the address at present
  knownBad,    \* the address is in knownBad
  rep,         \* its cached reputation
  repAge,      \* and how old it is
  trust,       \* the trust of this tick's last evaluation, in half points
  told,        \* per report: ticks since AbuseIPDB last gave it (history)
  everListed   \* some feed fetched so far had the address (history)

intelVars ==
  <<geoCfg, reserved, abuseKey, feedAt, listed, knownBad, rep, repAge, trust, told, everListed>>

Default == [abuse |-> 0, tor |-> FALSE, datacenter |-> FALSE]
Old == CacheTTL + 1

\* No countries; another country is allowed, and so this one is not; the unknown one is blocked.
GeoConfigs ==
  {[allowed |-> a, blocked |-> {}] : a \in {{}, {"VN"}}} \cup {[allowed |-> {}, blocked |-> {"XX"}]}

IntelInit ==
  /\ geoCfg \in GeoConfigs /\ reserved \in BOOLEAN /\ abuseKey \in BOOLEAN
  /\ feedAt = Feeds /\ listed \in SUBSET Feeds /\ knownBad = FALSE
  /\ rep = Default /\ repAge = Old /\ trust = 140
  /\ told = [r \in Reports |-> Old] /\ everListed = FALSE

-----------------------------------------------------------------------------
\* fetchFeed: one feed of UpdateAll is fetched or fails; entries are only ever added.
FetchFeed(f) ==
  /\ f \in feedAt
  /\ feedAt' = feedAt \ {f}
  /\ \/ UNCHANGED <<knownBad, everListed>>
     \/ f \in listed /\ knownBad' = TRUE /\ everListed' = TRUE
  /\ UNCHANGED <<geoCfg, reserved, abuseKey, listed, rep, repAge, trust, told>>

\* StartPeriodicUpdate's ticker; meanwhile the feeds have new contents.
UpdateAll ==
  /\ feedAt = {} /\ feedAt' = Feeds
  /\ listed' \in SUBSET Feeds
  /\ UNCHANGED <<geoCfg, reserved, abuseKey, knownBad, rep, repAge, trust, told, everListed>>

\* The lists hold the reserved networks only.
IsWhitelisted == reserved

\* GeoProvider's Lookup, with or without a database.
Lookup == "XX"

IsKnownThreat == knownBad

\* What the layers after the lists take away, in half points.
FeedPenalty == IF IsKnownThreat THEN 80 ELSE 0
GeoPenalty == IF geoCfg.allowed # {} /\ Lookup \notin geoCfg.allowed THEN 60 ELSE 0
ReputationPenalty(r) ==
  (IF r.abuse > 50 THEN 100 ELSE 0) + (IF r.tor THEN 40 ELSE 0)
    + (IF r.datacenter THEN 30 ELSE 0) + r.abuse

\* Evaluate, given the reputation; clamped at 0.
Score(r) ==
  LET t == 140 - FeedPenalty - GeoPenalty - ReputationPenalty(r)
  IN  IF IsWhitelisted THEN 200 ELSE IF Lookup \in geoCfg.blocked \/ t < 0 THEN 0 ELSE t

\* Mutant: a reputation is kept one tick too long.
CacheHitLate == repAge <= CacheTTL

\* Check: the cached reputation is still good.
CacheHit == repAge < CacheTTL

(* Evaluate and Check: a fresh reputation is taken from the cache, or      *)
(* AbuseIPDB is asked; a failed query is kept like an answer.              *)
Evaluate ==
  IF IsWhitelisted \/ Lookup \in geoCfg.blocked
  THEN /\ trust' = Score(Default)
       /\ UNCHANGED <<geoCfg, reserved, abuseKey, feedAt, listed, knownBad, rep, repAge, told, everListed>>
  ELSE \/ /\ CacheHit
          /\ trust' = Score(rep)
          /\ UNCHANGED <<geoCfg, reserved, abuseKey, feedAt, listed, knownBad, rep, repAge, told, everListed>>
       \/ /\ ~CacheHit
          /\ \/ rep' = Default /\ UNCHANGED told
             \/ abuseKey /\ rep' \in Reports /\ told' = [told EXCEPT ![rep'] = 0]
          /\ repAge' = 0 /\ trust' = Score(rep')
          /\ UNCHANGED <<geoCfg, reserved, abuseKey, feedAt, listed, knownBad, everListed>>

\* A tick; what was evaluated before no longer counts.
IntelTick ==
  /\ repAge' = IF repAge > CacheTTL THEN repAge ELSE repAge + 1
  /\ told' = [r \in Reports |-> IF told[r] > CacheTTL THEN told[r] ELSE told[r] + 1]
  /\ trust' = 140
  /\ UNCHANGED <<geoCfg, reserved, abuseKey, feedAt, listed, knownBad, rep, everListed>>

IntelNext ==
  (\E f \in Feeds : FetchFeed(f)) \/ UpdateAll \/ Evaluate \/ IntelTick

IntelSpec == IntelInit /\ [][IntelNext]_intelVars

-----------------------------------------------------------------------------
(* The pipeline bans an address at trust 0.  Unless the operator blocks    *)
(* its country, that takes an abuse report above 50, or two of three       *)
(* sources (a feed that had the address at a fetch, a country that is not  *)
(* on the allow list, a report), and a report counts only while AbuseIPDB  *)
(* gave it within the life of the cache (intelligence.go Evaluate,         *)
(* reputation.go Check, feeds.go fetchFeed, pipeline.go layer 3).          *)
BanNeedsEvidence ==
  trust = 0 /\ geoCfg.blocked = {} =>
    LET live == {r \in Reports : told[r] < CacheTTL}
        report == \E r \in live : r # Default
    IN  \/ \E r \in live : r.abuse > 50
        \/ everListed /\ (geoCfg.allowed # {} \/ report)
        \/ geoCfg.allowed # {} /\ report
=============================================================================
