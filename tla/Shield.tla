------------------------------- MODULE Shield -------------------------------
(***************************************************************************)
(* The WAF's request pipeline and its challenges, as a visitor and the     *)
(* addresses it comes from meet them.  An address is what extractIP makes  *)
(* of a request: the first one X-Forwarded-For names, else X-Real-IP, else *)
(* the connection's; the WAF believes the client.  The headers are taken   *)
(* unparsed, but no address here holds an underscore, which separates the  *)
(* parts of a proof.  handleRequest takes a solved challenge or sends the  *)
(* request through the layers of ProcessWithFingerprint, where the first   *)
(* layer that objects decides; the last one picks a challenge from the     *)
(* mode, the address's rate, the load and the TLS fingerprint.             *)
(* What the engines say of a request (fingerprint, reputation, rules,      *)
(* behaviour, classifier) is an input here; the other modules of the WAF   *)
(* say what they can answer.  The pipeline's request validator is never    *)
(* set, and nothing calls WhitelistIP, so neither is a layer.  TrustScore  *)
(* and JA3Hash of the address are written and never read.                  *)
(***************************************************************************)
EXTENDS Integers, Sequences

CONSTANTS
  Limit, Burst,      \* RateLimit: requests per tick and in one go
  MaxHits,           \* refusals by the limiter before a ban (20)
  PowDifficulty,     \* Challenge.PowDifficulty
  CookieTTL,         \* ticks a proof is good for
  FormTTL,           \* ticks a captcha form is good for (300 s)
  EmergencyRPS,      \* Emergency.RPSThreshold
  Addresses,         \* what the visitor's requests may name
  Requests           \* [finds, fp, attack, load, expected]: a request and the engines' answers

Modes == {"off", "silent", "challenge", "captcha", "emergency", "auto"}
Findings == {"conn_limit", "invalid_host", "bad_ua", "attack_tool_ja3", "fp_malicious",
             "fp_trusted", "intel_blocked", "whitelisted", "waf_drop", "waf_block",
             "behavior_ddos", "bot_critical", "bot_suspicious", "det_rate_limited"}
\* No fingerprint, a composite below 30, below 60, the rest; none lies between 30 and 40.
Trust == {"none", "low", "medium", "high"}

ASSUME ShieldAssumption ==
  /\ Limit \in Nat \ {0} /\ Burst \in Nat \ {0} /\ MaxHits \in Nat
  /\ PowDifficulty \in Nat \ {0}
  /\ CookieTTL \in Nat /\ FormTTL \in Nat /\ EmergencyRPS \in Nat
  /\ Requests \subseteq [finds : SUBSET Findings, fp : Trust, attack : BOOLEAN,
                         load : Nat, expected : Nat]

VARIABLES
  mode,        \* Protection.Mode
  honest,      \* the visitor is a browser no engine objects to, and answers at once
  address,     \* what the visitor's requests name now
  state,       \* ipStates[address]: its RPS, RateLimitHits and how long ago LastSeen is
  tokens,      \* the address's bucket in rateLimiter
  ipBanned,
  cookie,      \* mango_proof: the address it was issued for, and how long ago
  page,        \* what the visitor sees
  formAge,     \* since when
  proven       \* ticks since each address last passed a verification (history)

shieldVars == <<mode, honest, address, state, tokens, ipBanned, cookie, page, formAge, proven>>

NoState == [rps |-> 0, hits |-> 0, seen |-> "never"]
NoCookie == [for |-> "nobody", age |-> CookieTTL + 1]

ShieldInit ==
  /\ mode \in Modes /\ honest \in BOOLEAN /\ address \in Addresses
  /\ state = NoState /\ tokens = Burst /\ ipBanned = FALSE
  /\ cookie = NoCookie /\ proven = [a \in Addresses |-> CookieTTL + 1]
  /\ page = [kind |-> "start", difficulty |-> 0] /\ formAge = 0

-----------------------------------------------------------------------------
\* NewGracefulDegrader's levels, from the highest; Evaluate and IsFeatureDisabled.
Degradation ==
  << [rps |-> 10000, off |-> {"reputation_lookup", "waf_deep_inspect"}],
     [rps |-> 5000,  off |-> {"reputation_lookup", "waf_deep_inspect"}],
     [rps |-> 2000,  off |-> {"reputation_lookup"}],
     [rps |-> 500,   off |-> {}],
     [rps |-> 0,     off |-> {}] >>
IsFeatureDisabled(feature, load) ==
  feature \in Head(SelectSeq(Degradation, LAMBDA l : load >= l.rps)).off

(* determineStageWithFP in mode auto, without a proof: 4 drops, 2 is the   *)
(* captcha, 1 the proof of work.  Under load the worst are dropped;        *)
(* otherwise two thresholds on the address's rate, by trust and alarm.     *)
AutoStage(limit, threshold, rps, fp, attack, load) ==
  LET Above(js, captcha) == IF rps > captcha THEN 2 ELSE IF rps > js THEN 1 ELSE 0
  IN  IF load > threshold * 2 THEN IF rps > limit * 2 THEN 4 ELSE 2
      ELSE IF fp = "high" THEN Above(limit * 2, limit * 4)
      ELSE IF fp = "medium"
           THEN IF attack THEN Above(10, limit * 2) ELSE Above((limit * 3) \div 2, limit * 3)
      ELSE IF attack THEN IF rps > limit THEN 2 ELSE 1
      ELSE IF fp = "none" THEN Above(limit, limit * 2)
      ELSE IF rps > limit THEN 1 ELSE 0

\* determineStageWithFP
determineStageWithFP(r, rps, proof) ==
  IF mode = "off" \/ proof THEN 0
  ELSE CASE mode = "silent"    -> 3
         [] mode = "challenge" -> 1
         [] mode = "captcha"   -> 2
         [] mode = "emergency" -> 4
         [] mode = "auto"      -> AutoStage(Limit, EmergencyRPS, rps, r.fp, r.attack, r.load)

\* The difficulty of a staged challenge, PowAdaptive, cut at 6.
Difficulty(r, rps) ==
  LET d == PowDifficulty + (IF rps > 50 THEN 1 ELSE 0) + (IF rps > 100 THEN 2 ELSE 0)
             + (IF r.fp = "low" THEN 1 ELSE 0)
  IN  IF d > 6 THEN 6 ELSE d

\* Mutant: a proof is looked at without the address it was issued to.
VerifyProofAnyAddress == cookie.age <= CookieTTL

\* VerifyProof: signature, the address extractIP gives, age.
VerifyProof == cookie.for = address /\ cookie.age <= CookieTTL

hasValidProof == VerifyProof

\* isWhitelisted: by the configuration; the list of addresses that passed a challenge stays empty.
isWhitelisted(r) == "whitelisted" \in r.finds

\* What a layer says: whether it objects, where it stands, and what it asks for.
Verdict(at, hit, reply, ban) ==
  [hit |-> hit, at |-> at, reply |-> reply, ban |-> ban, stage |-> 0, difficulty |-> 0]
Challenge(at, hit, stage, difficulty) ==
  [hit |-> hit, at |-> at, reply |-> "challenge", ban |-> FALSE, stage |-> stage,
   difficulty |-> difficulty]

\* validateRequest: the host must contain the name of a domain, the User-Agent not that of a tool.
validateRequest(r) ==
  << Verdict("early", "invalid_host" \in r.finds, "block", FALSE),
     Verdict("early", "bad_ua" \in r.finds, "block", FALSE) >>

\* The layers before the limiter: ban table, emergency, connections, basic checks, TLS, intelligence.
EarlyLayers(r) ==
  << Verdict("early", ipBanned, "drop", FALSE),
     Verdict("early", r.attack /\ mode = "emergency" /\ ~isWhitelisted(r), "block", FALSE),
     Verdict("early", "conn_limit" \in r.finds, "block", TRUE) >>
  \o validateRequest(r) \o
  << Verdict("early", "attack_tool_ja3" \in r.finds, "drop", TRUE),
     Verdict("early", "fp_malicious" \in r.finds, "block", TRUE),
     Verdict("early", "fp_trusted" \in r.finds /\ ~r.attack, "allow", FALSE),
     Verdict("intel", "intel_blocked" \in r.finds /\ ~IsFeatureDisabled("reputation_lookup", r.load),
             "block", TRUE) >>

\* Layer 3.5, the token bucket and what repeated refusals lead to.
LimiterLayers ==
  << Verdict("limiter", tokens = 0 /\ state.hits + 1 > MaxHits, "drop", TRUE),
     Challenge("limiter", tokens = 0, 1, PowDifficulty) >>

\* Layers 4 to 9: whitelist, rules, behaviour, classifier, the second limiter.
LateLayers(r) ==
  << Verdict("late", isWhitelisted(r), "allow", FALSE),
     Verdict("late", "waf_drop" \in r.finds /\ ~IsFeatureDisabled("waf_deep_inspect", r.load), "drop", TRUE),
     Verdict("late", "waf_block" \in r.finds /\ ~IsFeatureDisabled("waf_deep_inspect", r.load), "block", FALSE),
     Verdict("late", "behavior_ddos" \in r.finds, "block", TRUE),
     Verdict("late", "bot_critical" \in r.finds, "drop", TRUE),
     Challenge("late", "bot_suspicious" \in r.finds, 2, PowDifficulty + 1),
     Challenge("late", "det_rate_limited" \in r.finds, 1, PowDifficulty) >>

\* GetDecision of the adaptive learner, which expects so much of an hour once it is calibrated.
LearnerDecision(expected, rps) ==
  IF expected = 0 THEN 0   \* not calibrated
  ELSE IF rps > 10 * expected THEN 2
  ELSE IF rps > 3 * expected THEN 1 ELSE 0

\* A staged challenge, which the adaptive learner may raise.
Raised(stage, expected, rps) ==
  IF stage \notin {0, 4} /\ LearnerDecision(expected, rps) > stage THEN LearnerDecision(expected, rps)
  ELSE stage

\* Layer 10: the stage.
StageLayer(r) ==
  LET rps == state.rps + 1   \* updateRPS
      stage == determineStageWithFP(r, rps, hasValidProof)
  IN  IF stage \in {0, 4}
      THEN Verdict("stage", TRUE, IF stage = 0 THEN "allow" ELSE "drop", FALSE)
      ELSE Challenge("stage", TRUE, Raised(stage, r.expected, rps), Difficulty(r, rps))

\* All layers in the order of ProcessWithFingerprint; the last one always decides.
Layers(r) == EarlyLayers(r) \o LimiterLayers \o LateLayers(r) \o <<StageLayer(r)>>

\* ServeChallenge: the page for a stage.
serveJSChallenge(d) == [kind |-> "pow", difficulty |-> IF d = 0 THEN PowDifficulty ELSE d]
serveCAPTCHAChallenge == [kind |-> "captcha", difficulty |-> 0]
serveSilentChallenge == [kind |-> "silent", difficulty |-> 0]
ServeChallenge(v) ==
  IF v.stage = 2 THEN serveCAPTCHAChallenge
  ELSE IF v.stage = 3 THEN serveSilentChallenge
  ELSE serveJSChallenge(v.difficulty)

\* getState, called n times: a state that was just made has no LastSeen.
getState(s, n) ==
  IF n = 0 THEN s
  ELSE [s EXCEPT !.seen = IF s.seen = "never" /\ n = 1 THEN "once" ELSE "recent"]

(* handleRequest and ProcessWithFingerprint: of the layers that hit, the   *)
(* first decides; how far the request got says which counters it touched.  *)
Process(r) ==
  \E layers \in {Layers(r)} : \E objecting \in {{k \in 1 .. Len(layers) : layers[k].hit}} :
  \E v \in {layers[i] : i \in {k \in objecting : \A j \in objecting : k <= j}} :
    LET late == v.at \in {"limiter", "late", "stage"}
    IN  /\ ipBanned' = (ipBanned \/ v.ban)
        /\ tokens' = IF late /\ tokens > 0 THEN tokens - 1 ELSE tokens
        /\ state' = getState(
             [state EXCEPT !.hits = IF v.at = "limiter" /\ @ <= MaxHits THEN @ + 1 ELSE @,
                           !.rps = IF v.at = "stage" /\ @ <= 4 * Limit THEN @ + 1 ELSE @],
             (IF r.fp # "none" /\ (late \/ v.at = "intel") THEN 1 ELSE 0)
               + (IF v.at \in {"limiter", "stage"} THEN 1 ELSE 0))
        /\ page' = CASE v.reply = "allow"     -> [kind |-> "content", difficulty |-> 0]
                     [] v.reply = "challenge" -> ServeChallenge(v)
                     [] OTHER                 -> [kind |-> "refused", difficulty |-> 0]
        /\ formAge' = 0
        /\ UNCHANGED <<mode, honest, address, cookie, proven>>

Clean(r) == r.finds = {}

\* An honest visitor has left nothing to solve and gives the engines no reason.
Request(r) ==
  /\ honest => Clean(r) /\ page.kind \notin {"pow", "captcha"}
  /\ Process(r)

Browse == \E r \in Requests : Request(r)

\* Mutant: the proof is accepted and the cookie forgotten.
HandleVerificationForgets ==
  /\ page.kind \in {"pow", "captcha"}
  /\ page' = [kind |-> "redirect", difficulty |-> 0] /\ formAge' = 0
  /\ proven' = [proven EXCEPT ![address] = 0]
  /\ UNCHANGED <<mode, honest, address, state, tokens, ipBanned, cookie>>

(* HandleVerification, verifyPoW and verifyTurnstile, which come before    *)
(* the pipeline and look at no ban: a proof cookie and a redirect, or,     *)
(* for a captcha form that is too old, the pipeline.  A proof of work is   *)
(* judged by the difficulty of its own form and never expires.             *)
HandleVerification ==
  \/ /\ page.kind \in {"pow", "captcha"}
     /\ page.kind = "captcha" => formAge <= FormTTL
     /\ cookie' = [for |-> address, age |-> 0]   \* SetProofCookie
     /\ proven' = [proven EXCEPT ![address] = 0]
     /\ page' = [kind |-> "redirect", difficulty |-> 0] /\ formAge' = 0
     /\ UNCHANGED <<mode, honest, address, state, tokens, ipBanned>>
  \/ /\ page.kind = "captcha" /\ formAge > FormTTL
     /\ Browse

\* An honest visitor follows a redirect and answers a form before time goes on.
Prompt == honest => page.kind # "redirect" /\ (page.kind = "captcha" => formAge < FormTTL)

\* A second passes.
ShieldTick ==
  /\ Prompt
  /\ tokens' = IF tokens + Limit > Burst THEN Burst ELSE tokens + Limit
  /\ state' = [state EXCEPT !.rps = 0]
  /\ cookie' = IF cookie.age >= CookieTTL THEN NoCookie ELSE [cookie EXCEPT !.age = @ + 1]
  /\ formAge' = IF formAge > FormTTL THEN formAge ELSE formAge + 1
  /\ proven' = [a \in Addresses |-> IF proven[a] > CookieTTL THEN proven[a] ELSE proven[a] + 1]
  /\ UNCHANGED <<mode, honest, address, ipBanned, page>>

\* Ten minutes pass without a request of this address.
QuietPeriod ==
  /\ state.seen = "recent" /\ page.kind \in {"content", "refused"}
  /\ state' = [state EXCEPT !.seen = "long_ago", !.rps = 0]
  /\ tokens' = Burst
  /\ UNCHANGED <<mode, honest, address, ipBanned, cookie, page, formAge, proven>>

\* Cleanup forgets a state not seen for ten minutes, or seen only once.
ShieldCleanup ==
  /\ state.seen \in {"once", "long_ago"}
  /\ state' = NoState
  /\ UNCHANGED <<mode, honest, address, tokens, ipBanned, cookie, page, formAge, proven>>

\* The ban's time is over (BanMesh has the table).
BanExpires ==
  /\ ipBanned /\ ipBanned' = FALSE
  /\ UNCHANGED <<mode, honest, address, state, tokens, cookie, page, formAge, proven>>

(* The visitor's requests name another address, cookies and all: it has    *)
(* moved, or simply says so.  The WAF may remember nothing of that address *)
(* or as much as of this one.                                              *)
ChangeAddress ==
  /\ honest => page.kind = "content"
  /\ address' \in Addresses \ {address}
  /\ \/ state' = NoState /\ tokens' = Burst /\ ipBanned' = FALSE
     \/ UNCHANGED <<state, tokens, ipBanned>>
  /\ UNCHANGED <<mode, honest, cookie, page, formAge, proven>>

ShieldNext ==
  \/ Browse
  \/ HandleVerification
  \/ ShieldTick \/ QuietPeriod \/ ShieldCleanup \/ BanExpires
  \/ ChangeAddress

\* A browser goes on, time passes whatever it does, and bans run out.
ShieldFairness ==
  /\ WF_shieldVars(Browse) /\ WF_shieldVars(HandleVerification)
  /\ SF_shieldVars(ShieldTick) /\ WF_shieldVars(BanExpires)

ShieldSpec == ShieldInit /\ [][ShieldNext]_shieldVars /\ ShieldFairness

ShieldTypeOK ==
  /\ mode \in Modes /\ honest \in BOOLEAN /\ address \in Addresses /\ ipBanned \in BOOLEAN
  /\ state \in [rps : 0 .. 4 * Limit + 1, hits : 0 .. MaxHits + 1,
                seen : {"never", "once", "recent", "long_ago"}]
  /\ tokens \in 0 .. Burst
  /\ cookie \in [for : Addresses \cup {"nobody"}, age : 0 .. CookieTTL + 1]
  /\ page.kind \in {"start", "content", "refused", "redirect", "silent", "pow", "captcha"}
  /\ formAge \in 0 .. FormTTL + 1 /\ proven \in [Addresses -> 0 .. CookieTTL + 1]

-----------------------------------------------------------------------------
(* In the modes that challenge everybody, a request that no list or        *)
(* fingerprint exempts gets to the site only if the address it names has   *)
(* passed a verification within a proof's life: not on a proof issued for  *)
(* another address, not by wearing the limiter down, not by being          *)
(* forgotten.  Whether the address is the client's own the WAF does not    *)
(* ask (challenge.go VerifyProof, pipeline.go determineStageWithFP,        *)
(* server.go extractIP).                                                   *)
ProofNeeded ==
  [][proven[address] > CookieTTL /\ mode \in {"silent", "challenge", "captcha", "emergency"}
       /\ page'.kind = "content"
     => \A r \in Requests : Clean(r) => ~Process(r)]_shieldVars

(* A browser that answers what it is shown gets to the site again and      *)
(* again, through refusals of the limiter, bans, alarms, extreme load,     *)
(* forgotten state, expired proofs and new addresses, in every mode that   *)
(* hands out proofs (pipeline.go ProcessWithFingerprint, challenge.go).    *)
VisitorAdmitted ==
  honest /\ mode \in {"off", "auto", "challenge", "captcha"} => []<>(page.kind = "content")
=============================================================================
