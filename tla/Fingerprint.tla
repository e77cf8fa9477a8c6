----------------------------- MODULE Fingerprint -----------------------------
(***************************************************************************)
(* Fingerprints of TLS clients and the trust they earn: the JA3 of a       *)
(* ClientHello, looked up among the known ones, weighed with the agreement *)
(* of the User-Agent.  A hello is read twice, by the sniffer as it is and  *)
(* by the TLS interceptor out of what crypto/tls hands over, and the later *)
(* one is the entry requests are judged by.  A connection carries several  *)
(* requests at a time; they share its entry of the FingerprintStore, in    *)
(* which each writes its score before the pipeline reads one.              *)
(* No JA4 is known to the code, and nothing fills in an HTTP/2             *)
(* fingerprint.  A hash is the values it is made from; the hashes          *)
(* InitKnownBrowsers lists are of hellos with extensions.                  *)
(***************************************************************************)
EXTENDS Integers, Sequences, Filtering

CONSTANTS
  FpRequests,    \* requests of the connection
  Greases        \* values a browser may put into its hello at random

VARIABLES
  fpIntercepts,  \* JA3.Enabled or JA4.Enabled: the interceptor is installed
  fpClient,      \* who is at the other end
  fpHello,       \* what it has sent
  fpDoor,        \* "new", "sniffed", "refused" or "open"
  fpEntry,       \* the JA3 of the connection's entry in the store
  fpTotal,       \* Composite.Total of that entry, in hundredths
  fpAt,          \* per request: "new", "stored" or "judged"
  fpJudged       \* per request: the score the pipeline has seen

fpVars == <<fpIntercepts, fpClient, fpHello, fpDoor, fpEntry, fpTotal, fpAt, fpJudged>>

Browsers == {"chrome", "firefox", "safari", "edge"}
Clients == Browsers \cup {"tool", "other"}
Agents == Browsers \cup {"none"}

\* What a client sends, apart from GREASE: the version of the record and the highest
\* one it supports, its cipher suites and curves, its extensions.
Values(c) == CASE c = "chrome"  -> <<4865, 23>> [] c = "firefox" -> <<4867, 23>>
               [] c = "safari"  -> <<4866, 10>> [] c = "edge"    -> <<4865, 27>>
               [] c = "tool"    -> <<157>>      [] OTHER -> <<53>>
Extensions(c) == IF c \in {"tool", "other"} THEN <<11>> ELSE <<0, 43>>
Supported(c) == IF c \in {"tool", "other"} THEN 771 ELSE 772
WithGrease(c, v, x) == [version |-> 771, supported |-> Supported(c), values |-> v, exts |-> x]
Hello(c) == WithGrease(c, Values(c), Extensions(c))

\* isGREASE: val & 0x0f0f = 0x0a0a; filterGREASE16.
isGREASE(v) == v % 16 = 10 /\ (v \div 256) % 16 = 10
Uint16 == 0 .. 65535
NotGREASE == {v \in Uint16 : ~isGREASE(v)}
filterGREASE16(s) == Keep(s, NotGREASE)

\* What a browser puts in at random is what the code takes for GREASE.
ASSUME FpAssumption == \A g \in Greases : g \in Uint16 /\ isGREASE(g)

\* InitKnownBrowsers; InitKnownH2Fingerprints stores names no hash is equal to.
Known == Browsers \cup {"tool"}
TrustScore(name) == CASE name = "edge" -> 85 [] name = "tool" -> 5 [] OTHER -> 90

Unknown == "unknown"

\* JA3: the known client with this hello, or none.
Plain(h) == [h EXCEPT !.values = filterGREASE16(@), !.exts = filterGREASE16(@)]
SameJA3(h, g) == h.version = g.version /\ h.values = g.values /\ h.exts = g.exts
JA3(h) ==
  IF \E c \in Known : SameJA3(Plain(h), Hello(c))
    THEN CHOOSE c \in Known : SameJA3(Plain(h), Hello(c)) ELSE Unknown

\* What crypto/tls tells of a hello: the version is made up from the ones supported,
\* and the extensions are not filled in.
extractFromStdlibHello(h) == [h EXCEPT !.version = h.supported, !.exts = <<>>]

\* Mutant: any User-Agent will do.
checkUAConsistencyLoose(name, ua) == IF name = Unknown THEN 30 ELSE 95

\* checkUAConsistency; the User-Agent of Edge names Chrome as well.
checkUAConsistency(name, ua) ==
  IF name = Unknown THEN 30
  ELSE IF name = "tool" THEN 5
  ELSE IF name = ua THEN IF name = "edge" THEN 90 ELSE 95
  ELSE IF name = "chrome" /\ ua = "edge" THEN 95
  ELSE 20

\* CalculateComposite: JA3 30 %, JA4 25 %, HTTP/2 20 %, User-Agent 25 %.
CalculateComposite(name, ua) ==
  30 * (IF name = Unknown THEN 20 ELSE TrustScore(name)) + 25 * 25 + 20 * 30
    + 25 * checkUAConsistency(name, ua)

\* A sequence of values, with or without GREASE behind its first or its last.
Greased(s) ==
  {s} \cup {<<s[1]>> \o <<g>> \o Tail(s) : g \in Greases} \cup {s \o <<g>> : g \in Greases}

FpInit ==
  /\ fpIntercepts \in BOOLEAN
  /\ fpClient \in Clients
  /\ \E v \in Greased(Values(fpClient)), x \in Greased(Extensions(fpClient)) :
       fpHello = WithGrease(fpClient, v, x)
  /\ fpDoor = "new" /\ fpEntry = "none" /\ fpTotal = 0
  /\ fpAt = [r \in FpRequests |-> "new"] /\ fpJudged = [r \in FpRequests |-> 0]

\* sniff: the hello is stored as it is; under attack a tool is turned away.
FpSniff(underAttack) ==
  /\ fpDoor = "new"
  /\ fpEntry' = JA3(fpHello)
  /\ fpDoor' = IF underAttack /\ fpEntry' # Unknown /\ TrustScore(fpEntry') < 10
                 THEN "refused" ELSE "sniffed"
  /\ UNCHANGED <<fpIntercepts, fpClient, fpHello, fpTotal, fpAt, fpJudged>>

\* sniff: the hello came too late, is longer than the buffer or is not understood.
FpUnsniffed ==
  /\ fpDoor = "new"
  /\ fpDoor' = "sniffed"
  /\ UNCHANGED <<fpIntercepts, fpClient, fpHello, fpEntry, fpTotal, fpAt, fpJudged>>

\* GetConfigForClient replaces what the sniffer has stored.
FpHandshake ==
  /\ fpDoor = "sniffed"
  /\ fpDoor' = "open"
  /\ fpEntry' = IF fpIntercepts THEN JA3(extractFromStdlibHello(fpHello)) ELSE fpEntry
  /\ UNCHANGED <<fpIntercepts, fpClient, fpHello, fpTotal, fpAt, fpJudged>>

\* GetCompositeForRequest writes the score of this request into the shared entry.
FpScore(r) ==
  /\ fpDoor = "open" /\ fpEntry # "none" /\ fpAt[r] = "new"
  /\ \E ua \in Agents : fpTotal' = CalculateComposite(fpEntry, ua)
  /\ fpAt' = [fpAt EXCEPT ![r] = "stored"]
  /\ UNCHANGED <<fpIntercepts, fpClient, fpHello, fpDoor, fpEntry, fpJudged>>

\* The pipeline reads the entry, which another request may have written since.
FpJudge(r) ==
  /\ fpAt[r] = "stored"
  /\ fpJudged' = [fpJudged EXCEPT ![r] = fpTotal]
  /\ fpAt' = [fpAt EXCEPT ![r] = "judged"]
  /\ UNCHANGED <<fpIntercepts, fpClient, fpHello, fpDoor, fpEntry, fpTotal>>

FpNext ==
  \/ \E underAttack \in BOOLEAN : FpSniff(underAttack)
  \/ FpUnsniffed \/ FpHandshake
  \/ \E r \in FpRequests : FpScore(r) \/ FpJudge(r)

FpSpec == FpInit /\ [][FpNext]_fpVars

IsTrusted(total) == total >= 7500
FpMalicious(total) == total < 1500

-----------------------------------------------------------------------------
(* The sniffer, which sees the whole hello, turns away tools only,         *)
(* wherever a client puts its GREASE.  Behind the handshake the            *)
(* interceptor's entry has no extensions, so every client is an unknown    *)
(* one and every request has the same score, 25.75; without the            *)
(* interceptor the sniffer's entry stays, and whatever User-Agents the     *)
(* requests of a connection claim and however they overtake each other,    *)
(* each has a score of its client: a tool below an unknown client, that    *)
(* one below every browser.  No score there is takes the fast track or is  *)
(* blocked outright (fingerprint.go, early_reject.go sniff, interceptor.go *)
(* GetCompositeForRequest, pipeline.go layer 2.5).                         *)
FingerprintBand ==
  /\ fpDoor = "refused" => fpClient = "tool"
  /\ \A r \in FpRequests : fpAt[r] = "judged" =>
       LET t == fpJudged[r]
       IN  /\ ~IsTrusted(t) /\ ~FpMalicious(t)
           /\ fpIntercepts => t = 2575
           /\ ~fpIntercepts => /\ fpClient = "tool" <=> t < 2000
                               /\ fpClient \in Browsers <=> t >= 4000
=============================================================================
