\* Two handlers and two swaps of the buckets; three connections from two ports; any message
\* of up to 56 bytes; two requests on a connection; two feeds; thresholds scaled down;
\* two connections of a tunnel client; three UDP sessions under one identifier, two registrations;
\* an hour's window of two samples, and the idle hour after it; custom files of two rules.
SPECIFICATION Spec
CONSTANTS
  Handlers = {h1, h2}  Capacity = 2  Rate = 1  MaxTime = 3  MaxSwaps = 2
  c1 = c1  c2 = c2  c3 = c3  p1 = p1  p2 = p2  NoConn = NoConn
  Conns = {c1, c2, c3}  Ports = {p1, p2}  PortOf <- MCPortOf
  MaxPerIP = 2  MaxCPS = 2  JA3Enabled = TRUE
  MaxBytes = 56  MaxField = 9
  FpRequests = {r1, r2}  Greases = {2570, 64250}
  Feeds = {f1, f2}  Reports <- MCReports  CacheTTL = 2
  MinReqs = 2  MinSamples = 2  ManyReqs = 3  HammerReqs = 4  VerdictTTL = 2
  DetBurst = 2  DetRate = 1  Hits <- MCHits
  MaxSessions = 2  MaxRetries = 1  UdpIds = {u1}  MaxOpens = 3  MaxRegs = 2
  Hours = {1, 2}  Rates = {0, 1, 2, 5, 12}  MaxSamples = 2  FewSamples = 1  MinPoints = 2
  MinThreshold = 4  MaxPoints = 5  Entries <- MCEntries  MaxEntries = 2  MaxPatterns = 2
INVARIANTS ChallengeNeedsSpike InspectStrict OneControlSocket SocketsOwned BurstBound FingerprintIsOwn HelloReads  BanNeedsEvidence DdosVerdictExtreme BotVerdictEarned
SYMMETRY MCSymmetry
CHECK_DEADLOCK FALSE
