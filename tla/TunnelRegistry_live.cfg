\* A TCP or HTTP client that reconnects; no symmetry.
SPECIFICATION FairSpec
CONSTANTS
  s1 = s1 s2 = s2 s3 = s3 c1 = c1 c2 = c2 i1 = i1 d1 = d1 d2 = d2 None = None
  Sessions = {s1, s2}  Clients = {c1}  Ids = {i1}  IdOf <- SharedId
  Protocols = {"tcp", "http"}  Subdomains = {d1}
  PortStart = 2  PortEnd = 3  MaxConns = 2
INVARIANTS ListenerDiesWithSession
PROPERTIES ClosesDown
CHECK_DEADLOCK FALSE
