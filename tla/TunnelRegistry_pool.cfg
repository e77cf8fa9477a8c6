\* Three connections of two processes with one id; leaks can exhaust the pool.
SPECIFICATION Spec
CONSTANTS
  s1 = s1 s2 = s2 s3 = s3 c1 = c1 c2 = c2 i1 = i1 d1 = d1 d2 = d2 None = None
  Sessions = {s1, s2, s3}  Clients = {c1, c2}  Ids = {i1}  IdOf <- SharedId
  Protocols = {"http", "udp"}  Subdomains = {d1, d2}
  PortStart = 2  PortEnd = 3  MaxConns = 2
SYMMETRY SharedSymmetry
INVARIANTS PortPartition RouteIsMine
PROPERTIES EvictsOnlyItself
CHECK_DEADLOCK FALSE
