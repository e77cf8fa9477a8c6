\* Two nodes, two handlers, bans of one and two ticks.
SPECIFICATION FairSpec
CONSTANTS
  n1 = n1 n2 = n2 i1 = i1 h1 = h1 h2 = h2 None = None
  Nodes = {n1, n2}  IPs = {i1}  XdpNodes = {n1}  Handlers = {h1, h2}
  MaxDuration = 2  Fresh = 2  MaxDecisions = 1
INVARIANTS MeshBanBounded
PROPERTIES BansEnd
CHECK_DEADLOCK FALSE
