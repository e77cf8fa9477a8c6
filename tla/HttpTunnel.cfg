\* Two requests over two sessions that end at any moment.
SPECIFICATION FairSpec
CONSTANTS
  r1 = r1  r2 = r2  s1 = s1  s2 = s2  None = None
  Requests = {r1, r2}  Sessions = {s1, s2}
PROPERTIES RefinesRendezvous VisitorAnswered
CHECK_DEADLOCK FALSE
