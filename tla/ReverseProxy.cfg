\* Two domains, one with two backends and one with none, and a host of neither.
SPECIFICATION FairSpec
CONSTANTS
  d1 = d1 d2 = d2 h1 = h1 h2 = h2 r1 = r1 r2 = r2 None = None
  Domains = {d1, d2}  Size <- MCSize  Hosts = {h1, h2}  Contains <- MCContains
  Requests = {r1}  TTL = 1
INVARIANTS AlwaysUpServes
PROPERTIES HealthNoticed RequestRouted
