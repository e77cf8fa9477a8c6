\* A bucket of two, proofs and forms of one tick, two addresses; three alert seconds.
SPECIFICATION Spec
CONSTANTS
  Limit = 1  Burst = 2  MaxHits = 1  PowDifficulty = 3  CookieTTL = 1  FormTTL = 1
  EmergencyRPS = 1000  a1 = a1  a2 = a2  Addresses = {a1, a2}  Requests <- MCRequests
  MaxLoad = 2  RPSThreshold = 1  CalmTicks = 2  Cooldown = 2
INVARIANTS SustainedAttackNoticed
PROPERTIES  VisitorAdmitted AttackEnds
CHECK_DEADLOCK FALSE
