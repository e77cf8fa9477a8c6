\* One visitor, with every failure and what must follow.  Visitors share only the
\* control connection and a map keyed by random IDs; the proofs cover any number.
SPECIFICATION FairSpec
CONSTANTS
  p1 = p1
  Publics = {p1}
INVARIANT OnlyLateConnectionLeaks
PROPERTIES RefinesRendezvous HangUpPropagates
CHECK_DEADLOCK FALSE
