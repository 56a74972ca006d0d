SPECIFICATION FairSpec
CONSTANTS
  Caller = {c1, c2}
  Reader = {r1, r2}
  NumLocks = 3
  Builds = {TRUE, FALSE}
  MaxShared = 3
INVARIANTS ContextsAlive PlainLockExclusive
PROPERTY RequestsAnswered
CHECK_DEADLOCK FALSE
