\* Two handlers and two workers whose transactions overlap.
SPECIFICATION FairSpec
CONSTANTS
  Handlers = {c1, c2}
  Workers = {w1, w2}
  MaxSerial = 3
  Satisfying = {3}
INVARIANTS
  TypeOK
  WaiterSawPublished
  MissesOnlyRacing
PROPERTIES
  RetriesOnlyOnNews
  AssertReturns
\* There need be no further request and no further change.
CHECK_DEADLOCK FALSE
