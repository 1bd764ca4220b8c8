\* Three callers, enough for removeWaiter to move a channel past another one.
SPECIFICATION FairSpec
CONSTANTS
  Callers = {c1, c2, c3}
  MaxSerial = 2
INVARIANTS
  TypeOK
  WaitersAreWaiting
PROPERTIES
  SuccessIsNews
  TimedWaitReturns
\* Nobody is obliged to call Change, and a call of Wait may wait for ever.
CHECK_DEADLOCK FALSE
