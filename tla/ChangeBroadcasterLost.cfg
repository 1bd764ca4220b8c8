\* The smallest instance in which a change is lost.
SPECIFICATION FairSpec
CONSTANTS
  Callers = {c1}
  MaxSerial = 1
PROPERTY
  ChangeEndsWait
CHECK_DEADLOCK FALSE
