\* One transaction and one client are enough for a stale response.
SPECIFICATION Spec
CONSTANTS
  Workers = {w1}
  Clients = {k1}
  MaxCommits = 2
PROPERTY
  NotModifiedIsTrue
CHECK_DEADLOCK FALSE
