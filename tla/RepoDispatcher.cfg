\* Three workers and three repositories; the callers of Add and Lock have a
\* budget, after which the pool must come to rest.
SPECIFICATION BudgetSpec
CONSTANTS
  Repos = {r1, r2, r3}
  Workers = {w1, w2, w3}
  NoRepo = NoRepo
  MaxAdds = 6
  MaxLocks = 2
INVARIANTS
  TypeOK
  ReadyMapsAgree
  OneWorkerPerRepo
  LockExcludesWorkers
  NoLostWakeup
  LockerNotForgotten
PROPERTIES
  RefinesWorkQueue
  LockGranted
  EveryRequestTaken
\* The pool may come to rest with every worker asleep.
CHECK_DEADLOCK FALSE
