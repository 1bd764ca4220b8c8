---------------------------- MODULE MCFetchLoop ----------------------------
(***************************************************************************)
(* Model of FetchLoop for TLC: the registry changes a bounded number of    *)
(* times, a bounded number of calls fail, and the timers are slow.         *)
(***************************************************************************)
EXTENDS FetchLoop

CONSTANTS
  MaxChanges,   \* bound on the changes of the registry
  MaxFailures,  \* bound on failed calls and lost notifications
  Removals      \* whether a repository may be removed from the registry

VARIABLES changes, failures

budgetVars == <<changes, failures>>

BudgetInit == Init /\ changes = 0 /\ failures = 0

BudgetChange ==
  /\ changes < MaxChanges
  /\ changes' = changes + 1
  /\ RegistryStep
  /\ Removals \/ Catalog \subseteq Catalog'
  /\ UNCHANGED failures

BudgetFailure ==
  /\ failures < MaxFailures
  /\ failures' = failures + 1
  /\ Failure
  /\ UNCHANGED changes

(* The intervals of the timers are long, 1h and 30m by default.  The next  *)
(* tick of fetch_all comes after the scan of the previous one has ended    *)
(* and all its requests were received, the next one of garbage_collect     *)
(* after the previous request was received.  startTimers does not enforce  *)
(* this.                                                                   *)
SlowTickFetchAll ==
  /\ loop \in {"receive", "lockGC", "collect"}
  /\ ~Queued(FetchAllRequest)
  /\ \A r \in Repos : ~Queued(FetchRequest(r, TRUE))
  /\ TickFetchAll

SlowTickGarbageCollect ==
  /\ ~Queued(GarbageCollectRequest)
  /\ TickGarbageCollect

BudgetNext ==
  \/ BudgetChange
  \/ BudgetFailure
  \/ (SlowTickFetchAll \/ SlowTickGarbageCollect \/ SystemStep) /\ UNCHANGED budgetVars

BudgetSpec == BudgetInit /\ [][BudgetNext]_<<vars, budgetVars>>

(* The timer of fetch_all keeps ticking, although the moments when it may  *)
(* do so come and go.                                                      *)
BudgetFairSpec == BudgetSpec /\ Fairness /\ SF_vars(SlowTickFetchAll)
=============================================================================
