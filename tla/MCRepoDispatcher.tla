-------------------------- MODULE MCRepoDispatcher --------------------------
(***************************************************************************)
(* Model of RepoDispatcher for TLC.  The callers of Add and Lock have a    *)
(* budget: a caller that never stops could starve one repository for ever, *)
(* which the code allows (low priority requests wait for high priority     *)
(* ones, and a map is iterated in any order).                              *)
(***************************************************************************)
EXTENDS RepoDispatcher

CONSTANTS
  MaxAdds,   \* bound on the calls of Add
  MaxLocks   \* bound on the calls of Lock

VARIABLES adds, locks

budgetVars == <<adds, locks>>

BudgetInit == Init /\ adds = 0 /\ locks = 0

BudgetAdd ==
  /\ adds < MaxAdds
  /\ adds' = adds + 1
  /\ UNCHANGED locks
  /\ \E r \in Repos, low \in BOOLEAN : Add(r, low)

BudgetLock ==
  /\ locks < MaxLocks
  /\ locks' = locks + 1
  /\ UNCHANGED adds
  /\ Lock

BudgetNext ==
  \/ BudgetAdd
  \/ BudgetLock
  \/ /\ (\E w \in Workers : Take(w) \/ Release(w)) \/ LockWake \/ Unlock
     /\ UNCHANGED budgetVars

BudgetSpec == BudgetInit /\ [][BudgetNext]_<<vars, budgetVars>> /\ Fairness
=============================================================================
