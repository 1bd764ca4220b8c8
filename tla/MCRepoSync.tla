----------------------------- MODULE MCRepoSync -----------------------------
(***************************************************************************)
(* Model of RepoSync for TLC: the registry changes a bounded number of     *)
(* times, and a bounded number of calls fail.                              *)
(***************************************************************************)
EXTENDS RepoSync, TLC

CONSTANTS
  r1, r2, i1, i2, i3, l1, l2, o1,
  MaxChanges,   \* bound on the changes of the registry
  MaxFailures   \* bound on failed calls and lost notifications

VARIABLES changes, failures

budgetVars == <<changes, failures>>

BudgetInit == Init /\ changes = 0 /\ failures = 0

BudgetChange ==
  /\ changes < MaxChanges
  /\ changes' = changes + 1
  /\ RegistryStep
  /\ UNCHANGED failures

BudgetFailure ==
  /\ failures < MaxFailures
  /\ failures' = failures + 1
  /\ Failure
  /\ UNCHANGED changes

BudgetNext ==
  \/ BudgetChange
  \/ BudgetFailure
  \/ SystemStep /\ UNCHANGED budgetVars

BudgetSpec == BudgetInit /\ [][BudgetNext]_<<vars, budgetVars>>
BudgetFairSpec == BudgetSpec /\ Fairness

(* Only the fetches that have begun are obliged to go on. *)
FetchFairSpec == BudgetSpec /\ \A r \in Repos : WF_vars(FetchStep(r))

-----------------------------------------------------------------------------
(* Each repository has digests of its own: r1 a list and an ignored        *)
(* manifest, r2 an image and a list without manifests.                     *)
OwnContents == (l1 :> <<i1, i2>>) @@ (l2 :> <<>>)
OwnAvailable == (r1 :> {l1, o1}) @@ (r2 :> {i3, l2})

(* Both repositories have the list l1, and r2 another list of the same     *)
(* images in the opposite order; one of the images has a tag in r1 too.    *)
SharedContents == (l1 :> <<i1, i2>>) @@ (l2 :> <<i2, i1>>)
SharedAvailable == (r1 :> {i1, l1}) @@ (r2 :> {l1, l2})

(* The same image in both repositories, and no list. *)
NoContents == <<>>
LeakAvailable == (r1 :> {i1}) @@ (r2 :> {i1})
=============================================================================
