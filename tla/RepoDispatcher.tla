--------------------------- MODULE RepoDispatcher ---------------------------
(***************************************************************************)
(* util/repodispatcher.go: the queue of repositories that the fetcher's    *)
(* pool of workers draws from, with a lock that drains the pool.           *)
(*                                                                         *)
(* Every method runs under rd.mutex, so a method, or the part of it        *)
(* between two waits on a condition variable, is one action.  A goroutine  *)
(* that waits on readyCond is in the set asleep; one that was signalled,   *)
(* or that is about to call Take, is awake: both lock the mutex and look   *)
(* at someReady() next, so they need not be told apart.                    *)
(*                                                                         *)
(* The flags of a repoInfo are modelled by the set of the repositories     *)
(* that have the flag set.  The maps of the code hold pointers to          *)
(* repoInfo; naming the flags by repository is sound because a repository  *)
(* is never removed from rd.repos while a ready map still points to its    *)
(* repoInfo (invariant ReadyMapsAgree).                                    *)
(***************************************************************************)
EXTENDS Integers, FiniteSets

CONSTANTS
  Repos,     \* names of repositories
  Workers,   \* goroutines that call Take and Release in turn
  NoRepo     \* the worker holds no repository

ASSUME RepoAssumption == NoRepo \notin Repos
ASSUME WorkerAssumption == IsFiniteSet(Workers)

VARIABLES
  repos,              \* keys of rd.repos
  lowPriority,        \* repositories whose info.lowPriority is set
  highPriority,       \* repositories whose info.highPriority is set
  pending,            \* repositories whose info.pending is set
  lowPriorityRepos,   \* keys of rd.lowPriorityRepos
  highPriorityRepos,  \* keys of rd.highPriorityRepos
  pendingCount,       \* rd.pendingCount
  locked,             \* rd.locked
  held,               \* the repository each worker took and has not released
  asleep,             \* workers in rd.readyCond.Wait()
  locker              \* where the goroutine that uses Lock and Unlock is

flagVars == <<repos, lowPriority, highPriority, pending>>
readyVars == <<lowPriorityRepos, highPriorityRepos>>
vars == <<flagVars, readyVars, pendingCount, locked, held, asleep, locker>>

-----------------------------------------------------------------------------
TypeOK ==
  /\ repos \subseteq Repos
  /\ lowPriority \subseteq Repos
  /\ highPriority \subseteq Repos
  /\ pending \subseteq Repos
  /\ lowPriorityRepos \subseteq Repos
  /\ highPriorityRepos \subseteq Repos
  /\ pendingCount \in Nat
  /\ locked \in BOOLEAN
  /\ held \in [Workers -> Repos \cup {NoRepo}]
  /\ asleep \subseteq Workers
  /\ locker \in {"idle", "waiting", "checking", "owner"}

(* NewRepoDispatcher, with every worker about to call Take. *)
Init ==
  /\ repos = {}
  /\ lowPriority = {}
  /\ highPriority = {}
  /\ pending = {}
  /\ lowPriorityRepos = {}
  /\ highPriorityRepos = {}
  /\ pendingCount = 0
  /\ locked = FALSE
  /\ held = [w \in Workers |-> NoRepo]
  /\ asleep = {}
  /\ locker = "idle"

-----------------------------------------------------------------------------
someReady ==
  /\ ~locked
  /\ highPriorityRepos # {} \/ lowPriorityRepos # {}

addToReadyKeepsLow(r) ==
  \/ /\ r \in lowPriority'
     /\ lowPriorityRepos' = lowPriorityRepos \cup {r}
     /\ UNCHANGED highPriorityRepos
  \/ /\ r \notin lowPriority'
     /\ r \in highPriority'
     /\ highPriorityRepos' = highPriorityRepos \cup {r}
     /\ UNCHANGED lowPriorityRepos

(* Puts r in the ready map of its priority.  The callers have just set one *)
(* of the two flags, or found one set.                                     *)
addToReady(r) ==
  \/ /\ r \in lowPriority'
     /\ lowPriorityRepos' = lowPriorityRepos \cup {r}
     /\ UNCHANGED highPriorityRepos
  \/ /\ r \notin lowPriority'
     /\ r \in highPriority'
     /\ lowPriorityRepos' = lowPriorityRepos \ {r}
     /\ highPriorityRepos' = highPriorityRepos \cup {r}

SignalReadyLost == UNCHANGED asleep

(* rd.readyCond.Signal(): wakes one waiting worker, if there is one. *)
SignalReady ==
  \/ asleep = {} /\ UNCHANGED asleep
  \/ \E w \in asleep : asleep' = asleep \ {w}

(* rd.readyCond.Broadcast() *)
BroadcastReady == asleep' = {}

SignalPendingLost == UNCHANGED locker

(* rd.pendingCond.Signal(): only the user of Lock waits on it. *)
SignalPending ==
  locker' = IF locker = "waiting" THEN "checking" ELSE locker

-----------------------------------------------------------------------------
(* Add(repo, lowPriority): called by any goroutine, at any time. *)
Add(r, low) ==
  LET added == r \notin highPriority \cup lowPriority IN
  /\ repos' = repos \cup {r}
  /\ IF low
     THEN /\ lowPriority' = lowPriority \cup ({r} \ highPriority)
          /\ UNCHANGED highPriority
     ELSE /\ lowPriority' = lowPriority \ {r}
          /\ highPriority' = highPriority \cup {r}
  /\ IF r \in pending
     THEN UNCHANGED <<readyVars, asleep>>
     ELSE /\ addToReady(r)
          /\ IF added /\ ~locked THEN SignalReady ELSE UNCHANGED asleep
  /\ UNCHANGED <<pending, pendingCount, locked, held, locker>>

(* A worker inside Take that is not waiting. *)
InTake(w) == held[w] = NoRepo /\ w \notin asleep

(* The map that Take draws from: high priority repositories come first, and *)
(* the iteration order of a Go map is arbitrary.                            *)
takenFirst ==
  IF highPriorityRepos # {} THEN highPriorityRepos ELSE lowPriorityRepos

(* Take(), when it finds a repository that is ready. *)
TakeRepo(w, r) ==
  /\ InTake(w)
  /\ someReady
  /\ r \in takenFirst
  /\ IF highPriorityRepos # {}
     THEN highPriorityRepos' = highPriorityRepos \ {r} /\ UNCHANGED lowPriorityRepos
     ELSE lowPriorityRepos' = lowPriorityRepos \ {r} /\ UNCHANGED highPriorityRepos
  /\ pending' = pending \cup {r}
  /\ pendingCount' = pendingCount + 1
  /\ lowPriority' = lowPriority \ {r}
  /\ highPriority' = highPriority \ {r}
  /\ held' = [held EXCEPT ![w] = r]
  /\ UNCHANGED <<repos, locked, asleep, locker>>

(* Take(), when nothing is ready: the worker waits on readyCond. *)
TakeWait(w) ==
  /\ InTake(w)
  /\ ~someReady
  /\ asleep' = asleep \cup {w}
  /\ UNCHANGED <<flagVars, readyVars, pendingCount, locked, held, locker>>

ReleaseForgets(w) ==
  LET r == held[w] IN
  /\ r # NoRepo
  /\ pending' = pending \ {r}
  /\ pendingCount' = pendingCount - 1
  /\ held' = [held EXCEPT ![w] = NoRepo]
  /\ SignalPending
  /\ repos' = repos \ {r}
  /\ lowPriority' = lowPriority \ {r}
  /\ highPriority' = highPriority \ {r}
  /\ UNCHANGED <<readyVars, asleep, locked>>

ReleaseUnheld(w) ==
  LET r == held[w] IN
  /\ pending' = pending \ {r}
  /\ pendingCount' = pendingCount - 1
  /\ held' = [held EXCEPT ![w] = NoRepo]
  /\ SignalPending
  /\ repos' = repos \ {r}
  /\ UNCHANGED <<lowPriority, highPriority, readyVars, asleep, locked>>

ReleaseKeepsCount(w) ==
  LET r == held[w]
      again == r \in lowPriority \cup highPriority
  IN
  /\ r # NoRepo
  /\ pending' = pending \ {r}
  /\ held' = [held EXCEPT ![w] = NoRepo]
  /\ SignalPending
  /\ repos' = IF again THEN repos ELSE repos \ {r}
  /\ UNCHANGED <<lowPriority, highPriority, pendingCount, locked>>
  /\ IF again THEN addToReady(r) ELSE UNCHANGED readyVars
  /\ IF again /\ ~locked THEN SignalReady ELSE UNCHANGED asleep

(* Release(repo): a repository that was added again while it was pending   *)
(* becomes ready, any other one is forgotten.                              *)
Release(w) ==
  LET r == held[w] IN
  /\ r # NoRepo
  /\ pending' = pending \ {r}
  /\ pendingCount' = pendingCount - 1
  /\ held' = [held EXCEPT ![w] = NoRepo]
  /\ SignalPending
  /\ UNCHANGED <<lowPriority, highPriority>>
  /\ IF r \in lowPriority \cup highPriority
     THEN /\ addToReady(r)
          /\ IF locked THEN UNCHANGED asleep ELSE SignalReady
          /\ UNCHANGED repos
     ELSE /\ repos' = repos \ {r}
          /\ UNCHANGED <<readyVars, asleep>>
  /\ UNCHANGED locked

waitForPendingOnce ==
  locker' = IF pendingCount > 0 /\ locker = "idle" THEN "waiting" ELSE "owner"

(* What the locker does when it holds the mutex inside Lock. *)
waitForPending ==
  locker' = IF pendingCount > 0 THEN "waiting" ELSE "owner"

(* Lock(), up to its return or to its first wait on pendingCond. *)
Lock ==
  /\ locker = "idle"
  /\ locked' = TRUE
  /\ waitForPending
  /\ UNCHANGED <<flagVars, readyVars, pendingCount, held, asleep>>

(* Lock(), after a signal on pendingCond. *)
LockWake ==
  /\ locker = "checking"
  /\ waitForPending
  /\ UNCHANGED <<flagVars, readyVars, pendingCount, locked, held, asleep>>

UnlockSignals ==
  /\ locker = "owner"
  /\ locked' = FALSE
  /\ locker' = "idle"
  /\ UNCHANGED <<flagVars, readyVars, pendingCount, held>>
  /\ IF someReady' THEN SignalReady ELSE UNCHANGED asleep

(* Unlock() *)
Unlock ==
  /\ locker = "owner"
  /\ locked' = FALSE
  /\ locker' = "idle"
  /\ UNCHANGED <<flagVars, readyVars, pendingCount, held>>
  /\ IF someReady' THEN BroadcastReady ELSE UNCHANGED asleep

-----------------------------------------------------------------------------
Take(w) == TakeWait(w) \/ \E r \in Repos : TakeRepo(w, r)

Next ==
  \/ \E r \in Repos, low \in BOOLEAN : Add(r, low)
  \/ \E w \in Workers : Take(w) \/ Release(w)
  \/ Lock
  \/ LockWake
  \/ Unlock

Spec == Init /\ [][Next]_vars

-----------------------------------------------------------------------------
Ready == highPriorityRepos \cup lowPriorityRepos
Awake == {w \in Workers : InTake(w)}
Holders == {w \in Workers : held[w] # NoRepo}

(* The two ready maps hold exactly the repositories that are wanted and    *)
(* not pending, in the map of their priority, and rd.repos has an entry    *)
(* for a repository exactly while some flag of it is set.  This is what    *)
(* Add, Take and Release rely on when they update the maps piecemeal.      *)
ReadyMapsAgree ==
  /\ lowPriority \cap highPriority = {}
  /\ lowPriorityRepos = lowPriority \ pending
  /\ highPriorityRepos = highPriority \ pending
  /\ repos = lowPriority \cup highPriority \cup pending

(* No two workers fetch the same repository at the same time, the pending  *)
(* flags are those of the repositories that workers hold (so Release finds *)
(* the entry it needs and never panics), and pendingCount counts them.     *)
OneWorkerPerRepo ==
  /\ \A v, w \in Workers : held[v] = held[w] /\ held[v] # NoRepo => v = w
  /\ pending = {held[w] : w \in Workers} \ {NoRepo}
  /\ pendingCount = Cardinality(Holders)

(* Between the return of Lock and the call of Unlock no worker holds a     *)
(* repository: this is what keeps fetchAll and garbageCollect from running *)
(* beside an update of a repository.                                       *)
LockExcludesWorkers ==
  locker = "owner" => locked /\ \A w \in Workers : held[w] = NoRepo

(* Workers sleep only while there is no work for them: as long as the      *)
(* dispatcher is not locked and a worker is asleep, every ready repository *)
(* has an awake worker of its own on the way to it.  A signal that is      *)
(* skipped, lost or sent to the wrong side shows here.                     *)
NoLostWakeup ==
  ~locked /\ asleep # {} => Cardinality(Ready) <= Cardinality(Awake)

(* The goroutine that waits in Lock always has a worker that will signal   *)
(* it: it never waits on an empty pool.                                    *)
LockerNotForgotten == locker = "waiting" => pendingCount > 0

-----------------------------------------------------------------------------
(* The dispatcher implements the abstract queue of WorkQueue. *)
Queue == INSTANCE WorkQueue WITH
  urgent <- highPriority,
  background <- lowPriority,
  busy <- pending,
  exclusive <- (locker = "owner")

(* Every step of the dispatcher is a step of WorkQueue or leaves the queue *)
(* unchanged: no request is dropped, not even one made while its           *)
(* repository is being fetched, urgent requests go first, a repository is  *)
(* never fetched twice at once, and the lock drains the pool.              *)
RefinesWorkQueue == Queue!QueueSpec

-----------------------------------------------------------------------------
(* Fairness.  A goroutine that can take the mutex eventually runs; a       *)
(* worker that took a repository eventually releases it (fetchRepository   *)
(* returns, with or without an error); whoever owns the lock unlocks.      *)
(* Nothing obliges anyone to call Add or Lock.                             *)
Fairness ==
  /\ \A w \in Workers : WF_vars(Take(w)) /\ WF_vars(Release(w))
  /\ WF_vars(LockWake)
  /\ WF_vars(Unlock)

FairSpec == Spec /\ Fairness

(* Lock() returns. *)
LockGranted == locker \in {"waiting", "checking"} ~> locker = "owner"

(* Every request is served by a worker that took the repository after the  *)
(* request was made.                                                       *)
EveryRequestTaken ==
  \A r \in Repos : r \in lowPriority \cup highPriority ~> r \notin lowPriority \cup highPriority
=============================================================================
