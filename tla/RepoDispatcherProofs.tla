------------------------ MODULE RepoDispatcherProofs ------------------------
(***************************************************************************)
(* Proofs about RepoDispatcher, for any set of repositories and any finite *)
(* set of workers.                                                         *)
(*                                                                         *)
(* Everything follows from one inductive invariant, DispatcherInv.  Beyond *)
(* the properties to be proved it says that a sleeping worker holds        *)
(* nothing, that rd.locked is set exactly while the locker is in Lock or   *)
(* past it, and that finitely many repositories are ready (the set of      *)
(* repositories itself may be infinite).                                   *)
(***************************************************************************)
EXTENDS RepoDispatcher, TLAPS, FiniteSetTheorems

LockState ==
  /\ locked <=> locker # "idle"
  /\ locker = "owner" => \A w \in Workers : held[w] = NoRepo
  /\ locker = "waiting" => pendingCount > 0

SleepersHoldNothing == \A w \in asleep : held[w] = NoRepo

ReadyFinite == IsFiniteSet(Ready)

DispatcherInv ==
  /\ TypeOK
  /\ ReadyMapsAgree
  /\ OneWorkerPerRepo
  /\ LockState
  /\ SleepersHoldNothing
  /\ ReadyFinite
  /\ NoLostWakeup

-----------------------------------------------------------------------------
(* NewRepoDispatcher establishes the type invariant. *)
LEMMA TypeInit == Init => TypeOK
<1> SUFFICES ASSUME Init PROVE TypeOK
  OBVIOUS
<1>1. pendingCount \in Nat /\ locker \in {"idle", "waiting", "checking", "owner"}
  BY DEF Init
<1>2. held \in [Workers -> Repos \cup {NoRepo}]
  BY DEF Init
<1>3. locked \in BOOLEAN
  BY Zenon DEF Init
<1> QED
  BY <1>1, <1>2, <1>3 DEF Init, TypeOK

-----------------------------------------------------------------------------
(* Facts about the sets that the invariant counts. *)

(* The pool is finite, so any set of its workers can be counted. *)
LEMMA WorkerSetFinite ==
  ASSUME NEW S \in SUBSET Workers
  PROVE  IsFiniteSet(S) /\ Cardinality(S) \in Nat
BY WorkerAssumption, FS_Subset, FS_CardinalityType

(* In particular the workers that hold a repository and those that are     *)
(* awake.                                                                  *)
LEMMA HoldersAwakeFinite ==
  /\ IsFiniteSet(Holders) /\ Cardinality(Holders) \in Nat
  /\ IsFiniteSet(Awake) /\ Cardinality(Awake) \in Nat
<1>1. Holders \in SUBSET Workers /\ Awake \in SUBSET Workers
  BY DEF Holders, Awake
<1> QED
  BY <1>1, WorkerSetFinite

(* Each method preserves the type invariant.  That pendingCount never      *)
(* becomes negative rests on its being exact.                              *)
LEMMA TypeStep == TypeOK /\ OneWorkerPerRepo /\ [Next]_vars => TypeOK'
<1> SUFFICES ASSUME TypeOK, OneWorkerPerRepo, [Next]_vars PROVE TypeOK'
  OBVIOUS
<1> USE DEF TypeOK
<1>1. ASSUME NEW r \in Repos, NEW low \in BOOLEAN, Add(r, low) PROVE TypeOK'
  BY <1>1 DEF Add, addToReady, SignalReady, readyVars
<1>2. ASSUME NEW w \in Workers, NEW r \in Repos, TakeRepo(w, r) PROVE TypeOK'
  BY <1>2 DEF TakeRepo
<1>3. ASSUME NEW w \in Workers, TakeWait(w) PROVE TypeOK'
  BY <1>3 DEF TakeWait, flagVars, readyVars
<1>4. ASSUME NEW w \in Workers, Release(w) PROVE TypeOK'
  <2>1. held[w] \in Repos
    BY <1>4 DEF Release
  <2>2. w \in Holders
    BY <1>4 DEF Release, Holders
  <2>3. Cardinality(Holders) # 0
    BY <2>2, HoldersAwakeFinite, FS_EmptySet
  <2>4. pendingCount - 1 \in Nat
    BY <2>3 DEF OneWorkerPerRepo
  <2> QED
    BY <1>4, <2>1, <2>4 DEF Release, addToReady, SignalReady, SignalPending, readyVars
<1>5. CASE Lock
  BY <1>5 DEF Lock, waitForPending, flagVars, readyVars
<1>6. CASE LockWake
  BY <1>6 DEF LockWake, waitForPending, flagVars, readyVars
<1>7. CASE Unlock
  BY <1>7 DEF Unlock, BroadcastReady, flagVars, readyVars
<1>8. CASE UNCHANGED vars
  BY <1>8 DEF vars, flagVars, readyVars
<1> QED
  BY <1>1, <1>2, <1>3, <1>4, <1>5, <1>6, <1>7, <1>8 DEF Next, Take

(* NewRepoDispatcher establishes the invariant. *)
LEMMA InvInit == Init => DispatcherInv
<1> SUFFICES ASSUME Init PROVE DispatcherInv
  OBVIOUS
<1>1. TypeOK
  BY TypeInit
<1>2. ReadyMapsAgree
  BY DEF Init, ReadyMapsAgree
<1>3. OneWorkerPerRepo
  <2>1. Holders = {}
    BY DEF Init, Holders
  <2>2. pendingCount = Cardinality(Holders)
    BY <2>1, FS_EmptySet DEF Init
  <2> QED
    BY <2>2 DEF Init, OneWorkerPerRepo
<1>4. LockState
  BY DEF Init, LockState
<1>5. SleepersHoldNothing
  BY DEF Init, SleepersHoldNothing
<1>6. ReadyFinite
  <2>1. Ready = {}
    BY DEF Init, Ready
  <2> QED
    BY <2>1, FS_EmptySet DEF ReadyFinite
<1>7. NoLostWakeup
  BY DEF Init, NoLostWakeup
<1> QED
  BY <1>1, <1>2, <1>3, <1>4, <1>5, <1>6, <1>7 DEF DispatcherInv

-----------------------------------------------------------------------------
(* Add preserves the invariant: the only new ready repository is r, and    *)
(* when it is new a sleeping worker is woken for it, unless the dispatcher *)
(* is locked.                                                              *)
LEMMA AddInv ==
  ASSUME DispatcherInv, NEW r \in Repos, NEW low \in BOOLEAN, Add(r, low)
  PROVE  DispatcherInv'
<1> USE DEF DispatcherInv
<1>1. TypeOK'
  BY TypeStep DEF Next
<1>2. ReadyMapsAgree'
  BY DEF Add, addToReady, ReadyMapsAgree, readyVars
<1>3. held' = held /\ pending' = pending /\ pendingCount' = pendingCount
      /\ locked' = locked /\ locker' = locker
  BY DEF Add
<1>4. OneWorkerPerRepo'
  BY <1>3 DEF OneWorkerPerRepo, Holders
<1>5. LockState'
  BY <1>3 DEF LockState
<1>6. asleep' \subseteq asleep
  BY DEF Add, SignalReady
<1>7. SleepersHoldNothing'
  BY <1>3, <1>6 DEF SleepersHoldNothing
<1>8. Ready' = Ready \/ (r \notin Ready /\ Ready' = Ready \cup {r})
  BY <1>2, <1>3 DEF Add, addToReady, ReadyMapsAgree, Ready, readyVars
<1>9. ReadyFinite'
  BY <1>8, FS_AddElement DEF ReadyFinite
<1>10. NoLostWakeup'
  <2> SUFFICES ASSUME ~locked, asleep' # {}
               PROVE  Cardinality(Ready') <= Cardinality(Awake')
    BY <1>3 DEF NoLostWakeup
  <2>1. Cardinality(Ready) <= Cardinality(Awake)
    BY <1>6 DEF NoLostWakeup
  <2>2. IsFiniteSet(Ready) /\ Cardinality(Ready) \in Nat
    BY FS_CardinalityType DEF ReadyFinite
  <2>3. CASE Ready' = Ready
    <3>1. Awake \subseteq Awake'
      BY <1>3, <1>6 DEF Awake, InTake
    <3>2. IsFiniteSet(Awake') /\ Cardinality(Awake') \in Nat
      BY WorkerSetFinite DEF Awake
    <3>3. Cardinality(Awake) <= Cardinality(Awake')
      BY <3>1, <3>2, FS_Subset
    <3> QED
      BY <2>1, <2>2, <2>3, <3>2, <3>3, HoldersAwakeFinite
  <2>4. CASE r \notin Ready /\ Ready' = Ready \cup {r}
    <3>1. r \notin highPriority \cup lowPriority /\ r \notin pending
      BY <2>4 DEF Add, ReadyMapsAgree, Ready, readyVars
    <3>2. PICK w \in asleep : asleep' = asleep \ {w}
      BY <3>1 DEF Add, SignalReady
    <3>3. w \in Workers /\ w \notin Awake /\ Awake' = Awake \cup {w}
      BY <1>3, <3>2 DEF Awake, InTake, TypeOK, SleepersHoldNothing
    <3>4. Cardinality(Awake') = Cardinality(Awake) + 1
      BY <3>3, HoldersAwakeFinite, FS_AddElement
    <3>5. Cardinality(Ready') = Cardinality(Ready) + 1
      BY <2>2, <2>4, FS_AddElement
    <3> QED
      BY <2>1, <2>2, <3>4, <3>5, HoldersAwakeFinite
  <2> QED
    BY <1>8, <2>3, <2>4
<1> QED
  BY <1>1, <1>2, <1>4, <1>5, <1>7, <1>9, <1>10

(* Take, when it finds a ready repository, preserves the invariant: the    *)
(* repository was not pending, and both the ready repositories and the     *)
(* awake workers become one less.                                          *)
LEMMA TakeRepoInv ==
  ASSUME DispatcherInv, NEW w \in Workers, NEW r \in Repos, TakeRepo(w, r)
  PROVE  DispatcherInv'
<1> USE DEF DispatcherInv
<1>1. TypeOK'
  BY TypeStep DEF Next, Take
<1>2. r \in Ready /\ r \notin pending /\ r # NoRepo
  BY RepoAssumption DEF TakeRepo, takenFirst, Ready, ReadyMapsAgree
<1>3. ReadyMapsAgree'
  BY <1>2 DEF TakeRepo, takenFirst, ReadyMapsAgree
<1>4. held' = [held EXCEPT ![w] = r] /\ held[w] = NoRepo /\ w \notin asleep
      /\ asleep' = asleep
  BY DEF TakeRepo, InTake
<1>5. OneWorkerPerRepo'
  <2>1. w \notin Holders /\ Holders' = Holders \cup {w}
    BY <1>2, <1>4 DEF Holders, TypeOK
  <2>2. Cardinality(Holders') = Cardinality(Holders) + 1
    BY <2>1, HoldersAwakeFinite, FS_AddElement
  <2>3. pendingCount' = Cardinality(Holders')
    BY <2>2 DEF TakeRepo, OneWorkerPerRepo
  <2>4. pending' = {held'[v] : v \in Workers} \ {NoRepo}
    BY <1>2, <1>4 DEF TakeRepo, OneWorkerPerRepo, TypeOK
  <2>5. \A v, u \in Workers : held'[v] = held'[u] /\ held'[v] # NoRepo => v = u
    BY <1>2, <1>4 DEF OneWorkerPerRepo, TypeOK
  <2> QED
    BY <2>3, <2>4, <2>5 DEF OneWorkerPerRepo
<1>6. ~locked /\ locker = "idle" /\ locked' = locked /\ locker' = locker
  BY DEF TakeRepo, someReady, LockState
<1>7. LockState'
  BY <1>6 DEF LockState
<1>8. SleepersHoldNothing'
  BY <1>4 DEF SleepersHoldNothing, TypeOK
<1>9. Ready' = Ready \ {r}
  BY DEF TakeRepo, takenFirst, ReadyMapsAgree, Ready
<1>10. ReadyFinite'
  BY <1>9, FS_RemoveElement DEF ReadyFinite
<1>11. NoLostWakeup'
  <2> SUFFICES ASSUME asleep # {}
               PROVE  Cardinality(Ready') <= Cardinality(Awake')
    BY <1>4 DEF NoLostWakeup
  <2>1. Cardinality(Ready) <= Cardinality(Awake)
    BY <1>6 DEF NoLostWakeup
  <2>2. IsFiniteSet(Ready) /\ Cardinality(Ready) \in Nat
    BY FS_CardinalityType DEF ReadyFinite
  <2>3. w \in Awake /\ Awake' = Awake \ {w}
    BY <1>2, <1>4 DEF Awake, InTake, TypeOK
  <2>4. Cardinality(Awake') = Cardinality(Awake) - 1
    BY <2>3, HoldersAwakeFinite, FS_RemoveElement
  <2>5. Cardinality(Ready') = Cardinality(Ready) - 1
    BY <1>2, <1>9, <2>2, FS_RemoveElement
  <2> QED
    BY <2>1, <2>2, <2>4, <2>5, HoldersAwakeFinite
<1> QED
  BY <1>1, <1>3, <1>5, <1>7, <1>8, <1>10, <1>11

(* Take, when nothing is ready, preserves the invariant: there is no work  *)
(* for the worker that goes to sleep, or the dispatcher is locked.         *)
LEMMA TakeWaitInv ==
  ASSUME DispatcherInv, NEW w \in Workers, TakeWait(w)
  PROVE  DispatcherInv'
<1> USE DEF DispatcherInv
<1>1. TypeOK'
  BY TypeStep DEF Next, Take
<1>2. /\ UNCHANGED <<repos, lowPriority, highPriority, pending, lowPriorityRepos, highPriorityRepos>>
      /\ UNCHANGED <<pendingCount, locked, held, locker>>
  BY DEF TakeWait, flagVars, readyVars
<1>3. ReadyMapsAgree'
  BY <1>2 DEF ReadyMapsAgree
<1>4. OneWorkerPerRepo'
  BY <1>2 DEF OneWorkerPerRepo, Holders
<1>5. LockState'
  BY <1>2 DEF LockState
<1>6. SleepersHoldNothing'
  BY <1>2 DEF SleepersHoldNothing, TakeWait, InTake
<1>7. Ready' = Ready
  BY <1>2 DEF Ready
<1>8. ReadyFinite'
  BY <1>7 DEF ReadyFinite
<1>9. NoLostWakeup'
  <2> SUFFICES ASSUME ~locked PROVE Cardinality(Ready') <= Cardinality(Awake')
    BY <1>2 DEF NoLostWakeup
  <2>1. Ready' = {}
    BY <1>7 DEF TakeWait, someReady, Ready
  <2>2. Cardinality(Awake') \in Nat
    BY WorkerSetFinite DEF Awake
  <2> QED
    BY <2>1, <2>2, FS_EmptySet
<1> QED
  BY <1>1, <1>3, <1>4, <1>5, <1>6, <1>8, <1>9

(* Release preserves the invariant: the worker becomes awake, which makes  *)
(* up for the one repository that may become ready, and the waiting locker *)
(* is always signalled.                                                    *)
LEMMA ReleaseInv ==
  ASSUME DispatcherInv, NEW w \in Workers, Release(w)
  PROVE  DispatcherInv'
<1> USE DEF DispatcherInv
<1> DEFINE r == held[w]
<1>1. TypeOK'
  BY TypeStep DEF Next
<1>2. r \in Repos /\ r \in pending /\ r # NoRepo
  BY DEF Release, OneWorkerPerRepo, TypeOK
<1>3. /\ held' = [held EXCEPT ![w] = NoRepo]
      /\ pending' = pending \ {r}
      /\ pendingCount' = pendingCount - 1
      /\ locked' = locked
      /\ lowPriority' = lowPriority /\ highPriority' = highPriority
  BY DEF Release
<1>4. ReadyMapsAgree'
  BY <1>2, <1>3 DEF Release, addToReady, ReadyMapsAgree, readyVars
<1>5. OneWorkerPerRepo'
  <2>1. w \in Holders /\ Holders' = Holders \ {w}
    BY <1>2, <1>3 DEF Holders, TypeOK
  <2>2. Cardinality(Holders') = Cardinality(Holders) - 1
    BY <2>1, HoldersAwakeFinite, FS_RemoveElement
  <2>3. pendingCount' = Cardinality(Holders')
    BY <1>3, <2>2 DEF OneWorkerPerRepo
  <2>4. pending' = {held'[v] : v \in Workers} \ {NoRepo}
    BY <1>2, <1>3 DEF OneWorkerPerRepo, TypeOK
  <2>5. \A v, u \in Workers : held'[v] = held'[u] /\ held'[v] # NoRepo => v = u
    BY <1>2, <1>3 DEF OneWorkerPerRepo, TypeOK
  <2> QED
    BY <2>3, <2>4, <2>5 DEF OneWorkerPerRepo
<1>6. LockState'
  <2>1. locker # "owner"
    BY <1>2 DEF LockState
  <2>2. locker' \notin {"waiting", "owner"} /\ (locker' = "idle" <=> locker = "idle")
    BY <2>1 DEF Release, SignalPending, TypeOK
  <2> QED
    BY <1>3, <2>2 DEF LockState
<1>7. asleep' \subseteq asleep /\ w \notin asleep
  BY <1>2 DEF Release, SignalReady, SleepersHoldNothing
<1>8. SleepersHoldNothing'
  BY <1>3, <1>7 DEF SleepersHoldNothing, TypeOK
<1>9. r \notin Ready /\ (Ready' = Ready \/ Ready' = Ready \cup {r})
  BY <1>2, <1>3, <1>4 DEF Release, addToReady, ReadyMapsAgree, Ready, readyVars
<1>10. ReadyFinite'
  BY <1>9, FS_AddElement DEF ReadyFinite
<1>11. NoLostWakeup'
  <2> SUFFICES ASSUME ~locked, asleep' # {}
               PROVE  Cardinality(Ready') <= Cardinality(Awake')
    BY <1>3 DEF NoLostWakeup
  <2>1. Cardinality(Ready) <= Cardinality(Awake)
    BY <1>7 DEF NoLostWakeup
  <2>2. IsFiniteSet(Ready) /\ Cardinality(Ready) \in Nat
    BY FS_CardinalityType DEF ReadyFinite
  <2>3. Cardinality(Ready') \in {Cardinality(Ready), Cardinality(Ready) + 1}
    BY <1>9, <2>2, FS_AddElement
  <2>4. w \notin Awake /\ Awake \cup {w} \subseteq Awake'
    BY <1>2, <1>3, <1>7 DEF Awake, InTake, TypeOK
  <2>5. IsFiniteSet(Awake') /\ Cardinality(Awake') \in Nat
    BY WorkerSetFinite DEF Awake
  <2>6. Cardinality(Awake \cup {w}) = Cardinality(Awake) + 1
    BY <2>4, HoldersAwakeFinite, FS_AddElement
  <2>7. Cardinality(Awake \cup {w}) <= Cardinality(Awake')
    BY <2>4, <2>5, FS_Subset
  <2> QED
    BY <2>1, <2>2, <2>3, <2>5, <2>6, <2>7, HoldersAwakeFinite
<1> QED
  BY <1>1, <1>4, <1>5, <1>6, <1>8, <1>10, <1>11

(* pendingCount tells whether a worker holds a repository. *)
LEMMA CountZero ==
  ASSUME DispatcherInv
  PROVE  /\ pendingCount \in Nat
         /\ pendingCount = 0 <=> \A w \in Workers : held[w] = NoRepo
<1>1. pendingCount = Cardinality(Holders)
  BY DEF DispatcherInv, OneWorkerPerRepo
<1>2. pendingCount = 0 <=> Holders = {}
  BY <1>1, HoldersAwakeFinite, FS_EmptySet
<1> QED
  BY <1>1, <1>2, HoldersAwakeFinite DEF Holders

(* Lock preserves the invariant, whether it returns or waits: it owns the  *)
(* dispatcher only when it has found that nothing is pending.              *)
LEMMA LockInv ==
  ASSUME DispatcherInv, Lock \/ LockWake
  PROVE  DispatcherInv'
<1> USE DEF DispatcherInv
<1>1. TypeOK'
  BY TypeStep DEF Next
<1>2. /\ UNCHANGED <<repos, lowPriority, highPriority, pending, lowPriorityRepos, highPriorityRepos>>
      /\ UNCHANGED <<pendingCount, held, asleep>>
      /\ locked'
      /\ waitForPending
  BY DEF Lock, LockWake, flagVars, readyVars, LockState
<1>3. ReadyMapsAgree'
  BY <1>2 DEF ReadyMapsAgree
<1>4. OneWorkerPerRepo'
  BY <1>2 DEF OneWorkerPerRepo, Holders
<1>5. LockState'
  BY <1>2, CountZero DEF LockState, waitForPending
<1>6. SleepersHoldNothing'
  BY <1>2 DEF SleepersHoldNothing
<1>7. ReadyFinite'
  BY <1>2 DEF ReadyFinite, Ready
<1>8. NoLostWakeup'
  BY <1>2 DEF NoLostWakeup
<1> QED
  BY <1>1, <1>3, <1>4, <1>5, <1>6, <1>7, <1>8

(* Unlock preserves the invariant: if anything became ready while the      *)
(* dispatcher was locked, every sleeping worker is woken.                  *)
LEMMA UnlockInv ==
  ASSUME DispatcherInv, Unlock
  PROVE  DispatcherInv'
<1> USE DEF DispatcherInv
<1>1. TypeOK'
  BY TypeStep DEF Next
<1>2. /\ UNCHANGED <<repos, lowPriority, highPriority, pending, lowPriorityRepos, highPriorityRepos>>
      /\ UNCHANGED <<pendingCount, held>>
      /\ ~locked'
      /\ locker' = "idle"
  BY DEF Unlock, flagVars, readyVars
<1>3. ReadyMapsAgree'
  BY <1>2 DEF ReadyMapsAgree
<1>4. OneWorkerPerRepo'
  BY <1>2 DEF OneWorkerPerRepo, Holders
<1>5. LockState'
  BY <1>2 DEF LockState
<1>6. asleep' = {} \/ (asleep' = asleep /\ Ready' = {})
  BY <1>2 DEF Unlock, BroadcastReady, someReady, Ready
<1>7. SleepersHoldNothing'
  BY <1>2, <1>6 DEF SleepersHoldNothing
<1>8. ReadyFinite'
  BY <1>2 DEF ReadyFinite, Ready
<1>9. NoLostWakeup'
  <2>1. Cardinality(Awake') \in Nat
    BY WorkerSetFinite DEF Awake
  <2> QED
    BY <1>6, <2>1, FS_EmptySet DEF NoLostWakeup
<1> QED
  BY <1>1, <1>3, <1>4, <1>5, <1>7, <1>8, <1>9

-----------------------------------------------------------------------------
(* The invariant is inductive. *)
LEMMA InvStep == DispatcherInv /\ [Next]_vars => DispatcherInv'
<1> SUFFICES ASSUME DispatcherInv, [Next]_vars PROVE DispatcherInv'
  OBVIOUS
<1>1. CASE UNCHANGED vars
  BY <1>1 DEF vars, flagVars, readyVars, DispatcherInv, TypeOK, ReadyMapsAgree,
    OneWorkerPerRepo, Holders, LockState, SleepersHoldNothing, ReadyFinite,
    NoLostWakeup, Ready, Awake, InTake
<1> QED
  BY <1>1, AddInv, TakeRepoInv, TakeWaitInv, ReleaseInv, LockInv, UnlockInv
  DEF Next, Take

(* The inductive invariant holds for every set of repositories and every   *)
(* finite pool.                                                            *)
THEOREM DispatcherInvariant == Spec => []DispatcherInv
BY InvInit, InvStep, PTL DEF Spec

(* Type correctness, which includes that pendingCount is never negative:   *)
(* no order of calls makes Release count below zero.                       *)
THEOREM TypeCorrect == Spec => []TypeOK
BY DispatcherInvariant, PTL DEF DispatcherInv

(* The flags, the two ready maps and rd.repos always agree, however Add,   *)
(* Take and Release interleave.                                            *)
THEOREM ReadyMapsAlwaysAgree == Spec => []ReadyMapsAgree
BY DispatcherInvariant, PTL DEF DispatcherInv

(* Two workers never hold the same repository, Release always finds its    *)
(* entry, and pendingCount is exact.                                       *)
THEOREM MutualExclusion == Spec => []OneWorkerPerRepo
BY DispatcherInvariant, PTL DEF DispatcherInv

(* Whoever returned from Lock has the dispatcher to itself until Unlock. *)
THEOREM LockIsExclusive == Spec => []LockExcludesWorkers
<1>1. DispatcherInv => LockExcludesWorkers
  BY DEF DispatcherInv, LockState, LockExcludesWorkers
<1> QED
  BY <1>1, DispatcherInvariant, PTL

(* No signal is lost: a worker sleeps only while every ready repository    *)
(* has an awake worker coming for it.                                      *)
THEOREM NoWakeupIsLost == Spec => []NoLostWakeup
BY DispatcherInvariant, PTL DEF DispatcherInv

(* A goroutine waits in Lock only while a worker that will signal it holds *)
(* a repository.                                                           *)
THEOREM LockerIsSignalled == Spec => []LockerNotForgotten
<1>1. DispatcherInv => LockerNotForgotten
  BY DEF DispatcherInv, LockState, LockerNotForgotten
<1> QED
  BY <1>1, DispatcherInvariant, PTL

-----------------------------------------------------------------------------
(* The dispatcher implements WorkQueue: its first state is an empty queue, *)
(* Add makes a request, Take starts work on an idle repository with the    *)
(* urgent ones first, Release finishes it, Lock enters the exclusive       *)
(* section when it returns, Unlock leaves it, and every other step is      *)
(* invisible.                                                              *)
THEOREM ImplementsWorkQueue == Spec => RefinesWorkQueue
<1>1. Init => Queue!QueueInit
  BY DEF Init, Queue!QueueInit
<1>2. DispatcherInv /\ [Next]_vars => [Queue!QueueNext]_(Queue!queueVars)
  <2> SUFFICES ASSUME DispatcherInv, [Next]_vars
               PROVE  [Queue!QueueNext]_(Queue!queueVars)
    OBVIOUS
  <2> USE DEF Queue!QueueNext, Queue!queueVars
  <2>1. ASSUME NEW r \in Repos, NEW low \in BOOLEAN, Add(r, low)
        PROVE  Queue!RequestUrgent(r) \/ Queue!RequestBackground(r)
    BY <2>1 DEF Add, Queue!RequestUrgent, Queue!RequestBackground
  <2>2. ASSUME NEW w \in Workers, NEW r \in Repos, TakeRepo(w, r)
        PROVE  Queue!Start(r)
    BY <2>2 DEF TakeRepo, takenFirst, someReady, Queue!Start, DispatcherInv,
      ReadyMapsAgree, LockState
  <2>3. ASSUME NEW w \in Workers, TakeWait(w)
        PROVE  UNCHANGED Queue!queueVars
    BY <2>3 DEF TakeWait, flagVars
  <2>4. ASSUME NEW w \in Workers, Release(w)
        PROVE  Queue!Finish(held[w]) /\ held[w] \in Repos
    BY <2>4 DEF Release, SignalPending, Queue!Finish, DispatcherInv,
      OneWorkerPerRepo, TypeOK
  <2>5. CASE Lock \/ LockWake
    <3>1. locker # "owner" /\ waitForPending /\ UNCHANGED <<highPriority, lowPriority, pending>>
      BY <2>5 DEF Lock, LockWake, flagVars
    <3>2. pendingCount = 0 => pending = {}
      BY CountZero DEF DispatcherInv, OneWorkerPerRepo
    <3>3. locker' = "owner" => pendingCount = 0
      BY <3>1, CountZero DEF waitForPending
    <3> QED
      BY <3>1, <3>2, <3>3 DEF Queue!Enter
  <2>6. CASE Unlock
    BY <2>6 DEF Unlock, flagVars, Queue!Leave
  <2>7. CASE UNCHANGED vars
    BY <2>7 DEF vars, flagVars
  <2> QED
    BY <2>1, <2>2, <2>3, <2>4, <2>5, <2>6, <2>7 DEF Next, Take
<1> QED
  BY <1>1, <1>2, DispatcherInvariant, PTL DEF Spec, RefinesWorkQueue, Queue!QueueSpec
=============================================================================
