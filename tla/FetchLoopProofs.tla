--------------------------- MODULE FetchLoopProofs ---------------------------
(***************************************************************************)
(* Proofs about FetchLoop, for any number of repositories and versions and *)
(* any capacity of the channel and size of a page.                         *)
(***************************************************************************)
EXTENDS FetchLoop, FiniteSetTheorems, SequenceTheorems, WellFoundedInduction, TLAPS

(* dispatch holds the pool exactly while it scans or collects, nobody      *)
(* works then, and what a scan keeps is gone when it is over.              *)
LoopState ==
  /\ exclusive <=> loop \in {"page", "delete", "send", "collect"}
  /\ exclusive => busy = {}
  /\ loop # "send" => toSend = {}
  /\ loop \notin {"page", "delete", "send"} => steady = {}
  /\ steady \subseteq Catalog

(* The pages read so far have all the steady repositories up to last. *)
PagesSawSteady == loop = "page" => \A r \in steady : r <= last => r \in allRepos

(* A request for r is on its way to a worker, or was lost. *)
Requested(r) ==
  \/ r \in unnotified \cup missed \cup urgent \cup background
  \/ \E low \in BOOLEAN : Queued(FetchRequest(r, low))

(* The version that the database has, or will have when the fetch in       *)
(* progress commits.                                                       *)
storedOrFetched(r) == IF r \in busy THEN fetched[r] ELSE db[r]

(* If that version is old, a further fetch is to come: this is what makes  *)
(* NoRequestLost inductive.                                                *)
StoredOrRequested ==
  \A r \in Repos : registry[r] \notin {0, storedOrFetched(r)} => Requested(r)

LoopInv ==
  /\ TypeOK
  /\ LoopState
  /\ PagesSawSteady
  /\ PagingMissesNothing
  /\ StoredOrRequested

-----------------------------------------------------------------------------
(* A set of numbers that is not empty and is bounded has a maximum. *)
LEMMA MaxOfBounded ==
  ASSUME NEW n \in Nat, NEW S \in SUBSET (1..n), S # {}
  PROVE  Max(S) \in S /\ \A x \in S : x <= Max(S)
<1> DEFINE T == {n - x : x \in S}
<1>1. T \subseteq Nat /\ T # {}
  <2>1. \A x \in S : x \in Int /\ 1 <= x /\ x <= n
    OBVIOUS
  <2>2. \A x \in S : n - x \in Nat
    BY <2>1
  <2> QED
    BY <2>2
<1>2. PICK y \in T : \A z \in T : ~(<<z, y>> \in OpToRel(<, Nat))
  <2> HIDE DEF T
  <2> QED
    BY <1>1, NatLessThanWellFounded, WFMin
<1>3. \A z \in T : ~(z < y)
  <2> HIDE DEF T
  <2> QED
    BY <1>1, <1>2 DEF OpToRel
<1>4. PICK m \in S : y = n - m
  OBVIOUS
<1>5. \A x \in S : m >= x
  BY <1>3, <1>4
<1>6. Max(S) \in S /\ \A x \in S : Max(S) >= x
  BY <1>5 DEF Max
<1> QED
  BY <1>6

(* A page of the catalog has every repository of the catalog between the   *)
(* end of the previous page and its own last one.                          *)
LEMMA PageIsPrefix ==
  ASSUME TypeOK, NEW r \in nextPage, NEW q \in Catalog, last < q, q <= r
  PROVE  q \in nextPage
<1> DEFINE before(x) == {p \in Catalog : last < p /\ p < x}
<1>1. Catalog \subseteq 1..NumRepos
  BY DEF Catalog, Repos
<1>0. IsFiniteSet(Catalog)
  <2>1. 1 \in Int /\ NumRepos \in Int
    BY LoopAssumption
  <2>2. IsFiniteSet(1..NumRepos)
    BY <2>1, FS_Interval
  <2> QED
    BY <1>1, <2>2, FS_Subset
<1>2. IsFiniteSet(before(r)) /\ IsFiniteSet(before(q))
  BY <1>0, FS_Subset
<1>3. before(q) \subseteq before(r)
  <2>1. q \in Int /\ r \in Int
    BY <1>1 DEF nextPage
  <2>2. ASSUME NEW p \in Catalog, p < q PROVE p < r
    BY <1>1, <2>1, <2>2
  <2> QED
    BY <2>2
<1>4. Cardinality(before(q)) <= Cardinality(before(r))
  BY <1>2, <1>3, FS_Subset
<1>5. Cardinality(before(r)) < PageSize
  BY DEF nextPage
<1>6. Cardinality(before(q)) \in Nat /\ Cardinality(before(r)) \in Nat /\ PageSize \in Nat
  BY <1>2, FS_CardinalityType, LoopAssumption
<1>7. Cardinality(before(q)) < PageSize
  <2> HIDE DEF before
  <2> QED
    BY <1>4, <1>5, <1>6
<1> QED
  BY <1>7 DEF nextPage

-----------------------------------------------------------------------------
(* A send that does not block keeps the requests in the channel. *)
LEMMA SendQueues ==
  ASSUME TypeOK, NEW request \in Requests, Send(request)
  PROVE  /\ channel' \in Seq(Requests) /\ Len(channel') <= ChannelCap
         /\ \A other : Queued(other) => Queued(other)'
         /\ Queued(request)'
<1>1. /\ channel' \in Seq(Requests)
      /\ Len(channel') = Len(channel) + 1
      /\ \A n \in 1..Len(channel) : channel'[n] = channel[n]
      /\ channel'[Len(channel) + 1] = request
  BY AppendProperties DEF Send, TypeOK
<1>2. DOMAIN channel = 1..Len(channel) /\ DOMAIN channel' = 1..Len(channel') /\ Len(channel) \in Nat
  BY <1>1, LenProperties DEF TypeOK
<1>3. Len(channel') <= ChannelCap
  BY <1>1, <1>2, LoopAssumption DEF Send
<1>4. \A other : Queued(other) => Queued(other)'
  BY <1>1, <1>2 DEF Queued
<1>5. Queued(request)'
  BY <1>1, <1>2 DEF Queued
<1> QED
  BY <1>1, <1>3, <1>4, <1>5

(* A receive takes the first request and keeps the others. *)
LEMMA ReceiveKeepsOthers ==
  ASSUME TypeOK, NEW request, Receive(request)
  PROVE  /\ channel' \in Seq(Requests) /\ Len(channel') <= ChannelCap
         /\ \A other : other # request /\ Queued(other) => Queued(other)'
<1>1. channel # <<>> /\ channel' = Tail(channel) /\ request = Head(channel) /\ channel \in Seq(Requests)
  BY DEF Receive, TypeOK
<1>2. /\ channel' \in Seq(Requests)
      /\ Len(channel') = Len(channel) - 1
      /\ \A n \in 1..Len(channel') : channel'[n] = channel[n + 1]
  BY <1>1, HeadTailProperties
<1>3. DOMAIN channel = 1..Len(channel) /\ DOMAIN channel' = 1..Len(channel') /\ Len(channel) \in Nat \ {0}
  BY <1>1, <1>2, LenProperties, EmptySeq
<1>4. Len(channel') <= ChannelCap
  BY <1>2, <1>3, LoopAssumption DEF TypeOK
<1>5. request = channel[1]
  BY <1>1, <1>3
<1>6. ASSUME NEW other, other # request, Queued(other)
      PROVE  Queued(other)'
  <2>1. PICK n \in 1..Len(channel) : channel[n] = other
    BY <1>3, <1>6 DEF Queued
  <2>2. n # 1
    BY <1>5, <1>6, <2>1
  <2>3. n - 1 \in 1..Len(channel') /\ channel'[n - 1] = other
    BY <1>2, <1>3, <2>1, <2>2
  <2> QED
    BY <1>3, <2>3 DEF Queued
<1> QED
  BY <1>2, <1>4, <1>6

(* Requests for different repositories, and of different kinds, differ. *)
LEMMA RequestsDiffer ==
  /\ \A r, q \in Repos : \A low, low2 \in BOOLEAN : r # q => FetchRequest(r, low) # FetchRequest(q, low2)
  /\ \A r \in Repos : \A low \in BOOLEAN :
       /\ FetchRequest(r, low) # FetchAllRequest
       /\ FetchRequest(r, low) # GarbageCollectRequest
       /\ FetchRequest(r, low) \in Requests
  /\ FetchAllRequest \in Requests /\ GarbageCollectRequest \in Requests
<1>1. ASSUME NEW r, NEW q, NEW low, NEW low2, NEW a, NEW b, Request(a, r, low) = Request(b, q, low2)
      PROVE  a = b /\ r = q
  <2>1. Request(a, r, low).which = Request(b, q, low2).which
    BY <1>1
  <2>2. Request(a, r, low).repository = Request(b, q, low2).repository
    BY <1>1
  <2> QED
    BY <2>1, <2>2 DEF Request
<1>2. ASSUME NEW r, NEW q, NEW low, NEW low2, FetchRequest(r, low) = FetchRequest(q, low2)
      PROVE  r = q
  BY <1>1, <1>2 DEF FetchRequest
<1>3. \A r \in Repos : \A low \in BOOLEAN :
        FetchRequest(r, low) # FetchAllRequest /\ FetchRequest(r, low) # GarbageCollectRequest
  <2>1. "repo" # "all" /\ "repo" # "gc"
    OBVIOUS
  <2> QED
    BY <1>1, <2>1, Zenon DEF FetchRequest, FetchAllRequest, GarbageCollectRequest
<1>4. \A r \in Repos : \A low \in BOOLEAN : FetchRequest(r, low) \in Requests
  BY DEF Requests
<1>5. FetchAllRequest \in Requests /\ GarbageCollectRequest \in Requests
  BY DEF Requests
<1> QED
  BY <1>2, <1>3, <1>4, <1>5

-----------------------------------------------------------------------------
(* The start. *)
LEMMA InvInit == Init => LoopInv
<1> SUFFICES ASSUME Init PROVE LoopInv
  OBVIOUS
<1>1. TypeOK
  <2>1. channel \in Seq(Requests) /\ Len(channel) = 1
    BY RequestsDiffer DEF Init
  <2>2. QueueTypeOK
    BY Zenon DEF Init, QueueInit, QueueTypeOK
  <2>3. 1 <= ChannelCap /\ 0 \in Versions /\ 0 \in 0..NumRepos
    BY LoopAssumption DEF Versions
  <2>4. registry \in [Repos -> Versions]
    BY DEF Init
  <2> QED
    BY <2>1, <2>2, <2>3, <2>4 DEF Init, TypeOK, Places
<1>2. LoopState
  BY DEF Init, QueueInit, LoopState
<1>3. PagesSawSteady /\ PagingMissesNothing
  BY DEF Init, PagesSawSteady, PagingMissesNothing
<1>4. StoredOrRequested
  BY DEF Init, StoredOrRequested, Requested
<1> QED
  BY <1>1, <1>2, <1>3, <1>4 DEF LoopInv

(* Every step preserves the types.  That toSend stays within allRepos      *)
(* rests on its being empty when a scan begins.                            *)
LEMMA TypeStep == TypeOK /\ LoopState /\ [Next]_vars => TypeOK'
<1> SUFFICES ASSUME TypeOK, LoopState, [Next]_vars PROVE TypeOK'
  OBVIOUS
<1> USE DEF TypeOK, QueueTypeOK
<1>1. ASSUME NEW r \in Repos, NEW v \in Versions, ChangeRegistry(r, v) PROVE TypeOK'
  BY <1>1 DEF ChangeRegistry, poolVars
<1>2. CASE TickFetchAll
  BY <1>2, RequestsDiffer, SendQueues DEF TickFetchAll, poolVars, scanVars
<1>3. CASE TickGarbageCollect
  BY <1>3, RequestsDiffer, SendQueues DEF TickGarbageCollect, poolVars, scanVars
<1>4. ASSUME NEW r \in Repos, Notify(r) PROVE TypeOK'
  BY <1>4, RequestsDiffer, SendQueues DEF Notify, poolVars, scanVars
<1>5. ASSUME NEW r \in Repos, LoseNotification(r) PROVE TypeOK'
  BY <1>5 DEF LoseNotification, poolVars, scanVars
<1>6. CASE ReceiveFetchAll
  BY <1>6, ReceiveKeepsOthers DEF ReceiveFetchAll, poolVars, scanVars, Places
<1>7. CASE ReceiveGarbageCollect
  BY <1>7, ReceiveKeepsOthers DEF ReceiveGarbageCollect, poolVars, scanVars, Places
<1>8. ASSUME NEW r \in Repos, NEW low \in BOOLEAN, ReceiveRepository(r, low) PROVE TypeOK'
  BY <1>8, ReceiveKeepsOthers DEF ReceiveRepository, RequestBackground, RequestUrgent, scanVars
<1>9. CASE LockForGC
  BY <1>9 DEF LockForGC, Enter, scanVars, Places
<1>10. CASE GarbageCollect
  BY <1>10 DEF GarbageCollect, Leave, scanVars, Places
<1>11. CASE LockForScan
  BY <1>11, LoopAssumption DEF LockForScan, Enter, Catalog, LoopState, Places
<1>12. ASSUME EndScan PROVE TypeOK'
  <2>1. 0 \in 0..NumRepos
    BY LoopAssumption
  <2> QED
    BY <1>12, <2>1 DEF EndScan, Leave, Places
<1>13. CASE ReadPage
  <2>1. nextPage \subseteq Repos
    BY DEF nextPage, Catalog
  <2>2. (IF nextPage = {} THEN last ELSE Max(nextPage)) \in 0..NumRepos
    <3>1. ASSUME nextPage # {} PROVE Max(nextPage) \in 1..NumRepos
      <4>1. Max(nextPage) \in nextPage
        BY <2>1, <3>1, MaxOfBounded, LoopAssumption DEF Repos
      <4> QED
        BY <2>1, <4>1 DEF Repos
    <3> QED
      BY <3>1, LoopAssumption
  <2> QED
    BY <1>13, <2>1, <2>2 DEF ReadPage, poolVars, Places
<1>14. CASE NothingMissing
  BY <1>14 DEF NothingMissing, poolVars, Places
<1>15. ASSUME NEW r \in Repos, RequestRepository(r) PROVE TypeOK'
  BY <1>15, RequestsDiffer, SendQueues DEF RequestRepository, poolVars
<1>16. ASSUME NEW r \in Repos, TakeStep(r) PROVE TypeOK'
  BY <1>16 DEF TakeStep, StartFetch, StartFetchMissing, Start, scanVars
<1>17. ASSUME NEW r \in Repos, Commit(r) \/ ReleaseMissing(r) \/ FetchFails(r) PROVE TypeOK'
  <2>1. 0 \in Versions
    BY LoopAssumption DEF Versions
  <2>2. CASE Commit(r)
    BY <2>1, <2>2 DEF Commit, Finish, scanVars
  <2>3. CASE ReleaseMissing(r)
    BY <2>3 DEF ReleaseMissing, Finish, scanVars
  <2>4. CASE FetchFails(r)
    BY <2>1, <2>4 DEF FetchFails, Finish, scanVars
  <2> QED
    BY <1>17, <2>2, <2>3, <2>4
<1>18. CASE Restart
  <2>1. channel' \in Seq(Requests) /\ Len(channel') = 1
    BY <1>18, RequestsDiffer DEF Restart
  <2>2. 1 <= ChannelCap /\ 0 \in Versions /\ 0 \in 0..NumRepos
    BY LoopAssumption DEF Versions
  <2> QED
    BY <1>18, <2>1, <2>2 DEF Restart, Places
<1>19. CASE UNCHANGED vars
  BY <1>19 DEF vars, poolVars, scanVars
<1> QED
  BY <1>1, <1>2, <1>3, <1>4, <1>5, <1>6, <1>7, <1>8, <1>9, <1>10, <1>11, <1>12, <1>13, <1>14, <1>15, <1>16,
     <1>17, <1>18, <1>19
     DEF Next, RegistryStep, Failure, TimerStep, SystemStep, LoopStep, WorkerStep, ScanFails, DeleteMissingRepos, AllRequested

(* The steps of the timers, the webhooks and the workers. *)
OtherStep ==
  \/ TickFetchAll
  \/ TickGarbageCollect
  \/ \E r \in Repos : Notify(r) \/ LoseNotification(r) \/ TakeStep(r) \/ WorkerStep(r) \/ FetchFails(r)

(* They leave alone what dispatch keeps, and nobody starts to work while   *)
(* it holds the pool.                                                      *)
LEMMA OthersLeaveLoop ==
  ASSUME TypeOK, LoopState, OtherStep
  PROVE  /\ UNCHANGED <<loop, last, allRepos, toSend, steady, registry, exclusive>>
         /\ exclusive => busy' = {}
<1> USE DEF poolVars, scanVars
<1>1. CASE TickFetchAll
  BY <1>1 DEF TickFetchAll, LoopState
<1>2. CASE TickGarbageCollect
  BY <1>2 DEF TickGarbageCollect, LoopState
<1>3. ASSUME NEW r \in Repos, Notify(r) \/ LoseNotification(r)
      PROVE  UNCHANGED <<loop, last, allRepos, toSend, steady, registry, exclusive, busy>>
  BY <1>3 DEF Notify, LoseNotification
<1>4. ASSUME NEW r \in Repos, TakeStep(r)
      PROVE  UNCHANGED <<loop, last, allRepos, toSend, steady, registry, exclusive>> /\ ~exclusive
  BY <1>4 DEF TakeStep, StartFetch, StartFetchMissing, Start
<1>5. ASSUME NEW r \in Repos, WorkerStep(r) \/ FetchFails(r)
      PROVE  UNCHANGED <<loop, last, allRepos, toSend, steady, registry, exclusive>> /\ busy' \subseteq busy
  BY <1>5 DEF WorkerStep, Commit, ReleaseMissing, FetchFails, Finish
<1> QED
  BY <1>1, <1>2, <1>3, <1>4, <1>5 DEF OtherStep, LoopState

(* Every step preserves the state of the loop. *)
LEMMA LoopStateStep == TypeOK /\ LoopState /\ [Next]_vars => LoopState'
<1> SUFFICES ASSUME TypeOK, LoopState, [Next]_vars PROVE LoopState'
  OBVIOUS
<1>1. ASSUME NEW r \in Repos, NEW v \in Versions, ChangeRegistry(r, v) PROVE LoopState'
  <2>1. steady' \subseteq Catalog'
    BY <1>1 DEF ChangeRegistry, LoopState, Catalog, TypeOK
  <2>2. UNCHANGED <<loop, toSend, busy, exclusive>> /\ steady' \subseteq steady
    BY <1>1 DEF ChangeRegistry, poolVars
  <2> QED
    BY <2>1, <2>2 DEF LoopState
<1>2. CASE OtherStep
  BY <1>2, OthersLeaveLoop DEF LoopState, Catalog
<1>3. ASSUME ReceiveFetchAll \/ ReceiveGarbageCollect PROVE LoopState'
  BY <1>3 DEF ReceiveFetchAll, ReceiveGarbageCollect, Receive, poolVars, scanVars, LoopState, Catalog
<1>4. ASSUME NEW r \in Repos, NEW low \in BOOLEAN, ReceiveRepository(r, low) PROVE LoopState'
  BY <1>4 DEF ReceiveRepository, Receive, RequestBackground, RequestUrgent, scanVars, LoopState, Catalog
<1>5. CASE LockForGC
  BY <1>5 DEF LockForGC, Enter, scanVars, LoopState, Catalog
<1>6. CASE GarbageCollect
  BY <1>6 DEF GarbageCollect, Leave, scanVars, LoopState, Catalog
<1>7. CASE LockForScan
  BY <1>7 DEF LockForScan, Enter, LoopState, Catalog
<1>8. ASSUME EndScan PROVE LoopState'
  BY <1>8 DEF EndScan, Leave, LoopState, Catalog
<1>9. CASE ReadPage
  BY <1>9 DEF ReadPage, poolVars, LoopState, Catalog
<1>10. CASE NothingMissing
  BY <1>10 DEF NothingMissing, poolVars, LoopState, Catalog
<1>11. ASSUME NEW r \in Repos, RequestRepository(r) PROVE LoopState'
  BY <1>11 DEF RequestRepository, poolVars, LoopState, Catalog
<1>12. CASE Restart
  BY <1>12 DEF Restart, LoopState, Catalog
<1>13. CASE UNCHANGED vars
  BY <1>13 DEF vars, poolVars, scanVars, LoopState, Catalog
<1> QED
  BY <1>1, <1>2, <1>3, <1>4, <1>5, <1>6, <1>7, <1>8, <1>9, <1>10, <1>11, <1>12, <1>13
     DEF Next, RegistryStep, Failure, TimerStep, SystemStep, LoopStep, OtherStep, ScanFails, DeleteMissingRepos, AllRequested

(* A page extends what was seen of the steady repositories up to its own   *)
(* last one, and to all of them when no further page follows.              *)
LEMMA ReadPageSees ==
  ASSUME TypeOK, LoopState, PagesSawSteady, ReadPage
  PROVE  PagesSawSteady' /\ PagingMissesNothing'
<1>1. /\ loop = "page"
      /\ allRepos' = allRepos \cup nextPage
      /\ last' = IF nextPage = {} THEN last ELSE Max(nextPage)
      /\ loop' = IF \E r \in Catalog : r > last /\ r \notin nextPage THEN "page" ELSE "delete"
      /\ UNCHANGED <<steady, registry>>
  BY DEF ReadPage
<1>2. Catalog \subseteq 1..NumRepos /\ nextPage \subseteq 1..NumRepos /\ last \in Nat
  BY DEF Catalog, nextPage, Repos, TypeOK
<1>3. steady \subseteq Catalog /\ \A r \in steady : r <= last => r \in allRepos
  BY <1>1 DEF LoopState, PagesSawSteady
<1>4. PagesSawSteady'
  <2> SUFFICES ASSUME NEW r \in steady, r <= last' PROVE r \in allRepos'
    BY <1>1 DEF PagesSawSteady
  <2>1. CASE r <= last
    BY <1>1, <1>3, <2>1
  <2>2. CASE last < r
    <3>1. nextPage # {}
      <4>1. r \in Int /\ ~(r <= last)
        BY <1>2, <1>3, <2>2
      <4> QED
        BY <1>1, <4>1
    <3>2. Max(nextPage) \in nextPage /\ r <= Max(nextPage)
      BY <1>1, <1>2, <3>1, MaxOfBounded, LoopAssumption
    <3> QED
      BY <1>1, <1>3, <2>2, <3>2, PageIsPrefix
  <2> QED
    BY <1>2, <1>3, <2>1, <2>2
<1>5. PagingMissesNothing'
  <2> SUFFICES ASSUME loop' = "delete", NEW r \in steady PROVE r \in allRepos'
    BY <1>1 DEF PagingMissesNothing
  <2>1. CASE r <= last
    BY <1>1, <1>3, <2>1
  <2>2. CASE r > last
    BY <1>1, <1>3, <2>2
  <2> QED
    BY <1>2, <1>3, <2>1, <2>2
<1> QED
  BY <1>4, <1>5

(* Every step preserves what the pages have seen. *)
LEMMA PagingStep ==
  TypeOK /\ LoopState /\ PagesSawSteady /\ PagingMissesNothing /\ [Next]_vars
    => PagesSawSteady' /\ PagingMissesNothing'
<1> SUFFICES ASSUME TypeOK, LoopState, PagesSawSteady, PagingMissesNothing, [Next]_vars
             PROVE  PagesSawSteady' /\ PagingMissesNothing'
  OBVIOUS
<1> USE DEF PagesSawSteady, PagingMissesNothing
<1>1. ASSUME NEW r \in Repos, NEW v \in Versions, ChangeRegistry(r, v)
      PROVE  PagesSawSteady' /\ PagingMissesNothing'
  <2>1. UNCHANGED <<loop, last, allRepos>> /\ steady' \subseteq steady
    BY <1>1 DEF ChangeRegistry
  <2> QED
    BY <2>1
<1>2. CASE OtherStep
  BY <1>2, OthersLeaveLoop
<1>3. ASSUME ReceiveFetchAll \/ ReceiveGarbageCollect PROVE PagesSawSteady' /\ PagingMissesNothing'
  BY <1>3 DEF ReceiveFetchAll, ReceiveGarbageCollect
<1>4. ASSUME NEW r \in Repos, NEW low \in BOOLEAN, ReceiveRepository(r, low)
      PROVE  PagesSawSteady' /\ PagingMissesNothing'
  BY <1>4 DEF ReceiveRepository, scanVars
<1>5. ASSUME LockForGC \/ GarbageCollect PROVE PagesSawSteady' /\ PagingMissesNothing'
  BY <1>5 DEF LockForGC, GarbageCollect
<1>6. CASE LockForScan
  <2>1. \A r \in steady' : ~(r <= 0)
    BY <1>6 DEF LockForScan, Catalog, Repos
  <2> QED
    BY <1>6, <2>1 DEF LockForScan
<1>7. ASSUME EndScan PROVE PagesSawSteady' /\ PagingMissesNothing'
  BY <1>7 DEF EndScan
<1>8. CASE ReadPage
  BY <1>8, ReadPageSees
<1>9. CASE NothingMissing
  BY <1>9 DEF NothingMissing
<1>10. ASSUME NEW r \in Repos, RequestRepository(r) PROVE PagesSawSteady' /\ PagingMissesNothing'
  BY <1>10 DEF RequestRepository
<1>11. CASE Restart
  BY <1>11 DEF Restart
<1>12. CASE UNCHANGED vars
  BY <1>12 DEF vars, scanVars
<1> QED
  BY <1>1, <1>2, <1>3, <1>4, <1>5, <1>6, <1>7, <1>8, <1>9, <1>10, <1>11, <1>12
     DEF Next, RegistryStep, Failure, TimerStep, SystemStep, LoopStep, OtherStep, ScanFails, DeleteMissingRepos, AllRequested

-----------------------------------------------------------------------------
(* A step that leaves the versions and the busy repositories alone and     *)
(* forgets no request preserves StoredOrRequested.                         *)
LEMMA NothingForgotten ==
  ASSUME StoredOrRequested, UNCHANGED <<registry, db, fetched, busy>>,
         \A r \in Repos : Requested(r) => Requested(r)'
  PROVE  StoredOrRequested'
BY DEF StoredOrRequested, storedOrFetched

(* Every step preserves StoredOrRequested. *)
LEMMA RequestedStep == TypeOK /\ LoopState /\ StoredOrRequested /\ [Next]_vars => StoredOrRequested'
<1> SUFFICES ASSUME TypeOK, LoopState, StoredOrRequested, [Next]_vars PROVE StoredOrRequested'
  OBVIOUS
<1>1. ASSUME NEW r \in Repos, NEW v \in Versions, ChangeRegistry(r, v) PROVE StoredOrRequested'
  BY <1>1 DEF ChangeRegistry, poolVars, StoredOrRequested, storedOrFetched, Requested, Queued, TypeOK
<1>2. ASSUME NEW request \in Requests, Send(request), UNCHANGED <<poolVars, registry, db, fetched, missed>>,
             \/ UNCHANGED unnotified
             \/ \E r \in Repos : request = FetchRequest(r, FALSE) /\ unnotified' = unnotified \ {r}
      PROVE  StoredOrRequested'
  <2>1. \A other : Queued(other) => Queued(other)'
    BY <1>2, SendQueues
  <2>2. Queued(request)'
    BY <1>2, SendQueues
  <2>3. ASSUME NEW r \in Repos, Requested(r) PROVE Requested(r)'
    <3>1. CASE \E low \in BOOLEAN : Queued(FetchRequest(r, low))
      BY <2>1, <3>1 DEF Requested
    <3>2. CASE r \in missed \cup urgent \cup background
      BY <1>2, <3>2 DEF Requested, poolVars
    <3>3. CASE r \in unnotified
      BY <1>2, <2>2, <3>3 DEF Requested
    <3> QED
      BY <2>3, <3>1, <3>2, <3>3 DEF Requested
  <2> QED
    BY <1>2, <2>3, NothingForgotten DEF poolVars
<1>3. ASSUME TickFetchAll \/ TickGarbageCollect PROVE StoredOrRequested'
  BY <1>2, <1>3, RequestsDiffer DEF TickFetchAll, TickGarbageCollect
<1>4. ASSUME NEW r \in Repos, Notify(r) PROVE StoredOrRequested'
  BY <1>2, <1>4, RequestsDiffer DEF Notify
<1>5. ASSUME NEW r \in Repos, LoseNotification(r) PROVE StoredOrRequested'
  BY <1>5 DEF LoseNotification, poolVars, StoredOrRequested, storedOrFetched, Requested, Queued
<1>6. ASSUME ReceiveFetchAll \/ ReceiveGarbageCollect PROVE StoredOrRequested'
  <2>1. /\ Receive(FetchAllRequest) \/ Receive(GarbageCollectRequest)
        /\ UNCHANGED <<poolVars, registry, db, fetched, unnotified, missed>>
    BY <1>6 DEF ReceiveFetchAll, ReceiveGarbageCollect
  <2>2. \A r \in Repos, low \in BOOLEAN : Queued(FetchRequest(r, low)) => Queued(FetchRequest(r, low))'
    BY <2>1, ReceiveKeepsOthers, RequestsDiffer
  <2> QED
    BY <2>1, <2>2, NothingForgotten DEF poolVars, Requested
<1>7. ASSUME NEW r \in Repos, NEW low \in BOOLEAN, ReceiveRepository(r, low) PROVE StoredOrRequested'
  <2>1. /\ Receive(FetchRequest(r, low))
        /\ UNCHANGED <<busy, registry, db, fetched, unnotified, missed>>
        /\ r \in urgent' \cup background'
        /\ urgent \cup background \subseteq urgent' \cup background'
    BY <1>7 DEF ReceiveRepository, RequestBackground, RequestUrgent
  <2>2. \A q \in Repos \ {r}, l \in BOOLEAN : Queued(FetchRequest(q, l)) => Queued(FetchRequest(q, l))'
    BY <2>1, ReceiveKeepsOthers, RequestsDiffer
  <2>3. ASSUME NEW q \in Repos, Requested(q) PROVE Requested(q)'
    BY <2>1, <2>2, <2>3 DEF Requested
  <2> QED
    BY <2>1, <2>3, NothingForgotten
<1>8. ASSUME /\ UNCHANGED <<urgent, background, busy, channel, registry, db, fetched, unnotified, missed>>
      PROVE  StoredOrRequested'
  BY <1>8, NothingForgotten DEF Requested, Queued
<1>9. ASSUME LockForGC \/ GarbageCollect \/ LockForScan \/ EndScan PROVE StoredOrRequested'
  BY <1>8, <1>9 DEF LockForGC, GarbageCollect, LockForScan, EndScan, Enter, Leave
<1>10. ASSUME ReadPage \/ NothingMissing \/ UNCHANGED vars PROVE StoredOrRequested'
  BY <1>8, <1>10 DEF ReadPage, NothingMissing, vars, poolVars
<1>11. ASSUME NEW r \in Repos, RequestRepository(r) PROVE StoredOrRequested'
  <2>1. TRUE \in BOOLEAN
    OBVIOUS
  <2> QED
    BY <1>2, <1>11, <2>1, RequestsDiffer DEF RequestRepository
<1>12. ASSUME NEW r \in Repos, TakeStep(r) PROVE StoredOrRequested'
  BY <1>12 DEF TakeStep, StartFetch, StartFetchMissing, Start, StoredOrRequested, storedOrFetched, Requested, Queued, TypeOK
<1>13. ASSUME NEW r \in Repos, WorkerStep(r) PROVE StoredOrRequested'
  <2>1. CASE Commit(r)
    BY <2>1 DEF Commit, Finish, StoredOrRequested, storedOrFetched, Requested, Queued, TypeOK
  <2>2. CASE ReleaseMissing(r)
    BY <2>2 DEF ReleaseMissing, Finish, StoredOrRequested, storedOrFetched, Requested, Queued, TypeOK
  <2> QED
    BY <1>13, <2>1, <2>2 DEF WorkerStep
<1>14. ASSUME NEW r \in Repos, FetchFails(r) PROVE StoredOrRequested'
  BY <1>14 DEF FetchFails, Finish, StoredOrRequested, storedOrFetched, Requested, Queued, TypeOK
<1>15. CASE Restart
  <2>1. \A r \in Repos : Requested(r) \/ r \in busy => r \in unnotified' \cup missed'
    BY <1>15 DEF Restart, Requested
  <2>2. UNCHANGED <<registry, db>> /\ busy' = {}
    BY <1>15 DEF Restart
  <2> QED
    BY <2>1, <2>2 DEF StoredOrRequested, storedOrFetched, Requested
<1> QED
  BY <1>1, <1>3, <1>4, <1>5, <1>6, <1>7, <1>9, <1>10, <1>11, <1>12, <1>13, <1>14, <1>15
     DEF Next, RegistryStep, Failure, TimerStep, SystemStep, LoopStep, ScanFails, DeleteMissingRepos, AllRequested
(* Every step preserves the inductive invariant. *)
LEMMA InvStep == LoopInv /\ [Next]_vars => LoopInv'
  BY TypeStep, LoopStateStep, PagingStep, RequestedStep DEF LoopInv

-----------------------------------------------------------------------------
(* The inductive invariant holds in every reachable state. *)
THEOREM InvariantHolds == Spec => []LoopInv
  BY InvInit, InvStep, PTL DEF Spec

(* The state of fetcher.go's loop has its types; in particular the channel *)
(* never holds more requests than its capacity.                            *)
THEOREM TypeCorrect == Spec => []TypeOK
<1>1. LoopInv => TypeOK
  BY DEF LoopInv
<1> QED
  BY <1>1, InvariantHolds, PTL

(* fetchAll reads the catalog page by page, while repositories come and    *)
(* go: one that is there all the time is in some page, whatever the size   *)
(* of a page.                                                              *)
THEOREM ScansMissNothing == Spec => []PagingMissesNothing
<1>1. LoopInv => PagingMissesNothing
  BY DEF LoopInv
<1> QED
  BY <1>1, InvariantHolds, PTL

(* A repository whose stored version is old is known to somebody: to the   *)
(* channel, the pool, a worker, a webhook, or to the failure that lost it. *)
THEOREM RequestsNotLost == Spec => []NoRequestLost
<1>1. LoopInv => NoRequestLost
  BY DEF LoopInv, StoredOrRequested, Requested, storedOrFetched, NoRequestLost
<1> QED
  BY <1>1, InvariantHolds, PTL

(* dispatch scans the registry and collects garbage between Lock and       *)
(* Unlock: no repository is being fetched then.                            *)
THEOREM ScansRunAlone == Spec => [](loop \in {"page", "delete", "send", "collect"} => busy = {})
<1>1. LoopInv => (loop \in {"page", "delete", "send", "collect"} => busy = {})
  BY DEF LoopInv, LoopState
<1> QED
  BY <1>1, InvariantHolds, PTL
=============================================================================
