------------------------------ MODULE FetchLoop ------------------------------
(***************************************************************************)
(* The request loop of fetcher/fetcher.go: a buffered channel that the     *)
(* timers, the webhook handlers and the loop itself send requests to, and  *)
(* the one goroutine (dispatch) that receives from it, adds repositories   *)
(* to the pool of workers, scans the whole registry (fetchAll) and         *)
(* collects garbage.                                                       *)
(*                                                                         *)
(* The pool is the abstract one of WorkQueue.  What a repository holds is  *)
(* abstracted to a version; RepoSync has the details of a fetch.           *)
(*                                                                         *)
(* A goroutine that sends to a full channel blocks, so a send is an action *)
(* that is enabled while there is room.                                    *)
(***************************************************************************)
EXTENDS Integers, Sequences, FiniteSets, FiniteSetsExt

CONSTANTS
  NumRepos,     \* repositories are 1..NumRepos, in the order of their names
  MaxVersion,   \* versions of a repository; 0: it is not in the registry
  ChannelCap,   \* capacity of the channel (100 in the code)
  PageSize      \* pageSize (100 in the code)

ASSUME LoopAssumption ==
  /\ NumRepos \in Nat
  /\ MaxVersion \in Nat
  /\ ChannelCap \in Nat \ {0}
  /\ PageSize \in Nat \ {0}

Repos == 1..NumRepos
Versions == 0..MaxVersion

VARIABLES
  urgent, background, busy, exclusive  \* the pool of workers

INSTANCE WorkQueue

VARIABLES
  channel,     \* f.channel
  loop,        \* where dispatch is
  last,        \* fetchAll: the last repository of the previous page
  allRepos,    \* fetchAll: the repositories read so far
  toSend,      \* fetchAll: the repositories still to be requested
  registry,    \* the version of each repository in the registry
  db,          \* the version of each repository in the database
  fetched,     \* the version that the worker of a busy repository has read
  unnotified,  \* repositories whose webhook notification is under way
  missed,      \* repositories of which a notification or a fetch was lost
               \* since their last fetch began (history)
  steady       \* repositories in the registry since the scan began (history)

poolVars == <<urgent, background, busy, exclusive>>
scanVars == <<last, allRepos, toSend, steady>>
vars == <<poolVars, channel, loop, scanVars, registry, db, fetched, unnotified, missed>>

Request(which, r, low) == [which |-> which, repository |-> r, lowPriority |-> low]
FetchAllRequest == Request("all", 0, FALSE)
GarbageCollectRequest == Request("gc", 0, FALSE)
FetchRequest(r, low) == Request("repo", r, low)

Requests ==
  {FetchAllRequest, GarbageCollectRequest} \cup {FetchRequest(r, low) : r \in Repos, low \in BOOLEAN}

(* receive: waiting for a request;  lockAll, lockGC: in dispatcher.Lock;   *)
(* page: reading the catalog;  delete: in DeleteMissingRepos;  send:       *)
(* requesting the repositories;  collect: in garbageCollect.               *)
Places == {"receive", "lockAll", "page", "delete", "send", "lockGC", "collect"}

TypeOK ==
  /\ QueueTypeOK
  /\ channel \in Seq(Requests) /\ Len(channel) <= ChannelCap
  /\ loop \in Places
  /\ last \in 0..NumRepos
  /\ allRepos \subseteq Repos
  /\ toSend \subseteq allRepos
  /\ registry \in [Repos -> Versions]
  /\ db \in [Repos -> Versions]
  /\ fetched \in [Repos -> Versions]
  /\ unnotified \subseteq Repos
  /\ missed \subseteq Repos
  /\ steady \subseteq Repos

(* main has just called FetchAll. *)
Init ==
  /\ QueueInit
  /\ channel = <<FetchAllRequest>>
  /\ loop = "receive"
  /\ last = 0
  /\ allRepos = {}
  /\ toSend = {}
  /\ registry \in [Repos -> {0, 1} \cap Versions]
  /\ db = [r \in Repos |-> 0]
  /\ fetched = [r \in Repos |-> 0]
  /\ unnotified = {}
  /\ missed = Repos
  /\ steady = {}

-----------------------------------------------------------------------------
(* Senders. *)

Send(request) ==
  /\ Len(channel) < ChannelCap
  /\ channel' = Append(channel, request)

Queued(request) == \E n \in DOMAIN channel : channel[n] = request

(* startTimers: the tickers of fetch_all and garbage_collect, which tick   *)
(* at any moment.                                                          *)
TickFetchAll ==
  /\ Send(FetchAllRequest)
  /\ UNCHANGED <<poolVars, loop, scanVars, registry, db, fetched, unnotified, missed>>

TickGarbageCollect ==
  /\ Send(GarbageCollectRequest)
  /\ UNCHANGED <<poolVars, loop, scanVars, registry, db, fetched, unnotified, missed>>

(* ServeHTTP of web/events.go, and FetchRepository. *)
Notify(r) ==
  /\ r \in unnotified
  /\ Send(FetchRequest(r, FALSE))
  /\ unnotified' = unnotified \ {r}
  /\ UNCHANGED <<poolVars, loop, scanVars, registry, db, fetched, missed>>

LoseNotification(r) ==
  /\ r \in unnotified
  /\ unnotified' = unnotified \ {r}
  /\ missed' = missed \cup {r}
  /\ UNCHANGED <<poolVars, channel, loop, scanVars, registry, db, fetched>>

(* The registry: a push, or the removal of the repository. *)
ChangeRegistry(r, v) ==
  /\ registry[r] # v
  /\ registry' = [registry EXCEPT ![r] = v]
  /\ unnotified' = unnotified \cup {r}
  /\ steady' = IF v = 0 THEN steady \ {r} ELSE steady
  /\ UNCHANGED <<poolVars, channel, loop, last, allRepos, toSend, db, fetched, missed>>

-----------------------------------------------------------------------------
(* dispatch *)

Receive(request) ==
  /\ loop = "receive"
  /\ channel # <<>>
  /\ request = Head(channel)
  /\ channel' = Tail(channel)

ReceiveFetchAll ==
  /\ Receive(FetchAllRequest)
  /\ loop' = "lockAll"
  /\ UNCHANGED <<poolVars, scanVars, registry, db, fetched, unnotified, missed>>

ReceiveGarbageCollect ==
  /\ Receive(GarbageCollectRequest)
  /\ loop' = "lockGC"
  /\ UNCHANGED <<poolVars, scanVars, registry, db, fetched, unnotified, missed>>

ReceiveRepositoryUnlessBusy(r, low) ==
  /\ Receive(FetchRequest(r, low))
  /\ IF r \in busy THEN UNCHANGED poolVars
     ELSE IF low THEN RequestBackground(r) ELSE RequestUrgent(r)
  /\ UNCHANGED <<loop, scanVars, registry, db, fetched, unnotified, missed>>

(* dispatcher.Add *)
ReceiveRepository(r, low) ==
  /\ Receive(FetchRequest(r, low))
  /\ IF low THEN RequestBackground(r) ELSE RequestUrgent(r)
  /\ UNCHANGED <<loop, scanVars, registry, db, fetched, unnotified, missed>>

LockForGC ==
  /\ loop = "lockGC"
  /\ loop' = "collect"
  /\ Enter
  /\ UNCHANGED <<channel, scanVars, registry, db, fetched, unnotified, missed>>

(* garbageCollect changes no tag (RepoSync). *)
GarbageCollect ==
  /\ loop = "collect"
  /\ loop' = "receive"
  /\ Leave
  /\ UNCHANGED <<channel, scanVars, registry, db, fetched, unnotified, missed>>

-----------------------------------------------------------------------------
(* fetchAll *)

Catalog == {r \in Repos : registry[r] # 0}

LockForScan ==
  /\ loop = "lockAll"
  /\ loop' = "page"
  /\ Enter
  /\ last' = 0
  /\ allRepos' = {}
  /\ steady' = Catalog
  /\ UNCHANGED <<channel, toSend, registry, db, fetched, unnotified, missed>>

(* The end of fetchAll, with or without an error. *)
EndScan ==
  /\ loop' = "receive"
  /\ Leave
  /\ last' = 0
  /\ allRepos' = {}
  /\ toSend' = {}
  /\ steady' = {}
  /\ UNCHANGED <<channel, registry, db, fetched, unnotified, missed>>

nextPageSkips ==
  {r \in Catalog : r > last + 1 /\ Cardinality({q \in Catalog : last + 1 < q /\ q < r}) < PageSize}

(* registry.Repositories: the repositories that come after last. *)
nextPage ==
  {r \in Catalog : r > last /\ Cardinality({q \in Catalog : last < q /\ q < r}) < PageSize}

ReadPageAgain ==
  LET page == nextPage
      more == \E r \in Catalog : r > last /\ r \notin page
  IN
  /\ loop = "page"
  /\ allRepos' = allRepos \cup page
  /\ loop' = IF more THEN "page" ELSE "delete"
  /\ UNCHANGED <<poolVars, channel, last, toSend, steady, registry, db, fetched, unnotified, missed>>

(* One page.  The last page comes with io.EOF; an empty one ends the loop  *)
(* too.                                                                    *)
ReadPage ==
  LET page == nextPage
      more == \E r \in Catalog : r > last /\ r \notin page
  IN
  /\ loop = "page"
  /\ allRepos' = allRepos \cup page
  /\ last' = IF page = {} THEN last ELSE Max(page)
  /\ loop' = IF more THEN "page" ELSE "delete"
  /\ UNCHANGED <<poolVars, channel, toSend, steady, registry, db, fetched, unnotified, missed>>

(* The repositories that the database has and the registry has not. *)
Missing == {r \in Repos : db[r] # 0} \ allRepos

NothingMissingNoRequests ==
  /\ loop = "delete"
  /\ Missing = {}
  /\ loop' = "send"
  /\ UNCHANGED <<poolVars, channel, last, allRepos, toSend, steady, registry, db, fetched, unnotified, missed>>

NothingMissingRequestsStored ==
  /\ loop = "delete"
  /\ loop' = "send"
  /\ toSend' = allRepos \cup {r \in Repos : db[r] # 0}
  /\ UNCHANGED <<poolVars, channel, last, allRepos, steady, registry, db, fetched, unnotified, missed>>

(* DeleteMissingRepos, when there is nothing to delete. *)
NothingMissing ==
  /\ loop = "delete"
  /\ Missing = {}
  /\ loop' = "send"
  /\ toSend' = allRepos
  /\ UNCHANGED <<poolVars, channel, last, allRepos, steady, registry, db, fetched, unnotified, missed>>

(* DeleteMissingRepos, when there is: deleteMissingReposFromTable deletes  *)
(* from the name of its table with "Tag" appended, imageTagTag or          *)
(* listTagTag, which are indexes.  The statement fails, the transaction is *)
(* rolled back, and fetchAll returns the error.                            *)
DeleteMissingRepos ==
  /\ loop = "delete"
  /\ Missing # {}
  /\ EndScan

(* The request for one repository. *)
RequestRepository(r) ==
  /\ loop = "send"
  /\ r \in toSend
  /\ Send(FetchRequest(r, TRUE))
  /\ toSend' = toSend \ {r}
  /\ UNCHANGED <<poolVars, loop, last, allRepos, steady, registry, db, fetched, unnotified, missed>>

AllRequested ==
  /\ loop = "send"
  /\ toSend = {}
  /\ EndScan

(* A call to the registry or to the database fails. *)
ScanFails ==
  /\ loop \in {"page", "delete"}
  /\ EndScan

-----------------------------------------------------------------------------
(* Workers. *)

(* Take, and fetchRepository up to the end of getTagsFromRegistry. *)
StartFetch(r) ==
  /\ Start(r)
  /\ registry[r] # 0
  /\ fetched' = [fetched EXCEPT ![r] = registry[r]]
  /\ missed' = missed \ {r}
  /\ UNCHANGED <<channel, loop, scanVars, registry, db, unnotified>>

(* Commit, and Release. *)
Commit(r) ==
  /\ fetched[r] # 0
  /\ db' = [db EXCEPT ![r] = fetched[r]]
  /\ fetched' = [fetched EXCEPT ![r] = 0]
  /\ Finish(r)
  /\ UNCHANGED <<channel, loop, scanVars, registry, unnotified, missed>>

(* The repository is not in the registry: getTagsFromRegistry fails. *)
StartFetchMissing(r) ==
  /\ Start(r)
  /\ registry[r] = 0
  /\ UNCHANGED <<channel, loop, scanVars, registry, db, fetched, unnotified, missed>>

ReleaseMissing(r) ==
  /\ r \in busy
  /\ fetched[r] = 0
  /\ Finish(r)
  /\ UNCHANGED <<channel, loop, scanVars, registry, db, fetched, unnotified, missed>>

FetchFails(r) ==
  /\ fetched[r] # 0
  /\ fetched' = [fetched EXCEPT ![r] = 0]
  /\ missed' = missed \cup {r}
  /\ Finish(r)
  /\ UNCHANGED <<channel, loop, scanVars, registry, db, unnotified>>

-----------------------------------------------------------------------------
(* flagstate stops and is started again, and main calls FetchAll.  The     *)
(* requests and fetches that were under way are gone; transactions that    *)
(* were open are rolled back.                                              *)
Restart ==
  /\ urgent' = {} /\ background' = {} /\ busy' = {} /\ exclusive' = FALSE
  /\ channel' = <<FetchAllRequest>>
  /\ loop' = "receive"
  /\ last' = 0 /\ allRepos' = {} /\ toSend' = {} /\ steady' = {}
  /\ fetched' = [r \in Repos |-> 0]
  /\ missed' = missed \cup urgent \cup background \cup busy
                 \cup {r \in Repos : \E low \in BOOLEAN : Queued(FetchRequest(r, low))}
  /\ UNCHANGED <<registry, db, unnotified>>

-----------------------------------------------------------------------------
RegistryStep == \E r \in Repos, v \in Versions : ChangeRegistry(r, v)

Failure ==
  \/ ScanFails
  \/ Restart
  \/ \E r \in Repos : LoseNotification(r) \/ FetchFails(r)

LoopStep ==
  \/ ReceiveFetchAll
  \/ ReceiveGarbageCollect
  \/ \E r \in Repos, low \in BOOLEAN : ReceiveRepository(r, low)
  \/ GarbageCollect
  \/ ReadPage
  \/ NothingMissing
  \/ DeleteMissingRepos
  \/ \E r \in Repos : RequestRepository(r)
  \/ AllRequested

WorkerStep(r) == Commit(r) \/ ReleaseMissing(r)

TakeStep(r) == StartFetch(r) \/ StartFetchMissing(r)

TimerStep == TickFetchAll \/ TickGarbageCollect

SystemStep ==
  \/ LockForGC
  \/ LockForScan
  \/ LoopStep
  \/ \E r \in Repos : Notify(r) \/ TakeStep(r) \/ WorkerStep(r)

Next == RegistryStep \/ Failure \/ TimerStep \/ SystemStep

Spec == Init /\ [][Next]_vars

(* Fairness.  dispatch and the workers run when they can and their calls   *)
(* return.  A worker that waits for the pool to be unlocked gets its turn, *)
(* and so does Lock, which keeps workers from starting until it is granted *)
(* (EveryRequestTaken and LockGranted of RepoDispatcher): hence strong     *)
(* fairness.  The registry is not obliged to do anything.  When the timers *)
(* tick is up to the configuration (MCFetchLoop).                          *)
Fairness ==
  /\ WF_vars(LoopStep)
  /\ SF_vars(LockForScan \/ LockForGC)
  /\ \A r \in Repos :
       /\ WF_vars(Notify(r))
       /\ SF_vars(TakeStep(r))
       /\ WF_vars(WorkerStep(r))

-----------------------------------------------------------------------------
(* A repository that is in the registry during the whole of a scan is seen *)
(* by it, whatever is added and removed between two pages: fetchAll asks   *)
(* for the repositories after the last one of the previous page.  One that *)
(* it missed would be deleted from the database by DeleteMissingRepos.     *)
PagingMissesNothing == loop \in {"delete", "send"} => steady \subseteq allRepos

(* A repository whose version in the database is old has a request, a      *)
(* fetch or a notification under way, unless a call failed: no request is  *)
(* lost between the channel, the pool and the workers.                     *)
NoRequestLost ==
  \A r \in Repos :
    registry[r] \notin {0, db[r]} =>
      \/ r \in unnotified \cup missed \cup urgent \cup background \cup busy
      \/ \E low \in BOOLEAN : Queued(FetchRequest(r, low))

(* A global scan comes to an end, so that the next one can be done.  It    *)
(* does not when the channel fills up: dispatch sends to the channel that  *)
(* only dispatch receives from.                                            *)
ScanEnds == loop \in {"page", "delete", "send"} ~> loop = "receive"

(* Whatever was lost before, the scans bring the database up to date once  *)
(* the registry and the calls to it are stable; unless the database keeps  *)
(* a repository that has vanished, which makes every scan fail.            *)
EventuallyStored ==
  <>[](\A r \in Repos : db[r] # 0 => registry[r] # 0)
    => \A r \in Repos : <>[](registry[r] # 0 => db[r] = registry[r])

(* A repository that was removed from the registry is removed from the     *)
(* database: this is what fetchAll calls DeleteMissingRepos for.           *)
VanishedForgotten == \A r \in Repos : <>[](registry[r] = 0 => db[r] = 0)
=============================================================================
