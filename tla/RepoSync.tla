------------------------------ MODULE RepoSync ------------------------------
(***************************************************************************)
(* How the tags of the registry get into the database: fetchRepository of  *)
(* fetcher/fetcher.go, run by the workers of the pool, each in a           *)
(* transaction of its own (database/postgres.go), and garbageCollect.      *)
(*                                                                         *)
(* The pool is the abstract one of WorkQueue.  A worker reads the registry *)
(* tag by tag while the registry changes; it then compares what it read    *)
(* with the database and issues statements, which other transactions       *)
(* interleave with.  Transactions are READ COMMITTED: a statement sees the *)
(* committed tables and the changes of its own transaction.  An INSERT ... *)
(* ON CONFLICT DO NOTHING of a digest that another open transaction has    *)
(* inserted waits for that transaction to end; PostgreSQL aborts one of    *)
(* the transactions that wait for each other in a circle.                  *)
(*                                                                         *)
(* The calls of ChangeBroadcaster.Change that announce a changed           *)
(* repository are in the module Freshness.                                 *)
(***************************************************************************)
EXTENDS Postgres

CONSTANTS
  Others,     \* digests of manifests of a type that flagstate ignores
  Available,  \* the digests that may be pushed to each repository
  None        \* no digest

Digests == Images \cup Lists \cup Others

ASSUME DigestAssumption ==
  /\ Images \cap Lists = {}
  /\ Others \cap (Images \cup Lists) = {}
  /\ None \notin Digests
  /\ Available \in [Repos -> SUBSET Digests]

VARIABLES
  urgent, background, busy, exclusive  \* the pool of workers

INSTANCE WorkQueue

VARIABLES
  registry,    \* the rows <<tag, digest>> of each repository of the registry
  unnotified,  \* repositories whose webhook notification is under way
  missed,      \* repositories of which a notification or a fetch was lost
               \* since their last fetch began (history variable)
  db,          \* the committed tables
  op           \* the fetch in progress of each repository

poolVars == <<urgent, background, busy, exclusive>>
syncVars == <<registry, unnotified, missed, db, op>>
vars == <<poolVars, syncVars>>

(* A unit of work of updateRepositoryInDatabase. *)
Work == [what : {"store", "set", "delete"}, digest : Images \cup Lists]

(* all: before tags.All;  get: reading the tags one by one;  lists: before *)
(* the query for lists;  update: between two statements;  insert: about to *)
(* insert cur;  entries: inserting the images of the list cur.             *)
Places == {"idle", "all", "get", "lists", "update", "insert", "entries"}

Operation ==
  [pc : Places,
   unread : SUBSET Tags,                  \* tags still to be looked up
   tags : SUBSET (Tags \X (Images \cup Lists)),  \* imageTags and listTags
   work : SUBSET Work,                    \* what is left to do
   cur : Images \cup Lists \cup {None},   \* the digest being stored
   rest : Seq(Images),                    \* images of cur still to insert
   imageTag : SUBSET (Tags \X Images),    \* the repository's rows, as this
   listTag : SUBSET (Tags \X Lists),      \*   transaction sees them
   image : SUBSET Images,                 \* rows inserted, not committed
   list : SUBSET Lists,
   listEntry : SUBSET (Lists \X Images)]

NoOperation ==
  [pc |-> "idle", unread |-> {}, tags |-> {}, work |-> {}, cur |-> None,
   rest |-> <<>>, imageTag |-> {}, listTag |-> {}, image |-> {},
   list |-> {}, listEntry |-> {}]

TypeOK ==
  /\ QueueTypeOK
  /\ registry \in [Repos -> SUBSET (Tags \X Digests)]
  /\ unnotified \subseteq Repos
  /\ missed \subseteq Repos
  /\ db \in Tables
  /\ op \in [Repos -> Operation]

Init ==
  /\ QueueInit
  /\ registry = [r \in Repos |-> {}]
  /\ unnotified = {}
  /\ missed = {}
  /\ db = EmptyTables
  /\ op = [r \in Repos |-> NoOperation]

-----------------------------------------------------------------------------
(* The registry, and the requests it leads to. *)

Untag(rows, t) == {row \in rows : row[1] # t}

(* A manifest is pushed, and tagged. *)
Push(r, t, d) ==
  /\ d \in Available[r]
  /\ <<t, d>> \notin registry[r]
  /\ registry' = [registry EXCEPT ![r] = Untag(@, t) \cup {<<t, d>>}]
  /\ unnotified' = unnotified \cup {r}
  /\ UNCHANGED <<poolVars, missed, db, op>>

(* A tag is deleted. *)
DeleteTag(r, t) ==
  /\ Untag(registry[r], t) # registry[r]
  /\ registry' = [registry EXCEPT ![r] = Untag(@, t)]
  /\ unnotified' = unnotified \cup {r}
  /\ UNCHANGED <<poolVars, missed, db, op>>

(* ServeHTTP of web/events.go: the notification of a push or a deletion,   *)
(* on its way through FetchRepository and the fetcher's channel.           *)
Notify(r) ==
  /\ r \in unnotified
  /\ unnotified' = unnotified \ {r}
  /\ RequestUrgent(r)
  /\ UNCHANGED <<registry, missed, db, op>>

(* The notification is lost: flagstate is down, or refuses it. *)
LoseNotification(r) ==
  /\ r \in unnotified
  /\ unnotified' = unnotified \ {r}
  /\ missed' = missed \cup {r}
  /\ UNCHANGED <<poolVars, registry, db, op>>

ScanNever(r) == FALSE

(* The request that a global scan (fetchAll) makes for the repository. *)
Scan(r) ==
  /\ RequestBackground(r)
  /\ UNCHANGED syncVars

-----------------------------------------------------------------------------
(* fetchRepository: reading the registry. *)

(* A worker takes the repository. *)
StartFetch(r) ==
  /\ Start(r)
  /\ op' = [op EXCEPT ![r].pc = "all"]
  /\ missed' = missed \ {r}
  /\ UNCHANGED <<registry, unnotified, db>>

(* getTagsFromRegistry: op.tags.All *)
ListTags(r) ==
  /\ op[r].pc = "all"
  /\ op' = [op EXCEPT ![r].pc = "get", ![r].unread = {row[1] : row \in registry[r]}]
  /\ UNCHANGED <<poolVars, registry, unnotified, missed, db>>

GetTagAnyType(r, t) ==
  /\ op[r].pc = "get"
  /\ t \in op[r].unread
  /\ \E d \in Digests :
       /\ <<t, d>> \in registry[r]
       /\ op' = [op EXCEPT ![r].unread = @ \ {t}, ![r].tags = @ \cup {<<t, d>>}]
  /\ UNCHANGED <<poolVars, registry, unnotified, missed, db>>

(* getTagsFromRegistry: op.tags.Get, when the tag still exists.  A         *)
(* manifest of another type is skipped.                                    *)
GetTag(r, t) ==
  /\ op[r].pc = "get"
  /\ t \in op[r].unread
  /\ \E d \in Digests :
       /\ <<t, d>> \in registry[r]
       /\ op' = [op EXCEPT ![r].unread = @ \ {t},
                           ![r].tags = @ \cup ({t} \X ({d} \ Others))]
  /\ UNCHANGED <<poolVars, registry, unnotified, missed, db>>

AbandonKeepsRepo(r) ==
  /\ op' = [op EXCEPT ![r] = NoOperation]
  /\ UNCHANGED <<poolVars, registry, unnotified, db>>

(* The end of fetchRepository with an error: the transaction, if any, is   *)
(* rolled back, the error is logged, and the repository is released.       *)
Abandon(r) ==
  /\ Finish(r)
  /\ op' = [op EXCEPT ![r] = NoOperation]
  /\ UNCHANGED <<registry, unnotified, db>>

(* getTagsFromRegistry, when a tag was deleted since op.tags.All. *)
TagGone(r, t) ==
  /\ op[r].pc = "get"
  /\ t \in op[r].unread
  /\ \A d \in Digests : <<t, d>> \notin registry[r]
  /\ Abandon(r)
  /\ UNCHANGED missed

(* Any call to the registry or to the database fails. *)
Fail(r) ==
  /\ op[r].pc # "idle"
  /\ Abandon(r)
  /\ missed' = missed \cup {r}

-----------------------------------------------------------------------------
(* updateRepositoryInDatabase *)

(* stringsEqual(oldImage.Tags, newTags), both sorted: the old tags are an  *)
(* array that may repeat a tag, the new ones a set.                        *)
stringsEqual(oldRows, newTags) ==
  /\ {row[2] : row \in oldRows} = newTags
  /\ Cardinality(oldRows) = Cardinality(newTags)

(* What is to be done to the digests of one tag table, whose old digests   *)
(* the query returned, to make it agree with the rows read from the        *)
(* registry.                                                               *)
planUpdate(tagTable, old, rows) ==
  LET new == DigestsOf(rows)
      same(d) == stringsEqual(tagRows(tagTable, d), TagsFor(rows, d))
  IN  [what : {"store"}, digest : new \ old]
        \cup [what : {"set"}, digest : {d \in new \cap old : ~same(d)}]
        \cup [what : {"delete"}, digest : old \ new]

ImageRows(rows) == {row \in rows : row[2] \in Images}
ListRows(rows) == {row \in rows : row[2] \in Lists}

(* Begin, and the query for images. *)
QueryImages(r) ==
  /\ op[r].pc = "get"
  /\ op[r].unread = {}
  /\ op' = [op EXCEPT
       ![r].pc = "lists",
       ![r].imageTag = db.imageTag[r],
       ![r].listTag = db.listTag[r],
       ![r].work = planUpdate(db.imageTag, doImageQuery(db, r), ImageRows(op[r].tags))]
  /\ UNCHANGED <<poolVars, registry, unnotified, missed, db>>

(* The query for lists, which sees what was committed in between. *)
QueryLists(r) ==
  /\ op[r].pc = "lists"
  /\ op' = [op EXCEPT
       ![r].pc = "update",
       ![r].work = @ \cup planUpdate(db.listTag, doListQuery(db, r), ListRows(op[r].tags))]
  /\ UNCHANGED <<poolVars, registry, unnotified, missed, db>>

(* The order of the loops of updateRepositoryInDatabase. *)
stage(w) ==
  (IF w.digest \in Images THEN 0 ELSE 2) + (IF w.what = "delete" THEN 1 ELSE 0)

(* The work that may come next: a loop over a Go map takes any order. *)
nextWork(r) ==
  {w \in op[r].work : \A v \in op[r].work : stage(w) <= stage(v)}

(* The operation of r after the tags of digest d were set to those read    *)
(* from the registry.                                                      *)
withTags(r, d) ==
  IF d \in Images
  THEN [op[r] EXCEPT !.imageTag = setTags(@, d, TagsFor(op[r].tags, d))]
  ELSE [op[r] EXCEPT !.listTag = setTags(@, d, TagsFor(op[r].tags, d))]

(* SetImageTags, SetImageListTags *)
SetTags(r) ==
  /\ op[r].pc = "update"
  /\ \E w \in nextWork(r) :
       /\ w.what = "set"
       /\ op' = [op EXCEPT ![r] = [withTags(r, w.digest) EXCEPT !.work = @ \ {w}]]
  /\ UNCHANGED <<poolVars, registry, unnotified, missed, db>>

(* DeleteImage, DeleteImageList.  Their error is ignored, but it leaves    *)
(* the transaction unable to commit, as Fail does.                         *)
DeleteDigest(r) ==
  /\ op[r].pc = "update"
  /\ \E w \in nextWork(r) :
       /\ w.what = "delete"
       /\ op' = [op EXCEPT ![r].work = @ \ {w},
                           ![r].imageTag = deleteDigest(@, w.digest),
                           ![r].listTag = deleteDigest(@, w.digest)]
  /\ UNCHANGED <<poolVars, registry, unnotified, missed, db>>

(* fetchImage or fetchImageList, up to the statement that inserts the row. *)
FetchManifest(r) ==
  /\ op[r].pc = "update"
  /\ \E w \in nextWork(r) :
       /\ w.what = "store"
       /\ op' = [op EXCEPT ![r].pc = "insert",
                           ![r].cur = w.digest,
                           ![r].work = @ \ {w}]
  /\ UNCHANGED <<poolVars, registry, unnotified, missed, db>>

(* The row that the operation of r is about to insert. *)
wanted(r) ==
  CASE op[r].pc = "insert" -> {op[r].cur}
    [] op[r].pc = "entries" /\ op[r].rest # <<>> -> {Head(op[r].rest)}
    [] OTHER -> {}

(* The operation of r waits for the transaction of q, which has inserted   *)
(* the same row and has not ended.                                         *)
waitsFor(r, q) == r # q /\ wanted(r) \cap (op[q].image \cup op[q].list) # {}

blocked(r) == \E q \in Repos : waitsFor(r, q)

StoreImageTagsOnly(r) ==
  /\ op[r].pc = "insert"
  /\ op[r].cur \in Images
  /\ op' = [op EXCEPT ![r] = [withTags(r, op[r].cur) EXCEPT !.pc = "update", !.cur = None]]
  /\ UNCHANGED <<poolVars, registry, unnotified, missed, db>>

(* StoreImage: INSERT INTO image ... ON CONFLICT DO NOTHING, SetImageTags. *)
StoreImage(r) ==
  LET i == op[r].cur IN
  /\ op[r].pc = "insert"
  /\ i \in Images
  /\ ~blocked(r)
  /\ op' = [op EXCEPT ![r] =
       [withTags(r, i) EXCEPT !.pc = "update", !.cur = None, !.image = @ \cup ({i} \ db.image)]]
  /\ UNCHANGED <<poolVars, registry, unnotified, missed, db>>

(* storeImageList: INSERT INTO list ... ON CONFLICT DO NOTHING.  When the  *)
(* row was there already its entries are taken to be there too.            *)
InsertList(r) ==
  LET l == op[r].cur IN
  /\ op[r].pc = "insert"
  /\ l \in Lists
  /\ ~blocked(r)
  /\ op' = [op EXCEPT
       ![r].pc = "entries",
       ![r].list = @ \cup ({l} \ db.list),
       ![r].rest = IF l \in db.list THEN <<>> ELSE Contents[l]]
  /\ UNCHANGED <<poolVars, registry, unnotified, missed, db>>

InsertEntryOnly(r) ==
  /\ op[r].pc = "entries"
  /\ op[r].rest # <<>>
  /\ ~blocked(r)
  /\ op' = [op EXCEPT
       ![r].rest = Tail(@),
       ![r].listEntry = @ \cup {<<op[r].cur, Head(op[r].rest)>>}]
  /\ UNCHANGED <<poolVars, registry, unnotified, missed, db>>

InsertEntryOfNewImage(r) ==
  /\ op[r].pc = "entries"
  /\ op[r].rest # <<>>
  /\ ~blocked(r)
  /\ LET i == Head(op[r].rest) IN
     op' = [op EXCEPT
       ![r].rest = Tail(@),
       ![r].image = @ \cup ({i} \ db.image),
       ![r].listEntry = @ \cup ({op[r].cur} \X ({i} \ db.image))]
  /\ UNCHANGED <<poolVars, registry, unnotified, missed, db>>

(* storeImageList: storeImage of the next image, and its list entry. *)
InsertEntry(r) ==
  /\ op[r].pc = "entries"
  /\ op[r].rest # <<>>
  /\ ~blocked(r)
  /\ LET i == Head(op[r].rest) IN
     op' = [op EXCEPT
       ![r].rest = Tail(@),
       ![r].image = @ \cup ({i} \ db.image),
       ![r].listEntry = @ \cup {<<op[r].cur, i>>}]
  /\ UNCHANGED <<poolVars, registry, unnotified, missed, db>>

(* StoreImageList: SetImageListTags *)
TagList(r) ==
  /\ op[r].pc = "entries"
  /\ op[r].rest = <<>>
  /\ op' = [op EXCEPT ![r] =
       [withTags(r, op[r].cur) EXCEPT !.pc = "update", !.cur = None]]
  /\ UNCHANGED <<poolVars, registry, unnotified, missed, db>>

(* PostgreSQL ends a circle of waiting transactions by aborting one. *)
DeadlockAbort(r) ==
  /\ \E S \in SUBSET Repos :
       /\ r \in S
       /\ \A p \in S :
            /\ \E q \in S : waitsFor(p, q)
            /\ \E q \in S : waitsFor(q, p)
  /\ Abandon(r)
  /\ missed' = missed \cup {r}

(* tx.Commit, and the release of the repository. *)
Commit(r) ==
  /\ op[r].pc = "update"
  /\ op[r].work = {}
  /\ db' = [db EXCEPT
       !.image = @ \cup op[r].image,
       !.list = @ \cup op[r].list,
       !.listEntry = @ \cup op[r].listEntry,
       !.imageTag[r] = op[r].imageTag,
       !.listTag[r] = op[r].listTag]
  /\ op' = [op EXCEPT ![r] = NoOperation]
  /\ Finish(r)
  /\ UNCHANGED <<registry, unnotified, missed>>

-----------------------------------------------------------------------------
(* garbageCollect, between dispatcher.Lock and dispatcher.Unlock. *)

LockForGC ==
  /\ Enter
  /\ UNCHANGED syncVars

GarbageCollect ==
  /\ Leave
  /\ db' = DeleteUnused(db)
  /\ UNCHANGED <<registry, unnotified, missed, op>>

(* The transaction fails and is rolled back. *)
GarbageCollectFails ==
  /\ Leave
  /\ UNCHANGED syncVars

-----------------------------------------------------------------------------
(* flagstate stops and is started again: requests and fetches are gone,    *)
(* open transactions are rolled back.                                      *)
Restart ==
  /\ urgent' = {} /\ background' = {} /\ busy' = {} /\ exclusive' = FALSE
  /\ op' = [r \in Repos |-> NoOperation]
  /\ missed' = missed \cup urgent \cup background \cup busy
  /\ UNCHANGED <<registry, unnotified, db>>

-----------------------------------------------------------------------------
RegistryStep ==
  \E r \in Repos, t \in Tags : DeleteTag(r, t) \/ \E d \in Digests : Push(r, t, d)

FetchStep(r) ==
  \/ ListTags(r)
  \/ \E t \in Tags : GetTag(r, t) \/ TagGone(r, t)
  \/ QueryImages(r)
  \/ QueryLists(r)
  \/ SetTags(r)
  \/ DeleteDigest(r)
  \/ FetchManifest(r)
  \/ StoreImage(r)
  \/ InsertList(r)
  \/ InsertEntry(r)
  \/ TagList(r)
  \/ DeadlockAbort(r)
  \/ Commit(r)

Failure ==
  \/ Restart
  \/ GarbageCollectFails
  \/ \E r \in Repos : LoseNotification(r) \/ Fail(r)

SystemStep ==
  \/ LockForGC
  \/ GarbageCollect
  \/ \E r \in Repos : Notify(r) \/ Scan(r) \/ StartFetch(r) \/ FetchStep(r)

Next == RegistryStep \/ Failure \/ SystemStep

Spec == Init /\ [][Next]_vars

(* Fairness.  Goroutines that can run do; a call to the registry or the    *)
(* database returns; the timer of fetch_all keeps firing (Scan); a worker  *)
(* that could take a repository again and again, between two collections,  *)
(* takes it in the end, because Unlock wakes the whole pool.  The registry *)
(* is not obliged to change, nor garbage to be collected.                  *)
Fairness ==
  /\ \A r \in Repos :
       /\ WF_vars(Notify(r))
       /\ WF_vars(Scan(r))
       /\ SF_vars(StartFetch(r))
       /\ WF_vars(FetchStep(r))
  /\ WF_vars(GarbageCollect)

-----------------------------------------------------------------------------
EntriesOf(l) == {e[2] : e \in {x \in db.listEntry : x[1] = l}}

(* Not a list without manifests.  The inner join of the list query never   *)
(* returns such a list, so the fetcher stores it again on each visit and   *)
(* cannot delete its tag when that moves on (postgres.go:177).             *)
NotEmpty(d) == d \in Lists => Contents[d] # <<>>

(* The tags that the tables have for r, those of empty lists aside.        *)
(* These are the rows of r itself.  A query for r also shows, on a digest  *)
(* of r, the tags that other repositories have on the same digest          *)
(* (postgres.go:120 and 184; shownTags in DoQuery).                        *)
StoredRows(r) == {row \in db.imageTag[r] \cup db.listTag[r] : NotEmpty(row[2])}

(* The tags that the tables should have, empty lists aside. *)
Known(rows) == {row \in rows : row[2] \notin Others /\ NotEmpty(row[2])}

(* Nothing is under way for r, and nothing got lost on the way. *)
Quiet(r) == r \notin unnotified \cup missed \cup urgent \cup background \cup busy

(* When nothing is under way for a repository, the tables have the tags of *)
(* the registry for it: a push that comes while the repository is being    *)
(* read or written always leaves a request behind, and what a fetch        *)
(* commits is what it read, even if it read the tags while they moved.     *)
(* Rows of empty lists are left out on both sides: the one whose tag has   *)
(* moved on stays, and must not keep other rows from being right.  This    *)
(* holds as long as no digest is in two repositories (see the run          *)
(* RepoSyncLeak).                                                          *)
QuietMeansSynced == \A r \in Repos : Quiet(r) => StoredRows(r) = Known(registry[r])

(* The half of it that holds for shared digests too: the row of a tag that *)
(* was moved or deleted in r does not stay among the rows of r, unless it  *)
(* is that of an empty list, although the comparison that decides on its   *)
(* removal looks at the tags of all repositories.                          *)
NothingStale == \A r \in Repos : Quiet(r) => StoredRows(r) \subseteq Known(registry[r])

(* The references of schema.sql hold: no tag or list entry is written for  *)
(* a row that a concurrent transaction or garbageCollect took away.  A     *)
(* violation would be an error of the statement in the code.               *)
ForeignKeys ==
  /\ \A r \in Repos : DigestsOf(db.imageTag[r]) \subseteq db.image
  /\ \A r \in Repos : DigestsOf(db.listTag[r]) \subseteq db.list
  /\ db.listEntry \subseteq db.list \X db.image

(* A list in the database has all its images, although storeImageList      *)
(* stops as soon as it finds the row of the list: nobody sees the row of a *)
(* list whose entries are not written, or were rolled back.                *)
ListsComplete == \A l \in db.list : EntriesOf(l) = {Contents[l][n] : n \in DOMAIN Contents[l]}

(* A transaction that is open when others commit still refers to rows that *)
(* exist: the images and lists whose tags it will write are in the         *)
(* database, or it has inserted them, or it is about to.                   *)
OpenTransactionsSound ==
  \A r \in Repos :
    /\ DigestsOf(op[r].imageTag) \subseteq db.image \cup op[r].image
    /\ DigestsOf(op[r].listTag) \subseteq db.list \cup op[r].list

(* What a query returns: the images with a tag, and the lists with a tag   *)
(* with their images.                                                      *)
QueryResult ==
  [r \in Repos |->
     [images |-> {row \in db.imageTag[r] : row[2] \in db.image},
      lists |-> {<<row, EntriesOf(row[2]) \cap db.image>> : row \in db.listTag[r]}]]

(* garbageCollect does not change the result of any query, and leaves      *)
(* nothing that a second collection would remove.  The comment in          *)
(* DeleteUnused (postgres.go:483) reads "changes here aren't really        *)
(* changes - they affect the data we return from a query", evidently a     *)
(* slip for "they do not affect": it is why Commit need not touch the      *)
(* modification time.                                                      *)
CollectionIsInvisible ==
  [][GarbageCollect => QueryResult' = QueryResult /\ DeleteUnused(db') = db']_vars

(* Every fetch ends, whichever rows the transactions wait for. *)
FetchesEnd == \A r \in Repos : r \in busy ~> r \notin busy

(* Once the registry stops changing, calls stop failing and flagstate      *)
(* stays up, the tables come to have its tags, and keep them, those of     *)
(* empty lists aside.                                                      *)
EventuallySynced == \A r \in Repos : <>[](StoredRows(r) = Known(registry[r]))
=============================================================================
