--------------------------- MODULE RepoSyncProofs ---------------------------
(***************************************************************************)
(* Proofs about RepoSync: what transactions and garbageCollect leave in    *)
(* the database fits together, for any repositories, tags and manifests.   *)
(***************************************************************************)
EXTENDS RepoSync, SequenceTheorems, TLAPS

Elements(s) == {s[n] : n \in DOMAIN s}

(* The places of updateRepositoryInDatabase: a transaction is open. *)
InTransaction == {"lists", "update", "insert", "entries"}

(* o may be the operation of r, as far as its control is concerned. *)
Control(r, o) ==
  /\ o.pc = "idle" <=> r \notin busy
  /\ o.pc = "idle" => o = NoOperation
  /\ o.pc \in {"all", "get"} => o = [NoOperation EXCEPT !.pc = o.pc, !.unread = o.unread, !.tags = o.tags]
  /\ o.pc = "all" => o.unread = {} /\ o.tags = {}
  /\ o.pc = "insert" => o.cur # None
  /\ o.pc = "entries" => o.cur \in Lists \cap (db.list \cup o.list)
  /\ o.rest # <<>> => o.pc = "entries" /\ o.cur \in o.list
  /\ o.pc \in InTransaction => o.unread = {}

(* The rows that o refers to are in the database, or o has inserted them;  *)
(* and the lists that it has inserted are its own.                         *)
RowsExist(o) ==
  /\ DigestsOf(o.imageTag) \subseteq db.image \cup o.image
  /\ DigestsOf(o.listTag) \subseteq db.list \cup o.list
  /\ \A w \in o.work : w.what = "set" => w.digest \in db.image \cup db.list
  /\ o.listEntry \subseteq o.list \X (db.image \cup o.image)
  /\ o.list \cap db.list = {}

(* The lists that o has inserted have all their entries, except for the    *)
(* images of the current one that are still to be inserted.                *)
OpenListsComplete(o) ==
  \A l \in o.list : \A i \in Images :
    i \in Elements(Contents[l]) <=> <<l, i>> \in o.listEntry \/ (l = o.cur /\ i \in Elements(o.rest))

OperationOK(r, o) == o \in Operation /\ Control(r, o) /\ RowsExist(o) /\ OpenListsComplete(o)

(* No two transactions have inserted the same list. *)
ListsApart == \A r, q \in Repos : r # q => op[r].list \cap op[q].list = {}

SyncInv ==
  /\ TypeOK
  /\ exclusive => busy = {}
  /\ \A r \in Repos : OperationOK(r, op[r])
  /\ ListsApart
  /\ ForeignKeys
  /\ ListsComplete

(* A step of the fetch of r that ends neither the fetch nor its            *)
(* transaction: only the operation of r changes, to o.                     *)
Local(r, o) ==
  /\ op' = [op EXCEPT ![r] = o]
  /\ UNCHANGED <<poolVars, registry, unnotified, missed, db>>

-----------------------------------------------------------------------------
(* The entries of a list, as rows of listEntry. *)
LEMMA EntriesAreRows ==
  ASSUME TypeOK, NEW l, NEW i
  PROVE  i \in EntriesOf(l) <=> <<l, i>> \in db.listEntry
<1>1. \A e \in db.listEntry : e = <<e[1], e[2]>>
  BY DEF TypeOK, Tables
<1> QED
  BY <1>1 DEF EntriesOf

(* ListsComplete in terms of the rows of listEntry. *)
CompleteRows ==
  \A l \in db.list : \A i \in Images : i \in Elements(Contents[l]) <=> <<l, i>> \in db.listEntry

(* The two say the same. *)
LEMMA CompleteAsRows == TypeOK => (ListsComplete <=> CompleteRows)
<1> SUFFICES ASSUME TypeOK PROVE ListsComplete <=> CompleteRows
  OBVIOUS
<1>1. ASSUME NEW l \in db.list
      PROVE  /\ EntriesOf(l) \subseteq Images
             /\ Elements(Contents[l]) \subseteq Images
             /\ \A i : i \in EntriesOf(l) <=> <<l, i>> \in db.listEntry
  <2>1. l \in Lists /\ Contents[l] \in Seq(Images)
    BY ContentsAssumption DEF TypeOK, Tables
  <2>2. Elements(Contents[l]) \subseteq Images
    BY <2>1 DEF Elements
  <2>3. \A i : i \in EntriesOf(l) <=> <<l, i>> \in db.listEntry
    BY EntriesAreRows
  <2>4. ASSUME NEW i, <<l, i>> \in db.listEntry PROVE i \in Images
    BY <2>4 DEF TypeOK, Tables
  <2> QED
    BY <2>2, <2>3, <2>4
<1> QED
  BY <1>1 DEF ListsComplete, CompleteRows, Elements

(* A step of the fetch of r preserves the invariant, if what it leaves of  *)
(* the operation is as the invariant says.                                 *)
LEMMA LocalStep ==
  ASSUME SyncInv, NEW r \in Repos, NEW o, Local(r, o), OperationOK(r, o),
         \A q \in Repos : q # r => o.list \cap op[q].list = {}
  PROVE  SyncInv'
<1>1. UNCHANGED <<urgent, background, busy, exclusive, registry, unnotified, missed, db>>
  BY DEF Local, poolVars
<1>2. op' = [op EXCEPT ![r] = o] /\ o \in Operation /\ op \in [Repos -> Operation]
  BY DEF Local, OperationOK, SyncInv, TypeOK
<1>3. TypeOK'
  BY <1>1, <1>2 DEF SyncInv, TypeOK, QueueTypeOK
<1>4. \A q \in Repos : op'[q] = IF q = r THEN o ELSE op[q]
  BY <1>2
<1>5. \A q \in Repos : OperationOK(q, op'[q])
  BY <1>4 DEF SyncInv
<1>6. (\A q \in Repos : OperationOK(q, op[q]))'
  BY <1>1, <1>5 DEF OperationOK, Control, RowsExist, OpenListsComplete
<1>7. ListsApart'
  BY <1>4 DEF SyncInv, ListsApart
<1>8. (exclusive => busy = {})' /\ ForeignKeys' /\ ListsComplete'
  BY <1>1 DEF SyncInv, ForeignKeys, ListsComplete, EntriesOf
<1> QED
  BY <1>3, <1>6, <1>7, <1>8 DEF SyncInv
-----------------------------------------------------------------------------
(* The operators of Postgres keep to the rows they are given. *)
LEMMA SetTagsType ==
  ASSUME NEW D, NEW d \in D, NEW rows \in SUBSET (Tags \X D), NEW tags \in SUBSET Tags
  PROVE  /\ setTags(rows, d, tags) \in SUBSET (Tags \X D)
         /\ DigestsOf(setTags(rows, d, tags)) \subseteq DigestsOf(rows) \cup {d}
BY DEF setTags, DigestsOf

(* DeleteImage and DeleteImageList only take rows away. *)
LEMMA DeleteDigestType ==
  ASSUME NEW rows, NEW d
  PROVE  deleteDigest(rows, d) \subseteq rows /\ DigestsOf(deleteDigest(rows, d)) \subseteq DigestsOf(rows)
BY DEF deleteDigest, DigestsOf

(* What planUpdate plans: digests of the registry to store or to set, and  *)
(* digests that the query returned to set or to delete.                    *)
LEMMA PlanType ==
  ASSUME NEW table, NEW old, NEW rows, NEW w \in planUpdate(table, old, rows)
  PROVE  /\ w = [what |-> w.what, digest |-> w.digest]
         /\ w.what \in {"store", "set", "delete"}
         /\ w.what # "store" => w.digest \in old
         /\ w.what # "delete" => w.digest \in DigestsOf(rows)
BY DEF planUpdate

(* The plans of QueryImages and QueryLists are sets of units of work.  *)
LEMMA PlanIsWork ==
  ASSUME TypeOK, NEW r \in Repos
  PROVE  /\ planUpdate(db.imageTag, doImageQuery(db, r), ImageRows(op[r].tags)) \subseteq [what : {"store", "set", "delete"}, digest : Images]
         /\ planUpdate(db.listTag, doListQuery(db, r), ListRows(op[r].tags)) \subseteq [what : {"store", "set", "delete"}, digest : Lists]
<1>1. DigestsOf(db.imageTag[r]) \subseteq Images /\ DigestsOf(db.listTag[r]) \subseteq Lists
  BY DEF TypeOK, Tables, DigestsOf
<1>2. DigestsOf(ImageRows(op[r].tags)) \subseteq Images /\ DigestsOf(ListRows(op[r].tags)) \subseteq Lists
  BY DEF DigestsOf, ImageRows, ListRows
<1>3. doImageQuery(db, r) \subseteq Images /\ doListQuery(db, r) \subseteq Lists
  BY <1>1 DEF doImageQuery, doListQuery
<1>4. ASSUME NEW D, NEW table, NEW old \in SUBSET D, NEW rows, DigestsOf(rows) \subseteq D
      PROVE  planUpdate(table, old, rows) \subseteq [what : {"store", "set", "delete"}, digest : D]
  BY <1>4, PlanType
<1> QED
  BY <1>2, <1>3, <1>4

(* withTags changes the rows of one digest, and nothing else. *)
LEMMA WithTagsType ==
  ASSUME NEW r \in Repos, op[r] \in Operation, NEW d \in Images \cup Lists
  PROVE  \E a \in SUBSET (Tags \X Images), b \in SUBSET (Tags \X Lists) :
           /\ withTags(r, d) = [op[r] EXCEPT !.imageTag = a, !.listTag = b]
           /\ DigestsOf(a) \subseteq DigestsOf(op[r].imageTag) \cup ({d} \cap Images)
           /\ DigestsOf(b) \subseteq DigestsOf(op[r].listTag) \cup ({d} \cap Lists)
<1> DEFINE tags == TagsFor(op[r].tags, d)
<1>1. tags \in SUBSET Tags
  BY DEF TagsFor
<1>2. op[r].imageTag \in SUBSET (Tags \X Images) /\ op[r].listTag \in SUBSET (Tags \X Lists)
  BY DEF Operation
<1>3. CASE d \in Images
  <2> DEFINE a == setTags(op[r].imageTag, d, tags)
  <2>1. a \in SUBSET (Tags \X Images) /\ DigestsOf(a) \subseteq DigestsOf(op[r].imageTag) \cup {d}
    <3> HIDE DEF tags
    <3> QED
      BY <1>1, <1>2, <1>3, SetTagsType
  <2>2. withTags(r, d) = [op[r] EXCEPT !.imageTag = a, !.listTag = op[r].listTag]
    BY <1>3 DEF withTags, Operation
  <2> HIDE DEF a
  <2> QED
    BY <1>2, <1>3, <2>1, <2>2
<1>4. CASE d \notin Images
  <2> DEFINE b == setTags(op[r].listTag, d, tags)
  <2>1. b \in SUBSET (Tags \X Lists) /\ DigestsOf(b) \subseteq DigestsOf(op[r].listTag) \cup {d}
    <3>1. d \in Lists
      BY <1>4
    <3> HIDE DEF tags
    <3> QED
      BY <1>1, <1>2, <3>1, SetTagsType
  <2>2. withTags(r, d) = [op[r] EXCEPT !.imageTag = op[r].imageTag, !.listTag = b]
    BY <1>4 DEF withTags, Operation
  <2> HIDE DEF b
  <2> QED
    BY <1>2, <1>4, <2>1, <2>2
<1> QED
  BY <1>3, <1>4
-----------------------------------------------------------------------------
(* The steps of a fetch.  Each lemma gives the operation that the step     *)
(* leaves, and shows that it is as the invariant says.                     *)

(* A step that leaves alone the uncommitted rows and what is being stored. *)
LEMMA SameRows ==
  ASSUME NEW p, NEW o, OpenListsComplete(p),
         o.list = p.list, o.listEntry = p.listEntry, o.rest = p.rest, o.cur = p.cur \/ p.rest = <<>>
  PROVE  OpenListsComplete(o)
<1>1. Elements(<<>>) = {}
  BY DEF Elements
<1>2. ASSUME NEW l, NEW i
      PROVE  (l = o.cur /\ i \in Elements(o.rest)) <=> (l = p.cur /\ i \in Elements(p.rest))
  BY <1>1
<1> QED
  BY <1>2 DEF OpenListsComplete

(* ListTags preserves the invariant. *)
LEMMA ListTagsStep ==
  ASSUME SyncInv, NEW r \in Repos, ListTags(r)
  PROVE  SyncInv'
<1> DEFINE o == [op[r] EXCEPT !.pc = "get", !.unread = {row[1] : row \in registry[r]}]
<1>1. op[r] \in Operation /\ Control(r, op[r]) /\ RowsExist(op[r]) /\ OpenListsComplete(op[r]) /\ op[r].pc = "all"
  BY DEF SyncInv, OperationOK, ListTags
<1>2. Local(r, o)
  BY DEF ListTags, Local, SyncInv, TypeOK
<1>3. {row[1] : row \in registry[r]} \in SUBSET Tags
  BY DEF SyncInv, TypeOK
<1>4. o \in Operation
  BY <1>1, <1>3 DEF Operation, Places
<1>5. Control(r, o)
  BY <1>1 DEF Control, Operation, NoOperation, InTransaction
<1>6. RowsExist(o) /\ o.list = op[r].list
  BY <1>1 DEF RowsExist, Operation
<1>7. OpenListsComplete(o)
  BY <1>1, SameRows DEF Operation
<1> HIDE DEF o
<1> QED
  BY <1>2, <1>4, <1>5, <1>6, <1>7, LocalStep DEF OperationOK, SyncInv, ListsApart

(* GetTag preserves the invariant. *)
LEMMA GetTagStep ==
  ASSUME SyncInv, NEW r \in Repos, NEW t \in Tags, GetTag(r, t)
  PROVE  SyncInv'
<1>1. op[r] \in Operation /\ Control(r, op[r]) /\ RowsExist(op[r]) /\ OpenListsComplete(op[r]) /\ op[r].pc = "get"
  BY DEF SyncInv, OperationOK, GetTag
<1>2. PICK d \in Digests : Local(r, [op[r] EXCEPT !.unread = @ \ {t}, !.tags = @ \cup ({t} \X ({d} \ Others))])
  BY DEF GetTag, Local, SyncInv, TypeOK
<1> DEFINE o == [op[r] EXCEPT !.unread = @ \ {t}, !.tags = @ \cup ({t} \X ({d} \ Others))]
<1>3. {t} \X ({d} \ Others) \subseteq Tags \X (Images \cup Lists)
  BY DEF Digests
<1>4. o \in Operation
  BY <1>1, <1>3 DEF Operation, Places
<1>5. Control(r, o)
  BY <1>1 DEF Control, Operation, NoOperation, InTransaction
<1>6. RowsExist(o) /\ o.list = op[r].list
  BY <1>1 DEF RowsExist, Operation
<1>7. OpenListsComplete(o)
  BY <1>1, SameRows DEF Operation
<1>8. Local(r, o)
  BY <1>2
<1> HIDE DEF o
<1> QED
  BY <1>4, <1>5, <1>6, <1>7, <1>8, LocalStep DEF OperationOK, SyncInv, ListsApart

(* QueryImages preserves the invariant: the rows of the repository that    *)
(* the transaction starts from obey the references of the schema.          *)
LEMMA QueryImagesStep ==
  ASSUME SyncInv, NEW r \in Repos, QueryImages(r)
  PROVE  SyncInv'
<1> DEFINE plan == planUpdate(db.imageTag, doImageQuery(db, r), ImageRows(op[r].tags))
           o == [op[r] EXCEPT !.pc = "lists", !.imageTag = db.imageTag[r], !.listTag = db.listTag[r], !.work = plan]
<1>1. op[r] \in Operation /\ Control(r, op[r]) /\ RowsExist(op[r]) /\ OpenListsComplete(op[r])
  BY DEF SyncInv, OperationOK
<1>2. Local(r, o) /\ op[r].pc = "get" /\ op[r].unread = {}
  BY DEF QueryImages, Local, SyncInv, TypeOK
<1>3. db.imageTag[r] \in SUBSET (Tags \X Images) /\ db.listTag[r] \in SUBSET (Tags \X Lists)
  BY DEF SyncInv, TypeOK, Tables
<1>4. plan \subseteq Work
  BY PlanIsWork DEF SyncInv, Work
<1>5. \A w \in plan : w.what = "set" => w.digest \in db.image
  <2>1. doImageQuery(db, r) \subseteq db.image
    BY DEF SyncInv, ForeignKeys, doImageQuery
  <2> QED
    BY <2>1, PlanType
<1> HIDE DEF plan
<1>6. o \in Operation
  BY <1>1, <1>3, <1>4 DEF Operation, Places
<1>7. Control(r, o)
  BY <1>1, <1>2 DEF Control, Operation, NoOperation, InTransaction
<1>8. RowsExist(o) /\ o.list = op[r].list
  BY <1>1, <1>5 DEF RowsExist, Operation, SyncInv, ForeignKeys
<1>9. OpenListsComplete(o)
  BY <1>1, SameRows DEF Operation
<1> HIDE DEF o
<1> QED
  BY <1>2, <1>6, <1>7, <1>8, <1>9, LocalStep DEF OperationOK, SyncInv, ListsApart

(* QueryLists preserves the invariant. *)
LEMMA QueryListsStep ==
  ASSUME SyncInv, NEW r \in Repos, QueryLists(r)
  PROVE  SyncInv'
<1> DEFINE plan == planUpdate(db.listTag, doListQuery(db, r), ListRows(op[r].tags))
           o == [op[r] EXCEPT !.pc = "update", !.work = @ \cup plan]
<1>1. op[r] \in Operation /\ Control(r, op[r]) /\ RowsExist(op[r]) /\ OpenListsComplete(op[r])
  BY DEF SyncInv, OperationOK
<1>2. Local(r, o) /\ op[r].pc = "lists"
  BY DEF QueryLists, Local, SyncInv, TypeOK
<1>3. plan \subseteq Work
  BY PlanIsWork DEF SyncInv, Work
<1>4. \A w \in plan : w.what = "set" => w.digest \in db.list
  <2>1. doListQuery(db, r) \subseteq db.list
    BY DEF SyncInv, ForeignKeys, doListQuery
  <2> QED
    BY <2>1, PlanType
<1> HIDE DEF plan
<1>5. o \in Operation
  BY <1>1, <1>3 DEF Operation, Places
<1>6. Control(r, o)
  BY <1>1, <1>2 DEF Control, Operation, NoOperation, InTransaction
<1>7. RowsExist(o) /\ o.list = op[r].list
  BY <1>1, <1>4 DEF RowsExist, Operation
<1>8. OpenListsComplete(o)
  BY <1>1, SameRows DEF Operation
<1> HIDE DEF o
<1> QED
  BY <1>2, <1>5, <1>6, <1>7, <1>8, LocalStep DEF OperationOK, SyncInv, ListsApart
(* SetTags preserves the invariant: the digest whose tags are set has a    *)
(* row, because the query returned it and nobody deletes rows meanwhile.   *)
LEMMA SetTagsStep ==
  ASSUME SyncInv, NEW r \in Repos, SetTags(r)
  PROVE  SyncInv'
<1>1. op[r] \in Operation /\ Control(r, op[r]) /\ RowsExist(op[r]) /\ OpenListsComplete(op[r]) /\ op[r].pc = "update"
  BY DEF SyncInv, OperationOK, SetTags
<1>2. PICK w \in op[r].work :
        /\ w.what = "set"
        /\ Local(r, [withTags(r, w.digest) EXCEPT !.work = @ \ {w}])
  BY DEF SetTags, nextWork, Local
<1>3. w.digest \in Images \cup Lists /\ w.digest \in db.image \cup db.list
  BY <1>1, <1>2 DEF RowsExist, Operation, Work
<1>4. {w.digest} \cap Images \subseteq db.image /\ {w.digest} \cap Lists \subseteq db.list
  BY <1>3, DigestAssumption DEF SyncInv, TypeOK, Tables
<1>5. PICK a \in SUBSET (Tags \X Images), b \in SUBSET (Tags \X Lists) :
        /\ withTags(r, w.digest) = [op[r] EXCEPT !.imageTag = a, !.listTag = b]
        /\ DigestsOf(a) \subseteq DigestsOf(op[r].imageTag) \cup ({w.digest} \cap Images)
        /\ DigestsOf(b) \subseteq DigestsOf(op[r].listTag) \cup ({w.digest} \cap Lists)
  BY <1>1, <1>3, WithTagsType
<1> DEFINE o == [op[r] EXCEPT !.imageTag = a, !.listTag = b, !.work = @ \ {w}]
<1>6. Local(r, o)
  BY <1>1, <1>2, <1>5 DEF Operation
<1>7. o \in Operation
  BY <1>1 DEF Operation
<1>8. Control(r, o)
  BY <1>1 DEF Control, Operation, InTransaction
<1>9. RowsExist(o) /\ o.list = op[r].list
  <2>1. /\ o.imageTag = a /\ o.listTag = b /\ o.work \subseteq op[r].work
        /\ o.image = op[r].image /\ o.list = op[r].list /\ o.listEntry = op[r].listEntry
    BY <1>1 DEF Operation
  <2> HIDE DEF o
  <2> QED
    BY <1>1, <1>4, <1>5, <2>1 DEF RowsExist
<1>10. OpenListsComplete(o)
  BY <1>1, SameRows DEF Operation
<1> HIDE DEF o
<1> QED
  BY <1>6, <1>7, <1>8, <1>9, <1>10, LocalStep DEF OperationOK, SyncInv, ListsApart

(* DeleteDigest preserves the invariant. *)
LEMMA DeleteDigestStep ==
  ASSUME SyncInv, NEW r \in Repos, DeleteDigest(r)
  PROVE  SyncInv'
<1>1. op[r] \in Operation /\ Control(r, op[r]) /\ RowsExist(op[r]) /\ OpenListsComplete(op[r]) /\ op[r].pc = "update"
  BY DEF SyncInv, OperationOK, DeleteDigest
<1>2. PICK w \in op[r].work :
        Local(r, [op[r] EXCEPT !.work = @ \ {w}, !.imageTag = deleteDigest(@, w.digest),
                               !.listTag = deleteDigest(@, w.digest)])
  BY DEF DeleteDigest, nextWork, Local, SyncInv, TypeOK
<1> DEFINE a == deleteDigest(op[r].imageTag, w.digest)
           b == deleteDigest(op[r].listTag, w.digest)
           o == [op[r] EXCEPT !.imageTag = a, !.listTag = b, !.work = @ \ {w}]
<1>3. /\ a \subseteq op[r].imageTag /\ DigestsOf(a) \subseteq DigestsOf(op[r].imageTag)
      /\ b \subseteq op[r].listTag /\ DigestsOf(b) \subseteq DigestsOf(op[r].listTag)
  BY DeleteDigestType
<1>4. Local(r, o)
  BY <1>1, <1>2 DEF Operation
<1> HIDE DEF a, b
<1>5. o \in Operation
  BY <1>1, <1>3 DEF Operation
<1>6. Control(r, o)
  BY <1>1 DEF Control, Operation, InTransaction
<1>7. RowsExist(o) /\ o.list = op[r].list
  <2>1. /\ o.imageTag = a /\ o.listTag = b /\ o.work \subseteq op[r].work
        /\ o.image = op[r].image /\ o.list = op[r].list /\ o.listEntry = op[r].listEntry
    BY <1>1 DEF Operation
  <2> HIDE DEF o
  <2> QED
    BY <1>1, <1>3, <2>1 DEF RowsExist
<1>8. OpenListsComplete(o)
  BY <1>1, SameRows DEF Operation
<1> HIDE DEF o
<1> QED
  BY <1>4, <1>5, <1>6, <1>7, <1>8, LocalStep DEF OperationOK, SyncInv, ListsApart

(* FetchManifest preserves the invariant. *)
LEMMA FetchManifestStep ==
  ASSUME SyncInv, NEW r \in Repos, FetchManifest(r)
  PROVE  SyncInv'
<1>1. op[r] \in Operation /\ Control(r, op[r]) /\ RowsExist(op[r]) /\ OpenListsComplete(op[r]) /\ op[r].pc = "update"
  BY DEF SyncInv, OperationOK, FetchManifest
<1>2. PICK w \in op[r].work : Local(r, [op[r] EXCEPT !.pc = "insert", !.cur = w.digest, !.work = @ \ {w}])
  BY DEF FetchManifest, nextWork, Local, SyncInv, TypeOK
<1> DEFINE o == [op[r] EXCEPT !.pc = "insert", !.cur = w.digest, !.work = @ \ {w}]
<1>3. Local(r, o)
  BY <1>2
<1>4. w.digest \in Images \cup Lists /\ w.digest # None
  BY <1>1, DigestAssumption DEF Operation, Work, Digests
<1>5. o \in Operation
  BY <1>1, <1>4 DEF Operation, Places
<1>6. Control(r, o)
  BY <1>1, <1>4 DEF Control, Operation, InTransaction
<1>7. RowsExist(o) /\ o.list = op[r].list
  BY <1>1 DEF RowsExist, Operation
<1>8. OpenListsComplete(o)
  <2>1. op[r].rest = <<>>
    BY <1>1 DEF Control
  <2> QED
    BY <1>1, <2>1, SameRows DEF Operation
<1> HIDE DEF o
<1> QED
  BY <1>3, <1>5, <1>6, <1>7, <1>8, LocalStep DEF OperationOK, SyncInv, ListsApart

(* StoreImage preserves the invariant: the image has a row afterwards,     *)
(* whether or not the INSERT found one.                                    *)
LEMMA StoreImageStep ==
  ASSUME SyncInv, NEW r \in Repos, StoreImage(r)
  PROVE  SyncInv'
<1> DEFINE i == op[r].cur
<1>1. /\ op[r] \in Operation /\ Control(r, op[r]) /\ RowsExist(op[r]) /\ OpenListsComplete(op[r])
      /\ op[r].pc = "insert" /\ i \in Images
      /\ Local(r, [withTags(r, i) EXCEPT !.pc = "update", !.cur = None, !.image = @ \cup ({i} \ db.image)])
  BY DEF SyncInv, OperationOK, StoreImage, Local
<1>2. PICK a \in SUBSET (Tags \X Images), b \in SUBSET (Tags \X Lists) :
        /\ withTags(r, i) = [op[r] EXCEPT !.imageTag = a, !.listTag = b]
        /\ DigestsOf(a) \subseteq DigestsOf(op[r].imageTag) \cup ({i} \cap Images)
        /\ DigestsOf(b) \subseteq DigestsOf(op[r].listTag) \cup ({i} \cap Lists)
  <2>1. i \in Images \cup Lists
    BY <1>1
  <2> HIDE DEF i
  <2> QED
    BY <1>1, <2>1, WithTagsType
<1> DEFINE o == [op[r] EXCEPT !.imageTag = a, !.listTag = b, !.pc = "update", !.cur = None,
                              !.image = @ \cup ({i} \ db.image)]
<1>3. Local(r, o)
  BY <1>1, <1>2 DEF Operation
<1>4. o \in Operation
  BY <1>1 DEF Operation, Places
<1>5. Control(r, o)
  BY <1>1 DEF Control, Operation, InTransaction
<1>6. RowsExist(o) /\ o.list = op[r].list
  <2>1. /\ o.imageTag = a /\ o.listTag = b /\ o.work = op[r].work
        /\ o.image = op[r].image \cup ({i} \ db.image) /\ o.list = op[r].list /\ o.listEntry = op[r].listEntry
    BY <1>1 DEF Operation
  <2>2. {i} \cap Lists = {}
    BY <1>1, DigestAssumption
  <2> HIDE DEF o, i
  <2> QED
    BY <1>1, <1>2, <2>1, <2>2 DEF RowsExist
<1>7. OpenListsComplete(o)
  <2>1. op[r].rest = <<>>
    BY <1>1 DEF Control
  <2> QED
    BY <1>1, <2>1, SameRows DEF Operation
<1> HIDE DEF o
<1> QED
  BY <1>3, <1>4, <1>5, <1>6, <1>7, LocalStep DEF OperationOK, SyncInv, ListsApart
(* InsertList preserves the invariant: the transaction waits until nobody  *)
(* else has inserted the list, so the row, if it is new, is its own, and   *)
(* it has no entries yet.                                                  *)
LEMMA InsertListStep ==
  ASSUME SyncInv, NEW r \in Repos, InsertList(r)
  PROVE  SyncInv'
<1> DEFINE l == op[r].cur
           images == IF l \in db.list THEN <<>> ELSE Contents[l]
           o == [op[r] EXCEPT !.pc = "entries", !.list = @ \cup ({l} \ db.list), !.rest = images]
<1>1. /\ op[r] \in Operation /\ Control(r, op[r]) /\ RowsExist(op[r]) /\ OpenListsComplete(op[r])
      /\ op[r].pc = "insert" /\ l \in Lists /\ ~blocked(r)
  BY DEF SyncInv, OperationOK, InsertList
<1>2. Local(r, o)
  BY DEF InsertList, Local, SyncInv, TypeOK
<1>3. Contents[l] \in Seq(Images) /\ images \in Seq(Images)
  BY <1>1, ContentsAssumption
<1>4. \A q \in Repos : q # r => l \notin op[q].list
  BY <1>1 DEF blocked, waitsFor, wanted
<1>5. op[r].rest = <<>> /\ Elements(<<>>) = {}
  BY <1>1 DEF Control, Elements
<1>6. /\ o.list = op[r].list \cup ({l} \ db.list) /\ o.rest = images /\ o.cur = l /\ o.pc = "entries"
      /\ o.imageTag = op[r].imageTag /\ o.listTag = op[r].listTag /\ o.work = op[r].work
      /\ o.image = op[r].image /\ o.listEntry = op[r].listEntry /\ o.unread = op[r].unread
  BY <1>1 DEF Operation
<1>7. o \in Operation
  BY <1>1, <1>3 DEF Operation, Places
<1>8. Control(r, o)
  BY <1>1, <1>6 DEF Control, InTransaction
<1>9. RowsExist(o)
  BY <1>1, <1>6 DEF RowsExist
<1>10. OpenListsComplete(o)
  <2> SUFFICES ASSUME NEW m \in o.list, NEW i \in Images
               PROVE  i \in Elements(Contents[m]) <=> <<m, i>> \in o.listEntry \/ (m = o.cur /\ i \in Elements(o.rest))
    BY DEF OpenListsComplete
  <2>1. CASE m \in op[r].list
    <3>1. i \in Elements(Contents[m]) <=> <<m, i>> \in op[r].listEntry
      BY <1>1, <1>5, <2>1 DEF OpenListsComplete
    <3>2. m \notin db.list
      BY <1>1, <2>1 DEF RowsExist
    <3>3. m = l => images = Contents[m]
      BY <3>2
    <3> QED
      BY <1>6, <3>1, <3>3
  <2>2. CASE m \notin op[r].list
    <3>1. m = l /\ l \notin db.list /\ images = Contents[m]
      BY <1>6, <2>2
    <3>2. <<m, i>> \notin op[r].listEntry
      BY <1>1, <2>2 DEF RowsExist
    <3> QED
      BY <1>6, <3>1, <3>2
  <2> QED
    BY <2>1, <2>2
<1>11. \A q \in Repos : q # r => o.list \cap op[q].list = {}
  BY <1>4, <1>6 DEF SyncInv, ListsApart
<1> HIDE DEF o
<1> QED
  BY <1>2, <1>7, <1>8, <1>9, <1>10, <1>11, LocalStep DEF OperationOK

(* InsertEntry preserves the invariant: the entry is of a list of this     *)
(* transaction, and its image has a row.                                   *)
LEMMA InsertEntryStep ==
  ASSUME SyncInv, NEW r \in Repos, InsertEntry(r)
  PROVE  SyncInv'
<1> DEFINE l == op[r].cur
           i == Head(op[r].rest)
           o == [op[r] EXCEPT !.rest = Tail(@), !.image = @ \cup ({i} \ db.image), !.listEntry = @ \cup {<<l, i>>}]
<1>1. /\ op[r] \in Operation /\ Control(r, op[r]) /\ RowsExist(op[r]) /\ OpenListsComplete(op[r])
      /\ op[r].pc = "entries" /\ op[r].rest # <<>> /\ op[r].rest \in Seq(Images)
  BY DEF SyncInv, OperationOK, InsertEntry, Operation
<1>2. Local(r, o)
  BY DEF InsertEntry, Local, SyncInv, TypeOK
<1>3. i \in Images /\ Tail(op[r].rest) \in Seq(Images)
  BY <1>1, HeadTailProperties
<1>4. Elements(op[r].rest) = {i} \cup Elements(Tail(op[r].rest))
  <2> DEFINE s == op[r].rest
             t == Tail(s)
  <2>1. Len(s) \in Nat \ {0} /\ DOMAIN s = 1..Len(s)
    BY <1>1, EmptySeq, LenProperties
  <2>2. Len(t) = Len(s) - 1 /\ DOMAIN t = 1..Len(t) /\ \A n \in 1..Len(t) : t[n] = s[n + 1]
    BY <1>1, <1>3, HeadTailProperties, LenProperties
  <2>3. i = s[1]
    BY <1>1, <2>1
  <2> HIDE DEF t, s, i
  <2>4. Elements(t) \subseteq Elements(s) /\ i \in Elements(s)
    BY <2>1, <2>2, <2>3 DEF Elements
  <2>5. ASSUME NEW n \in 1..Len(s) PROVE s[n] \in {i} \cup Elements(t)
    <3>1. CASE n = 1
      BY <2>3, <3>1
    <3>2. CASE n # 1
      <4>1. n - 1 \in 1..Len(t) /\ (n - 1) + 1 = n
        BY <2>1, <2>2, <3>2
      <4>2. t[n - 1] = s[n]
        BY <2>2, <4>1
      <4> QED
        BY <2>2, <4>1, <4>2 DEF Elements
    <3> QED
      BY <3>1, <3>2
  <2>6. Elements(s) \subseteq {i} \cup Elements(t)
    BY <2>1, <2>5 DEF Elements
  <2> QED
    BY <2>4, <2>6 DEF s, t
<1>5. l \in Lists /\ l \in op[r].list
  BY <1>1 DEF Control
<1> HIDE DEF i, l
<1>6. /\ o.listEntry = op[r].listEntry \cup {<<l, i>>} /\ o.rest = Tail(op[r].rest) /\ o.cur = op[r].cur
      /\ o.imageTag = op[r].imageTag /\ o.listTag = op[r].listTag /\ o.work = op[r].work
      /\ o.image = op[r].image \cup ({i} \ db.image) /\ o.list = op[r].list
  BY <1>1 DEF Operation
<1>7. o \in Operation
  <2>1. /\ op[r].image \cup ({i} \ db.image) \in SUBSET Images
        /\ op[r].listEntry \cup {<<l, i>>} \in SUBSET (Lists \X Images)
    BY <1>1, <1>3, <1>5 DEF Operation
  <2> QED
    BY <1>1, <1>3, <2>1 DEF Operation
<1>8. Control(r, o)
  BY <1>1, <1>5 DEF Control, Operation, InTransaction, l
<1>9. RowsExist(o)
  BY <1>1, <1>5, <1>6 DEF RowsExist
<1>10. OpenListsComplete(o)
  BY <1>1, <1>4, <1>6 DEF OpenListsComplete, l
<1> HIDE DEF o
<1> QED
  BY <1>2, <1>6, <1>7, <1>8, <1>9, <1>10, LocalStep DEF OperationOK, SyncInv, ListsApart

(* TagList preserves the invariant: all entries of the list are there. *)
LEMMA TagListStep ==
  ASSUME SyncInv, NEW r \in Repos, TagList(r)
  PROVE  SyncInv'
<1> DEFINE l == op[r].cur
<1>1. /\ op[r] \in Operation /\ Control(r, op[r]) /\ RowsExist(op[r]) /\ OpenListsComplete(op[r])
      /\ op[r].pc = "entries" /\ op[r].rest = <<>>
      /\ Local(r, [withTags(r, l) EXCEPT !.pc = "update", !.cur = None])
  BY DEF SyncInv, OperationOK, TagList, Local
<1>2. l \in Lists /\ l \in db.list \cup op[r].list /\ {l} \cap Images = {}
  BY <1>1, DigestAssumption DEF Control
<1>3. PICK a \in SUBSET (Tags \X Images), b \in SUBSET (Tags \X Lists) :
        /\ withTags(r, l) = [op[r] EXCEPT !.imageTag = a, !.listTag = b]
        /\ DigestsOf(a) \subseteq DigestsOf(op[r].imageTag) \cup ({l} \cap Images)
        /\ DigestsOf(b) \subseteq DigestsOf(op[r].listTag) \cup ({l} \cap Lists)
  <2>1. l \in Images \cup Lists
    BY <1>2
  <2> HIDE DEF l
  <2> QED
    BY <1>1, <2>1, WithTagsType
<1> DEFINE o == [op[r] EXCEPT !.imageTag = a, !.listTag = b, !.pc = "update", !.cur = None]
<1>4. Local(r, o)
  BY <1>1, <1>3 DEF Operation
<1>5. o \in Operation
  BY <1>1 DEF Operation, Places
<1>6. Control(r, o)
  BY <1>1 DEF Control, Operation, InTransaction
<1>7. RowsExist(o) /\ o.list = op[r].list
  <2>1. /\ o.imageTag = a /\ o.listTag = b /\ o.work = op[r].work
        /\ o.image = op[r].image /\ o.list = op[r].list /\ o.listEntry = op[r].listEntry
    BY <1>1 DEF Operation
  <2> HIDE DEF o, l
  <2> QED
    BY <1>1, <1>2, <1>3, <2>1 DEF RowsExist
<1>8. OpenListsComplete(o)
  BY <1>1, SameRows DEF Operation
<1> HIDE DEF o
<1> QED
  BY <1>4, <1>5, <1>6, <1>7, <1>8, LocalStep DEF OperationOK, SyncInv, ListsApart
-----------------------------------------------------------------------------
(* The start and the end of a fetch, and the other steps. *)

(* The operation of a repository that is not being fetched. *)
LEMMA NoOperationOK ==
  ASSUME NEW r, r \notin busy
  PROVE  OperationOK(r, NoOperation)
<1>1. NoOperation \in Operation
  BY DEF NoOperation, Operation, Places
<1>2. Control(r, NoOperation)
  BY DEF Control, NoOperation, InTransaction
<1>3. RowsExist(NoOperation) /\ OpenListsComplete(NoOperation)
  BY DEF RowsExist, OpenListsComplete, NoOperation, DigestsOf
<1> QED
  BY <1>1, <1>2, <1>3 DEF OperationOK

(* Init establishes the invariant. *)
LEMMA InvInit == Init => SyncInv
<1> SUFFICES ASSUME Init PROVE SyncInv
  OBVIOUS
<1>1. \A r \in Repos : OperationOK(r, op[r]) /\ op[r] = NoOperation
  BY NoOperationOK DEF Init, QueueInit
<1>2. TypeOK
  <2>1. EmptyTables \in Tables
    BY DEF EmptyTables, Tables
  <2>2. QueueTypeOK
    BY Zenon DEF Init, QueueInit, QueueTypeOK
  <2> QED
    BY <1>1, <2>1, <2>2 DEF Init, TypeOK, OperationOK
<1>3. ListsApart
  BY <1>1 DEF ListsApart, NoOperation
<1>4. ForeignKeys /\ ListsComplete
  BY DEF Init, EmptyTables, ForeignKeys, ListsComplete, DigestsOf
<1> QED
  BY <1>1, <1>2, <1>3, <1>4 DEF SyncInv, Init, QueueInit

(* A step that changes neither the tables, the operations nor the          *)
(* repositories in work preserves the invariant.                           *)
LEMMA OutsideStep ==
  ASSUME SyncInv, UNCHANGED <<db, op, busy>>, TypeOK', exclusive' => exclusive \/ busy = {}
  PROVE  SyncInv'
<1>1. (\A r \in Repos : OperationOK(r, op[r]))'
  BY DEF SyncInv, OperationOK, Control, RowsExist, OpenListsComplete
<1>2. ListsApart' /\ ForeignKeys' /\ ListsComplete'
  BY DEF SyncInv, ListsApart, ForeignKeys, ListsComplete, EntriesOf
<1> QED
  BY <1>1, <1>2 DEF SyncInv

(* StartFetch preserves the invariant. *)
LEMMA StartFetchStep ==
  ASSUME SyncInv, NEW r \in Repos, StartFetch(r)
  PROVE  SyncInv'
<1>1. /\ ~exclusive /\ r \notin busy /\ busy' = busy \cup {r} /\ UNCHANGED <<exclusive, registry, unnotified, db>>
      /\ urgent' \subseteq urgent /\ background' \subseteq background /\ missed' \subseteq missed
  BY DEF StartFetch, Start
<1>2. op[r] = NoOperation
  BY <1>1 DEF SyncInv, OperationOK, Control
<1> DEFINE o == [NoOperation EXCEPT !.pc = "all"]
<1>3. op' = [op EXCEPT ![r] = o] /\ op \in [Repos -> Operation]
  BY <1>2 DEF StartFetch, SyncInv, TypeOK
<1>4. o \in Operation
  <2>1. NoOperation \in Operation
    BY DEF NoOperation, Operation, Places
  <2> QED
    BY <2>1 DEF Operation, Places
<1>5. TypeOK'
  <2>1. QueueTypeOK'
    BY <1>1 DEF SyncInv, TypeOK, QueueTypeOK
  <2> QED
    BY <1>1, <1>3, <1>4, <2>1 DEF SyncInv, TypeOK
<1>6. OperationOK(r, o)'
  <2>1. Control(r, o)'
    BY <1>1 DEF Control, NoOperation, InTransaction
  <2>2. RowsExist(o)' /\ OpenListsComplete(o)'
    BY DEF RowsExist, OpenListsComplete, NoOperation, DigestsOf
  <2> QED
    BY <1>4, <2>1, <2>2 DEF OperationOK
<1>7. ASSUME NEW q \in Repos, q # r PROVE OperationOK(q, op[q])'
  <2>1. OperationOK(q, op[q]) /\ op'[q] = op[q]
    BY <1>3, <1>7 DEF SyncInv
  <2> QED
    BY <1>1, <1>7, <2>1 DEF OperationOK, Control, RowsExist, OpenListsComplete
<1>8. op'[r] = o /\ o.list = {}
  BY <1>3 DEF NoOperation
<1> HIDE DEF o
<1>9. \A q \in Repos : OperationOK(q, op[q])'
  BY <1>6, <1>7, <1>8
<1>10. ListsApart'
  BY <1>3, <1>8 DEF SyncInv, ListsApart
<1>11. (exclusive => busy = {})' /\ ForeignKeys' /\ ListsComplete'
  BY <1>1 DEF SyncInv, ForeignKeys, ListsComplete, EntriesOf
<1> QED
  BY <1>5, <1>9, <1>10, <1>11 DEF SyncInv

(* The end of a fetch with an error preserves the invariant. *)
LEMMA AbandonStep ==
  ASSUME SyncInv, NEW r \in Repos, Abandon(r), missed' \in SUBSET Repos
  PROVE  SyncInv'
<1>1. busy' = busy \ {r} /\ UNCHANGED <<urgent, background, exclusive, registry, unnotified, db>>
  BY DEF Abandon, Finish
<1>2. op' = [op EXCEPT ![r] = NoOperation] /\ op \in [Repos -> Operation]
  BY DEF Abandon, SyncInv, TypeOK
<1>3. NoOperation \in Operation /\ NoOperation.list = {}
  BY DEF NoOperation, Operation, Places
<1>4. TypeOK'
  <2>1. QueueTypeOK'
    BY <1>1 DEF SyncInv, TypeOK, QueueTypeOK
  <2> QED
    BY <1>1, <1>2, <1>3, <2>1 DEF SyncInv, TypeOK
<1>5. OperationOK(r, op[r])'
  <2>1. op'[r] = NoOperation
    BY <1>2
  <2>2. Control(r, NoOperation)'
    BY <1>1 DEF Control, NoOperation, InTransaction
  <2>3. RowsExist(NoOperation)' /\ OpenListsComplete(NoOperation)'
    BY DEF RowsExist, OpenListsComplete, NoOperation, DigestsOf
  <2> QED
    BY <1>3, <2>1, <2>2, <2>3 DEF OperationOK
<1>6. ASSUME NEW q \in Repos, q # r PROVE OperationOK(q, op[q])'
  <2>1. OperationOK(q, op[q]) /\ op'[q] = op[q]
    BY <1>2, <1>6 DEF SyncInv
  <2> QED
    BY <1>1, <1>6, <2>1 DEF OperationOK, Control, RowsExist, OpenListsComplete
<1>7. ListsApart'
  BY <1>2, <1>3 DEF SyncInv, ListsApart
<1>8. (exclusive => busy = {})' /\ ForeignKeys' /\ ListsComplete'
  BY <1>1 DEF SyncInv, ForeignKeys, ListsComplete, EntriesOf
<1> QED
  BY <1>4, <1>5, <1>6, <1>7, <1>8 DEF SyncInv
(* Commit preserves the invariant.  The lists that become visible are      *)
(* complete, and those that the other transactions have inserted are still *)
(* not in the database.                                                    *)
LEMMA CommitStep ==
  ASSUME SyncInv, NEW r \in Repos, Commit(r)
  PROVE  SyncInv'
<1>1. /\ op[r] \in Operation /\ Control(r, op[r]) /\ RowsExist(op[r]) /\ OpenListsComplete(op[r])
      /\ op[r].pc = "update"
  BY DEF SyncInv, OperationOK, Commit
<1>2. /\ busy' = busy \ {r} /\ UNCHANGED <<urgent, background, exclusive, registry, unnotified, missed>>
      /\ op' = [op EXCEPT ![r] = NoOperation] /\ op \in [Repos -> Operation]
  BY DEF Commit, Finish, SyncInv, TypeOK
<1>3. /\ db \in Tables
      /\ db' = [db EXCEPT !.image = @ \cup op[r].image,
                          !.list = @ \cup op[r].list,
                          !.listEntry = @ \cup op[r].listEntry,
                          !.imageTag[r] = op[r].imageTag,
                          !.listTag[r] = op[r].listTag]
  BY DEF Commit, SyncInv, TypeOK
<1>4. /\ db'.image = db.image \cup op[r].image
      /\ db'.list = db.list \cup op[r].list
      /\ db'.listEntry = db.listEntry \cup op[r].listEntry
      /\ db'.imageTag = [db.imageTag EXCEPT ![r] = op[r].imageTag]
      /\ db'.listTag = [db.listTag EXCEPT ![r] = op[r].listTag]
  BY <1>3 DEF Tables
<1>5. NoOperation \in Operation /\ NoOperation.list = {}
  BY DEF NoOperation, Operation, Places
<1>6. TypeOK'
  <2>1. QueueTypeOK'
    BY <1>2 DEF SyncInv, TypeOK, QueueTypeOK
  <2>2. db' \in Tables
    BY <1>1, <1>3 DEF Tables, Operation
  <2> QED
    BY <1>2, <1>5, <2>1, <2>2 DEF SyncInv, TypeOK
<1>7. OperationOK(r, op[r])'
  <2>1. op'[r] = NoOperation
    BY <1>2
  <2>2. Control(r, NoOperation)'
    BY <1>2 DEF Control, NoOperation, InTransaction
  <2>3. RowsExist(NoOperation)' /\ OpenListsComplete(NoOperation)'
    BY DEF RowsExist, OpenListsComplete, NoOperation, DigestsOf
  <2> QED
    BY <1>5, <2>1, <2>2, <2>3 DEF OperationOK
<1>8. ASSUME NEW q \in Repos, q # r PROVE OperationOK(q, op[q])'
  <2>1. OperationOK(q, op[q]) /\ op'[q] = op[q]
    BY <1>2, <1>8 DEF SyncInv
  <2>2. Control(q, op[q])'
    BY <1>2, <1>4, <1>8, <2>1 DEF OperationOK, Control
  <2>3. op[q].list \cap op[r].list = {}
    BY <1>8 DEF SyncInv, ListsApart
  <2>4. RowsExist(op[q])'
    BY <1>4, <2>1, <2>3 DEF OperationOK, RowsExist
  <2> QED
    BY <2>1, <2>2, <2>4 DEF OperationOK, OpenListsComplete
<1>9. ListsApart'
  BY <1>2, <1>5 DEF SyncInv, ListsApart
<1>10. ForeignKeys'
  <2>1. ASSUME NEW q \in Repos
        PROVE  DigestsOf(db'.imageTag[q]) \subseteq db'.image /\ DigestsOf(db'.listTag[q]) \subseteq db'.list
    <3>1. /\ db'.imageTag[q] = IF q = r THEN op[r].imageTag ELSE db.imageTag[q]
          /\ db'.listTag[q] = IF q = r THEN op[r].listTag ELSE db.listTag[q]
      BY <1>3, <1>4 DEF Tables
    <3> QED
      BY <1>1, <1>4, <3>1 DEF SyncInv, ForeignKeys, RowsExist
  <2>2. db'.listEntry \subseteq db'.list \X db'.image
    BY <1>1, <1>4 DEF SyncInv, ForeignKeys, RowsExist
  <2> QED
    BY <2>1, <2>2 DEF ForeignKeys
<1>11. ListsComplete'
  <2>1. ASSUME NEW l \in db'.list, NEW i \in Images
        PROVE  i \in Elements(Contents[l]) <=> <<l, i>> \in db'.listEntry
    <3>1. CASE l \in db.list
      <4>1. <<l, i>> \notin op[r].listEntry
        BY <1>1, <3>1 DEF RowsExist
      <4>2. i \in Elements(Contents[l]) <=> <<l, i>> \in db.listEntry
        BY <3>1, CompleteAsRows DEF SyncInv, CompleteRows
      <4> QED
        BY <1>4, <4>1, <4>2
    <3>2. CASE l \in op[r].list
      <4>1. l \notin db.list
        BY <1>1, <3>2 DEF RowsExist
      <4>2. <<l, i>> \notin db.listEntry
        BY <4>1 DEF SyncInv, ForeignKeys
      <4>3. op[r].rest = <<>> /\ Elements(<<>>) = {}
        BY <1>1 DEF Control, Elements
      <4>4. i \in Elements(Contents[l]) <=> <<l, i>> \in op[r].listEntry
        BY <1>1, <3>2, <4>3 DEF OpenListsComplete
      <4> QED
        BY <1>4, <4>2, <4>4
    <3> QED
      BY <1>4, <3>1, <3>2
  <2>2. CompleteRows'
    BY <2>1 DEF CompleteRows
  <2>3. (TypeOK => (ListsComplete <=> CompleteRows))'
    BY CompleteAsRows, PTL
  <2> QED
    BY <1>6, <2>2, <2>3
<1>12. (exclusive => busy = {})'
  BY <1>2 DEF SyncInv
<1> QED
  BY <1>6, <1>7, <1>8, <1>9, <1>10, <1>11, <1>12 DEF SyncInv

-----------------------------------------------------------------------------
(* What DeleteUnused keeps. *)
LEMMA Kept ==
  ASSUME NEW d \in Tables, NEW t, t = DeleteUnused(d)
  PROVE  /\ t \in Tables
         /\ t.imageTag = d.imageTag
         /\ t.listTag = d.listTag
         /\ \A l : l \in t.list <=> l \in d.list /\ \E r \in Repos : l \in DigestsOf(d.listTag[r])
         /\ \A e : e \in t.listEntry <=> e \in d.listEntry /\ e[1] \in t.list
         /\ \A i : i \in t.image <=>
              /\ i \in d.image
              /\ \/ \E r \in Repos : i \in DigestsOf(d.imageTag[r])
                 \/ i \in DigestsOf(t.listEntry)
<1> DEFINE lists == {l \in d.list : \E r \in Repos : l \in DigestsOf(d.listTag[r])}
           entries == {e \in d.listEntry : e[1] \in lists}
           images == {i \in d.image : (\E r \in Repos : i \in DigestsOf(d.imageTag[r])) \/ i \in DigestsOf(entries)}
<1>1. t = [d EXCEPT !.list = lists, !.listEntry = entries, !.image = images]
  BY DEF DeleteUnused
<1>2. lists \subseteq d.list /\ entries \subseteq d.listEntry /\ images \subseteq d.image
  OBVIOUS
<1>3. t.list = lists /\ t.listEntry = entries /\ t.image = images
  <2> HIDE DEF lists, entries, images
  <2> QED
    BY <1>1 DEF Tables
<1>4. t.imageTag = d.imageTag /\ t.listTag = d.listTag /\ t \in Tables
  <2> HIDE DEF lists, entries, images
  <2> QED
    BY <1>1, <1>2 DEF Tables
<1>5. \A l : l \in t.list <=> l \in d.list /\ \E r \in Repos : l \in DigestsOf(d.listTag[r])
  BY <1>3
<1>6. \A e : e \in t.listEntry <=> e \in d.listEntry /\ e[1] \in t.list
  BY <1>3
<1>7. \A i : i \in t.image <=>
              /\ i \in d.image
              /\ \/ \E r \in Repos : i \in DigestsOf(d.imageTag[r])
                 \/ i \in DigestsOf(t.listEntry)
  BY <1>3
<1> QED
  BY <1>4, <1>5, <1>6, <1>7
(* garbageCollect preserves the invariant: it runs when no transaction is  *)
(* open, and keeps every row that another one refers to.                   *)
LEMMA GarbageCollectStep ==
  ASSUME SyncInv, GarbageCollect
  PROVE  SyncInv'
<1>1. /\ exclusive /\ exclusive' = FALSE /\ UNCHANGED <<urgent, background, busy, registry, unnotified, missed, op>>
      /\ db' = DeleteUnused(db) /\ db \in Tables
  BY DEF GarbageCollect, Leave, SyncInv, TypeOK
<1>2. \A r \in Repos : r \notin busy /\ op[r] = NoOperation
  BY <1>1 DEF SyncInv, OperationOK, Control
<1>3. /\ db' \in Tables
      /\ db'.imageTag = db.imageTag
      /\ db'.listTag = db.listTag
      /\ \A l : l \in db'.list <=> l \in db.list /\ \E r \in Repos : l \in DigestsOf(db.listTag[r])
      /\ \A e : e \in db'.listEntry <=> e \in db.listEntry /\ e[1] \in db'.list
      /\ \A i : i \in db'.image <=>
           /\ i \in db.image
           /\ \/ \E r \in Repos : i \in DigestsOf(db.imageTag[r])
              \/ i \in DigestsOf(db'.listEntry)
  BY <1>1, Kept
<1>4. TypeOK'
  <2>1. QueueTypeOK'
    BY <1>1 DEF SyncInv, TypeOK, QueueTypeOK
  <2> QED
    BY <1>1, <1>3, <2>1 DEF SyncInv, TypeOK
<1>5. ASSUME NEW r \in Repos PROVE OperationOK(r, op[r])'
  <2>1. (r \notin busy)' /\ op'[r] = NoOperation
    BY <1>1, <1>2
  <2>2. Control(r, NoOperation)'
    BY <2>1 DEF Control, NoOperation, InTransaction
  <2>3. RowsExist(NoOperation)' /\ OpenListsComplete(NoOperation)'
    BY DEF RowsExist, OpenListsComplete, NoOperation, DigestsOf
  <2>4. NoOperation \in Operation
    BY DEF NoOperation, Operation, Places
  <2> QED
    BY <2>1, <2>2, <2>3, <2>4 DEF OperationOK
<1>6. ListsApart'
  BY <1>1 DEF SyncInv, ListsApart
<1>7. ForeignKeys'
  <2>1. ASSUME NEW r \in Repos
        PROVE  DigestsOf(db'.imageTag[r]) \subseteq db'.image /\ DigestsOf(db'.listTag[r]) \subseteq db'.list
    BY <1>3 DEF SyncInv, ForeignKeys
  <2>2. ASSUME NEW e \in db'.listEntry PROVE e \in db'.list \X db'.image
    <3>1. e \in db.list \X db.image /\ e[1] \in db'.list
      BY <1>3 DEF SyncInv, ForeignKeys
    <3>2. e[2] \in DigestsOf(db'.listEntry)
      BY DEF DigestsOf
    <3>3. e[2] \in db'.image
      BY <1>3, <3>1, <3>2
    <3> QED
      BY <3>1, <3>3
  <2> QED
    BY <2>1, <2>2 DEF ForeignKeys
<1>8. ListsComplete'
  <2>1. CompleteRows
    BY CompleteAsRows DEF SyncInv
  <2>2. ASSUME NEW l, NEW i PROVE <<l, i>>[1] = l
    OBVIOUS
  <2>3. CompleteRows'
    BY <1>3, <2>1, <2>2 DEF CompleteRows
  <2>4. (TypeOK => (ListsComplete <=> CompleteRows))'
    BY CompleteAsRows, PTL
  <2> QED
    BY <1>4, <2>3, <2>4
<1> QED
  BY <1>1, <1>4, <1>5, <1>6, <1>7, <1>8 DEF SyncInv

(* A restart preserves the invariant: open transactions leave no trace. *)
LEMMA RestartStep ==
  ASSUME SyncInv, Restart
  PROVE  SyncInv'
<1>1. /\ urgent' = {} /\ background' = {} /\ busy' = {} /\ exclusive' = FALSE
      /\ op' = [r \in Repos |-> NoOperation] /\ UNCHANGED <<registry, unnotified, db>>
  BY DEF Restart
<1>2. NoOperation \in Operation /\ NoOperation.list = {}
  BY DEF NoOperation, Operation, Places
<1>3. TypeOK'
  <2>1. QueueTypeOK'
    BY <1>1, Zenon DEF QueueTypeOK
  <2>2. missed' \subseteq Repos
    BY DEF Restart, SyncInv, TypeOK, QueueTypeOK
  <2> QED
    BY <1>1, <1>2, <2>1, <2>2 DEF SyncInv, TypeOK
<1>4. ASSUME NEW r \in Repos PROVE OperationOK(r, op[r])'
  <2>1. (r \notin busy)' /\ op'[r] = NoOperation
    BY <1>1
  <2>2. Control(r, NoOperation)'
    BY <2>1 DEF Control, NoOperation, InTransaction
  <2>3. RowsExist(NoOperation)' /\ OpenListsComplete(NoOperation)'
    BY DEF RowsExist, OpenListsComplete, NoOperation, DigestsOf
  <2> QED
    BY <1>2, <2>1, <2>2, <2>3 DEF OperationOK
<1>5. ListsApart'
  BY <1>1, <1>2 DEF ListsApart
<1>6. (exclusive => busy = {})' /\ ForeignKeys' /\ ListsComplete'
  BY <1>1 DEF SyncInv, ForeignKeys, ListsComplete, EntriesOf
<1> QED
  BY <1>3, <1>4, <1>5, <1>6 DEF SyncInv

(* Every step preserves the invariant. *)
LEMMA InvStep == SyncInv /\ [Next]_vars => SyncInv'
<1> SUFFICES ASSUME SyncInv, [Next]_vars PROVE SyncInv'
  OBVIOUS
<1>1. TypeOK
  BY DEF SyncInv
<1>2. ASSUME NEW r \in Repos, NEW t \in Tags, NEW d \in Digests, Push(r, t, d) PROVE SyncInv'
  <2>1. TypeOK'
    BY <1>1, <1>2 DEF Push, Untag, TypeOK, QueueTypeOK, poolVars
  <2> QED
    BY <1>2, <2>1, OutsideStep DEF Push, poolVars
<1>3. ASSUME NEW r \in Repos, NEW t \in Tags, DeleteTag(r, t) PROVE SyncInv'
  <2>1. TypeOK'
    BY <1>1, <1>3 DEF DeleteTag, Untag, TypeOK, QueueTypeOK, poolVars
  <2> QED
    BY <1>3, <2>1, OutsideStep DEF DeleteTag, poolVars
<1>4. ASSUME NEW r \in Repos, Notify(r) \/ LoseNotification(r) \/ Scan(r) PROVE SyncInv'
  <2>1. CASE Notify(r)
    <3>1. TypeOK'
      BY <1>1, <2>1 DEF Notify, RequestUrgent, TypeOK, QueueTypeOK
    <3> QED
      BY <2>1, <3>1, OutsideStep DEF Notify, RequestUrgent
  <2>2. CASE LoseNotification(r)
    <3>1. TypeOK'
      BY <1>1, <2>2 DEF LoseNotification, poolVars, TypeOK, QueueTypeOK
    <3> QED
      BY <2>2, <3>1, OutsideStep DEF LoseNotification, poolVars
  <2>3. CASE Scan(r)
    <3>1. TypeOK'
      BY <1>1, <2>3 DEF Scan, RequestBackground, syncVars, TypeOK, QueueTypeOK
    <3> QED
      BY <2>3, <3>1, OutsideStep DEF Scan, RequestBackground, syncVars
  <2> QED
    BY <1>4, <2>1, <2>2, <2>3
<1>5. ASSUME LockForGC \/ GarbageCollectFails \/ UNCHANGED vars PROVE SyncInv'
  <2>1. TypeOK'
    BY <1>1, <1>5
       DEF LockForGC, GarbageCollectFails, Enter, Leave, vars, poolVars, syncVars, TypeOK, QueueTypeOK
  <2> QED
    BY <1>5, <2>1, OutsideStep DEF LockForGC, GarbageCollectFails, Enter, Leave, vars, poolVars, syncVars
<1>6. ASSUME NEW r \in Repos, Abandon(r), missed' = missed \/ missed' = missed \cup {r} PROVE SyncInv'
  BY <1>1, <1>6, AbandonStep DEF TypeOK
<1>7. ASSUME NEW r \in Repos, Fail(r) PROVE SyncInv'
  BY <1>6, <1>7 DEF Fail
<1>8. ASSUME NEW r \in Repos, FetchStep(r) PROVE SyncInv'
  <2>1. ASSUME NEW t \in Tags, TagGone(r, t) PROVE SyncInv'
    BY <1>6, <2>1 DEF TagGone
  <2>2. CASE DeadlockAbort(r)
    BY <1>6, <2>2 DEF DeadlockAbort
  <2> QED
    BY <1>8, <2>1, <2>2, ListTagsStep, GetTagStep, QueryImagesStep, QueryListsStep, SetTagsStep, DeleteDigestStep,
       FetchManifestStep, StoreImageStep, InsertListStep, InsertEntryStep, TagListStep, CommitStep
       DEF FetchStep
<1> QED
  BY <1>2, <1>3, <1>4, <1>5, <1>7, <1>8, StartFetchStep, GarbageCollectStep, RestartStep
     DEF Next, RegistryStep, Failure, SystemStep

-----------------------------------------------------------------------------
(* The inductive invariant holds in every reachable state. *)
THEOREM InvariantHolds == Spec => []SyncInv
  BY InvInit, InvStep, PTL DEF Spec

(* The tables and the operations of the fetcher have their types. *)
THEOREM TypeCorrect == Spec => []TypeOK
<1>1. SyncInv => TypeOK
  BY DEF SyncInv
<1> QED
  BY <1>1, InvariantHolds, PTL

(* What transactions commit and what garbageCollect deletes never breaks a *)
(* reference of schema.sql, whichever rows the repositories share.         *)
THEOREM ReferencesHold == Spec => []ForeignKeys
<1>1. SyncInv => ForeignKeys
  BY DEF SyncInv
<1> QED
  BY <1>1, InvariantHolds, PTL

(* storeImageList takes a list whose row it finds to be complete: it is.  *)
THEOREM ListsAreComplete == Spec => []ListsComplete
<1>1. SyncInv => ListsComplete
  BY DEF SyncInv
<1> QED
  BY <1>1, InvariantHolds, PTL

(* No open transaction of updateRepositoryInDatabase loses the rows that   *)
(* its tags refer to.                                                      *)
THEOREM TransactionsSound == Spec => []OpenTransactionsSound
<1>1. SyncInv => OpenTransactionsSound
  BY DEF SyncInv, OperationOK, RowsExist, OpenTransactionsSound
<1> QED
  BY <1>1, InvariantHolds, PTL
(* A collection changes no query result, and a second one changes nothing. *)
LEMMA CollectionKeepsResults ==
  ASSUME SyncInv, GarbageCollect
  PROVE  QueryResult' = QueryResult /\ DeleteUnused(db') = db'
<1>1. SyncInv'
  BY GarbageCollectStep
<1>2. db' = DeleteUnused(db) /\ db \in Tables
  BY DEF GarbageCollect, SyncInv, TypeOK
<1>3. /\ db' \in Tables
      /\ db'.imageTag = db.imageTag
      /\ db'.listTag = db.listTag
      /\ \A l : l \in db'.list <=> l \in db.list /\ \E r \in Repos : l \in DigestsOf(db.listTag[r])
      /\ \A e : e \in db'.listEntry <=> e \in db.listEntry /\ e[1] \in db'.list
      /\ \A i : i \in db'.image <=>
           /\ i \in db.image
           /\ \/ \E r \in Repos : i \in DigestsOf(db.imageTag[r])
              \/ i \in DigestsOf(db'.listEntry)
  BY <1>2, Kept
<1>4. QueryResult' = QueryResult
  <2>1. ASSUME NEW r \in Repos, NEW row \in db.imageTag[r]
        PROVE  row[2] \in db.image /\ row[2] \in db'.image
    <3>1. row[2] \in DigestsOf(db.imageTag[r])
      BY DEF DigestsOf
    <3> QED
      BY <1>3, <3>1 DEF SyncInv, ForeignKeys
  <2>2. ASSUME NEW r \in Repos, NEW row \in db.listTag[r]
        PROVE  EntriesOf(row[2])' \cap db'.image = EntriesOf(row[2]) \cap db.image
    <3>1. row[2] \in DigestsOf(db.listTag[r])
      BY DEF DigestsOf
    <3>2. row[2] \in db'.list
      BY <1>3, <3>1 DEF SyncInv, ForeignKeys
    <3>3. EntriesOf(row[2])' = EntriesOf(row[2])
      BY <1>3, <3>2 DEF EntriesOf
    <3>4. ASSUME NEW e \in db.listEntry, e[1] = row[2] PROVE e[2] \in db.image /\ e[2] \in db'.image
      <4>1. e \in db'.listEntry
        BY <1>3, <3>2, <3>4
      <4> QED
        BY <1>1, <4>1 DEF SyncInv, ForeignKeys
    <3> QED
      BY <3>3, <3>4 DEF EntriesOf
  <2>3. ASSUME NEW r \in Repos
        PROVE  {row \in db'.imageTag[r] : row[2] \in db'.image} = {row \in db.imageTag[r] : row[2] \in db.image}
    BY <1>3, <2>1
  <2>4. ASSUME NEW r \in Repos
        PROVE  {<<row, EntriesOf(row[2])' \cap db'.image>> : row \in db'.listTag[r]}
                 = {<<row, EntriesOf(row[2]) \cap db.image>> : row \in db.listTag[r]}
    BY <1>3, <2>2
  <2> QED
    BY <2>3, <2>4, Zenon DEF QueryResult
<1>5. DeleteUnused(db') = db'
  <2> DEFINE u == DeleteUnused(db')
  <2>1. /\ u \in Tables
        /\ u.imageTag = db'.imageTag
        /\ u.listTag = db'.listTag
        /\ \A l : l \in u.list <=> l \in db'.list /\ \E r \in Repos : l \in DigestsOf(db'.listTag[r])
        /\ \A e : e \in u.listEntry <=> e \in db'.listEntry /\ e[1] \in u.list
        /\ \A i : i \in u.image <=>
             /\ i \in db'.image
             /\ \/ \E r \in Repos : i \in DigestsOf(db'.imageTag[r])
                \/ i \in DigestsOf(u.listEntry)
    BY <1>3, Kept
  <2> HIDE DEF u
  <2>2. u.list = db'.list
    BY <1>3, <2>1
  <2>3. u.listEntry = db'.listEntry
    BY <1>3, <2>1, <2>2
  <2>4. u.image = db'.image
    BY <1>3, <2>1, <2>3
  <2> QED
    BY <1>3, <2>1, <2>2, <2>3, <2>4 DEF Tables, u
<1> QED
  BY <1>4, <1>5

(* garbageCollect is invisible to queries, and one collection is enough. *)
THEOREM CollectionInvisible == Spec => CollectionIsInvisible
<1>1. SyncInv => [GarbageCollect => QueryResult' = QueryResult /\ DeleteUnused(db') = db']_vars
  BY CollectionKeepsResults
<1> QED
  BY <1>1, InvariantHolds, PTL DEF CollectionIsInvisible
=============================================================================
