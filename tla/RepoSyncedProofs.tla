-------------------------- MODULE RepoSyncedProofs --------------------------
(***************************************************************************)
(* Proofs about RepoSync: when nothing is under way for a repository, the  *)
(* tables have no tag for it that the registry does not have, and all the  *)
(* tags that it has if no digest is in two repositories; tags of lists     *)
(* without manifests aside.                                                *)
(***************************************************************************)
EXTENDS RepoSyncProofs

(* No digest is pushed to two repositories. *)
OwnDigests == \A r, q \in Repos : r # q => Available[r] \cap Available[q] = {}

(* Something is still to be done for r, or got lost. *)
Pending(r) == r \in unnotified \cup missed \cup urgent \cup background

Accepted(rows) == {row \in rows : row[2] \notin Others}

(* A tag points to one digest. *)
Unambiguous(rows) == \A x, y \in rows : x[1] = y[1] => x = y

(* What o has read from the registry is what the registry has, unless it   *)
(* changed since the fetch began; and then r is pending.                   *)
HasRead(r, o) ==
  /\ Unambiguous(o.tags)
  /\ \A row \in o.tags : row[1] \notin o.unread
  /\ DigestsOf(o.tags) \subseteq Available[r]
  /\ ~Pending(r) /\ o.pc \notin {"idle", "all"} =>
       /\ o.tags = {row \in Accepted(registry[r]) : row[1] \notin o.unread}
       /\ o.unread \subseteq {row[1] : row \in registry[r]}

Updating == {"update", "insert", "entries"}

Rows(o) == o.imageTag \cup o.listTag

(* The digests that the two queries of a fetch can return. *)
Showable == Images \cup {l \in Lists : Contents[l] # <<>>}

(* Those among them that o has compared with the database so far. *)
Compared(o) ==
  IF o.pc \in Updating THEN Showable ELSE IF o.pc = "lists" THEN Images ELSE {}

Removal(o, d) == \E w \in o.work : w.what \in {"set", "delete"} /\ w.digest = d

Addition(o, d) == o.cur = d \/ \E w \in o.work : w.what \in {"set", "store"} /\ w.digest = d

(* The work that is left makes the rows of the transaction agree with what *)
(* was read: each row too many will be removed and, if the digests of r    *)
(* are its own, each missing one added.                                    *)
Planned(r, o) ==
  /\ o.pc \notin {"insert", "entries"} => o.cur = None
  /\ o.pc = "lists" => o.listTag = db.listTag[r]
  /\ DigestsOf(Rows(o)) \subseteq Available[r]
  /\ \A w \in o.work : w.what = "delete" => w.digest \notin DigestsOf(o.tags)
  /\ \A row \in Rows(o) \ o.tags : row[2] \in Compared(o) => Removal(o, row[2])
  /\ OwnDigests => \A row \in o.tags \ Rows(o) : row[2] \in Compared(o) => Addition(o, row[2])

TagRows(r) == db.imageTag[r] \cup db.listTag[r]

VisibleRows(r) == {row \in TagRows(r) : row[2] \in Showable}

(* What the registry and the database have of r. *)
RepositoryOK(r) ==
  /\ Unambiguous(registry[r])
  /\ DigestsOf(registry[r]) \subseteq Available[r]
  /\ DigestsOf(TagRows(r)) \subseteq Available[r]
  /\ Quiet(r) => VisibleRows(r) \subseteq Known(registry[r])
  /\ Quiet(r) /\ OwnDigests => Known(registry[r]) \subseteq VisibleRows(r)

CurrentInv == \A r \in Repos : HasRead(r, op[r]) /\ Planned(r, op[r]) /\ RepositoryOK(r)
-----------------------------------------------------------------------------
(* A step of the fetch of r preserves the invariant, if what it leaves of  *)
(* the operation is as the invariant says.                                 *)
LEMMA LocalCurrent ==
  ASSUME TypeOK, CurrentInv, NEW r \in Repos, NEW o, Local(r, o), HasRead(r, o), Planned(r, o)
  PROVE  CurrentInv'
<1>1. UNCHANGED <<urgent, background, busy, exclusive, registry, unnotified, missed, db>>
  BY DEF Local, poolVars
<1>2. \A q \in Repos : op'[q] = IF q = r THEN o ELSE op[q]
  BY DEF Local, TypeOK
<1>3. \A q \in Repos : HasRead(q, op'[q]) /\ Planned(q, op'[q])
  BY <1>2 DEF CurrentInv
<1>4. \A q \in Repos : (HasRead(q, op[q]) /\ Planned(q, op[q]))'
  BY <1>1, <1>3 DEF HasRead, Pending, Planned
<1>5. \A q \in Repos : RepositoryOK(q)'
  BY <1>1 DEF CurrentInv, RepositoryOK, Quiet, TagRows, VisibleRows
<1> QED
  BY <1>4, <1>5 DEF CurrentInv

(* A step outside the fetches preserves the invariant, if it forgets no    *)
(* pending repository.                                                     *)
LEMMA OutsideCurrent ==
  ASSUME CurrentInv, UNCHANGED <<registry, db, op, busy>>,
         \A r \in Repos : Pending(r) => Pending(r)'
  PROVE  CurrentInv'
<1>1. ASSUME NEW r \in Repos PROVE HasRead(r, op[r])' /\ Planned(r, op[r])'
  BY DEF CurrentInv, HasRead, Planned
<1>2. ASSUME NEW r \in Repos PROVE RepositoryOK(r)'
  <2>1. Quiet(r)' => Quiet(r)
    BY DEF Quiet, Pending
  <2> QED
    BY <2>1 DEF CurrentInv, RepositoryOK, TagRows, VisibleRows
<1> QED
  BY <1>1, <1>2 DEF CurrentInv

-----------------------------------------------------------------------------
(* Reading the registry. *)

(* ListTags preserves the invariant. *)
LEMMA ListTagsCurrent ==
  ASSUME SyncInv, CurrentInv, NEW r \in Repos, ListTags(r)
  PROVE  CurrentInv'
<1> DEFINE o == [op[r] EXCEPT !.pc = "get", !.unread = {row[1] : row \in registry[r]}]
<1>1. op[r] \in Operation /\ Control(r, op[r]) /\ op[r].pc = "all" /\ HasRead(r, op[r]) /\ Planned(r, op[r])
  BY DEF SyncInv, OperationOK, CurrentInv, ListTags
<1>2. Local(r, o)
  BY DEF ListTags, Local, SyncInv, TypeOK
<1>3. /\ o.pc = "get" /\ o.unread = {row[1] : row \in registry[r]} /\ o.tags = {}
      /\ o.work = op[r].work /\ o.cur = op[r].cur /\ o.imageTag = op[r].imageTag /\ o.listTag = op[r].listTag
  BY <1>1 DEF Control, Operation
<1> HIDE DEF o
<1>4. HasRead(r, o)
  BY <1>3 DEF HasRead, Unambiguous, DigestsOf, Accepted
<1>5. Planned(r, o)
  BY <1>1, <1>3 DEF Planned, Rows, Compared, Updating, DigestsOf
<1> QED
  BY <1>2, <1>4, <1>5, LocalCurrent DEF SyncInv

(* GetTag preserves the invariant: a tag that was not moved since the      *)
(* fetch began is read as it is.                                           *)
LEMMA GetTagCurrent ==
  ASSUME SyncInv, CurrentInv, NEW r \in Repos, NEW t \in Tags, GetTag(r, t)
  PROVE  CurrentInv'
<1>1. /\ op[r] \in Operation /\ Control(r, op[r]) /\ op[r].pc = "get" /\ t \in op[r].unread
      /\ HasRead(r, op[r]) /\ Planned(r, op[r])
      /\ Unambiguous(registry[r]) /\ DigestsOf(registry[r]) \subseteq Available[r]
  BY DEF SyncInv, OperationOK, CurrentInv, RepositoryOK, GetTag
<1>2. PICK d \in Digests :
        /\ <<t, d>> \in registry[r]
        /\ Local(r, [op[r] EXCEPT !.unread = @ \ {t}, !.tags = @ \cup ({t} \X ({d} \ Others))])
  BY DEF GetTag, Local, SyncInv, TypeOK
<1> DEFINE o == [op[r] EXCEPT !.unread = @ \ {t}, !.tags = @ \cup ({t} \X ({d} \ Others))]
<1>3. Local(r, o)
  BY <1>2
<1>4. /\ o.pc = "get" /\ o.unread = op[r].unread \ {t}
      /\ o.tags = op[r].tags \cup ({t} \X ({d} \ Others))
      /\ o.work = op[r].work /\ o.cur = op[r].cur /\ o.imageTag = op[r].imageTag /\ o.listTag = op[r].listTag
  BY <1>1 DEF Operation
<1>5. op[r].work = {} /\ op[r].imageTag = {} /\ op[r].listTag = {} /\ op[r].cur = None
  BY <1>1 DEF Control, NoOperation
<1> HIDE DEF o
<1>6. \A row \in o.tags : row \in op[r].tags \/ (row = <<t, d>> /\ d \notin Others)
  BY <1>4
<1>7. d \in DigestsOf(registry[r])
  BY <1>2 DEF DigestsOf
<1>8. HasRead(r, o)
  <2>1. Unambiguous(o.tags)
    BY <1>1, <1>6 DEF HasRead, Unambiguous
  <2>2. \A row \in o.tags : row[1] \notin o.unread
    BY <1>1, <1>4, <1>6 DEF HasRead
  <2>3. DigestsOf(o.tags) \subseteq Available[r]
    BY <1>1, <1>6, <1>7 DEF HasRead, DigestsOf
  <2>4. ASSUME ~Pending(r)
        PROVE  /\ o.tags = {row \in Accepted(registry[r]) : row[1] \notin o.unread}
               /\ o.unread \subseteq {row[1] : row \in registry[r]}
    <3>1. /\ op[r].tags = {row \in Accepted(registry[r]) : row[1] \notin op[r].unread}
          /\ op[r].unread \subseteq {row[1] : row \in registry[r]}
      BY <1>1, <2>4 DEF HasRead
    <3>2. \A row \in registry[r] : row[1] = t => row = <<t, d>>
      BY <1>1, <1>2 DEF Unambiguous
    <3>3. ASSUME NEW row \in Accepted(registry[r]), row[1] \notin o.unread PROVE row \in o.tags
      <4>1. CASE row[1] = t
        BY <1>4, <3>2, <3>3, <4>1 DEF Accepted
      <4>2. CASE row[1] # t
        BY <1>4, <3>1, <3>3, <4>2
      <4> QED
        BY <4>1, <4>2
    <3>4. ASSUME NEW row \in o.tags PROVE row \in Accepted(registry[r]) /\ row[1] \notin o.unread
      BY <1>2, <1>4, <1>6, <3>1 DEF Accepted
    <3>5. o.unread \subseteq {row[1] : row \in registry[r]}
      BY <1>4, <3>1
    <3> QED
      BY <3>3, <3>4, <3>5
  <2> QED
    BY <2>1, <2>2, <2>3, <2>4 DEF HasRead
<1>9. Planned(r, o)
  BY <1>4, <1>5 DEF Planned, Rows, Compared, Updating, DigestsOf
<1> QED
  BY <1>3, <1>8, <1>9, LocalCurrent DEF SyncInv

-----------------------------------------------------------------------------
(* Comparing it with the database. *)

(* planUpdate plans the removal of a row of the repository that was not    *)
(* read, if the query returned its digest.                                 *)
LEMMA PlanRemoves ==
  ASSUME NEW table, NEW old, NEW rows, NEW r \in Repos, NEW t \in Tags, NEW d \in old,
         <<t, d>> \in table[r], <<t, d>> \notin rows
  PROVE  \E w \in planUpdate(table, old, rows) : w.what \in {"set", "delete"} /\ w.digest = d
<1>1. CASE d \notin DigestsOf(rows)
  <2> DEFINE w == [what |-> "delete", digest |-> d]
  <2>1. w \in planUpdate(table, old, rows)
    BY <1>1 DEF planUpdate
  <2> QED
    BY <2>1
<1>2. CASE d \in DigestsOf(rows)
  <2> DEFINE w == [what |-> "set", digest |-> d]
  <2>1. <<r, t>> \in tagRows(table, d)
    BY DEF tagRows
  <2>2. t \in {row[2] : row \in tagRows(table, d)}
    BY <2>1
  <2>3. t \notin TagsFor(rows, d)
    BY DEF TagsFor
  <2>4. ~stringsEqual(tagRows(table, d), TagsFor(rows, d))
    BY <2>2, <2>3 DEF stringsEqual
  <2>5. w \in planUpdate(table, old, rows)
    BY <1>2, <2>4 DEF planUpdate
  <2> QED
    BY <2>5
<1> QED
  BY <1>1, <1>2

(* No other repository than r has digest d in the table. *)
OnlyIn(table, d, r) == \A q \in Repos : d \in DigestsOf(table[q]) => q = r

(* It plans the addition of a row that was read and that the repository    *)
(* does not have, if no other repository has the digest: the tags of all   *)
(* repositories are compared.                                              *)
LEMMA PlanAdds ==
  ASSUME NEW table, NEW old, NEW rows, NEW r \in Repos, NEW t \in Tags, NEW d \in DigestsOf(rows),
         <<t, d>> \in rows, <<t, d>> \notin table[r],
         d \notin old \/ OnlyIn(table, d, r)
  PROVE  \E w \in planUpdate(table, old, rows) : w.what \in {"set", "store"} /\ w.digest = d
<1>1. CASE d \notin old
  <2> DEFINE w == [what |-> "store", digest |-> d]
  <2>1. w \in planUpdate(table, old, rows)
    BY <1>1 DEF planUpdate
  <2> QED
    BY <2>1
<1>2. CASE d \in old
  <2> DEFINE w == [what |-> "set", digest |-> d]
  <2>1. t \in TagsFor(rows, d)
    BY DEF TagsFor
  <2>2. t \notin {row[2] : row \in tagRows(table, d)}
    <3> SUFFICES ASSUME NEW row \in tagRows(table, d), row[2] = t PROVE FALSE
      OBVIOUS
    <3>1. row[1] \in Repos /\ <<t, d>> \in table[row[1]]
      BY DEF tagRows
    <3>2. d \in DigestsOf(table[row[1]])
      BY <3>1 DEF DigestsOf
    <3> QED
      BY <1>2, <3>1, <3>2 DEF OnlyIn
  <2>3. ~stringsEqual(tagRows(table, d), TagsFor(rows, d))
    BY <2>1, <2>2 DEF stringsEqual
  <2>4. w \in planUpdate(table, old, rows)
    BY <1>2, <2>3 DEF planUpdate
  <2> QED
    BY <2>4
<1> QED
  BY <1>1, <1>2

(* It plans to delete only digests that were not read. *)
LEMMA PlanDeletes ==
  ASSUME NEW table, NEW old, NEW rows, NEW w \in planUpdate(table, old, rows), w.what = "delete"
  PROVE  w.digest \notin DigestsOf(rows)
BY DEF planUpdate
(* QueryImages preserves the invariant. *)
LEMMA QueryImagesCurrent ==
  ASSUME SyncInv, CurrentInv, NEW r \in Repos, QueryImages(r)
  PROVE  CurrentInv'
<1> DEFINE rows == ImageRows(op[r].tags)
           plan == planUpdate(db.imageTag, doImageQuery(db, r), rows)
           o == [op[r] EXCEPT !.pc = "lists", !.imageTag = db.imageTag[r], !.listTag = db.listTag[r], !.work = plan]
<1>1. /\ op[r] \in Operation /\ Control(r, op[r]) /\ op[r].pc = "get"
      /\ HasRead(r, op[r]) /\ Planned(r, op[r]) /\ RepositoryOK(r)
  BY DEF SyncInv, OperationOK, CurrentInv, QueryImages
<1>2. Local(r, o)
  BY DEF QueryImages, Local, SyncInv, TypeOK
<1>3. /\ o.pc = "lists" /\ o.unread = op[r].unread /\ o.tags = op[r].tags /\ o.cur = op[r].cur
      /\ o.work = plan /\ o.imageTag = db.imageTag[r] /\ o.listTag = db.listTag[r]
  BY <1>1 DEF Operation
<1> HIDE DEF o
<1>4. HasRead(r, o)
  BY <1>1, <1>3 DEF HasRead
<1>5. /\ op[r].tags \subseteq Tags \X (Images \cup Lists)
      /\ db.imageTag[r] \subseteq Tags \X Images /\ db.listTag[r] \subseteq Tags \X Lists
  BY <1>1 DEF Operation, SyncInv, TypeOK, Tables
<1>6. ASSUME NEW row \in Rows(o) \ o.tags, row[2] \in Images PROVE Removal(o, row[2])
  <2>1. row \in db.imageTag[r] /\ row = <<row[1], row[2]>> /\ row[1] \in Tags
    BY <1>3, <1>5, <1>6, DigestAssumption DEF Rows
  <2>2. row[2] \in doImageQuery(db, r)
    BY <2>1 DEF doImageQuery, DigestsOf
  <2>3. <<row[1], row[2]>> \notin rows
    BY <1>3, <1>6, <2>1 DEF ImageRows
  <2>4. <<row[1], row[2]>> \in db.imageTag[r]
    BY <2>1
  <2>5. \E w \in plan : w.what \in {"set", "delete"} /\ w.digest = row[2]
    <3> HIDE DEF rows
    <3> QED
      BY <2>1, <2>2, <2>3, <2>4, PlanRemoves
  <2> HIDE DEF plan
  <2> QED
    BY <1>3, <2>5 DEF Removal
<1>7. ASSUME OwnDigests, NEW row \in o.tags \ Rows(o), row[2] \in Images PROVE Addition(o, row[2])
  <2>1. row \in rows /\ row \notin db.imageTag[r] /\ row = <<row[1], row[2]>> /\ row[1] \in Tags
    BY <1>3, <1>5, <1>7 DEF Rows, ImageRows
  <2>2. ASSUME NEW q \in Repos, row[2] \in doImageQuery(db, r), row[2] \in DigestsOf(db.imageTag[q]) PROVE q = r
    <3>1. row[2] \in Available[r] /\ row[2] \in Available[q]
      BY <2>2 DEF doImageQuery, DigestsOf, CurrentInv, RepositoryOK, TagRows
    <3> QED
      BY <1>7, <3>1 DEF OwnDigests
  <2>3. <<row[1], row[2]>> \in rows /\ <<row[1], row[2]>> \notin db.imageTag[r]
    BY <2>1
  <2>4. \E w \in plan : w.what \in {"set", "store"} /\ w.digest = row[2]
    <3> DEFINE t == row[1]
               d == row[2]
               old == doImageQuery(db, r)
               table == db.imageTag
    <3>1. d \notin old \/ OnlyIn(table, d, r)
      BY <2>2 DEF OnlyIn
    <3>2. d \in DigestsOf(rows) /\ t \in Tags
      BY <2>1 DEF DigestsOf
    <3>3. <<t, d>> \in rows /\ <<t, d>> \notin table[r]
      BY <2>3
    <3> HIDE DEF rows, t, d, old, table
    <3>4. \E w \in planUpdate(table, old, rows) : w.what \in {"set", "store"} /\ w.digest = d
      BY <3>1, <3>2, <3>3, PlanAdds
    <3> QED
      BY <3>4 DEF d, old, table
  <2> HIDE DEF plan
  <2> QED
    BY <1>3, <2>4 DEF Addition
<1>8. ASSUME NEW w \in plan, w.what = "delete" PROVE w.digest \notin DigestsOf(o.tags)
  <2>1. w.digest \in Images
    BY PlanIsWork DEF SyncInv
  <2>2. w.digest \notin DigestsOf(rows)
    BY <1>8, PlanDeletes
  <2> QED
    BY <1>3, <2>1, <2>2 DEF DigestsOf, ImageRows
<1>9. DigestsOf(Rows(o)) \subseteq Available[r]
  BY <1>1, <1>3 DEF Rows, RepositoryOK, TagRows
<1>10. Compared(o) = Images
  BY <1>3 DEF Compared, Updating
<1> HIDE DEF rows, plan
<1>11. Planned(r, o)
  BY <1>1, <1>3, <1>6, <1>7, <1>8, <1>9, <1>10 DEF Planned
<1> QED
  BY <1>2, <1>4, <1>11, LocalCurrent DEF SyncInv

(* QueryLists preserves the invariant.  A list that has manifests is       *)
(* returned by the query, because its entries are in the database.         *)
LEMMA QueryListsCurrent ==
  ASSUME SyncInv, CurrentInv, NEW r \in Repos, QueryLists(r)
  PROVE  CurrentInv'
<1> DEFINE rows == ListRows(op[r].tags)
           plan == planUpdate(db.listTag, doListQuery(db, r), rows)
           o == [op[r] EXCEPT !.pc = "update", !.work = @ \cup plan]
<1>1. /\ op[r] \in Operation /\ Control(r, op[r]) /\ op[r].pc = "lists"
      /\ HasRead(r, op[r]) /\ Planned(r, op[r]) /\ RepositoryOK(r)
  BY DEF SyncInv, OperationOK, CurrentInv, QueryLists
<1>2. Local(r, o)
  BY DEF QueryLists, Local, SyncInv, TypeOK
<1>3. /\ o.pc = "update" /\ o.unread = op[r].unread /\ o.tags = op[r].tags /\ o.cur = op[r].cur
      /\ o.work = op[r].work \cup plan /\ o.imageTag = op[r].imageTag /\ o.listTag = op[r].listTag
  BY <1>1 DEF Operation
<1> HIDE DEF o
<1>4. HasRead(r, o)
  BY <1>1, <1>3 DEF HasRead
<1>5. /\ op[r].tags \subseteq Tags \X (Images \cup Lists) /\ op[r].listTag = db.listTag[r]
      /\ op[r].imageTag \subseteq Tags \X Images /\ op[r].listTag \subseteq Tags \X Lists
  BY <1>1 DEF Operation, Planned
<1>6. Rows(o) = Rows(op[r]) /\ Compared(op[r]) = Images /\ Compared(o) = Showable
  BY <1>1, <1>3 DEF Rows, Compared, Updating
<1>7. ASSUME NEW row \in Rows(o) \ o.tags, row[2] \in Showable PROVE Removal(o, row[2])
  <2>1. CASE row[2] \in Images
    BY <1>1, <1>3, <1>6, <1>7, <2>1 DEF Planned, Removal
  <2>2. CASE row[2] \in Lists
    <3>1. /\ row \in db.listTag[r] /\ row = <<row[1], row[2]>> /\ row[1] \in Tags
          /\ Contents[row[2]] # <<>> /\ row \notin op[r].tags
      BY <1>3, <1>5, <1>7, <2>2, DigestAssumption DEF Rows, Showable
    <3>2. row[2] \in DigestsOf(db.listTag[r])
      BY <3>1 DEF DigestsOf
    <3>3. row[2] \in db.list
      BY <3>2 DEF SyncInv, ForeignKeys
    <3>4. PICK i \in Images : i \in Elements(Contents[row[2]])
      <4>1. Contents[row[2]] \in Seq(Images) /\ Contents[row[2]] # <<>>
        BY <2>2, <3>1, ContentsAssumption
      <4>2. Contents[row[2]][1] \in Images /\ 1 \in DOMAIN Contents[row[2]]
        BY <4>1, LenProperties, EmptySeq, ElementOfSeq
      <4> QED
        BY <4>2 DEF Elements
    <3>5. <<row[2], i>> \in db.listEntry
      BY <3>3, <3>4, CompleteAsRows DEF SyncInv, CompleteRows
    <3>6. row[2] \in doListQuery(db, r)
      BY <3>2, <3>5 DEF doListQuery
    <3>7. <<row[1], row[2]>> \notin rows
      BY <3>1 DEF ListRows
    <3> HIDE DEF rows
    <3> QED
      BY <1>3, <3>1, <3>6, <3>7, PlanRemoves DEF Removal
  <2> QED
    BY <1>7, <2>1, <2>2 DEF Showable
<1>8. ASSUME OwnDigests, NEW row \in o.tags \ Rows(o), row[2] \in Showable PROVE Addition(o, row[2])
  <2>1. CASE row[2] \in Images
    BY <1>1, <1>3, <1>6, <1>8, <2>1 DEF Planned, Addition
  <2>2. CASE row[2] \in Lists
    <3>1. row \in rows /\ row \notin db.listTag[r] /\ row = <<row[1], row[2]>> /\ row[1] \in Tags
      BY <1>3, <1>5, <1>8, <2>2 DEF Rows, ListRows
    <3>2. ASSUME NEW q \in Repos, row[2] \in doListQuery(db, r), row[2] \in DigestsOf(db.listTag[q]) PROVE q = r
      <4>1. row[2] \in Available[r] /\ row[2] \in Available[q]
        BY <3>2 DEF doListQuery, DigestsOf, CurrentInv, RepositoryOK, TagRows
      <4> QED
        BY <1>8, <4>1 DEF OwnDigests
    <3>3. <<row[1], row[2]>> \in rows /\ <<row[1], row[2]>> \notin db.listTag[r]
      BY <3>1
    <3>4. \E w \in plan : w.what \in {"set", "store"} /\ w.digest = row[2]
      <4> DEFINE t == row[1]
                 d == row[2]
                 old == doListQuery(db, r)
                 table == db.listTag
      <4>1. d \notin old \/ OnlyIn(table, d, r)
        BY <3>2 DEF OnlyIn
      <4>2. d \in DigestsOf(rows) /\ t \in Tags
        BY <3>1 DEF DigestsOf
      <4>3. <<t, d>> \in rows /\ <<t, d>> \notin table[r]
        BY <3>3
      <4> HIDE DEF rows, t, d, old, table
      <4>4. \E w \in planUpdate(table, old, rows) : w.what \in {"set", "store"} /\ w.digest = d
        BY <4>1, <4>2, <4>3, PlanAdds
      <4> QED
        BY <4>4 DEF d, old, table
    <3> HIDE DEF plan
    <3> QED
      BY <1>3, <3>4 DEF Addition
  <2> QED
    BY <1>8, <2>1, <2>2 DEF Showable
<1>9. ASSUME NEW w \in o.work, w.what = "delete" PROVE w.digest \notin DigestsOf(o.tags)
  <2>1. CASE w \in op[r].work
    BY <1>1, <1>3, <1>9, <2>1 DEF Planned
  <2>2. CASE w \in plan
    <3>1. w.digest \in Lists
      BY <2>2, PlanIsWork DEF SyncInv
    <3>2. w.digest \notin DigestsOf(rows)
      BY <1>9, <2>2, PlanDeletes
    <3> QED
      BY <1>3, <3>1, <3>2 DEF DigestsOf, ListRows
  <2> QED
    BY <1>3, <2>1, <2>2
<1> HIDE DEF rows, plan
<1>10. Planned(r, o)
  BY <1>1, <1>3, <1>6, <1>7, <1>8, <1>9 DEF Planned
<1> QED
  BY <1>2, <1>4, <1>10, LocalCurrent DEF SyncInv

-----------------------------------------------------------------------------
(* Statements. *)

(* A statement that takes operation p to o settles the digests D: of them  *)
(* it leaves the rows that were read and no others; it leaves the rows and *)
(* the work of other digests alone.                                        *)
Settles(p, o, D) ==
  /\ p.pc \in Updating /\ o.pc \in Updating
  /\ o.pc = "update" => o.cur = None
  /\ o.tags = p.tags /\ o.unread = p.unread
  /\ \A row \in Rows(o) : row \in p.tags \/ (row \in Rows(p) /\ row[2] \notin D)
  /\ \A row \in p.tags : row \in Rows(p) \/ row[2] \in D => row \in Rows(o)
  /\ o.work \subseteq p.work
  /\ \A w \in p.work : w \in o.work \/ w.digest \in D \/ (w.what = "store" /\ o.cur = w.digest)
  /\ p.cur \in {None, o.cur} \cup D

(* It preserves the invariant. *)
LEMMA SettleStep ==
  ASSUME SyncInv, CurrentInv, NEW r \in Repos, NEW o, NEW D, Local(r, o), Settles(op[r], o, D)
  PROVE  CurrentInv'
<1>1. op[r] \in Operation /\ HasRead(r, op[r]) /\ Planned(r, op[r])
  BY DEF SyncInv, OperationOK, CurrentInv
<1>2. HasRead(r, o)
  BY <1>1 DEF HasRead, Settles, Updating
<1>3. Compared(op[r]) = Showable /\ Compared(o) = Showable
  BY DEF Compared, Settles
<1>4. ASSUME NEW row \in Rows(o) \ o.tags, row[2] \in Showable PROVE Removal(o, row[2])
  <2>1. row \in Rows(op[r]) \ op[r].tags /\ row[2] \notin D
    BY <1>4 DEF Settles
  <2>2. PICK w \in op[r].work : w.what \in {"set", "delete"} /\ w.digest = row[2]
    BY <1>1, <1>3, <1>4, <2>1 DEF Planned, Removal
  <2>3. w \in o.work
    BY <2>1, <2>2 DEF Settles
  <2> QED
    BY <2>2, <2>3 DEF Removal
<1>5. ASSUME OwnDigests, NEW row \in o.tags \ Rows(o), row[2] \in Showable PROVE Addition(o, row[2])
  <2>1. row \in op[r].tags \ Rows(op[r]) /\ row[2] \notin D
    BY <1>5 DEF Settles
  <2>2. Addition(op[r], row[2])
    BY <1>1, <1>3, <1>5, <2>1 DEF Planned
  <2>3. row[2] # None
    BY <1>5, DigestAssumption DEF Showable, Digests
  <2>4. CASE op[r].cur = row[2]
    BY <2>1, <2>3, <2>4 DEF Settles, Addition
  <2>5. ASSUME NEW w \in op[r].work, w.what \in {"set", "store"}, w.digest = row[2] PROVE Addition(o, row[2])
    BY <2>1, <2>5 DEF Settles, Addition
  <2> QED
    BY <2>2, <2>4, <2>5 DEF Addition
<1>6. DigestsOf(Rows(o)) \subseteq Available[r]
  BY <1>1 DEF Settles, HasRead, Planned, DigestsOf
<1>7. Planned(r, o)
  BY <1>1, <1>3, <1>4, <1>5, <1>6 DEF Planned, Settles, Updating
<1> QED
  BY <1>2, <1>7, LocalCurrent DEF SyncInv
(* setTags leaves the rows of the digest that were read, and no others;    *)
(* and it moves away no tag that was read to point elsewhere.              *)
LEMMA WithTagsRows ==
  ASSUME NEW r \in Repos, op[r] \in Operation, Unambiguous(op[r].tags), NEW d \in Images \cup Lists,
         NEW o, o.imageTag = withTags(r, d).imageTag, o.listTag = withTags(r, d).listTag
  PROVE  /\ \A row \in Rows(o) : row \in op[r].tags \/ (row \in Rows(op[r]) /\ row[2] \notin {d})
         /\ \A row \in op[r].tags : row \in Rows(op[r]) \/ row[2] \in {d} => row \in Rows(o)
<1> DEFINE p == op[r]
           tags == TagsFor(p.tags, d)
<1>1. /\ p.tags \subseteq Tags \X (Images \cup Lists)
      /\ p.imageTag \subseteq Tags \X Images /\ p.listTag \subseteq Tags \X Lists
  BY DEF Operation
<1>2. \A t \in tags : <<t, d>> \in p.tags
  BY DEF TagsFor
<1>3. \A row \in p.tags : row[2] = d => row[1] \in tags /\ row = <<row[1], d>>
  BY <1>1 DEF TagsFor
<1>4. \A row \in p.tags : row[2] # d => row[1] \notin tags
  <2> SUFFICES ASSUME NEW row \in p.tags, row[2] # d, row[1] \in tags PROVE FALSE
    OBVIOUS
  <2>1. <<row[1], d>> \in p.tags
    BY <1>2
  <2>2. row = <<row[1], d>>
    BY <2>1 DEF Unambiguous
  <2> QED
    BY <2>2
<1>5. CASE d \in Images
  <2>1. o.imageTag = setTags(p.imageTag, d, tags) /\ o.listTag = p.listTag
    BY <1>5 DEF withTags, Operation
  <2>2. \A row \in p.listTag : row[2] # d
    BY <1>1, <1>5, DigestAssumption
  <2> HIDE DEF tags, p
  <2>3. ASSUME NEW row \in Rows(o) PROVE row \in p.tags \/ (row \in Rows(p) /\ row[2] \notin {d})
    BY <1>2, <2>1, <2>2 DEF Rows, setTags
  <2>4. ASSUME NEW row \in p.tags, row \in Rows(p) \/ row[2] \in {d} PROVE row \in Rows(o)
    <3>1. CASE row[2] = d
      BY <1>3, <2>1, <3>1 DEF Rows, setTags
    <3>2. CASE row[2] # d
      BY <1>4, <2>1, <2>4, <3>2 DEF Rows, setTags
    <3> QED
      BY <3>1, <3>2
  <2> QED
    BY <2>3, <2>4 DEF p
<1>6. CASE d \notin Images
  <2>1. o.listTag = setTags(p.listTag, d, tags) /\ o.imageTag = p.imageTag
    BY <1>6 DEF withTags, Operation
  <2>2. \A row \in p.imageTag : row[2] # d
    BY <1>1, <1>6
  <2> HIDE DEF tags, p
  <2>3. ASSUME NEW row \in Rows(o) PROVE row \in p.tags \/ (row \in Rows(p) /\ row[2] \notin {d})
    BY <1>2, <2>1, <2>2 DEF Rows, setTags
  <2>4. ASSUME NEW row \in p.tags, row \in Rows(p) \/ row[2] \in {d} PROVE row \in Rows(o)
    <3>1. CASE row[2] = d
      BY <1>3, <2>1, <3>1 DEF Rows, setTags
    <3>2. CASE row[2] # d
      BY <1>4, <2>1, <2>4, <3>2 DEF Rows, setTags
    <3> QED
      BY <3>1, <3>2
  <2> QED
    BY <2>3, <2>4 DEF p
<1> QED
  BY <1>5, <1>6

(* SetTags preserves the invariant. *)
LEMMA SetTagsCurrent ==
  ASSUME SyncInv, CurrentInv, NEW r \in Repos, SetTags(r)
  PROVE  CurrentInv'
<1>1. /\ op[r] \in Operation /\ op[r].pc = "update" /\ op[r].cur = None /\ Unambiguous(op[r].tags)
  BY DEF SyncInv, OperationOK, CurrentInv, HasRead, Planned, SetTags
<1>2. PICK w \in op[r].work : Local(r, [withTags(r, w.digest) EXCEPT !.work = @ \ {w}])
  BY DEF SetTags, nextWork, Local
<1> DEFINE d == w.digest
           o == [withTags(r, d) EXCEPT !.work = @ \ {w}]
<1>3. d \in Images \cup Lists
  BY <1>1 DEF Operation, Work
<1>4. /\ o.pc = "update" /\ o.tags = op[r].tags /\ o.unread = op[r].unread /\ o.cur = None
      /\ o.work = op[r].work \ {w}
      /\ o.imageTag = withTags(r, d).imageTag /\ o.listTag = withTags(r, d).listTag
  <2>1. CASE d \in Images
    BY <1>1, <2>1 DEF withTags, Operation
  <2>2. CASE d \notin Images
    BY <1>1, <2>2 DEF withTags, Operation
  <2> QED
    BY <2>1, <2>2
<1>5. Local(r, o)
  BY <1>2
<1> HIDE DEF o
<1>6. /\ \A row \in Rows(o) : row \in op[r].tags \/ (row \in Rows(op[r]) /\ row[2] \notin {d})
      /\ \A row \in op[r].tags : row \in Rows(op[r]) \/ row[2] \in {d} => row \in Rows(o)
  <2> HIDE DEF d
  <2> QED
    BY <1>1, <1>3, <1>4, WithTagsRows
<1>7. Settles(op[r], o, {d})
  BY <1>1, <1>4, <1>6 DEF Settles, Updating
<1> QED
  BY <1>5, <1>7, SettleStep

(* DeleteDigest preserves the invariant. *)
LEMMA DeleteDigestCurrent ==
  ASSUME SyncInv, CurrentInv, NEW r \in Repos, DeleteDigest(r)
  PROVE  CurrentInv'
<1>1. op[r] \in Operation /\ op[r].pc = "update" /\ op[r].cur = None /\ Planned(r, op[r])
  BY DEF SyncInv, OperationOK, CurrentInv, Planned, DeleteDigest
<1>2. PICK w \in op[r].work :
        /\ w.what = "delete"
        /\ Local(r, [op[r] EXCEPT !.work = @ \ {w}, !.imageTag = deleteDigest(@, w.digest),
                                  !.listTag = deleteDigest(@, w.digest)])
  BY DEF DeleteDigest, nextWork, Local, SyncInv, TypeOK
<1> DEFINE d == w.digest
           o == [op[r] EXCEPT !.work = @ \ {w}, !.imageTag = deleteDigest(@, d), !.listTag = deleteDigest(@, d)]
<1>3. /\ o.pc = "update" /\ o.tags = op[r].tags /\ o.unread = op[r].unread /\ o.cur = None
      /\ o.work = op[r].work \ {w}
      /\ o.imageTag = deleteDigest(op[r].imageTag, d) /\ o.listTag = deleteDigest(op[r].listTag, d)
  BY <1>1 DEF Operation
<1>4. Local(r, o)
  BY <1>2
<1> HIDE DEF o
<1>5. d \notin DigestsOf(op[r].tags)
  BY <1>1, <1>2 DEF Planned
<1>6. /\ \A row \in Rows(o) : row \in Rows(op[r]) /\ row[2] # d
      /\ \A row \in Rows(op[r]) : row[2] # d => row \in Rows(o)
  BY <1>3 DEF Rows, deleteDigest
<1>7. \A row \in op[r].tags : row[2] # d
  BY <1>5 DEF DigestsOf
<1>8. Settles(op[r], o, {d})
  BY <1>1, <1>3, <1>6, <1>7 DEF Settles, Updating
<1> QED
  BY <1>4, <1>8, SettleStep

(* FetchManifest preserves the invariant. *)
LEMMA FetchManifestCurrent ==
  ASSUME SyncInv, CurrentInv, NEW r \in Repos, FetchManifest(r)
  PROVE  CurrentInv'
<1>1. op[r] \in Operation /\ op[r].pc = "update" /\ op[r].cur = None
  BY DEF SyncInv, OperationOK, CurrentInv, Planned, FetchManifest
<1>2. PICK w \in op[r].work :
        /\ w.what = "store"
        /\ Local(r, [op[r] EXCEPT !.pc = "insert", !.cur = w.digest, !.work = @ \ {w}])
  BY DEF FetchManifest, nextWork, Local, SyncInv, TypeOK
<1> DEFINE o == [op[r] EXCEPT !.pc = "insert", !.cur = w.digest, !.work = @ \ {w}]
<1>3. /\ o.pc = "insert" /\ o.tags = op[r].tags /\ o.unread = op[r].unread /\ o.cur = w.digest
      /\ o.work = op[r].work \ {w} /\ Rows(o) = Rows(op[r])
  BY <1>1 DEF Operation, Rows
<1>4. Local(r, o)
  BY <1>2
<1> HIDE DEF o
<1>5. Settles(op[r], o, {})
  BY <1>1, <1>2, <1>3 DEF Settles, Updating
<1> QED
  BY <1>4, <1>5, SettleStep

(* The statements at the end of StoreImage and StoreImageList preserve the *)
(* invariant: the tags of the stored manifest are set.                     *)
LEMMA StoredCurrent ==
  ASSUME SyncInv, CurrentInv, NEW r \in Repos, op[r].pc \in {"insert", "entries"}, op[r].cur \in Images \cup Lists,
         NEW o, Local(r, o),
         o.pc = "update", o.cur = None, o.work = op[r].work, o.tags = op[r].tags, o.unread = op[r].unread,
         o.imageTag = withTags(r, op[r].cur).imageTag, o.listTag = withTags(r, op[r].cur).listTag
  PROVE  CurrentInv'
<1> DEFINE d == op[r].cur
<1>1. op[r] \in Operation /\ Unambiguous(op[r].tags)
  BY DEF SyncInv, OperationOK, CurrentInv, HasRead
<1>2. /\ \A row \in Rows(o) : row \in op[r].tags \/ (row \in Rows(op[r]) /\ row[2] \notin {d})
      /\ \A row \in op[r].tags : row \in Rows(op[r]) \/ row[2] \in {d} => row \in Rows(o)
  BY <1>1, WithTagsRows
<1>3. Settles(op[r], o, {d})
  BY <1>2 DEF Settles, Updating
<1> QED
  BY <1>3, SettleStep
(* StoreImage preserves the invariant. *)
LEMMA StoreImageCurrent ==
  ASSUME SyncInv, CurrentInv, NEW r \in Repos, StoreImage(r)
  PROVE  CurrentInv'
<1> DEFINE i == op[r].cur
           o == [withTags(r, i) EXCEPT !.pc = "update", !.cur = None, !.image = @ \cup ({i} \ db.image)]
<1>1. op[r] \in Operation /\ op[r].pc = "insert" /\ i \in Images /\ Local(r, o)
  BY DEF SyncInv, OperationOK, StoreImage, Local
<1>2. /\ o.pc = "update" /\ o.cur = None /\ o.work = op[r].work /\ o.tags = op[r].tags /\ o.unread = op[r].unread
      /\ o.imageTag = withTags(r, i).imageTag /\ o.listTag = withTags(r, i).listTag
  BY <1>1 DEF withTags, Operation
<1> HIDE DEF o
<1> QED
  BY <1>1, <1>2, StoredCurrent

(* TagList preserves the invariant. *)
LEMMA TagListCurrent ==
  ASSUME SyncInv, CurrentInv, NEW r \in Repos, TagList(r)
  PROVE  CurrentInv'
<1> DEFINE l == op[r].cur
           o == [withTags(r, l) EXCEPT !.pc = "update", !.cur = None]
<1>1. op[r] \in Operation /\ op[r].pc = "entries" /\ l \in Lists /\ Local(r, o)
  BY DEF SyncInv, OperationOK, Control, TagList, Local
<1>2. l \notin Images
  BY <1>1, DigestAssumption
<1>3. /\ o.pc = "update" /\ o.cur = None /\ o.work = op[r].work /\ o.tags = op[r].tags /\ o.unread = op[r].unread
      /\ o.imageTag = withTags(r, l).imageTag /\ o.listTag = withTags(r, l).listTag
  BY <1>1, <1>2 DEF withTags, Operation
<1> HIDE DEF o
<1> QED
  BY <1>1, <1>3, StoredCurrent

(* InsertList and InsertEntry preserve the invariant: they write no tag. *)
LEMMA InsertCurrent ==
  ASSUME SyncInv, CurrentInv, NEW r \in Repos, InsertList(r) \/ InsertEntry(r)
  PROVE  CurrentInv'
<1>1. op[r] \in Operation /\ op[r].pc \in {"insert", "entries"}
  BY DEF SyncInv, OperationOK, InsertList, InsertEntry
<1>2. ASSUME NEW o, Local(r, o), o.pc = "entries", o.tags = op[r].tags, o.unread = op[r].unread,
             o.work = op[r].work, o.cur = op[r].cur, o.imageTag = op[r].imageTag, o.listTag = op[r].listTag
      PROVE  CurrentInv'
  <2>1. Settles(op[r], o, {})
    BY <1>1, <1>2 DEF Settles, Rows, Updating
  <2> QED
    BY <1>2, <2>1, SettleStep
<1>3. CASE InsertList(r)
  <2> DEFINE l == op[r].cur
             images == IF l \in db.list THEN <<>> ELSE Contents[l]
             o == [op[r] EXCEPT !.pc = "entries", !.list = @ \cup ({l} \ db.list), !.rest = images]
  <2>1. Local(r, o)
    BY <1>3 DEF InsertList, Local, SyncInv, TypeOK
  <2>2. /\ o.pc = "entries" /\ o.tags = op[r].tags /\ o.unread = op[r].unread /\ o.work = op[r].work
        /\ o.cur = op[r].cur /\ o.imageTag = op[r].imageTag /\ o.listTag = op[r].listTag
    BY <1>1 DEF Operation
  <2> HIDE DEF o
  <2> QED
    BY <1>2, <2>1, <2>2
<1>4. CASE InsertEntry(r)
  <2> DEFINE i == Head(op[r].rest)
             o == [op[r] EXCEPT !.rest = Tail(@), !.image = @ \cup ({i} \ db.image),
                                !.listEntry = @ \cup {<<op[r].cur, i>>}]
  <2>1. Local(r, o) /\ op[r].pc = "entries"
    BY <1>4 DEF InsertEntry, Local, SyncInv, TypeOK
  <2>2. /\ o.pc = "entries" /\ o.tags = op[r].tags /\ o.unread = op[r].unread /\ o.work = op[r].work
        /\ o.cur = op[r].cur /\ o.imageTag = op[r].imageTag /\ o.listTag = op[r].listTag
    BY <1>1, <2>1 DEF Operation
  <2> HIDE DEF o
  <2> QED
    BY <1>2, <2>1, <2>2
<1> QED
  BY <1>3, <1>4

-----------------------------------------------------------------------------
(* The start and the end of a fetch, and the other steps. *)

(* An operation that has read nothing is as the invariant says. *)
LEMMA NothingRead ==
  ASSUME NEW r, NEW o, o.pc \in {"idle", "all"},
         o = [NoOperation EXCEPT !.pc = o.pc]
  PROVE  HasRead(r, o) /\ Planned(r, o)
<1>1. o.tags = {} /\ o.work = {} /\ o.cur = None /\ Rows(o) = {}
  BY DEF NoOperation, Rows
<1>2. HasRead(r, o)
  BY <1>1 DEF HasRead, Unambiguous, DigestsOf
<1>3. Planned(r, o)
  BY <1>1 DEF Planned, DigestsOf
<1> QED
  BY <1>2, <1>3

(* Init establishes the invariant. *)
LEMMA CurrentInit == Init => CurrentInv
<1> SUFFICES ASSUME Init, NEW r \in Repos PROVE HasRead(r, op[r]) /\ Planned(r, op[r]) /\ RepositoryOK(r)
  BY DEF CurrentInv
<1>1. op[r] = NoOperation /\ NoOperation.pc = "idle" /\ NoOperation = [NoOperation EXCEPT !.pc = NoOperation.pc]
  BY DEF Init, NoOperation
<1>2. HasRead(r, op[r]) /\ Planned(r, op[r])
  BY <1>1, NothingRead
<1>3. registry[r] = {} /\ TagRows(r) = {}
  BY DEF Init, EmptyTables, TagRows
<1>4. RepositoryOK(r)
  BY <1>3 DEF RepositoryOK, Unambiguous, DigestsOf, VisibleRows, Known
<1> QED
  BY <1>2, <1>4

(* A change of r in the registry preserves the invariant: r is pending     *)
(* until the next fetch begins.                                            *)
LEMMA RegistryCurrent ==
  ASSUME SyncInv, CurrentInv, NEW r \in Repos, NEW rows,
         registry' = [registry EXCEPT ![r] = rows], unnotified' = unnotified \cup {r},
         UNCHANGED <<poolVars, missed, db, op>>,
         Unambiguous(rows), DigestsOf(rows) \subseteq Available[r]
  PROVE  CurrentInv'
<1>1. \A q \in Repos : registry'[q] = IF q = r THEN rows ELSE registry[q]
  BY DEF SyncInv, TypeOK
<1>2. UNCHANGED <<urgent, background, busy, missed, db, op>>
  BY DEF poolVars
<1>3. Pending(r)' /\ ~Quiet(r)'
  BY DEF Pending, Quiet
<1>4. \A q \in Repos : q # r => (Pending(q)' <=> Pending(q)) /\ (Quiet(q)' <=> Quiet(q))
  BY <1>2 DEF Pending, Quiet
<1>5. ASSUME NEW q \in Repos PROVE HasRead(q, op[q])'
  <2>1. HasRead(q, op[q])
    BY DEF CurrentInv
  <2> QED
    BY <1>1, <1>2, <1>3, <1>4, <2>1 DEF HasRead
<1>6. ASSUME NEW q \in Repos PROVE Planned(q, op[q])'
  BY <1>2 DEF CurrentInv, Planned
<1>7. ASSUME NEW q \in Repos PROVE RepositoryOK(q)'
  <2>1. RepositoryOK(q)
    BY DEF CurrentInv
  <2> QED
    BY <1>1, <1>2, <1>3, <1>4, <2>1 DEF RepositoryOK, TagRows, VisibleRows
<1> QED
  BY <1>5, <1>6, <1>7 DEF CurrentInv

(* Push and DeleteTag preserve the invariant. *)
LEMMA PushCurrent ==
  ASSUME SyncInv, CurrentInv, NEW r \in Repos, NEW t \in Tags, NEW d \in Digests, Push(r, t, d)
  PROVE  CurrentInv'
<1> DEFINE rows == Untag(registry[r], t) \cup {<<t, d>>}
<1>1. d \in Available[r] /\ registry' = [registry EXCEPT ![r] = rows]
  BY DEF Push
<1>2. Unambiguous(registry[r]) /\ DigestsOf(registry[r]) \subseteq Available[r]
  BY DEF CurrentInv, RepositoryOK
<1>3. Unambiguous(rows) /\ DigestsOf(rows) \subseteq Available[r]
  BY <1>1, <1>2 DEF Unambiguous, DigestsOf, Untag
<1> HIDE DEF rows
<1> QED
  BY <1>1, <1>3, RegistryCurrent DEF Push

(* DeleteTag preserves the invariant. *)
LEMMA DeleteTagCurrent ==
  ASSUME SyncInv, CurrentInv, NEW r \in Repos, NEW t \in Tags, DeleteTag(r, t)
  PROVE  CurrentInv'
<1> DEFINE rows == Untag(registry[r], t)
<1>1. registry' = [registry EXCEPT ![r] = rows]
  BY DEF DeleteTag
<1>2. Unambiguous(registry[r]) /\ DigestsOf(registry[r]) \subseteq Available[r]
  BY DEF CurrentInv, RepositoryOK
<1>3. Unambiguous(rows) /\ DigestsOf(rows) \subseteq Available[r]
  BY <1>2 DEF Unambiguous, DigestsOf, Untag
<1> HIDE DEF rows
<1> QED
  BY <1>1, <1>3, RegistryCurrent DEF DeleteTag
(* StartFetch preserves the invariant. *)
LEMMA StartFetchCurrent ==
  ASSUME SyncInv, CurrentInv, NEW r \in Repos, StartFetch(r)
  PROVE  CurrentInv'
<1>1. /\ r \notin busy /\ busy' = busy \cup {r} /\ urgent' = urgent \ {r} /\ background' = background \ {r}
      /\ missed' = missed \ {r} /\ UNCHANGED <<registry, unnotified, db>>
  BY DEF StartFetch, Start
<1>2. op[r] = NoOperation
  BY <1>1 DEF SyncInv, OperationOK, Control
<1> DEFINE o == [NoOperation EXCEPT !.pc = "all"]
<1>3. \A q \in Repos : op'[q] = IF q = r THEN o ELSE op[q]
  BY <1>2 DEF StartFetch, SyncInv, TypeOK
<1>4. o.pc = "all" /\ o = [NoOperation EXCEPT !.pc = o.pc]
  BY DEF NoOperation
<1> HIDE DEF o
<1>5. \A q \in Repos : q # r => (Pending(q)' <=> Pending(q)) /\ (Quiet(q)' <=> Quiet(q))
  BY <1>1 DEF Pending, Quiet
<1>6. ~Quiet(r)'
  BY <1>1 DEF Quiet
<1>7. HasRead(r, op[r])' /\ Planned(r, op[r])'
  <2>1. op'[r] = o
    BY <1>3
  <2>2. HasRead(r, o) /\ Planned(r, o)
    BY <1>4, NothingRead
  <2> QED
    BY <1>1, <1>4, <2>1, <2>2 DEF HasRead, Planned
<1>8. ASSUME NEW q \in Repos, q # r PROVE HasRead(q, op[q])' /\ Planned(q, op[q])'
  <2>1. HasRead(q, op[q]) /\ Planned(q, op[q]) /\ op'[q] = op[q] /\ (Pending(q)' <=> Pending(q))
    BY <1>3, <1>5, <1>8 DEF CurrentInv
  <2> QED
    BY <1>1, <2>1 DEF HasRead, Planned
<1>9. ASSUME NEW q \in Repos PROVE RepositoryOK(q)'
  <2>1. RepositoryOK(q)
    BY DEF CurrentInv
  <2> QED
    BY <1>1, <1>5, <1>6, <2>1 DEF RepositoryOK, TagRows, VisibleRows
<1> QED
  BY <1>7, <1>8, <1>9 DEF CurrentInv

(* A fetch that ends with an error preserves the invariant, because r is   *)
(* pending.                                                                *)
LEMMA AbandonCurrent ==
  ASSUME SyncInv, CurrentInv, NEW r \in Repos, Abandon(r), missed' \in {missed, missed \cup {r}}, Pending(r)'
  PROVE  CurrentInv'
<1>1. busy' = busy \ {r} /\ UNCHANGED <<urgent, background, registry, unnotified, db>>
  BY DEF Abandon, Finish
<1>2. \A q \in Repos : op'[q] = IF q = r THEN NoOperation ELSE op[q]
  BY DEF Abandon, SyncInv, TypeOK
<1>3. \A q \in Repos : q # r => (Pending(q)' <=> Pending(q)) /\ (Quiet(q)' <=> Quiet(q))
  BY <1>1 DEF Pending, Quiet
<1>4. ~Quiet(r)'
  BY DEF Quiet, Pending
<1>5. HasRead(r, op[r])' /\ Planned(r, op[r])'
  <2>1. op'[r] = NoOperation
    BY <1>2
  <2>2. NoOperation.pc = "idle" /\ NoOperation = [NoOperation EXCEPT !.pc = NoOperation.pc]
    BY DEF NoOperation
  <2>3. HasRead(r, NoOperation) /\ Planned(r, NoOperation)
    BY <2>2, NothingRead
  <2> QED
    BY <1>1, <2>1, <2>2, <2>3 DEF HasRead, Planned
<1>6. ASSUME NEW q \in Repos, q # r PROVE HasRead(q, op[q])' /\ Planned(q, op[q])'
  <2>1. HasRead(q, op[q]) /\ Planned(q, op[q]) /\ op'[q] = op[q] /\ (Pending(q)' <=> Pending(q))
    BY <1>2, <1>3, <1>6 DEF CurrentInv
  <2> QED
    BY <1>1, <2>1 DEF HasRead, Planned
<1>7. ASSUME NEW q \in Repos PROVE RepositoryOK(q)'
  <2>1. RepositoryOK(q)
    BY DEF CurrentInv
  <2> QED
    BY <1>1, <1>3, <1>4, <2>1 DEF RepositoryOK, TagRows, VisibleRows
<1> QED
  BY <1>5, <1>6, <1>7 DEF CurrentInv

(* TagGone happens only when the registry has changed since the fetch      *)
(* began: the request that came with the change is still there.            *)
LEMMA TagGoneCurrent ==
  ASSUME SyncInv, CurrentInv, NEW r \in Repos, NEW t \in Tags, TagGone(r, t)
  PROVE  CurrentInv'
<1>1. /\ op[r].pc = "get" /\ t \in op[r].unread /\ HasRead(r, op[r]) /\ Abandon(r) /\ missed' = missed
      /\ \A d \in Digests : <<t, d>> \notin registry[r]
  BY DEF TagGone, CurrentInv
<1>2. registry[r] \subseteq Tags \X Digests
  BY DEF SyncInv, TypeOK
<1>3. Pending(r)
  <2> SUFFICES ASSUME ~Pending(r) PROVE FALSE
    OBVIOUS
  <2>1. t \in {row[1] : row \in registry[r]}
    BY <1>1 DEF HasRead
  <2>2. PICK row \in registry[r] : t = row[1]
    BY <2>1
  <2>3. row = <<t, row[2]>> /\ row[2] \in Digests
    BY <1>2, <2>2
  <2> QED
    BY <1>1, <2>2, <2>3
<1>4. Pending(r)'
  BY <1>1, <1>3 DEF Abandon, Finish, Pending
<1> QED
  BY <1>1, <1>4, AbandonCurrent

(* Commit preserves the invariant: no work is left, so what is committed   *)
(* agrees with what was read, and that with the registry, unless r is      *)
(* pending.                                                                *)
LEMMA CommitCurrent ==
  ASSUME SyncInv, CurrentInv, NEW r \in Repos, Commit(r)
  PROVE  CurrentInv'
<1> DEFINE p == op[r]
<1>1. /\ p \in Operation /\ Control(r, p) /\ HasRead(r, p) /\ Planned(r, p) /\ p.pc = "update" /\ p.work = {}
  BY DEF SyncInv, OperationOK, CurrentInv, Commit
<1>2. busy' = busy \ {r} /\ UNCHANGED <<urgent, background, registry, unnotified, missed>>
  BY DEF Commit, Finish
<1>3. \A q \in Repos : op'[q] = IF q = r THEN NoOperation ELSE op[q]
  BY DEF Commit, SyncInv, TypeOK
<1>4. /\ db'.imageTag = [db.imageTag EXCEPT ![r] = p.imageTag]
      /\ db'.listTag = [db.listTag EXCEPT ![r] = p.listTag]
      /\ db \in Tables
  BY DEF Commit, SyncInv, TypeOK, Tables
<1>5. \A q \in Repos : /\ db'.imageTag[q] = IF q = r THEN p.imageTag ELSE db.imageTag[q]
                       /\ db'.listTag[q] = IF q = r THEN p.listTag ELSE db.listTag[q]
  BY <1>4 DEF Tables
<1>6. \A q \in Repos : (Pending(q)' <=> Pending(q)) /\ (q # r => (Quiet(q)' <=> Quiet(q)))
  BY <1>2 DEF Pending, Quiet
<1>7. HasRead(r, op[r])' /\ Planned(r, op[r])'
  <2>1. op'[r] = NoOperation
    BY <1>3
  <2>2. NoOperation.pc = "idle" /\ NoOperation = [NoOperation EXCEPT !.pc = NoOperation.pc]
    BY DEF NoOperation
  <2>3. HasRead(r, NoOperation) /\ Planned(r, NoOperation)
    BY <2>2, NothingRead
  <2> QED
    BY <1>2, <1>6, <2>1, <2>2, <2>3 DEF HasRead, Planned
<1>8. ASSUME NEW q \in Repos, q # r PROVE HasRead(q, op[q])' /\ Planned(q, op[q])' /\ RepositoryOK(q)'
  <2>1. HasRead(q, op[q]) /\ Planned(q, op[q]) /\ RepositoryOK(q) /\ op'[q] = op[q]
    BY <1>3, <1>8 DEF CurrentInv
  <2>2. HasRead(q, op[q])' /\ Planned(q, op[q])'
    BY <1>2, <1>5, <1>6, <1>8, <2>1 DEF HasRead, Planned
  <2>3. TagRows(q)' = TagRows(q) /\ VisibleRows(q)' = VisibleRows(q)
    BY <1>5, <1>8 DEF TagRows, VisibleRows
  <2> QED
    BY <1>2, <1>6, <1>8, <2>1, <2>2, <2>3 DEF RepositoryOK
<1>9. RepositoryOK(r)'
  <2>1. TagRows(r)' = Rows(p)
    BY <1>5 DEF TagRows, Rows
  <2>2. /\ Unambiguous(registry[r]) /\ DigestsOf(registry[r]) \subseteq Available[r]
        /\ DigestsOf(Rows(p)) \subseteq Available[r]
    BY <1>1 DEF CurrentInv, RepositoryOK, Planned
  <2>3. Compared(p) = Showable /\ p.cur = None
    BY <1>1 DEF Compared, Updating, Planned
  <2>4. ASSUME Quiet(r)'
        PROVE  p.tags = Accepted(registry[r])
    <3>1. ~Pending(r)
      BY <1>2, <2>4 DEF Quiet, Pending
    <3>2. p.unread = {}
      BY <1>1 DEF Control, InTransaction
    <3> QED
      BY <1>1, <3>1, <3>2 DEF HasRead
  <2>5. \A row \in Rows(p) : row[2] \in Showable => row \in p.tags
    BY <1>1, <2>3 DEF Planned, Removal
  <2>6. OwnDigests => \A row \in p.tags : row[2] \in Showable => row \in Rows(p)
    <3>1. None \notin Showable
      BY DigestAssumption DEF Showable, Digests
    <3> QED
      BY <1>1, <2>3, <3>1 DEF Planned, Addition
  <2>7. registry[r] \subseteq Tags \X Digests
    BY DEF SyncInv, TypeOK
  <2>8. ASSUME NEW row \in registry[r] PROVE row \in Known(registry[r]) <=> row[2] \in Showable
    BY <2>7, DigestAssumption DEF Known, NotEmpty, Showable, Digests
  <2>9. ASSUME NEW row \in registry[r] PROVE row[2] \in Showable => row \in Accepted(registry[r])
    BY DigestAssumption DEF Showable, Accepted
  <2>10. Quiet(r)' => VisibleRows(r)' \subseteq Known(registry[r])
    BY <2>1, <2>4, <2>5, <2>8 DEF VisibleRows, Accepted
  <2>11. Quiet(r)' /\ OwnDigests => Known(registry[r]) \subseteq VisibleRows(r)'
    <3> SUFFICES ASSUME Quiet(r)', OwnDigests, NEW row \in Known(registry[r]) PROVE row \in VisibleRows(r)'
      OBVIOUS
    <3>1. row \in registry[r]
      BY DEF Known
    <3>2. row[2] \in Showable /\ row \in p.tags
      BY <2>4, <2>8, <2>9, <3>1
    <3> QED
      BY <2>1, <2>6, <3>2 DEF VisibleRows
  <2> QED
    BY <1>2, <2>1, <2>2, <2>10, <2>11 DEF RepositoryOK
<1> QED
  BY <1>7, <1>8, <1>9 DEF CurrentInv

(* garbageCollect preserves the invariant: it changes no tag. *)
LEMMA GarbageCollectCurrent ==
  ASSUME SyncInv, CurrentInv, GarbageCollect
  PROVE  CurrentInv'
<1>1. UNCHANGED <<urgent, background, busy, registry, unnotified, missed, op>> /\ db' = DeleteUnused(db) /\ db \in Tables
  BY DEF GarbageCollect, Leave, SyncInv, TypeOK
<1>2. db'.imageTag = db.imageTag /\ db'.listTag = db.listTag
  BY <1>1, Kept
<1>3. ASSUME NEW r \in Repos PROVE HasRead(r, op[r])' /\ Planned(r, op[r])'
  <2>1. HasRead(r, op[r]) /\ Planned(r, op[r])
    BY DEF CurrentInv
  <2> QED
    BY <1>1, <1>2, <2>1 DEF HasRead, Pending, Planned
<1>4. ASSUME NEW r \in Repos PROVE RepositoryOK(r)'
  <2>1. RepositoryOK(r)
    BY DEF CurrentInv
  <2> QED
    BY <1>1, <1>2, <2>1 DEF RepositoryOK, Quiet, TagRows, VisibleRows
<1> QED
  BY <1>3, <1>4 DEF CurrentInv

(* A restart preserves the invariant: the repositories whose requests and  *)
(* fetches are gone are counted as missed.                                 *)
LEMMA RestartCurrent ==
  ASSUME SyncInv, CurrentInv, Restart
  PROVE  CurrentInv'
<1>1. /\ op' = [r \in Repos |-> NoOperation] /\ UNCHANGED <<registry, unnotified, db>>
      /\ missed' = missed \cup urgent \cup background \cup busy
  BY DEF Restart
<1>2. ASSUME NEW r \in Repos PROVE HasRead(r, op[r])' /\ Planned(r, op[r])'
  <2>1. op'[r] = NoOperation
    BY <1>1
  <2>2. NoOperation.pc = "idle" /\ NoOperation = [NoOperation EXCEPT !.pc = NoOperation.pc]
    BY DEF NoOperation
  <2>3. HasRead(r, NoOperation) /\ Planned(r, NoOperation)
    BY <2>2, NothingRead
  <2> QED
    BY <1>1, <2>1, <2>2, <2>3 DEF HasRead, Planned
<1>3. ASSUME NEW r \in Repos PROVE RepositoryOK(r)'
  <2>1. RepositoryOK(r) /\ (Quiet(r)' => Quiet(r))
    BY <1>1 DEF CurrentInv, Quiet
  <2> QED
    BY <1>1, <2>1 DEF RepositoryOK, TagRows, VisibleRows
<1> QED
  BY <1>2, <1>3 DEF CurrentInv

(* Every step preserves the invariant. *)
LEMMA CurrentStep == SyncInv /\ CurrentInv /\ [Next]_vars => CurrentInv'
<1> SUFFICES ASSUME SyncInv, CurrentInv, [Next]_vars PROVE CurrentInv'
  OBVIOUS
<1>1. ASSUME NEW r \in Repos, Notify(r) \/ LoseNotification(r) \/ Scan(r) PROVE CurrentInv'
  <2>1. UNCHANGED <<registry, db, op, busy>> /\ \A q \in Repos : Pending(q) => Pending(q)'
    <3>1. CASE Notify(r)
      BY <3>1 DEF Notify, RequestUrgent, Pending
    <3>2. CASE LoseNotification(r)
      BY <3>2 DEF LoseNotification, poolVars, Pending
    <3>3. CASE Scan(r)
      BY <3>3 DEF Scan, RequestBackground, syncVars, Pending
    <3> QED
      BY <1>1, <3>1, <3>2, <3>3
  <2> QED
    BY <2>1, OutsideCurrent
<1>2. ASSUME LockForGC \/ GarbageCollectFails \/ UNCHANGED vars PROVE CurrentInv'
  BY <1>2, OutsideCurrent DEF LockForGC, GarbageCollectFails, Enter, Leave, vars, poolVars, syncVars, Pending
<1>3. ASSUME NEW r \in Repos, Fail(r) \/ DeadlockAbort(r) PROVE CurrentInv'
  <2>1. Abandon(r) /\ missed' = missed \cup {r}
    BY <1>3 DEF Fail, DeadlockAbort
  <2>2. Pending(r)'
    BY <2>1 DEF Pending
  <2> QED
    BY <2>1, <2>2, AbandonCurrent
<1>4. ASSUME NEW r \in Repos, FetchStep(r) PROVE CurrentInv'
  BY <1>3, <1>4, ListTagsCurrent, GetTagCurrent, TagGoneCurrent, QueryImagesCurrent, QueryListsCurrent,
     SetTagsCurrent, DeleteDigestCurrent, FetchManifestCurrent, StoreImageCurrent, InsertCurrent, TagListCurrent,
     CommitCurrent
     DEF FetchStep
<1> QED
  BY <1>1, <1>2, <1>3, <1>4, PushCurrent, DeleteTagCurrent, StartFetchCurrent, GarbageCollectCurrent, RestartCurrent
     DEF Next, RegistryStep, Failure, SystemStep

-----------------------------------------------------------------------------
(* The invariant holds in every reachable state. *)
THEOREM CurrentHolds == Spec => []CurrentInv
  BY CurrentInit, CurrentStep, InvariantHolds, PTL DEF Spec

(* The tags that the tables have, those of empty lists aside, are the ones *)
(* that the comparison of a fetch looks at.                                *)
LEMMA StoredAreVisible ==
  ASSUME SyncInv, NEW r \in Repos
  PROVE  StoredRows(r) = VisibleRows(r)
<1>1. /\ db.imageTag[r] \subseteq Tags \X Images /\ db.listTag[r] \subseteq Tags \X Lists
  BY DEF SyncInv, TypeOK, Tables
<1>2. \A row \in TagRows(r) : row[2] \in Images \cup Lists
  BY <1>1 DEF TagRows
<1>3. \A d \in Images \cup Lists : NotEmpty(d) <=> d \in Showable
  BY DigestAssumption DEF NotEmpty, Showable
<1> QED
  BY <1>2, <1>3 DEF StoredRows, VisibleRows, TagRows

(* The row of a tag that was moved or deleted in the registry does not     *)
(* stay among the rows of its repository, whichever digests the            *)
(* repositories share, unless it is that of a list without manifests.      *)
THEOREM NothingStaleStored == Spec => []NothingStale
<1>1. SyncInv /\ CurrentInv => NothingStale
  BY StoredAreVisible DEF CurrentInv, RepositoryOK, NothingStale
<1> QED
  BY <1>1, InvariantHolds, CurrentHolds, PTL

(* If no digest is in two repositories, the tables have exactly the tags   *)
(* of the registry when nothing is under way, those of lists without       *)
(* manifests aside.  Without that condition this is false:                 *)
(* updateRepositoryInDatabase takes the tags of a digest in other          *)
(* repositories for its own.                                               *)
THEOREM OwnDigestsSynced == OwnDigests => (Spec => []QuietMeansSynced)
<1> SUFFICES ASSUME OwnDigests PROVE Spec => []QuietMeansSynced
  OBVIOUS
<1>1. SyncInv /\ CurrentInv => QuietMeansSynced
  BY StoredAreVisible DEF CurrentInv, RepositoryOK, QuietMeansSynced
<1> QED
  BY <1>1, InvariantHolds, CurrentHolds, PTL
=============================================================================
