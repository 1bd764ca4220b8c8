------------------------------ MODULE Postgres ------------------------------
(***************************************************************************)
(* The tables of schema.sql and the statements of database/postgres.go, as *)
(* operators on table contents.  RepoSync says which of them run in which  *)
(* order and in whose transaction.                                         *)
(*                                                                         *)
(* A digest stands for the manifest it names, so the columns that a digest *)
(* determines (media type, architecture, annotations, labels) are left     *)
(* out.  A tag table (imageTag or listTag) is a function from repositories *)
(* to the set of their rows <<tag, digest>>.                               *)
(***************************************************************************)
EXTENDS Integers, FiniteSets, Sequences

CONSTANTS
  Repos,     \* names of repositories
  Tags,      \* names of tags
  Images,    \* digests of image manifests
  Lists,     \* digests of manifest lists and image indexes
  Contents   \* the images of each list, in the order of the manifest

ASSUME ContentsAssumption == Contents \in [Lists -> Seq(Images)]

(* What the database holds. *)
Tables ==
  [image : SUBSET Images,
   imageTag : [Repos -> SUBSET (Tags \X Images)],
   list : SUBSET Lists,
   listTag : [Repos -> SUBSET (Tags \X Lists)],
   listEntry : SUBSET (Lists \X Images)]

(* The tables that schema.sql creates. *)
EmptyTables ==
  [image |-> {},
   imageTag |-> [r \in Repos |-> {}],
   list |-> {},
   listTag |-> [r \in Repos |-> {}],
   listEntry |-> {}]

DigestsOf(rows) == {row[2] : row \in rows}

TagsFor(rows, d) == {t \in Tags : <<t, d>> \in rows}

-----------------------------------------------------------------------------
(* Queries. *)

(* The subselect that collects the tags of digest d.  In the query for     *)
(* images its condition t.Repository = Repository compares a column with   *)
(* itself, and in the query for lists there is no condition on the         *)
(* repository, so the tags come from the rows of every repository, with    *)
(* duplicates.  The rows stand for the elements of the tag array.          *)
tagRows(tagTable, d) ==
  {row \in Repos \X Tags : <<row[2], d>> \in tagTable[row[1]]}

(* The images that DoQuery returns for a query by repository. *)
doImageQuery(db, r) == DigestsOf(db.imageTag[r])

(* The lists that it returns: the join with listEntry leaves out a list    *)
(* that has no entries.                                                    *)
doListQuery(db, r) ==
  {l \in DigestsOf(db.listTag[r]) : \E i \in Images : <<l, i>> \in db.listEntry}

-----------------------------------------------------------------------------
(* Statements of a transaction that changes the tags of one repository.    *)
(* rows are the rows of that repository in the tag table.                  *)

(* setTags: an upsert of each tag, then the deletion of the other rows of  *)
(* the repository that point to d.  getTags does not restrict the old tags *)
(* to the repository, but the DELETE does.                                 *)
setTags(rows, d, tags) ==
  {row \in rows : row[1] \notin tags /\ row[2] # d} \cup (tags \X {d})

deleteDigestNone(rows, d) == rows

(* DeleteImage and DeleteImageList *)
deleteDigest(rows, d) == {row \in rows : row[2] # d}

-----------------------------------------------------------------------------
DeleteUnusedImagesFirst(db) ==
  LET tagged(table, d) == \E r \in Repos : d \in DigestsOf(table[r])
      listed(i) == i \in DigestsOf(db.listEntry)
      lists == {l \in db.list : tagged(db.listTag, l)}
  IN  [db EXCEPT !.list = lists,
                 !.listEntry = {e \in db.listEntry : e[1] \in lists},
                 !.image = {i \in db.image : tagged(db.imageTag, i) \/ listed(i)}]

(* DeleteUnused: the lists without a tag, with their entries (ON DELETE    *)
(* CASCADE), then the images without a tag that are in no list.            *)
DeleteUnused(db) ==
  LET tagged(table, d) == \E r \in Repos : d \in DigestsOf(table[r])
      lists == {l \in db.list : tagged(db.listTag, l)}
      entries == {e \in db.listEntry : e[1] \in lists}
  IN  [db EXCEPT !.list = lists,
                 !.listEntry = entries,
                 !.image = {i \in db.image : tagged(db.imageTag, i) \/ i \in DigestsOf(entries)}]
=============================================================================
