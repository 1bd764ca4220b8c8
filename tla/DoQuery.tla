------------------------------ MODULE DoQuery ------------------------------
(***************************************************************************)
(* DoQuery (database/postgres.go), which all pages and the fetcher call,   *)
(* while transactions of the fetcher commit.                               *)
(*                                                                         *)
(* It runs two statements in a READ COMMITTED transaction, so that each    *)
(* sees what is committed when it starts.  The loops over their rows and   *)
(* the loop that merges the results take a step for each round.  The       *)
(* condition of a query is the set of the rows <<repository, tag, image>>  *)
(* of the join that satisfy it; WebQuery says how it comes from a Query.   *)
(***************************************************************************)
EXTENDS Postgres, SequencesExt

CONSTANTS
  RepoOrder,   \* the names of the repositories, in the order of Go's <
  Databases,   \* what may be committed
  Conditions,  \* what may be asked for
  MaxVersions  \* bound on the states of the database during a query

ASSUME QueryAssumption ==
  /\ RepoOrder \in Seq(Repos) /\ IsInjective(RepoOrder) /\ ToSet(RepoOrder) = Repos
  /\ Databases \subseteq Tables
  /\ Conditions \subseteq SUBSET (Repos \X Tags \X Images)

VARIABLES
  db,          \* the committed tables
  pc,          \* where DoQuery is
  wanted,      \* the condition: the rows that are asked for
  rows,        \* what the current statement has still to return
  broken,      \* the transaction has failed, and DoQuery has not noticed
  imageRepos,  \* the result of doImageQuery
  listRepos,   \* the result of doListQuery
  i, j,        \* the merge: positions in the two results
  result,      \* the result of DoQuery
  during       \* the states of the database while it runs (history)

vars == <<db, pc, wanted, rows, broken, imageRepos, listRepos, i, j, result, during>>

ShownImage == [digest : Images, tags : (SUBSET Tags) \ {{}}]
ShownList == [digest : Lists, images : (SUBSET Images) \ {{}}, tags : (SUBSET Tags) \ {{}}]
Repository == [name : Repos, images : SUBSET ShownImage, lists : SUBSET ShownList]

Running == {"images", "imageRows", "listRows"}

(* Whatever is shown has a tag, and a list is shown with its images. *)
TypeOK ==
  /\ db \in Databases
  /\ pc \in Running \cup {"idle", "done", "error"}
  /\ wanted \in SUBSET (Repos \X Tags \X Images)
  /\ rows \in SUBSET Repository
  /\ broken \in BOOLEAN
  /\ imageRepos \in Seq(Repository)
  /\ listRepos \in Seq(Repository)
  /\ i \in 1..Len(imageRepos) + 1
  /\ j \in 1..Len(listRepos) + 1
  /\ result \in Seq(Repository)
  /\ during \in SUBSET Databases

Init ==
  /\ db \in Databases
  /\ pc = "idle"
  /\ wanted = {} /\ rows = {} /\ broken = FALSE
  /\ imageRepos = <<>> /\ listRepos = <<>> /\ result = <<>>
  /\ i = 1 /\ j = 1
  /\ during = {}

(* Another transaction commits. *)
Commit(tables) ==
  /\ pc \in Running
  /\ tables # db
  /\ Cardinality(during \cup {tables}) <= MaxVersions
  /\ db' = tables
  /\ during' = during \cup {tables}
  /\ UNCHANGED <<pc, wanted, rows, broken, imageRepos, listRepos, i, j, result>>

(* DoQuery is called. *)
Call(condition) ==
  /\ pc = "idle"
  /\ pc' = "images"
  /\ wanted' = condition
  /\ during' = {db}
  /\ UNCHANGED <<db, rows, broken, imageRepos, listRepos, i, j, result>>

-----------------------------------------------------------------------------
(* The two statements.  (The tags that they return with a digest are those *)
(* of all repositories.)                                                   *)

shownTags(tagTable, d) == {row[2] : row \in tagRows(tagTable, d)}

(* The rows <<repository, image>> of the image query. *)
imageRows(where) ==
  {row \in Repos \X Images :
     \E t \in TagsFor(db.imageTag[row[1]], row[2]) : <<row[1], t, row[2]>> \in where}

imageEntry(row) ==
  [name |-> row[1], lists |-> {},
   images |-> {[digest |-> row[2], tags |-> shownTags(db.imageTag, row[2])]}]

listedImagesAll(where, r, l) ==
  {d \in Images : <<l, d>> \in db.listEntry /\ TagsFor(db.listTag[r], l) # {}}

(* The images that the list query returns with a list: those that satisfy  *)
(* the condition.                                                          *)
listedImages(where, r, l) ==
  {d \in Images :
     /\ <<l, d>> \in db.listEntry
     /\ \E t \in TagsFor(db.listTag[r], l) : <<r, t, d>> \in where}

listRowsOuterJoin(where) == {row \in Repos \X Lists : row[2] \in DigestsOf(db.listTag[row[1]])}

(* The rows <<repository, list>> of the list query. *)
listRows(where) == {row \in Repos \X Lists : listedImages(where, row[1], row[2]) # {}}

listEntry(where, row) ==
  [name |-> row[1], images |-> {},
   lists |-> {[digest |-> row[2], images |-> listedImages(where, row[1], row[2]),
               tags |-> shownTags(db.listTag, row[2])]}]

(* A round of the loop over the rows: an entry for a repository is begun   *)
(* when the name changes.                                                  *)
addRow(repos, e) ==
  LET n == Len(repos) IN
  IF n > 0 /\ repos[n].name = e.name
  THEN [repos EXCEPT ![n] = [name |-> e.name, images |-> @.images \cup e.images,
                             lists |-> @.lists \cup e.lists]]
  ELSE Append(repos, e)

(* doImageQuery *)
QueryImages(where) ==
  /\ pc = "images"
  /\ pc' = "imageRows"
  /\ rows' = {imageEntry(row) : row \in imageRows(where)}
  /\ UNCHANGED <<db, wanted, broken, imageRepos, listRepos, i, j, result, during>>

(* ORDER BY Repository: the rows of a repository come together, and the    *)
(* repositories in the order of the collation of the database.             *)
ScanImage(e) ==
  LET current == {x \in rows : imageRepos # <<>> /\ x.name = Last(imageRepos).name} IN
  /\ pc = "imageRows"
  /\ e \in rows
  /\ current # {} => e \in current
  /\ imageRepos' = addRow(imageRepos, e)
  /\ rows' = rows \ {e}
  /\ UNCHANGED <<db, pc, wanted, broken, listRepos, i, j, result, during>>

(* doListQuery.  In a transaction that has failed, the statement fails. *)
QueryLists(where) ==
  /\ pc = "imageRows" /\ rows = {} /\ ~broken
  /\ pc' = "listRows"
  /\ rows' = {listEntry(where, row) : row \in listRows(where)}
  /\ UNCHANGED <<db, wanted, broken, imageRepos, listRepos, i, j, result, during>>

(* The rows come in any order. *)
ScanList(e) ==
  /\ pc = "listRows"
  /\ e \in rows
  /\ listRepos' = addRow(listRepos, e)
  /\ rows' = rows \ {e}
  /\ UNCHANGED <<db, pc, wanted, broken, imageRepos, i, j, result, during>>

(* A statement fails after some of its rows.  Next returns false as it     *)
(* does after the last row, and the loops do not ask for rows.Err().       *)
BreakOff ==
  /\ pc \in {"imageRows", "listRows"}
  /\ rows # {}
  /\ rows' = {}
  /\ broken' = TRUE
  /\ UNCHANGED <<db, pc, wanted, imageRepos, listRepos, i, j, result, during>>

-----------------------------------------------------------------------------
(* The loop that merges the two results, as if both were sorted by name. *)

(* Go's < on names. *)
comesBefore(r, q) ==
  \E m, n \in DOMAIN RepoOrder : m < n /\ RepoOrder[m] = r /\ RepoOrder[n] = q

Merging == pc = "listRows" /\ rows = {}
hasImage == i <= Len(imageRepos)
hasList == j <= Len(listRepos)

imageFirstSwapped == comesBefore(listRepos[j].name, imageRepos[i].name)

imageFirst == comesBefore(imageRepos[i].name, listRepos[j].name)

MergeBothNoLists ==
  /\ Merging /\ hasImage /\ hasList
  /\ imageRepos[i].name = listRepos[j].name
  /\ result' = Append(result, imageRepos[i])
  /\ i' = i + 1 /\ j' = j + 1
  /\ UNCHANGED <<db, pc, wanted, rows, broken, imageRepos, listRepos, during>>

MergeBoth ==
  /\ Merging /\ hasImage /\ hasList
  /\ imageRepos[i].name = listRepos[j].name
  /\ result' = Append(result, [imageRepos[i] EXCEPT !.lists = listRepos[j].lists])
  /\ i' = i + 1 /\ j' = j + 1
  /\ UNCHANGED <<db, pc, wanted, rows, broken, imageRepos, listRepos, during>>

MergeImage ==
  /\ Merging /\ hasImage
  /\ hasList => /\ imageRepos[i].name # listRepos[j].name
                /\ imageFirst
  /\ result' = Append(result, imageRepos[i])
  /\ i' = i + 1
  /\ UNCHANGED <<db, pc, wanted, rows, broken, imageRepos, listRepos, j, during>>

MergeList ==
  /\ Merging /\ hasList
  /\ hasImage => /\ imageRepos[i].name # listRepos[j].name
                 /\ ~imageFirst
  /\ result' = Append(result, listRepos[j])
  /\ j' = j + 1
  /\ UNCHANGED <<db, pc, wanted, rows, broken, imageRepos, listRepos, i, during>>

ReturnUncommitted ==
  /\ Merging /\ ~hasImage /\ ~hasList
  /\ pc' = "done"
  /\ UNCHANGED <<db, wanted, rows, broken, imageRepos, listRepos, i, j, result, during>>

(* The transaction commits, which fails if it has failed before, and the   *)
(* result is returned.                                                     *)
Return ==
  /\ Merging /\ ~hasImage /\ ~hasList
  /\ ~broken
  /\ pc' = "done"
  /\ UNCHANGED <<db, wanted, rows, broken, imageRepos, listRepos, i, j, result, during>>

Forget ==
  /\ wanted' = {} /\ rows' = {} /\ broken' = FALSE
  /\ imageRepos' = <<>> /\ listRepos' = <<>> /\ result' = <<>>
  /\ i' = 1 /\ j' = 1
  /\ during' = {}
  /\ UNCHANGED db

(* A statement, the reading of a row or the commit fails. *)
Fail ==
  /\ pc \in Running
  /\ pc' = "error"
  /\ Forget

(* The caller has used the result, or reported the error. *)
Finish ==
  /\ pc \in {"done", "error"}
  /\ pc' = "idle"
  /\ Forget

Merge == MergeBoth \/ MergeImage \/ MergeList

Next ==
  \/ \E tables \in Databases : Commit(tables)
  \/ \E condition \in Conditions : Call(condition)
  \/ QueryImages(wanted)
  \/ \E e \in rows : ScanImage(e)
  \/ QueryLists(wanted)
  \/ \E e \in rows : ScanList(e)
  \/ BreakOff
  \/ Merge
  \/ Return
  \/ Fail
  \/ Finish

Spec == Init /\ [][Next]_vars

-----------------------------------------------------------------------------
ImageWanted(tables, r, t, d) == <<t, d>> \in tables.imageTag[r] /\ <<r, t, d>> \in wanted

ListWanted(tables, r, t, l, d) ==
  <<t, l>> \in tables.listTag[r] /\ <<l, d>> \in tables.listEntry /\ <<r, t, d>> \in wanted

EntriesNamed(r) == {result[n] : n \in {k \in DOMAIN result : result[k].name = r}}

(* What is asked for and stays in the database while DoQuery runs is in    *)
(* the answer, with its tag: neither the loops over the rows nor the merge *)
(* lose anything, whatever the order of the rows and whatever else is      *)
(* committed meanwhile; and a statement that broke off is no answer.       *)
StableShown ==
  pc = "done" => \A r \in Repos, t \in Tags, d \in Images :
    /\ (\A tables \in during : ImageWanted(tables, r, t, d)) =>
         \E e \in EntriesNamed(r) : \E m \in e.images : m.digest = d /\ t \in m.tags
    /\ \A l \in Lists : (\A tables \in during : ListWanted(tables, r, t, l, d)) =>
         \E e \in EntriesNamed(r) : \E m \in e.lists : m.digest = l /\ t \in m.tags /\ d \in m.images

(* Every one of the tags is on the digest, in some repository. *)
TagsWereThere(tagTable, m) == \A t \in m.tags : \E q \in Repos : <<t, m.digest>> \in tagTable[q]

(* What is in the answer was asked for, and was in the database at some    *)
(* moment while DoQuery ran, a list with all the images that are shown     *)
(* with it, and each digest at the same moment with all the tags that are  *)
(* shown with it, which may be those of other repositories; the answer as  *)
(* a whole may be of two moments.                                          *)
ShownWasThere ==
  pc = "done" => \A n \in DOMAIN result :
    LET r == result[n].name IN
    /\ \A m \in result[n].images : \E tables \in during :
         /\ \E t \in Tags : ImageWanted(tables, r, t, m.digest)
         /\ TagsWereThere(tables.imageTag, m)
    /\ \A m \in result[n].lists : \E tables \in during :
         /\ \A d \in m.images : \E t \in Tags : ListWanted(tables, r, t, m.digest, d)
         /\ TagsWereThere(tables.listTag, m)

IsIncreasing(repos) == \A m, n \in DOMAIN repos : m < n => comesBefore(repos[m].name, repos[n].name)

(* If both statements return the repositories in the order of Go's <, the  *)
(* answer has one entry for each, in this order.  The code does not ensure *)
(* this: the list query has no order, the image query the collation's.     *)
OneEntryPerRepository ==
  pc = "done" /\ IsIncreasing(imageRepos) /\ IsIncreasing(listRepos) => IsIncreasing(result)

ShownDigests(kind) == UNION {{m.digest : m \in result[n][kind]} : n \in DOMAIN result}

(* The query by one repository, on which updateRepositoryInDatabase        *)
(* relies, gives one entry at most (the code looks at the first), with all *)
(* the images that the repository has at some moment, and all the lists    *)
(* that it has at another; this is how RepoSync uses the two statements.   *)
(* (It calls DoQuery in a transaction of its own, where a statement that   *)
(* broke off makes the later ones, or the commit, fail.)                   *)
FetcherSeesTables ==
  pc = "done" => \A r \in Repos : wanted = {r} \X Tags \X Images =>
    /\ Len(result) <= 1
    /\ \E one \in during : ShownDigests("images") = doImageQuery(one, r)
    /\ \E other \in during : ShownDigests("lists") = doListQuery(other, r)
=============================================================================
