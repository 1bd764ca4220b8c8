--------------------------- MODULE DoQueryProofs ---------------------------
(***************************************************************************)
(* Proofs about DoQuery: what its answer has to do with the tables, for    *)
(* any repositories, tags and manifests, any condition, any rows in any    *)
(* order and any commits meanwhile.                                        *)
(*                                                                         *)
(* The loops of the code are steps of the specification, so that loop      *)
(* invariants take the place of induction over the results.                *)
(***************************************************************************)
EXTENDS DoQuery, SequenceTheorems, TLAPS

(* repos shows the image m, or the list m, for r. *)
ImageIn(repos, r, m) == \E n \in DOMAIN repos : repos[n].name = r /\ m \in repos[n].images
ListIn(repos, r, m) == \E n \in DOMAIN repos : repos[n].name = r /\ m \in repos[n].lists

(* The statement has still to return the image m, or the list m, for r. *)
ImageComes(r, m) == \E e \in rows : e.name = r /\ m \in e.images
ListComes(r, m) == \E e \in rows : e.name = r /\ m \in e.lists

(* What the two statements return for r if they see the given tables. *)
ImageMatches(tables, r, d) == \E t \in Tags : ImageWanted(tables, r, t, d)
ImageFrom(tables, r, m) ==
  ImageMatches(tables, r, m.digest) /\ m.tags = shownTags(tables.imageTag, m.digest)

ListMatches(tables, r, l, d) == \E t \in Tags : ListWanted(tables, r, t, l, d)
ListFrom(tables, r, m) ==
  /\ m.images = {d \in Images : ListMatches(tables, r, m.digest, d)}
  /\ m.tags = shownTags(tables.listTag, m.digest)

-----------------------------------------------------------------------------
(* What each part of the state is before, while and after it is used. *)
Phases ==
  /\ pc \in Running => db \in during
  /\ pc \in {"idle", "images", "error"} => imageRepos = <<>> /\ rows = {} /\ broken = FALSE
  /\ pc \in {"idle", "images", "imageRows", "error"} => listRepos = <<>>
  /\ pc \notin {"listRows", "done"} \/ rows # {} => i = 1 /\ j = 1 /\ result = <<>>
  /\ pc = "done" => /\ rows = {} /\ broken = FALSE
                    /\ i = Len(imageRepos) + 1 /\ j = Len(listRepos) + 1

(* What doImageQuery has returned, with the rows still to come, is what    *)
(* the given tables have, or a part of it if the statement broke off.      *)
ImagesReadFrom(tables) ==
  \A r \in Repos, m \in ShownImage :
    LET read == ImageIn(imageRepos, r, m) \/ (pc = "imageRows" /\ ImageComes(r, m))
    IN  (read => ImageFrom(tables, r, m)) /\ (broken = FALSE => (ImageFrom(tables, r, m) => read))

(* The same for doListQuery. *)
ListsReadFrom(tables) ==
  \A r \in Repos, m \in ShownList :
    LET read == ListIn(listRepos, r, m) \/ ListComes(r, m)
    IN  (read => ListFrom(tables, r, m)) /\ (broken = FALSE => (ListFrom(tables, r, m) => read))

(* The results are those of some states of the tables during the query. *)
ImagesRead ==
  pc \in {"imageRows", "listRows", "done"} => \E tables \in during : ImagesReadFrom(tables)
ListsRead ==
  pc \in {"listRows", "done"} => \E tables \in during : ListsReadFrom(tables)

(* Images come from one statement and lists from the other. *)
KindsApart ==
  /\ \A n \in DOMAIN imageRepos : imageRepos[n].lists = {}
  /\ \A n \in DOMAIN listRepos : listRepos[n].images = {}
  /\ pc = "imageRows" => \A e \in rows : e.lists = {}
  /\ pc = "listRows" => \A e \in rows : e.images = {}

(* The merge has taken over what is before its positions, and that only. *)
Merged ==
  \A r \in Repos :
    /\ \A m \in ShownImage : ImageIn(result, r, m) <=>
         \E n \in 1..i - 1 : imageRepos[n].name = r /\ m \in imageRepos[n].images
    /\ \A m \in ShownList : ListIn(result, r, m) <=>
         \E n \in 1..j - 1 : listRepos[n].name = r /\ m \in listRepos[n].lists

(* If both results are sorted, what is merged so far is sorted too, and    *)
(* comes before what is not.                                               *)
MergedInOrder ==
  IsIncreasing(imageRepos) /\ IsIncreasing(listRepos) =>
    /\ IsIncreasing(result)
    /\ \A n \in DOMAIN result :
         /\ \A k \in i..Len(imageRepos) : comesBefore(result[n].name, imageRepos[k].name)
         /\ \A k \in j..Len(listRepos) : comesBefore(result[n].name, listRepos[k].name)

(* An entry ends where the name changes. *)
IsGrouped(repos) == \A n \in 1..Len(repos) - 1 : repos[n].name # repos[n + 1].name

(* Only repositories are shown that the condition allows. *)
WantedName(r) == \E row \in wanted : row[1] = r
NamesWanted ==
  /\ \A e \in rows : WantedName(e.name)
  /\ \A n \in DOMAIN imageRepos : WantedName(imageRepos[n].name)
  /\ \A n \in DOMAIN listRepos : WantedName(listRepos[n].name)
  /\ \A n \in DOMAIN result : WantedName(result[n].name)

QueryInv ==
  /\ TypeOK
  /\ Phases
  /\ ImagesRead
  /\ ListsRead
  /\ KindsApart
  /\ Merged
  /\ MergedInOrder
  /\ IsGrouped(imageRepos) /\ IsGrouped(listRepos)
  /\ NamesWanted

-----------------------------------------------------------------------------
(* Go's < is a strict total order of the names. *)
LEMMA StrictOrder ==
  /\ \A r \in Repos : ~comesBefore(r, r)
  /\ \A r, q \in Repos : r # q => comesBefore(r, q) \/ comesBefore(q, r)
  /\ \A r, q, s \in Repos : comesBefore(r, q) /\ comesBefore(q, s) => comesBefore(r, s)
<1>1. /\ DOMAIN RepoOrder = 1..Len(RepoOrder) /\ Len(RepoOrder) \in Nat
      /\ \A m, n \in DOMAIN RepoOrder : RepoOrder[m] = RepoOrder[n] => m = n
      /\ \A r \in Repos : \E n \in DOMAIN RepoOrder : RepoOrder[n] = r
  BY QueryAssumption, LenProperties DEF IsInjective, ToSet
<1>2. DOMAIN RepoOrder \subseteq Int
  BY <1>1
<1>3. \A r \in Repos : ~comesBefore(r, r)
  BY <1>1, <1>2 DEF comesBefore
<1>4. ASSUME NEW r \in Repos, NEW q \in Repos, r # q
      PROVE  comesBefore(r, q) \/ comesBefore(q, r)
  <2>1. PICK m \in DOMAIN RepoOrder : RepoOrder[m] = r
    BY <1>1
  <2>2. PICK n \in DOMAIN RepoOrder : RepoOrder[n] = q
    BY <1>1
  <2>3. m < n \/ n < m
    BY <1>2, <1>4, <2>1, <2>2
  <2> QED
    BY <2>1, <2>2, <2>3 DEF comesBefore
<1>5. ASSUME NEW r \in Repos, NEW q \in Repos, NEW s \in Repos, comesBefore(r, q), comesBefore(q, s)
      PROVE  comesBefore(r, s)
  <2>1. PICK k, m \in DOMAIN RepoOrder : k < m /\ RepoOrder[k] = r /\ RepoOrder[m] = q
    BY <1>5 DEF comesBefore
  <2>2. PICK l, n \in DOMAIN RepoOrder : l < n /\ RepoOrder[l] = q /\ RepoOrder[n] = s
    BY <1>5 DEF comesBefore
  <2>3. m = l
    BY <1>1, <2>1, <2>2
  <2>4. k < n
    BY <1>2, <2>1, <2>2, <2>3
  <2> QED
    BY <2>1, <2>2, <2>4 DEF comesBefore
<1> QED
  BY <1>3, <1>4, <1>5

(* new is repos with what the row e has, and nothing else, and begins an   *)
(* entry only for a new name.                                              *)
RowAdded(repos, e, new) ==
  /\ new \in Seq(Repository)
  /\ \A r, m : ImageIn(new, r, m) <=> ImageIn(repos, r, m) \/ (e.name = r /\ m \in e.images)
  /\ \A r, m : ListIn(new, r, m) <=> ListIn(repos, r, m) \/ (e.name = r /\ m \in e.lists)
  /\ \A n \in DOMAIN new : new[n].name = e.name \/ \E k \in DOMAIN repos : repos[k].name = new[n].name
  /\ IsGrouped(repos) => IsGrouped(new)

(* That is what a round of the loop over the rows does. *)
LEMMA AddRow ==
  ASSUME NEW repos \in Seq(Repository), NEW e \in Repository
  PROVE  RowAdded(repos, e, addRow(repos, e))
<1> DEFINE k == Len(repos)
           new == addRow(repos, e)
<1>1. k \in Nat /\ DOMAIN repos = 1..k /\ \A n \in 1..k : repos[n] \in Repository
  BY LenProperties, ElementOfSeq
<1>2. CASE k > 0 /\ repos[k].name = e.name
  <2> DEFINE x == [name |-> e.name, images |-> repos[k].images \cup e.images, lists |-> repos[k].lists \cup e.lists]
  <2>1. x \in Repository
    BY <1>1, <1>2 DEF Repository
  <2>2. new = [repos EXCEPT ![k] = x]
    BY <1>2 DEF addRow
  <2>3. new \in Seq(Repository) /\ Len(new) = k /\ DOMAIN new = 1..k
    BY <1>1, <1>2, <2>1, <2>2, ExceptSeq, LenProperties
  <2>4. /\ new[k] = x
        /\ \A n \in 1..k : n # k => new[n] = repos[n]
    <3>1. k \in DOMAIN repos
      BY <1>1, <1>2
    <3> HIDE DEF x, k
    <3> QED
      BY <1>1, <2>2, <3>1
  <2>5. x.name = e.name /\ x.images = repos[k].images \cup e.images /\ x.lists = repos[k].lists \cup e.lists
    OBVIOUS
  <2>6. k \in 1..k
    BY <1>1, <1>2
  <2> HIDE DEF new, x, k
  <2>7. \A n \in 1..k : new[n].name = repos[n].name
    BY <1>2, <2>4, <2>5
  <2>8. ASSUME NEW r, NEW m
        PROVE  ImageIn(new, r, m) <=> ImageIn(repos, r, m) \/ (e.name = r /\ m \in e.images)
    BY <1>1, <1>2, <2>3, <2>4, <2>5, <2>6 DEF ImageIn
  <2>9. ASSUME NEW r, NEW m
        PROVE  ListIn(new, r, m) <=> ListIn(repos, r, m) \/ (e.name = r /\ m \in e.lists)
    BY <1>1, <1>2, <2>3, <2>4, <2>5, <2>6 DEF ListIn
  <2>10. IsGrouped(repos) => IsGrouped(new)
    <3>1. \A n \in 1..k - 1 : n \in 1..k /\ n + 1 \in 1..k
      BY <1>1
    <3> QED
      BY <2>3, <2>7, <3>1 DEF IsGrouped, k
  <2> QED
    BY <1>1, <2>3, <2>7, <2>8, <2>9, <2>10 DEF new, RowAdded
<1>3. CASE ~(k > 0 /\ repos[k].name = e.name)
  <2>1. new = Append(repos, e)
    BY <1>3 DEF addRow
  <2>2. /\ new \in Seq(Repository) /\ Len(new) = k + 1 /\ DOMAIN new = 1..k + 1
        /\ new[k + 1] = e
        /\ \A n \in 1..k : new[n] = repos[n]
    BY <1>1, <2>1, AppendProperties, LenProperties
  <2>3. \A n : n \in 1..k + 1 <=> n \in 1..k \/ n = k + 1
    BY <1>1
  <2> HIDE DEF new, k
  <2>4. ASSUME NEW r, NEW m
        PROVE  ImageIn(new, r, m) <=> ImageIn(repos, r, m) \/ (e.name = r /\ m \in e.images)
    BY <1>1, <2>2, <2>3 DEF ImageIn
  <2>5. ASSUME NEW r, NEW m
        PROVE  ListIn(new, r, m) <=> ListIn(repos, r, m) \/ (e.name = r /\ m \in e.lists)
    BY <1>1, <2>2, <2>3 DEF ListIn
  <2>6. \A n \in DOMAIN new : new[n].name = e.name \/ \E l \in DOMAIN repos : repos[l].name = new[n].name
    BY <1>1, <2>2, <2>3
  <2>7. ASSUME IsGrouped(repos), NEW n \in 1..Len(new) - 1
        PROVE  new[n].name # new[n + 1].name
    <3>1. n \in 1..k
      BY <1>1, <2>2
    <3>2. CASE n = k
      BY <1>1, <1>3, <2>2, <3>1, <3>2
    <3>3. CASE n # k
      <4>1. n \in 1..k - 1 /\ n + 1 \in 1..k
        BY <1>1, <3>1, <3>3
      <4> QED
        BY <2>2, <2>7, <3>1, <4>1 DEF IsGrouped, k
    <3> QED
      BY <3>2, <3>3
  <2> QED
    BY <2>2, <2>4, <2>5, <2>6, <2>7 DEF new, IsGrouped, RowAdded
<1> QED
  BY <1>2, <1>3

-----------------------------------------------------------------------------
(* Nothing has been read yet. *)
Empty ==
  /\ rows = {} /\ broken = FALSE
  /\ imageRepos = <<>> /\ listRepos = <<>> /\ result = <<>>
  /\ i = 1 /\ j = 1

(* The invariant holds when nothing has been read. *)
LEMMA EmptyInv ==
  TypeOK /\ Empty /\ pc \in {"idle", "images", "error"} /\ (pc = "images" => db \in during) => QueryInv
<1> SUFFICES ASSUME TypeOK, Empty, pc \in {"idle", "images", "error"}, pc = "images" => db \in during
             PROVE  QueryInv
  OBVIOUS
<1>1. DOMAIN imageRepos = {} /\ DOMAIN listRepos = {} /\ DOMAIN result = {} /\ Len(imageRepos) = 0 /\ Len(listRepos) = 0
  BY DEF Empty
<1>2. Phases /\ ImagesRead /\ ListsRead /\ KindsApart /\ NamesWanted
  BY <1>1 DEF Empty, Phases, ImagesRead, ListsRead, KindsApart, NamesWanted, Running
<1>3. Merged
  BY <1>1 DEF Merged, ImageIn, ListIn, Empty
<1>4. MergedInOrder /\ IsGrouped(imageRepos) /\ IsGrouped(listRepos)
  BY <1>1 DEF MergedInOrder, IsIncreasing, IsGrouped
<1> QED
  BY <1>2, <1>3, <1>4 DEF QueryInv

(* Such states have the right types. *)
LEMMA EmptyType ==
  Empty /\ db \in Databases /\ pc \in {"idle", "error"} /\ wanted = {} /\ during = {} => TypeOK
<1> SUFFICES ASSUME Empty, db \in Databases, pc \in {"idle", "error"}, wanted = {}, during = {}
             PROVE  TypeOK
  OBVIOUS
<1>1. broken \in BOOLEAN /\ rows \in SUBSET Repository
  BY Zenon DEF Empty
<1>2. imageRepos \in Seq(Repository) /\ listRepos \in Seq(Repository) /\ result \in Seq(Repository)
  BY EmptySeq DEF Empty
<1>3. i \in 1..Len(imageRepos) + 1 /\ j \in 1..Len(listRepos) + 1
  BY EmptySeq DEF Empty
<1> QED
  BY <1>1, <1>2, <1>3 DEF TypeOK

(* The initial states satisfy the invariant. *)
LEMMA InvInit == Init => QueryInv
<1> SUFFICES ASSUME Init PROVE QueryInv
  OBVIOUS
<1>1. Empty
  BY DEF Init, Empty
<1>2. TypeOK
  BY <1>1, EmptyType DEF Init, Running
<1> QED
  BY <1>1, <1>2, EmptyInv DEF Init

(* Call preserves the invariant. *)
LEMMA CallInv ==
  ASSUME QueryInv, NEW condition \in Conditions, Call(condition)
  PROVE  QueryInv'
<1>1. Empty
  BY DEF QueryInv, Phases, Call, Empty
<1>2. TypeOK'
  BY QueryAssumption DEF QueryInv, TypeOK, Call, Running
<1>3. Empty' /\ pc' = "images" /\ db' \in during'
  BY <1>1 DEF Call, Empty
<1>4. (TypeOK /\ Empty /\ pc \in {"idle", "images", "error"} /\ (pc = "images" => db \in during))'
  BY <1>2, <1>3
<1> QED
  BY <1>4, EmptyInv, PTL

(* Fail and Finish preserve the invariant. *)
LEMMA ForgetInv ==
  ASSUME QueryInv, Fail \/ Finish
  PROVE  QueryInv'
<1>1. Forget /\ pc' \in {"idle", "error"}
  BY DEF Fail, Finish
<1>2. Empty'
  BY <1>1 DEF Forget, Empty
<1>3. TypeOK'
  <2>1. (Empty /\ db \in Databases /\ pc \in {"idle", "error"} /\ wanted = {} /\ during = {})'
    BY <1>1, <1>2 DEF Forget, QueryInv, TypeOK
  <2> QED
    BY <2>1, EmptyType, PTL
<1>4. (TypeOK /\ Empty /\ pc \in {"idle", "images", "error"} /\ (pc = "images" => db \in during))'
  BY <1>1, <1>2, <1>3
<1> QED
  BY <1>4, EmptyInv, PTL

(* What the statements return from given tables depends on the condition   *)
(* only.                                                                   *)
LEMMA SameFrom ==
  ASSUME wanted' = wanted
  PROVE  \A tables, r, m : /\ ImageFrom(tables, r, m)' <=> ImageFrom(tables, r, m)
                           /\ ListFrom(tables, r, m)' <=> ListFrom(tables, r, m)
<1> SUFFICES ASSUME NEW tables, NEW r, NEW m
             PROVE  /\ ImageFrom(tables, r, m)' <=> ImageFrom(tables, r, m)
                    /\ ListFrom(tables, r, m)' <=> ListFrom(tables, r, m)
  OBVIOUS
<1>1. \A d : ImageMatches(tables, r, d)' <=> ImageMatches(tables, r, d)
  BY DEF ImageMatches, ImageWanted
<1>2. \A l, d : ListMatches(tables, r, l, d)' <=> ListMatches(tables, r, l, d)
  BY DEF ListMatches, ListWanted
<1> QED
  BY <1>1, <1>2 DEF ImageFrom, ListFrom

(* Commit preserves the invariant: what was read is of a state that was    *)
(* committed at the time.                                                  *)
LEMMA CommitInv ==
  ASSUME QueryInv, NEW tables \in Databases, Commit(tables)
  PROVE  QueryInv'
<1>1. /\ db' = tables /\ during' = during \cup {tables}
      /\ UNCHANGED <<pc, wanted, rows, broken, imageRepos, listRepos, i, j, result>>
  BY DEF Commit
<1>2. TypeOK' /\ Phases'
  BY <1>1 DEF QueryInv, TypeOK, Phases
<1>3. \A seen : ImagesReadFrom(seen) => ImagesReadFrom(seen)'
  BY <1>1, SameFrom DEF ImagesReadFrom, ImageIn, ImageComes
<1>4. \A seen : ListsReadFrom(seen) => ListsReadFrom(seen)'
  BY <1>1, SameFrom DEF ListsReadFrom, ListIn, ListComes
<1>5. ImagesRead' /\ ListsRead'
  BY <1>1, <1>3, <1>4 DEF QueryInv, ImagesRead, ListsRead
<1>6. KindsApart' /\ Merged' /\ MergedInOrder' /\ NamesWanted'
  BY <1>1 DEF QueryInv, KindsApart, Merged, ImageIn, ListIn, MergedInOrder, IsIncreasing, NamesWanted, WantedName
<1>7. IsGrouped(imageRepos)' /\ IsGrouped(listRepos)'
  BY <1>1 DEF QueryInv, IsGrouped
<1> QED
  BY <1>2, <1>5, <1>6, <1>7 DEF QueryInv

(* Return preserves the invariant. *)
LEMMA ReturnInv ==
  ASSUME QueryInv, Return
  PROVE  QueryInv'
<1>1. /\ pc = "listRows" /\ pc' = "done" /\ rows = {} /\ ~broken
      /\ UNCHANGED <<db, wanted, rows, broken, imageRepos, listRepos, i, j, result, during>>
  BY DEF Return, Merging
<1>2. i = Len(imageRepos) + 1 /\ j = Len(listRepos) + 1
  <2>1. Len(imageRepos) \in Nat /\ Len(listRepos) \in Nat
    BY LenProperties DEF QueryInv, TypeOK
  <2> QED
    BY <2>1 DEF Return, hasImage, hasList, QueryInv, TypeOK
<1>3. TypeOK'
  BY <1>1 DEF QueryInv, TypeOK
<1>4. Phases'
  BY <1>1, <1>2 DEF QueryInv, Phases, Running, TypeOK
<1>5. \A seen : ImagesReadFrom(seen) => ImagesReadFrom(seen)'
  BY <1>1, SameFrom DEF ImagesReadFrom, ImageIn, ImageComes
<1>6. \A seen : ListsReadFrom(seen) => ListsReadFrom(seen)'
  BY <1>1, SameFrom DEF ListsReadFrom, ListIn, ListComes
<1>7. ImagesRead' /\ ListsRead'
  BY <1>1, <1>5, <1>6 DEF QueryInv, ImagesRead, ListsRead
<1>8. KindsApart' /\ Merged' /\ MergedInOrder' /\ NamesWanted'
  BY <1>1 DEF QueryInv, KindsApart, Merged, ImageIn, ListIn, MergedInOrder, IsIncreasing, NamesWanted, WantedName
<1>9. IsGrouped(imageRepos)' /\ IsGrouped(listRepos)'
  BY <1>1 DEF QueryInv, IsGrouped
<1> QED
  BY <1>3, <1>4, <1>7, <1>8, <1>9 DEF QueryInv

-----------------------------------------------------------------------------
(* The tags that are shown with a digest include each of its tags. *)
LEMMA ShownTags ==
  ASSUME NEW tagTable, NEW d, NEW r \in Repos, NEW t \in Tags, <<t, d>> \in tagTable[r]
  PROVE  t \in shownTags(tagTable, d) /\ shownTags(tagTable, d) \in (SUBSET Tags) \ {{}}
<1>1. <<r, t>> \in tagRows(tagTable, d)
  BY DEF tagRows
<1>2. tagRows(tagTable, d) \subseteq Repos \X Tags
  BY DEF tagRows
<1>3. t \in shownTags(tagTable, d)
  BY <1>1 DEF shownTags
<1>4. shownTags(tagTable, d) \subseteq Tags
  BY <1>2 DEF shownTags
<1> QED
  BY <1>3, <1>4

(* The rows of the image query. *)
ImageEntries == {imageEntry(row) : row \in imageRows(wanted)}

(* They show what the tables have, and have nothing else. *)
LEMMA ImageEntriesShow ==
  ASSUME TypeOK
  PROVE  /\ ImageEntries \subseteq Repository
         /\ \A e \in ImageEntries : e.lists = {} /\ WantedName(e.name)
         /\ \A r \in Repos, m \in ShownImage :
              (\E e \in ImageEntries : e.name = r /\ m \in e.images) <=> ImageFrom(db, r, m)
<1> DEFINE shown(d) == [digest |-> d, tags |-> shownTags(db.imageTag, d)]
<1>1. ASSUME NEW row \in imageRows(wanted)
      PROVE  /\ imageEntry(row) \in Repository
             /\ imageEntry(row).lists = {} /\ imageEntry(row).name = row[1] /\ imageEntry(row).images = {shown(row[2])}
             /\ row[1] \in Repos /\ row[2] \in Images
             /\ WantedName(row[1])
             /\ ImageMatches(db, row[1], row[2])
  <2>1. row[1] \in Repos /\ row[2] \in Images
    BY DEF imageRows
  <2>2. PICK t \in Tags : <<t, row[2]>> \in db.imageTag[row[1]] /\ <<row[1], t, row[2]>> \in wanted
    BY DEF imageRows, TagsFor
  <2>3. shownTags(db.imageTag, row[2]) \in (SUBSET Tags) \ {{}}
    BY <2>1, <2>2, ShownTags
  <2>4. shown(row[2]) \in ShownImage
    BY <2>1, <2>3 DEF ShownImage
  <2>5. imageEntry(row).lists = {} /\ imageEntry(row).name = row[1] /\ imageEntry(row).images = {shown(row[2])}
    BY DEF imageEntry
  <2>6. imageEntry(row) \in Repository
    BY <2>1, <2>4 DEF imageEntry, Repository
  <2>7. WantedName(row[1]) /\ ImageMatches(db, row[1], row[2])
    BY <2>2 DEF WantedName, ImageMatches, ImageWanted
  <2> QED
    BY <2>1, <2>5, <2>6, <2>7
<1>2. ASSUME NEW r \in Repos, NEW m \in ShownImage, NEW e \in ImageEntries, e.name = r, m \in e.images
      PROVE  ImageFrom(db, r, m)
  <2>1. PICK row \in imageRows(wanted) : e = imageEntry(row)
    BY DEF ImageEntries
  <2>2. m = shown(row[2]) /\ r = row[1]
    BY <1>1, <1>2, <2>1
  <2> QED
    BY <1>1, <2>2 DEF ImageFrom
<1>3. ASSUME NEW r \in Repos, NEW m \in ShownImage, ImageFrom(db, r, m)
      PROVE  \E e \in ImageEntries : e.name = r /\ m \in e.images
  <2>1. m.digest \in Images /\ m = [digest |-> m.digest, tags |-> m.tags]
    BY DEF ShownImage
  <2>2. PICK t \in Tags : <<t, m.digest>> \in db.imageTag[r] /\ <<r, t, m.digest>> \in wanted
    BY <1>3 DEF ImageFrom, ImageMatches, ImageWanted
  <2> DEFINE row == <<r, m.digest>>
  <2>3. row \in imageRows(wanted)
    BY <2>1, <2>2 DEF imageRows, TagsFor
  <2>4. m = shown(row[2])
    BY <1>3, <2>1 DEF ImageFrom
  <2> QED
    BY <1>1, <2>3, <2>4 DEF ImageEntries
<1> QED
  BY <1>1, <1>2, <1>3 DEF ImageEntries

(* The rows of the list query. *)
ListEntries == {listEntry(wanted, row) : row \in listRows(wanted)}

(* They show what the tables have, and have nothing else. *)
LEMMA ListEntriesShow ==
  ASSUME TypeOK
  PROVE  /\ ListEntries \subseteq Repository
         /\ \A e \in ListEntries : e.images = {} /\ WantedName(e.name)
         /\ \A r \in Repos, m \in ShownList :
              (\E e \in ListEntries : e.name = r /\ m \in e.lists) <=> ListFrom(db, r, m)
<1> DEFINE shown(r, l) == [digest |-> l, images |-> listedImages(wanted, r, l), tags |-> shownTags(db.listTag, l)]
<1>1. \A r, l : listedImages(wanted, r, l) = {d \in Images : ListMatches(db, r, l, d)}
  BY DEF listedImages, TagsFor, ListMatches, ListWanted
<1>2. ASSUME NEW row \in listRows(wanted)
      PROVE  /\ listEntry(wanted, row) \in Repository
             /\ /\ listEntry(wanted, row).images = {} /\ listEntry(wanted, row).name = row[1]
                /\ listEntry(wanted, row).lists = {shown(row[1], row[2])}
             /\ row[1] \in Repos /\ row[2] \in Lists
             /\ WantedName(row[1])
  <2>1. row[1] \in Repos /\ row[2] \in Lists /\ listedImages(wanted, row[1], row[2]) # {}
    BY DEF listRows
  <2>2. PICK d \in Images, t \in Tags : <<t, row[2]>> \in db.listTag[row[1]] /\ <<row[1], t, d>> \in wanted
    BY <2>1 DEF listedImages, TagsFor
  <2>3. shownTags(db.listTag, row[2]) \in (SUBSET Tags) \ {{}}
    BY <2>1, <2>2, ShownTags
  <2>4. listedImages(wanted, row[1], row[2]) \in (SUBSET Images) \ {{}}
    BY <2>1 DEF listedImages
  <2>5. shown(row[1], row[2]) \in ShownList
    BY <2>1, <2>3, <2>4 DEF ShownList
  <2>6. /\ listEntry(wanted, row).images = {} /\ listEntry(wanted, row).name = row[1]
        /\ listEntry(wanted, row).lists = {shown(row[1], row[2])}
    BY DEF listEntry
  <2>7. listEntry(wanted, row) \in Repository
    BY <2>1, <2>5 DEF listEntry, Repository
  <2>8. WantedName(row[1])
    BY <2>2 DEF WantedName
  <2> QED
    BY <2>1, <2>6, <2>7, <2>8
<1>3. ASSUME NEW r \in Repos, NEW m \in ShownList, NEW e \in ListEntries, e.name = r, m \in e.lists
      PROVE  ListFrom(db, r, m)
  <2>1. PICK row \in listRows(wanted) : e = listEntry(wanted, row)
    BY DEF ListEntries
  <2>2. m = shown(row[1], row[2]) /\ r = row[1]
    BY <1>2, <1>3, <2>1
  <2> QED
    BY <1>1, <2>2 DEF ListFrom
<1>4. ASSUME NEW r \in Repos, NEW m \in ShownList, ListFrom(db, r, m)
      PROVE  \E e \in ListEntries : e.name = r /\ m \in e.lists
  <2>1. /\ m.digest \in Lists /\ m.images # {}
        /\ m = [digest |-> m.digest, images |-> m.images, tags |-> m.tags]
    BY DEF ShownList
  <2> DEFINE row == <<r, m.digest>>
  <2>2. m.images = listedImages(wanted, r, m.digest) /\ m.tags = shownTags(db.listTag, m.digest)
    BY <1>1, <1>4 DEF ListFrom
  <2>3. row \in listRows(wanted)
    BY <2>1, <2>2 DEF listRows
  <2>4. m = shown(row[1], row[2])
    BY <2>1, <2>2
  <2> QED
    BY <1>2, <2>3, <2>4 DEF ListEntries
<1> QED
  BY <1>2, <1>3, <1>4 DEF ListEntries

-----------------------------------------------------------------------------
(* QueryImages preserves the invariant: the rows are of the tables that    *)
(* are committed now.                                                      *)
LEMMA QueryImagesInv ==
  ASSUME QueryInv, QueryImages(wanted)
  PROVE  QueryInv'
<1>1. /\ pc = "images" /\ pc' = "imageRows" /\ rows' = ImageEntries
      /\ UNCHANGED <<db, wanted, broken, imageRepos, listRepos, i, j, result, during>>
  BY DEF QueryImages, ImageEntries
<1>2. TypeOK /\ Empty /\ db \in during
  BY <1>1 DEF QueryInv, Phases, Empty, Running
<1>3. /\ ImageEntries \subseteq Repository
      /\ \A e \in ImageEntries : e.lists = {} /\ WantedName(e.name)
      /\ \A r \in Repos, m \in ShownImage :
           (\E e \in ImageEntries : e.name = r /\ m \in e.images) <=> ImageFrom(db, r, m)
  BY <1>2, ImageEntriesShow
<1>4. DOMAIN imageRepos = {} /\ DOMAIN listRepos = {} /\ DOMAIN result = {}
  BY <1>2 DEF Empty
<1>5. TypeOK'
  BY <1>1, <1>2, <1>3 DEF TypeOK, Running
<1>6. Phases'
  BY <1>1, <1>2 DEF Phases, Empty, Running
<1>7. ImagesReadFrom(db)'
  <2>1. \A r, m : ~ImageIn(imageRepos, r, m)
    BY <1>4 DEF ImageIn
  <2>2. (\A r, m : ~ImageIn(imageRepos, r, m))'
    BY <1>1, <2>1 DEF ImageIn
  <2>3. \A r \in Repos, m \in ShownImage : ImageComes(r, m)' <=> ImageFrom(db, r, m)'
    BY <1>1, <1>3, SameFrom DEF ImageComes
  <2> QED
    BY <1>1, <2>2, <2>3 DEF ImagesReadFrom
<1>8. ImagesRead' /\ ListsRead'
  BY <1>1, <1>2, <1>7 DEF ImagesRead, ListsRead
<1>9. KindsApart' /\ NamesWanted'
  BY <1>1, <1>3, <1>4 DEF KindsApart, NamesWanted, WantedName
<1>10. Merged' /\ MergedInOrder' /\ IsGrouped(imageRepos)' /\ IsGrouped(listRepos)'
  BY <1>1 DEF QueryInv, Merged, MergedInOrder, ImageIn, ListIn, IsIncreasing, IsGrouped
<1> QED
  BY <1>5, <1>6, <1>8, <1>9, <1>10 DEF QueryInv

(* QueryLists preserves the invariant. *)
LEMMA QueryListsInv ==
  ASSUME QueryInv, QueryLists(wanted)
  PROVE  QueryInv'
<1>1. /\ pc = "imageRows" /\ pc' = "listRows" /\ rows = {} /\ rows' = ListEntries
      /\ UNCHANGED <<db, wanted, broken, imageRepos, listRepos, i, j, result, during>>
  BY DEF QueryLists, ListEntries
<1>2. TypeOK /\ db \in during /\ listRepos = <<>> /\ i = 1 /\ j = 1 /\ result = <<>>
  BY <1>1 DEF QueryInv, Phases, Running
<1>3. /\ ListEntries \subseteq Repository
      /\ \A e \in ListEntries : e.images = {} /\ WantedName(e.name)
      /\ \A r \in Repos, m \in ShownList :
           (\E e \in ListEntries : e.name = r /\ m \in e.lists) <=> ListFrom(db, r, m)
  BY <1>2, ListEntriesShow
<1>4. TypeOK'
  BY <1>1, <1>2, <1>3 DEF TypeOK, Running
<1>5. Phases'
  BY <1>1, <1>2 DEF Phases, Running
<1>6. ImagesRead'
  <2>1. \A seen : ImagesReadFrom(seen) => ImagesReadFrom(seen)'
    BY <1>1, SameFrom DEF ImagesReadFrom, ImageIn, ImageComes
  <2> QED
    BY <1>1, <2>1 DEF QueryInv, ImagesRead
<1>7. ListsReadFrom(db)'
  <2>1. (\A r, m : ~ListIn(listRepos, r, m))'
    BY <1>1, <1>2 DEF ListIn
  <2>2. \A r \in Repos, m \in ShownList : ListComes(r, m)' <=> ListFrom(db, r, m)'
    BY <1>1, <1>3, SameFrom DEF ListComes
  <2> QED
    BY <1>1, <2>1, <2>2 DEF ListsReadFrom
<1>8. ListsRead'
  BY <1>1, <1>2, <1>7 DEF ListsRead
<1>9. KindsApart' /\ NamesWanted'
  BY <1>1, <1>3 DEF QueryInv, KindsApart, NamesWanted, WantedName
<1>10. Merged' /\ MergedInOrder' /\ IsGrouped(imageRepos)' /\ IsGrouped(listRepos)'
  BY <1>1 DEF QueryInv, Merged, MergedInOrder, ImageIn, ListIn, IsIncreasing, IsGrouped
<1> QED
  BY <1>4, <1>5, <1>6, <1>8, <1>9, <1>10 DEF QueryInv

(* While rows are read, nothing is merged. *)
LEMMA NothingMerged ==
  ASSUME QueryInv, UNCHANGED <<i, j, result>>, i = 1, j = 1, result = <<>>
  PROVE  Merged' /\ MergedInOrder'
<1>1. DOMAIN result' = {} /\ 1..i' - 1 = {} /\ 1..j' - 1 = {}
  OBVIOUS
<1>2. Merged'
  BY <1>1 DEF Merged, ImageIn, ListIn
<1>3. MergedInOrder'
  BY <1>1 DEF MergedInOrder, IsIncreasing
<1> QED
  BY <1>2, <1>3

(* ScanImage preserves the invariant: the row moves to the result. *)
LEMMA ScanImageInv ==
  ASSUME QueryInv, NEW e \in rows, ScanImage(e)
  PROVE  QueryInv'
<1>1. /\ pc = "imageRows" /\ imageRepos' = addRow(imageRepos, e) /\ rows' = rows \ {e}
      /\ UNCHANGED <<db, pc, wanted, broken, listRepos, i, j, result, during>>
  BY DEF ScanImage
<1>2. /\ TypeOK /\ e \in Repository /\ e.lists = {} /\ WantedName(e.name)
      /\ listRepos = <<>> /\ i = 1 /\ j = 1 /\ result = <<>>
  BY <1>1 DEF QueryInv, TypeOK, Phases, KindsApart, NamesWanted
<1>3. /\ imageRepos' \in Seq(Repository)
      /\ \A r, m : ImageIn(imageRepos', r, m) <=> ImageIn(imageRepos, r, m) \/ (e.name = r /\ m \in e.images)
      /\ \A r, m : ListIn(imageRepos', r, m) <=> ListIn(imageRepos, r, m) \/ (e.name = r /\ m \in e.lists)
      /\ \A n \in DOMAIN imageRepos' :
           imageRepos'[n].name = e.name \/ \E k \in DOMAIN imageRepos : imageRepos[k].name = imageRepos'[n].name
      /\ IsGrouped(imageRepos) => IsGrouped(imageRepos')
  <2>1. imageRepos \in Seq(Repository)
    BY <1>2 DEF TypeOK
  <2>2. RowAdded(imageRepos, e, imageRepos')
    BY <1>1, <1>2, <2>1, AddRow
  <2> QED
    BY <2>2 DEF RowAdded
<1>4. TypeOK'
  <2>1. Len(imageRepos') \in Nat
    BY <1>3, LenProperties
  <2>2. i' \in 1..Len(imageRepos') + 1
    BY <1>1, <1>2, <2>1
  <2> QED
    BY <1>1, <1>2, <1>3, <2>2 DEF TypeOK
<1>5. Phases'
  BY <1>1, <1>2 DEF QueryInv, Phases, Running
<1>6. ImagesRead'
  <2>1. ASSUME NEW r, NEW m
        PROVE  /\ ImageIn(imageRepos, r, m)' <=> ImageIn(imageRepos, r, m) \/ (e.name = r /\ m \in e.images)
               /\ ImageComes(r, m) <=> ImageComes(r, m)' \/ (e.name = r /\ m \in e.images)
    <3>1. ImageIn(imageRepos, r, m)' <=> ImageIn(imageRepos', r, m)
      BY DEF ImageIn
    <3>2. ImageIn(imageRepos', r, m) <=> ImageIn(imageRepos, r, m) \/ (e.name = r /\ m \in e.images)
      BY <1>3
    <3>3. ImageComes(r, m) <=> ImageComes(r, m)' \/ (e.name = r /\ m \in e.images)
      BY <1>1 DEF ImageComes
    <3> QED
      BY <3>1, <3>2, <3>3
  <2>2. \A seen : ImagesReadFrom(seen) => ImagesReadFrom(seen)'
    BY <1>1, <2>1, SameFrom DEF ImagesReadFrom
  <2> QED
    BY <1>1, <2>2 DEF QueryInv, ImagesRead
<1>7. ListsRead'
  BY <1>1 DEF ListsRead
<1>8. KindsApart'
  <2>1. \A n \in DOMAIN imageRepos' : imageRepos'[n].lists = {}
    <3>1. \A r, m : ~ListIn(imageRepos', r, m)
      BY <1>2, <1>3 DEF QueryInv, KindsApart, ListIn
    <3> QED
      BY <3>1 DEF ListIn
  <2> QED
    BY <1>1, <2>1 DEF QueryInv, KindsApart
<1>9. NamesWanted'
  <2>1. \A n \in DOMAIN imageRepos' : WantedName(imageRepos'[n].name)
    BY <1>2, <1>3 DEF QueryInv, NamesWanted
  <2> QED
    BY <1>1, <2>1 DEF QueryInv, NamesWanted, WantedName
<1>10. IsGrouped(imageRepos)' /\ IsGrouped(listRepos)'
  BY <1>1, <1>3 DEF QueryInv, IsGrouped
<1>11. Merged' /\ MergedInOrder'
  BY <1>1, <1>2, NothingMerged
<1> QED
  BY <1>4, <1>5, <1>6, <1>7, <1>8, <1>9, <1>10, <1>11 DEF QueryInv

(* ScanList preserves the invariant. *)
LEMMA ScanListInv ==
  ASSUME QueryInv, NEW e \in rows, ScanList(e)
  PROVE  QueryInv'
<1>1. /\ pc = "listRows" /\ listRepos' = addRow(listRepos, e) /\ rows' = rows \ {e}
      /\ UNCHANGED <<db, pc, wanted, broken, imageRepos, i, j, result, during>>
  BY DEF ScanList
<1>2. /\ TypeOK /\ e \in Repository /\ e.images = {} /\ WantedName(e.name)
      /\ i = 1 /\ j = 1 /\ result = <<>>
  BY <1>1 DEF QueryInv, TypeOK, Phases, KindsApart, NamesWanted
<1>3. /\ listRepos' \in Seq(Repository)
      /\ \A r, m : ImageIn(listRepos', r, m) <=> ImageIn(listRepos, r, m) \/ (e.name = r /\ m \in e.images)
      /\ \A r, m : ListIn(listRepos', r, m) <=> ListIn(listRepos, r, m) \/ (e.name = r /\ m \in e.lists)
      /\ \A n \in DOMAIN listRepos' :
           listRepos'[n].name = e.name \/ \E k \in DOMAIN listRepos : listRepos[k].name = listRepos'[n].name
      /\ IsGrouped(listRepos) => IsGrouped(listRepos')
  <2>1. listRepos \in Seq(Repository)
    BY <1>2 DEF TypeOK
  <2>2. RowAdded(listRepos, e, listRepos')
    BY <1>1, <1>2, <2>1, AddRow
  <2> QED
    BY <2>2 DEF RowAdded
<1>4. TypeOK'
  <2>1. Len(listRepos') \in Nat
    BY <1>3, LenProperties
  <2>2. j' \in 1..Len(listRepos') + 1
    BY <1>1, <1>2, <2>1
  <2> QED
    BY <1>1, <1>2, <1>3, <2>2 DEF TypeOK
<1>5. Phases'
  BY <1>1, <1>2 DEF QueryInv, Phases, Running
<1>6. ImagesRead'
  <2>1. \A seen : ImagesReadFrom(seen) => ImagesReadFrom(seen)'
    BY <1>1, SameFrom DEF ImagesReadFrom, ImageIn
  <2> QED
    BY <1>1, <2>1 DEF QueryInv, ImagesRead
<1>7. ListsRead'
  <2>1. ASSUME NEW r, NEW m
        PROVE  /\ ListIn(listRepos, r, m)' <=> ListIn(listRepos, r, m) \/ (e.name = r /\ m \in e.lists)
               /\ ListComes(r, m) <=> ListComes(r, m)' \/ (e.name = r /\ m \in e.lists)
    <3>1. ListIn(listRepos, r, m)' <=> ListIn(listRepos', r, m)
      BY DEF ListIn
    <3>2. ListIn(listRepos', r, m) <=> ListIn(listRepos, r, m) \/ (e.name = r /\ m \in e.lists)
      BY <1>3
    <3>3. ListComes(r, m) <=> ListComes(r, m)' \/ (e.name = r /\ m \in e.lists)
      BY <1>1 DEF ListComes
    <3> QED
      BY <3>1, <3>2, <3>3
  <2>2. \A seen : ListsReadFrom(seen) => ListsReadFrom(seen)'
    BY <1>1, <2>1, SameFrom DEF ListsReadFrom
  <2> QED
    BY <1>1, <2>2 DEF QueryInv, ListsRead
<1>8. KindsApart'
  <2>1. \A n \in DOMAIN listRepos' : listRepos'[n].images = {}
    <3>1. \A r, m : ~ImageIn(listRepos', r, m)
      BY <1>2, <1>3 DEF QueryInv, KindsApart, ImageIn
    <3> QED
      BY <3>1 DEF ImageIn
  <2> QED
    BY <1>1, <2>1 DEF QueryInv, KindsApart
<1>9. NamesWanted'
  <2>1. \A n \in DOMAIN listRepos' : WantedName(listRepos'[n].name)
    BY <1>2, <1>3 DEF QueryInv, NamesWanted
  <2> QED
    BY <1>1, <2>1 DEF QueryInv, NamesWanted, WantedName
<1>10. IsGrouped(imageRepos)' /\ IsGrouped(listRepos)'
  BY <1>1, <1>3 DEF QueryInv, IsGrouped
<1>11. Merged' /\ MergedInOrder'
  BY <1>1, <1>2, NothingMerged
<1> QED
  BY <1>4, <1>5, <1>6, <1>7, <1>8, <1>9, <1>10, <1>11 DEF QueryInv

(* BreakOff preserves the invariant: what was read is still true, and the  *)
(* transaction is marked.                                                  *)
LEMMA BreakOffInv ==
  ASSUME QueryInv, BreakOff
  PROVE  QueryInv'
<1>1. /\ pc \in {"imageRows", "listRows"} /\ rows # {} /\ rows' = {} /\ broken' = TRUE
      /\ UNCHANGED <<db, pc, wanted, imageRepos, listRepos, i, j, result, during>>
  BY DEF BreakOff
<1>2. TypeOK'
  <2>1. broken' \in BOOLEAN
    BY <1>1, Zenon
  <2> QED
    BY <1>1, <2>1 DEF QueryInv, TypeOK
<1>3. Phases'
  BY <1>1 DEF QueryInv, Phases, Running
<1>4. \A seen : ImagesReadFrom(seen) => ImagesReadFrom(seen)'
  BY <1>1, SameFrom DEF ImagesReadFrom, ImageIn, ImageComes
<1>5. \A seen : ListsReadFrom(seen) => ListsReadFrom(seen)'
  BY <1>1, SameFrom DEF ListsReadFrom, ListIn, ListComes
<1>6. ImagesRead' /\ ListsRead'
  BY <1>1, <1>4, <1>5 DEF QueryInv, ImagesRead, ListsRead
<1>7. KindsApart' /\ Merged' /\ MergedInOrder' /\ NamesWanted'
  BY <1>1 DEF QueryInv, KindsApart, Merged, ImageIn, ListIn, MergedInOrder, IsIncreasing, NamesWanted, WantedName
<1>8. IsGrouped(imageRepos)' /\ IsGrouped(listRepos)'
  BY <1>1 DEF QueryInv, IsGrouped
<1> QED
  BY <1>2, <1>3, <1>6, <1>7, <1>8 DEF QueryInv

-----------------------------------------------------------------------------
(* An entry at the end of a result adds what it shows, and nothing else. *)
LEMMA AppendEntry ==
  ASSUME NEW repos \in Seq(Repository), NEW e \in Repository, NEW new, new = Append(repos, e)
  PROVE  /\ new \in Seq(Repository) /\ Len(repos) \in Nat
         /\ DOMAIN repos = 1..Len(repos) /\ DOMAIN new = 1..Len(repos) + 1
         /\ \A n \in 1..Len(repos) : new[n] = repos[n]
         /\ new[Len(repos) + 1] = e
         /\ \A r, m : ImageIn(new, r, m) <=> ImageIn(repos, r, m) \/ (e.name = r /\ m \in e.images)
         /\ \A r, m : ListIn(new, r, m) <=> ListIn(repos, r, m) \/ (e.name = r /\ m \in e.lists)
<1> DEFINE k == Len(repos)
<1>1. /\ new \in Seq(Repository) /\ Len(new) = k + 1
      /\ new[k + 1] = e /\ \A n \in 1..k : new[n] = repos[n]
  BY AppendProperties
<1>2. k \in Nat /\ DOMAIN repos = 1..k /\ DOMAIN new = 1..k + 1
  BY <1>1, LenProperties
<1>3. \A n : n \in 1..k + 1 <=> n \in 1..k \/ n = k + 1
  BY <1>2
<1> HIDE DEF k
<1>4. ASSUME NEW r, NEW m
      PROVE  /\ ImageIn(new, r, m) <=> ImageIn(repos, r, m) \/ (e.name = r /\ m \in e.images)
             /\ ListIn(new, r, m) <=> ListIn(repos, r, m) \/ (e.name = r /\ m \in e.lists)
  BY <1>1, <1>2, <1>3 DEF ImageIn, ListIn
<1> QED
  BY <1>1, <1>2, <1>4 DEF k

(* A round of the merge puts the entry e in the answer: the next of the    *)
(* images, the next of the lists or both of them, whichever comes first.   *)
TakenOver(e) ==
  /\ Merging
  /\ e \in Repository
  /\ result' = Append(result, e)
  /\ \/ /\ i' = i /\ e.images = {}
        /\ hasImage => comesBefore(e.name, imageRepos[i].name)
     \/ i' = i + 1 /\ hasImage /\ e.name = imageRepos[i].name /\ e.images = imageRepos[i].images
  /\ \/ /\ j' = j /\ e.lists = {}
        /\ hasList => comesBefore(e.name, listRepos[j].name)
     \/ j' = j + 1 /\ hasList /\ e.name = listRepos[j].name /\ e.lists = listRepos[j].lists
  /\ i' = i + 1 \/ j' = j + 1
  /\ UNCHANGED <<db, pc, wanted, rows, broken, imageRepos, listRepos, during>>

(* The positions, and the entries at them. *)
LEMMA Positions ==
  ASSUME TypeOK
  PROVE  /\ Len(imageRepos) \in Nat /\ i \in Nat /\ i >= 1 /\ i <= Len(imageRepos) + 1
         /\ Len(listRepos) \in Nat /\ j \in Nat /\ j >= 1 /\ j <= Len(listRepos) + 1
         /\ DOMAIN imageRepos = 1..Len(imageRepos) /\ DOMAIN listRepos = 1..Len(listRepos)
         /\ \A n \in 1..Len(imageRepos) : imageRepos[n] \in Repository
         /\ \A n \in 1..Len(listRepos) : listRepos[n] \in Repository
         /\ hasImage => i \in 1..Len(imageRepos)
         /\ hasList => j \in 1..Len(listRepos)
<1>1. imageRepos \in Seq(Repository) /\ listRepos \in Seq(Repository)
  BY DEF TypeOK
<1>2. /\ Len(imageRepos) \in Nat /\ DOMAIN imageRepos = 1..Len(imageRepos)
      /\ Len(listRepos) \in Nat /\ DOMAIN listRepos = 1..Len(listRepos)
  BY <1>1, LenProperties
<1>3. /\ \A n \in 1..Len(imageRepos) : imageRepos[n] \in Repository
      /\ \A n \in 1..Len(listRepos) : listRepos[n] \in Repository
  BY <1>1, <1>2, ElementOfSeq
<1>4. i \in 1..Len(imageRepos) + 1 /\ j \in 1..Len(listRepos) + 1
  BY DEF TypeOK
<1> QED
  BY <1>2, <1>3, <1>4 DEF hasImage, hasList

(* Each round of the merge is such a step. *)
LEMMA MergeTakesOver ==
  ASSUME QueryInv, Merge
  PROVE  \E e \in Repository : TakenOver(e)
<1>1. TypeOK
  BY DEF QueryInv
<1>2. /\ hasImage => /\ imageRepos[i] \in Repository /\ imageRepos[i].lists = {}
                     /\ imageRepos[i].name \in Repos
      /\ hasList => /\ listRepos[j] \in Repository /\ listRepos[j].images = {}
                    /\ listRepos[j].name \in Repos /\ listRepos[j].lists \in SUBSET ShownList
  BY <1>1, Positions DEF QueryInv, KindsApart, Repository
<1>3. CASE MergeBoth
  <2> DEFINE e == [imageRepos[i] EXCEPT !.lists = listRepos[j].lists]
  <2>1. hasImage /\ hasList /\ imageRepos[i].name = listRepos[j].name
    BY <1>3 DEF MergeBoth
  <2>2. e \in Repository /\ e.name = imageRepos[i].name /\ e.images = imageRepos[i].images /\ e.lists = listRepos[j].lists
    BY <1>2, <2>1 DEF Repository
  <2>3. /\ Merging /\ result' = Append(result, e) /\ i' = i + 1 /\ j' = j + 1
        /\ UNCHANGED <<db, pc, wanted, rows, broken, imageRepos, listRepos, during>>
    BY <1>3 DEF MergeBoth
  <2> HIDE DEF e
  <2> QED
    BY <2>1, <2>2, <2>3 DEF TakenOver
<1>4. CASE MergeImage
  <2>1. /\ Merging /\ hasImage /\ result' = Append(result, imageRepos[i]) /\ i' = i + 1 /\ j' = j
        /\ hasList => comesBefore(imageRepos[i].name, listRepos[j].name)
        /\ UNCHANGED <<db, pc, wanted, rows, broken, imageRepos, listRepos, during>>
    BY <1>4 DEF MergeImage, imageFirst
  <2> QED
    BY <1>2, <2>1 DEF TakenOver
<1>5. CASE MergeList
  <2>1. /\ Merging /\ hasList /\ result' = Append(result, listRepos[j]) /\ j' = j + 1 /\ i' = i
        /\ hasImage => /\ imageRepos[i].name # listRepos[j].name
                       /\ ~comesBefore(imageRepos[i].name, listRepos[j].name)
        /\ UNCHANGED <<db, pc, wanted, rows, broken, imageRepos, listRepos, during>>
    BY <1>5 DEF MergeList, imageFirst
  <2>2. hasImage => comesBefore(listRepos[j].name, imageRepos[i].name)
    BY <1>2, <2>1, StrictOrder
  <2> QED
    BY <1>2, <2>1, <2>2 DEF TakenOver
<1> QED
  BY <1>3, <1>4, <1>5 DEF Merge

(* Nothing is lost or added by a round of the merge. *)
LEMMA MergedKept ==
  ASSUME QueryInv, NEW e \in Repository, TakenOver(e)
  PROVE  Merged'
<1>1. TypeOK /\ result \in Seq(Repository)
  BY DEF QueryInv, TypeOK
<1>2. /\ \A r, m : ImageIn(result', r, m) <=> ImageIn(result, r, m) \/ (e.name = r /\ m \in e.images)
      /\ \A r, m : ListIn(result', r, m) <=> ListIn(result, r, m) \/ (e.name = r /\ m \in e.lists)
  BY <1>1, AppendEntry DEF TakenOver
<1>3. ASSUME NEW r \in Repos, NEW m \in ShownImage
      PROVE  ImageIn(result, r, m)' <=>
               (\E n \in 1..i - 1 : imageRepos[n].name = r /\ m \in imageRepos[n].images)'
  <2>1. ImageIn(result, r, m)' <=> ImageIn(result', r, m)
    BY DEF ImageIn
  <2>2. ImageIn(result, r, m) <=> \E n \in 1..i - 1 : imageRepos[n].name = r /\ m \in imageRepos[n].images
    BY DEF QueryInv, Merged
  <2>3. imageRepos' = imageRepos
    BY DEF TakenOver
  <2>4. CASE i' = i /\ e.images = {}
    BY <1>2, <2>1, <2>2, <2>3, <2>4
  <2>5. CASE i' = i + 1 /\ e.name = imageRepos[i].name /\ e.images = imageRepos[i].images
    <3>1. \A n : n \in 1..i' - 1 <=> n \in 1..i - 1 \/ n = i
      BY <1>1, <2>5, Positions
    <3> QED
      BY <1>2, <2>1, <2>2, <2>3, <2>5, <3>1
  <2> QED
    BY <2>4, <2>5 DEF TakenOver
<1>4. ASSUME NEW r \in Repos, NEW m \in ShownList
      PROVE  ListIn(result, r, m)' <=>
               (\E n \in 1..j - 1 : listRepos[n].name = r /\ m \in listRepos[n].lists)'
  <2>1. ListIn(result, r, m)' <=> ListIn(result', r, m)
    BY DEF ListIn
  <2>2. ListIn(result, r, m) <=> \E n \in 1..j - 1 : listRepos[n].name = r /\ m \in listRepos[n].lists
    BY DEF QueryInv, Merged
  <2>3. listRepos' = listRepos
    BY DEF TakenOver
  <2>4. CASE j' = j /\ e.lists = {}
    BY <1>2, <2>1, <2>2, <2>3, <2>4
  <2>5. CASE j' = j + 1 /\ e.name = listRepos[j].name /\ e.lists = listRepos[j].lists
    <3>1. \A n : n \in 1..j' - 1 <=> n \in 1..j - 1 \/ n = j
      BY <1>1, <2>5, Positions
    <3> QED
      BY <1>2, <2>1, <2>2, <2>3, <2>5, <3>1
  <2> QED
    BY <2>4, <2>5 DEF TakenOver
<1> QED
  BY <1>3, <1>4 DEF Merged

(* A round of the merge keeps the order, if both results are sorted. *)
LEMMA OrderKept ==
  ASSUME QueryInv, NEW e \in Repository, TakenOver(e)
  PROVE  MergedInOrder'
<1>1. TypeOK /\ result \in Seq(Repository)
  BY DEF QueryInv, TypeOK
<1>2. UNCHANGED <<imageRepos, listRepos>> /\ result' = Append(result, e)
  BY DEF TakenOver
<1>3. SUFFICES ASSUME IsIncreasing(imageRepos), IsIncreasing(listRepos)
               PROVE  /\ IsIncreasing(result')
                      /\ \A n \in DOMAIN result' :
                           /\ \A k \in i'..Len(imageRepos) : comesBefore(result'[n].name, imageRepos[k].name)
                           /\ \A k \in j'..Len(listRepos) : comesBefore(result'[n].name, listRepos[k].name)
  BY <1>2 DEF MergedInOrder, IsIncreasing
<1>4. /\ IsIncreasing(result)
      /\ \A n \in DOMAIN result :
           /\ \A k \in i..Len(imageRepos) : comesBefore(result[n].name, imageRepos[k].name)
           /\ \A k \in j..Len(listRepos) : comesBefore(result[n].name, listRepos[k].name)
  BY <1>3 DEF QueryInv, MergedInOrder
<1>5. /\ e.name \in Repos
      /\ \A n \in 1..Len(imageRepos) : imageRepos[n].name \in Repos
      /\ \A n \in 1..Len(listRepos) : listRepos[n].name \in Repos
  BY <1>1, Positions DEF Repository
<1>6. ASSUME NEW n \in DOMAIN result
      PROVE  comesBefore(result[n].name, e.name)
  <2>1. CASE hasImage /\ e.name = imageRepos[i].name
    <3>1. i \in i..Len(imageRepos)
      BY <1>1, <2>1, Positions DEF hasImage
    <3> QED
      BY <1>4, <2>1, <3>1
  <2>2. CASE hasList /\ e.name = listRepos[j].name
    <3>1. j \in j..Len(listRepos)
      BY <1>1, <2>2, Positions DEF hasList
    <3> QED
      BY <1>4, <2>2, <3>1
  <2>3. /\ i' = i \/ (hasImage /\ e.name = imageRepos[i].name)
        /\ j' = j \/ (hasList /\ e.name = listRepos[j].name)
        /\ i' = i + 1 \/ j' = j + 1
    BY DEF TakenOver
  <2>4. i # i + 1 /\ j # j + 1
    BY <1>1, Positions
  <2> QED
    BY <2>1, <2>2, <2>3, <2>4
<1>7. ASSUME NEW k \in i'..Len(imageRepos)
      PROVE  comesBefore(e.name, imageRepos[k].name) /\ k \in i..Len(imageRepos)
  <2>1. CASE i' = i /\ (hasImage => comesBefore(e.name, imageRepos[i].name))
    <3>1. /\ i \in 1..Len(imageRepos) /\ k \in 1..Len(imageRepos) /\ k \in i..Len(imageRepos)
          /\ i = k \/ (i < k /\ hasImage)
      BY <1>1, <2>1, Positions DEF hasImage
    <3>2. comesBefore(e.name, imageRepos[i].name)
      BY <2>1, <3>1 DEF hasImage
    <3>3. i < k => comesBefore(imageRepos[i].name, imageRepos[k].name)
      BY <1>1, <1>3, <3>1, Positions DEF IsIncreasing
    <3> QED
      BY <1>5, <3>1, <3>2, <3>3, StrictOrder
  <2>2. CASE i' = i + 1 /\ hasImage /\ e.name = imageRepos[i].name
    <3>1. i \in 1..Len(imageRepos) /\ k \in 1..Len(imageRepos) /\ k \in i..Len(imageRepos) /\ i < k
      BY <1>1, <2>2, Positions
    <3> QED
      BY <1>1, <1>3, <2>2, <3>1, Positions DEF IsIncreasing
  <2> QED
    BY <2>1, <2>2 DEF TakenOver
<1>8. ASSUME NEW k \in j'..Len(listRepos)
      PROVE  comesBefore(e.name, listRepos[k].name) /\ k \in j..Len(listRepos)
  <2>1. CASE j' = j /\ (hasList => comesBefore(e.name, listRepos[j].name))
    <3>1. /\ j \in 1..Len(listRepos) /\ k \in 1..Len(listRepos) /\ k \in j..Len(listRepos)
          /\ j = k \/ (j < k /\ hasList)
      BY <1>1, <2>1, Positions DEF hasList
    <3>2. comesBefore(e.name, listRepos[j].name)
      BY <2>1, <3>1 DEF hasList
    <3>3. j < k => comesBefore(listRepos[j].name, listRepos[k].name)
      BY <1>1, <1>3, <3>1, Positions DEF IsIncreasing
    <3> QED
      BY <1>5, <3>1, <3>2, <3>3, StrictOrder
  <2>2. CASE j' = j + 1 /\ hasList /\ e.name = listRepos[j].name
    <3>1. j \in 1..Len(listRepos) /\ k \in 1..Len(listRepos) /\ k \in j..Len(listRepos) /\ j < k
      BY <1>1, <2>2, Positions
    <3> QED
      BY <1>1, <1>3, <2>2, <3>1, Positions DEF IsIncreasing
  <2> QED
    BY <2>1, <2>2 DEF TakenOver
<1>9. /\ DOMAIN result = 1..Len(result) /\ DOMAIN result' = 1..Len(result) + 1 /\ Len(result) \in Nat
      /\ \A n \in 1..Len(result) : result'[n] = result[n]
      /\ result'[Len(result) + 1] = e
  BY <1>1, <1>2, AppendEntry
<1>10. \A n \in DOMAIN result' : n \in DOMAIN result \/ n = Len(result) + 1
  BY <1>9
<1>11. ASSUME NEW n \in DOMAIN result'
       PROVE  /\ \A k \in i'..Len(imageRepos) : comesBefore(result'[n].name, imageRepos[k].name)
              /\ \A k \in j'..Len(listRepos) : comesBefore(result'[n].name, listRepos[k].name)
  BY <1>4, <1>7, <1>8, <1>9, <1>10
<1>12. ASSUME NEW m \in DOMAIN result', NEW n \in DOMAIN result', m < n
       PROVE  comesBefore(result'[m].name, result'[n].name)
  <2>1. m \in DOMAIN result
    BY <1>9, <1>12
  <2>2. CASE n \in DOMAIN result
    BY <1>4, <1>9, <1>12, <2>1, <2>2 DEF IsIncreasing
  <2>3. CASE n = Len(result) + 1
    BY <1>6, <1>9, <2>1, <2>3
  <2> QED
    BY <1>10, <2>2, <2>3
<1> QED
  BY <1>11, <1>12 DEF IsIncreasing

(* The merge preserves the invariant. *)
LEMMA MergeInv ==
  ASSUME QueryInv, Merge
  PROVE  QueryInv'
<1>1. PICK e \in Repository : TakenOver(e)
  BY MergeTakesOver
<1>2. /\ pc = "listRows" /\ rows = {} /\ result' = Append(result, e)
      /\ UNCHANGED <<db, pc, wanted, rows, broken, imageRepos, listRepos, during>>
  BY <1>1 DEF TakenOver, Merging
<1>3. TypeOK /\ result \in Seq(Repository)
  BY DEF QueryInv, TypeOK
<1>4. /\ result' \in Seq(Repository)
      /\ DOMAIN result = 1..Len(result) /\ DOMAIN result' = 1..Len(result) + 1 /\ Len(result) \in Nat
      /\ \A n \in 1..Len(result) : result'[n] = result[n]
      /\ result'[Len(result) + 1] = e
  BY <1>2, <1>3, AppendEntry
<1>5. TypeOK'
  <2>1. i' \in 1..Len(imageRepos) + 1 /\ j' \in 1..Len(listRepos) + 1
    BY <1>1, <1>3, Positions DEF TakenOver, hasImage, hasList
  <2> QED
    BY <1>2, <1>3, <1>4, <2>1 DEF TypeOK
<1>6. Phases'
  BY <1>2 DEF QueryInv, Phases, Running
<1>7. \A seen : ImagesReadFrom(seen) => ImagesReadFrom(seen)'
  BY <1>2, SameFrom DEF ImagesReadFrom, ImageIn, ImageComes
<1>8. \A seen : ListsReadFrom(seen) => ListsReadFrom(seen)'
  BY <1>2, SameFrom DEF ListsReadFrom, ListIn, ListComes
<1>9. ImagesRead' /\ ListsRead'
  BY <1>2, <1>7, <1>8 DEF QueryInv, ImagesRead, ListsRead
<1>10. KindsApart' /\ IsGrouped(imageRepos)' /\ IsGrouped(listRepos)'
  BY <1>2 DEF QueryInv, KindsApart, IsGrouped
<1>11. NamesWanted'
  <2>1. WantedName(e.name)
    <3>1. i # i + 1 /\ j # j + 1
      BY <1>3, Positions
    <3>2. (hasImage /\ e.name = imageRepos[i].name) \/ (hasList /\ e.name = listRepos[j].name)
      BY <1>1, <3>1 DEF TakenOver
    <3> QED
      BY <1>3, <3>2, Positions DEF QueryInv, NamesWanted
  <2>2. \A n \in DOMAIN result' : n \in DOMAIN result \/ n = Len(result) + 1
    BY <1>4
  <2>3. \A n \in DOMAIN result' : WantedName(result'[n].name)
    BY <1>4, <2>1, <2>2 DEF QueryInv, NamesWanted
  <2> QED
    BY <1>2, <2>3 DEF QueryInv, NamesWanted, WantedName
<1> QED
  BY <1>1, <1>5, <1>6, <1>9, <1>10, <1>11, MergedKept, OrderKept DEF QueryInv

(* Every step preserves the invariant. *)
LEMMA InvStep ==
  ASSUME QueryInv, [Next]_vars
  PROVE  QueryInv'
<1>1. CASE UNCHANGED vars
  <2>1. \A seen : ImagesReadFrom(seen) => ImagesReadFrom(seen)'
    BY <1>1, SameFrom DEF ImagesReadFrom, ImageIn, ImageComes, vars
  <2>2. \A seen : ListsReadFrom(seen) => ListsReadFrom(seen)'
    BY <1>1, SameFrom DEF ListsReadFrom, ListIn, ListComes, vars
  <2>3. ImagesRead' /\ ListsRead'
    BY <1>1, <2>1, <2>2 DEF QueryInv, ImagesRead, ListsRead, vars
  <2>4. TypeOK' /\ Phases' /\ IsGrouped(imageRepos)' /\ IsGrouped(listRepos)'
    BY <1>1 DEF QueryInv, TypeOK, Phases, IsGrouped, vars
  <2>5. KindsApart' /\ Merged' /\ MergedInOrder' /\ NamesWanted'
    BY <1>1 DEF QueryInv, KindsApart, Merged, ImageIn, ListIn, MergedInOrder, IsIncreasing,
                NamesWanted, WantedName, vars
  <2> QED
    BY <2>3, <2>4, <2>5 DEF QueryInv
<1>2. CASE \E tables \in Databases : Commit(tables)
  BY <1>2, CommitInv
<1>3. CASE \E condition \in Conditions : Call(condition)
  BY <1>3, CallInv
<1>4. CASE QueryImages(wanted)
  BY <1>4, QueryImagesInv
<1>5. CASE \E e \in rows : ScanImage(e)
  BY <1>5, ScanImageInv
<1>6. CASE QueryLists(wanted)
  BY <1>6, QueryListsInv
<1>7. CASE \E e \in rows : ScanList(e)
  BY <1>7, ScanListInv
<1>8. CASE BreakOff
  BY <1>8, BreakOffInv
<1>9. CASE Merge
  BY <1>9, MergeInv
<1>10. CASE Return
  BY <1>10, ReturnInv
<1>11. CASE Fail \/ Finish
  BY <1>11, ForgetInv
<1> QED
  BY <1>1, <1>2, <1>3, <1>4, <1>5, <1>6, <1>7, <1>8, <1>9, <1>10, <1>11 DEF Next

(* The invariant holds in every reachable state. *)
THEOREM InvariantHolds == Spec => []QueryInv
  BY InvInit, InvStep, PTL DEF Spec

-----------------------------------------------------------------------------
(* The answer shows what doImageQuery returns from the tables one, and     *)
(* what doListQuery returns from the tables other, and nothing else.       *)
AnswerFrom(one, other) ==
  \A r \in Repos :
    /\ \A m \in ShownImage : ImageIn(result, r, m) <=> ImageFrom(one, r, m)
    /\ \A m \in ShownList : ListIn(result, r, m) <=> ListFrom(other, r, m)

(* The answer is exactly what the two statements find in the tables of two *)
(* moments while DoQuery ran, neither less nor more.                       *)
AnswerOfTwoMoments == pc = "done" => \E one, other \in during : AnswerFrom(one, other)

(* The invariant says so when the merge has come to the end of both.       *)
LEMMA InvAnswer == QueryInv => AnswerOfTwoMoments
<1> SUFFICES ASSUME QueryInv, pc = "done"
             PROVE  \E one, other \in during : AnswerFrom(one, other)
  BY DEF AnswerOfTwoMoments
<1>1. /\ rows = {} /\ broken = FALSE /\ TypeOK
      /\ i = Len(imageRepos) + 1 /\ j = Len(listRepos) + 1
  BY DEF QueryInv, Phases
<1>2. PICK one \in during : ImagesReadFrom(one)
  BY DEF QueryInv, ImagesRead
<1>3. PICK other \in during : ListsReadFrom(other)
  BY DEF QueryInv, ListsRead
<1>4. 1..i - 1 = DOMAIN imageRepos /\ 1..j - 1 = DOMAIN listRepos
  BY <1>1, Positions
<1>5. ASSUME NEW r \in Repos, NEW m \in ShownImage
      PROVE  ImageIn(result, r, m) <=> ImageFrom(one, r, m)
  <2>1. ImageIn(result, r, m) <=> ImageIn(imageRepos, r, m)
    BY <1>4 DEF QueryInv, Merged, ImageIn
  <2>2. ImageIn(imageRepos, r, m) <=> ImageFrom(one, r, m)
    BY <1>1, <1>2 DEF ImagesReadFrom
  <2> QED
    BY <2>1, <2>2
<1>6. ASSUME NEW r \in Repos, NEW m \in ShownList
      PROVE  ListIn(result, r, m) <=> ListFrom(other, r, m)
  <2>1. ListIn(result, r, m) <=> ListIn(listRepos, r, m)
    BY <1>4 DEF QueryInv, Merged, ListIn
  <2>2. ~ListComes(r, m)
    BY <1>1 DEF ListComes
  <2>3. ListIn(listRepos, r, m) <=> ListFrom(other, r, m)
    BY <1>1, <1>3, <2>2 DEF ListsReadFrom
  <2> QED
    BY <2>1, <2>3
<1> QED
  BY <1>5, <1>6 DEF AnswerFrom

(* What a statement has to show of an image or a list, there is to show. *)
LEMMA ThereToShow ==
  ASSUME NEW tables, NEW r \in Repos, NEW t \in Tags, NEW d \in Images
  PROVE  /\ ImageWanted(tables, r, t, d) =>
              \E m \in ShownImage : m.digest = d /\ t \in m.tags /\ ImageFrom(tables, r, m)
         /\ \A l \in Lists : ListWanted(tables, r, t, l, d) =>
              \E m \in ShownList : m.digest = l /\ t \in m.tags /\ d \in m.images /\ ListFrom(tables, r, m)
<1>1. ASSUME ImageWanted(tables, r, t, d)
      PROVE  \E m \in ShownImage : m.digest = d /\ t \in m.tags /\ ImageFrom(tables, r, m)
  <2> DEFINE m == [digest |-> d, tags |-> shownTags(tables.imageTag, d)]
  <2>1. t \in shownTags(tables.imageTag, d) /\ shownTags(tables.imageTag, d) \in (SUBSET Tags) \ {{}}
    <3>1. <<t, d>> \in tables.imageTag[r]
      BY <1>1 DEF ImageWanted
    <3> QED
      BY <3>1, ShownTags
  <2>2. m \in ShownImage /\ m.digest = d /\ m.tags = shownTags(tables.imageTag, d)
    BY <2>1 DEF ShownImage
  <2>3. ImageMatches(tables, r, d)
    BY <1>1 DEF ImageMatches
  <2> HIDE DEF m
  <2> QED
    BY <2>1, <2>2, <2>3 DEF ImageFrom
<1>2. ASSUME NEW l \in Lists, ListWanted(tables, r, t, l, d)
      PROVE  \E m \in ShownList : m.digest = l /\ t \in m.tags /\ d \in m.images /\ ListFrom(tables, r, m)
  <2> DEFINE images == {x \in Images : ListMatches(tables, r, l, x)}
             m == [digest |-> l, images |-> images, tags |-> shownTags(tables.listTag, l)]
  <2>1. t \in shownTags(tables.listTag, l) /\ shownTags(tables.listTag, l) \in (SUBSET Tags) \ {{}}
    <3>1. <<t, l>> \in tables.listTag[r]
      BY <1>2 DEF ListWanted
    <3> QED
      BY <3>1, ShownTags
  <2>2. d \in images /\ images \in (SUBSET Images) \ {{}}
    BY <1>2 DEF ListMatches
  <2> HIDE DEF images
  <2>3. m \in ShownList /\ m.digest = l /\ m.images = images /\ m.tags = shownTags(tables.listTag, l)
    BY <2>1, <2>2 DEF ShownList
  <2> HIDE DEF m
  <2>4. ListFrom(tables, r, m)
    BY <2>3 DEF ListFrom, images
  <2> QED
    BY <2>1, <2>2, <2>3, <2>4
<1> QED
  BY <1>1, <1>2

(* The answer is in the types of the results. *)
LEMMA AnswerTyped ==
  ASSUME TypeOK, NEW n \in DOMAIN result
  PROVE  /\ result[n] \in Repository /\ result[n].name \in Repos
         /\ \A m \in result[n].images : m \in ShownImage
         /\ \A m \in result[n].lists : m \in ShownList
<1>1. result[n] \in Repository
  BY LenProperties, ElementOfSeq DEF TypeOK
<1> QED
  BY <1>1 DEF Repository

(* The types of the variables: what is shown has a tag, and a list is      *)
(* shown with its images.                                                  *)
THEOREM TypeCorrect == Spec => []TypeOK
<1>1. QueryInv => TypeOK
  BY DEF QueryInv
<1> QED
  BY <1>1, InvariantHolds, PTL

(* The answer is exactly what the two statements find at two moments.      *)
THEOREM AnswerIsExact == Spec => []AnswerOfTwoMoments
  BY InvAnswer, InvariantHolds, PTL

(* DoQuery shows all that is asked for and stays in the database while it  *)
(* runs: neither the loops over the rows nor the merge lose any of it.     *)
THEOREM StableIsShown == Spec => []StableShown
<1>1. ASSUME AnswerOfTwoMoments
      PROVE  StableShown
  <2> SUFFICES ASSUME pc = "done", NEW r \in Repos, NEW t \in Tags, NEW d \in Images
               PROVE  /\ (\A tables \in during : ImageWanted(tables, r, t, d)) =>
                           \E e \in EntriesNamed(r) : \E m \in e.images : m.digest = d /\ t \in m.tags
                      /\ \A l \in Lists : (\A tables \in during : ListWanted(tables, r, t, l, d)) =>
                           \E e \in EntriesNamed(r) : \E m \in e.lists : m.digest = l /\ t \in m.tags /\ d \in m.images
    BY DEF StableShown
  <2>1. PICK one, other \in during : AnswerFrom(one, other)
    BY <1>1 DEF AnswerOfTwoMoments
  <2>2. ASSUME \A tables \in during : ImageWanted(tables, r, t, d)
        PROVE  \E e \in EntriesNamed(r) : \E m \in e.images : m.digest = d /\ t \in m.tags
    <3>1. PICK m \in ShownImage : m.digest = d /\ t \in m.tags /\ ImageFrom(one, r, m)
      BY <2>2, ThereToShow
    <3>2. ImageIn(result, r, m)
      BY <2>1, <3>1 DEF AnswerFrom
    <3> QED
      BY <3>1, <3>2 DEF ImageIn, EntriesNamed
  <2>3. ASSUME NEW l \in Lists, \A tables \in during : ListWanted(tables, r, t, l, d)
        PROVE  \E e \in EntriesNamed(r) : \E m \in e.lists : m.digest = l /\ t \in m.tags /\ d \in m.images
    <3>1. PICK m \in ShownList : m.digest = l /\ t \in m.tags /\ d \in m.images /\ ListFrom(other, r, m)
      BY <2>3, ThereToShow
    <3>2. ListIn(result, r, m)
      BY <2>1, <3>1 DEF AnswerFrom
    <3> QED
      BY <3>1, <3>2 DEF ListIn, EntriesNamed
  <2> QED
    BY <2>2, <2>3
<1> QED
  BY <1>1, AnswerIsExact, PTL

(* The tags that a statement returns with a digest are on it. *)
LEMMA TagsOnDigest ==
  ASSUME NEW tagTable, NEW m, m.tags = shownTags(tagTable, m.digest)
  PROVE  TagsWereThere(tagTable, m)
<1> SUFFICES ASSUME NEW t \in m.tags PROVE \E q \in Repos : <<t, m.digest>> \in tagTable[q]
  BY DEF TagsWereThere
<1>1. PICK row \in tagRows(tagTable, m.digest) : row[2] = t
  BY DEF shownTags
<1>2. row[1] \in Repos /\ <<row[2], m.digest>> \in tagTable[row[1]]
  BY DEF tagRows
<1> QED
  BY <1>1, <1>2

(* What DoQuery shows was asked for, and was in the database at some       *)
(* moment while it ran, a list with all the images shown with it, and each *)
(* digest with all the tags shown with it, in whichever repositories.      *)
THEOREM ShownIsTrue == Spec => []ShownWasThere
<1>1. ASSUME TypeOK, AnswerOfTwoMoments
      PROVE  ShownWasThere
  <2> SUFFICES ASSUME pc = "done", NEW n \in DOMAIN result
               PROVE  /\ \A m \in result[n].images : \E tables \in during :
                           /\ \E t \in Tags : ImageWanted(tables, result[n].name, t, m.digest)
                           /\ TagsWereThere(tables.imageTag, m)
                      /\ \A m \in result[n].lists : \E tables \in during :
                           /\ \A d \in m.images : \E t \in Tags : ListWanted(tables, result[n].name, t, m.digest, d)
                           /\ TagsWereThere(tables.listTag, m)
    BY DEF ShownWasThere
  <2>1. PICK one, other \in during : AnswerFrom(one, other)
    BY <1>1 DEF AnswerOfTwoMoments
  <2>2. ASSUME NEW m \in result[n].images
        PROVE  ImageFrom(one, result[n].name, m)
    BY <1>1, <2>1, AnswerTyped DEF AnswerFrom, ImageIn
  <2>3. ASSUME NEW m \in result[n].lists
        PROVE  ListFrom(other, result[n].name, m)
    BY <1>1, <2>1, AnswerTyped DEF AnswerFrom, ListIn
  <2>4. \A m \in result[n].images : TagsWereThere(one.imageTag, m)
    BY <2>2, TagsOnDigest DEF ImageFrom
  <2>5. \A m \in result[n].lists : TagsWereThere(other.listTag, m)
    BY <2>3, TagsOnDigest DEF ListFrom
  <2> QED
    BY <2>2, <2>3, <2>4, <2>5 DEF ImageFrom, ImageMatches, ListFrom, ListMatches
<1> QED
  BY <1>1, TypeCorrect, AnswerIsExact, PTL

(* If both statements return the repositories in the order of Go's <, the  *)
(* merge gives one entry for each, in this order.                          *)
THEOREM OneEntry == Spec => []OneEntryPerRepository
<1>1. QueryInv => OneEntryPerRepository
  BY DEF QueryInv, MergedInOrder, OneEntryPerRepository
<1> QED
  BY <1>1, InvariantHolds, PTL

(* A result all of whose entries have the same name has one at most. *)
LEMMA GroupedSingle ==
  ASSUME NEW repos \in Seq(Repository), NEW r, IsGrouped(repos),
         \A n \in DOMAIN repos : repos[n].name = r
  PROVE  Len(repos) <= 1 /\ IsIncreasing(repos)
<1>1. Len(repos) \in Nat /\ DOMAIN repos = 1..Len(repos)
  BY LenProperties
<1>2. Len(repos) <= 1
  <2> SUFFICES ASSUME Len(repos) > 1 PROVE FALSE
    BY <1>1
  <2>1. 1 \in 1..Len(repos) - 1 /\ 1 \in DOMAIN repos /\ 2 \in DOMAIN repos
    BY <1>1
  <2>2. repos[1].name # repos[1 + 1].name
    BY <2>1 DEF IsGrouped
  <2> QED
    BY <2>1, <2>2
<1>3. \A m, n \in DOMAIN repos : ~(m < n)
  BY <1>1, <1>2
<1> QED
  BY <1>2, <1>3 DEF IsIncreasing

(* The query by one repository gives one entry at most, with all its       *)
(* images of one moment and all its lists of another: what                 *)
(* updateRepositoryInDatabase compares with the registry is what the       *)
(* tables hold.                                                            *)
THEOREM FetcherSees == Spec => []FetcherSeesTables
<1>1. ASSUME QueryInv, AnswerOfTwoMoments
      PROVE  FetcherSeesTables
  <2> SUFFICES ASSUME pc = "done", NEW r \in Repos, wanted = {r} \X Tags \X Images
               PROVE  /\ Len(result) <= 1
                      /\ \E one \in during : ShownDigests("images") = doImageQuery(one, r)
                      /\ \E other \in during : ShownDigests("lists") = doListQuery(other, r)
    BY DEF FetcherSeesTables
  <2>1. TypeOK /\ imageRepos \in Seq(Repository) /\ listRepos \in Seq(Repository) /\ result \in Seq(Repository)
    BY <1>1 DEF QueryInv, TypeOK
  <2>2. \A q : WantedName(q) => q = r
    BY DEF WantedName
  <2>3. /\ \A n \in DOMAIN imageRepos : imageRepos[n].name = r
        /\ \A n \in DOMAIN listRepos : listRepos[n].name = r
        /\ \A n \in DOMAIN result : result[n].name = r
    BY <1>1, <2>2 DEF QueryInv, NamesWanted
  <2>4. IsIncreasing(imageRepos) /\ IsIncreasing(listRepos)
    BY <1>1, <2>1, <2>3, GroupedSingle DEF QueryInv
  <2>5. Len(result) <= 1
    <3>1. Len(result) \in Nat /\ DOMAIN result = 1..Len(result)
      BY <2>1, LenProperties
    <3>2. IsIncreasing(result)
      BY <1>1, <2>4 DEF QueryInv, MergedInOrder
    <3> SUFFICES ASSUME Len(result) > 1 PROVE FALSE
      BY <3>1
    <3>3. 1 \in DOMAIN result /\ 2 \in DOMAIN result /\ 1 < 2
      BY <3>1
    <3>4. comesBefore(result[1].name, result[2].name)
      BY <3>2, <3>3 DEF IsIncreasing
    <3> QED
      BY <2>3, <3>3, <3>4, StrictOrder
  <2>6. PICK one, other \in during : AnswerFrom(one, other)
    BY <1>1 DEF AnswerOfTwoMoments
  <2>7. one \in Tables /\ other \in Tables
    BY <2>1, QueryAssumption DEF TypeOK
  <2>8. \A t, d : <<r, t, d>> \in wanted <=> t \in Tags /\ d \in Images
    OBVIOUS
  <2>9. \A d : d \in ShownDigests("images") <=> \E n \in DOMAIN result : \E m \in result[n].images : m.digest = d
    BY DEF ShownDigests
  <2>10. \A d : d \in ShownDigests("lists") <=> \E n \in DOMAIN result : \E m \in result[n].lists : m.digest = d
    BY DEF ShownDigests
  <2>11. ASSUME NEW d \in ShownDigests("images")
         PROVE  d \in doImageQuery(one, r)
    <3>1. PICK n \in DOMAIN result : \E m \in result[n].images : m.digest = d
      BY <2>9
    <3>2. PICK m \in result[n].images : m.digest = d
      BY <3>1
    <3>3. ImageFrom(one, r, m)
      BY <2>1, <2>3, <2>6, AnswerTyped DEF AnswerFrom, ImageIn
    <3>4. PICK t \in Tags : <<t, d>> \in one.imageTag[r]
      BY <3>2, <3>3 DEF ImageFrom, ImageMatches, ImageWanted
    <3> QED
      BY <3>4 DEF doImageQuery, DigestsOf
  <2>12. ASSUME NEW d \in doImageQuery(one, r)
         PROVE  d \in ShownDigests("images")
    <3>1. PICK t \in Tags : d \in Images /\ <<t, d>> \in one.imageTag[r]
      <4>1. one.imageTag[r] \subseteq Tags \X Images
        BY <2>7 DEF Tables
      <4> QED
        BY <4>1 DEF doImageQuery, DigestsOf
    <3>2. PICK m \in ShownImage : m.digest = d /\ ImageFrom(one, r, m)
      <4>1. ImageWanted(one, r, t, d)
        BY <2>8, <3>1 DEF ImageWanted
      <4> QED
        BY <3>1, <4>1, ThereToShow
    <3>3. ImageIn(result, r, m)
      BY <2>6, <3>2 DEF AnswerFrom
    <3> QED
      BY <2>9, <3>2, <3>3 DEF ImageIn
  <2>13. ASSUME NEW l \in ShownDigests("lists")
         PROVE  l \in doListQuery(other, r)
    <3>1. PICK n \in DOMAIN result : \E m \in result[n].lists : m.digest = l
      BY <2>10
    <3>2. PICK m \in result[n].lists : m.digest = l
      BY <3>1
    <3>3. ListFrom(other, r, m) /\ m \in ShownList
      BY <2>1, <2>3, <2>6, <3>2, AnswerTyped DEF AnswerFrom, ListIn
    <3>4. PICK d \in Images : ListMatches(other, r, l, d)
      BY <3>2, <3>3 DEF ListFrom, ShownList
    <3>5. PICK t \in Tags : <<t, l>> \in other.listTag[r] /\ <<l, d>> \in other.listEntry
      BY <3>4 DEF ListMatches, ListWanted
    <3> QED
      BY <3>5 DEF doListQuery, DigestsOf
  <2>14. ASSUME NEW l \in doListQuery(other, r)
         PROVE  l \in ShownDigests("lists")
    <3>1. PICK t \in Tags, d \in Images : l \in Lists /\ <<t, l>> \in other.listTag[r] /\ <<l, d>> \in other.listEntry
      <4>1. other.listTag[r] \subseteq Tags \X Lists
        BY <2>7 DEF Tables
      <4> QED
        BY <4>1 DEF doListQuery, DigestsOf
    <3>2. PICK m \in ShownList : m.digest = l /\ ListFrom(other, r, m)
      <4>1. ListWanted(other, r, t, l, d)
        BY <2>8, <3>1 DEF ListWanted
      <4> QED
        BY <3>1, <4>1, ThereToShow
    <3>3. ListIn(result, r, m)
      BY <2>6, <3>2 DEF AnswerFrom
    <3> QED
      BY <2>10, <3>2, <3>3 DEF ListIn
  <2>15. ShownDigests("images") = doImageQuery(one, r) /\ ShownDigests("lists") = doListQuery(other, r)
    BY <2>11, <2>12, <2>13, <2>14
  <2> QED
    BY <2>5, <2>15
<1> QED
  BY <1>1, InvariantHolds, AnswerIsExact, PTL
=============================================================================
