----------------------------- MODULE MCWebQuery -----------------------------
(***************************************************************************)
(* Model of WebQuery for TLC: two repositories with two tags, two images   *)
(* and two lists of them.                                                  *)
(***************************************************************************)
EXTENDS WebQuery

CONSTANTS i1, i2, l1, l2

a == <<"a">>
b == <<"b">>
ab == <<"a", "b">>
a_ == <<"a", "_">>
v1 == <<"1">>

MCRepos == {a, b}
MCRepoOrder == <<a, b>>
MCTags == {ab, a_}
MCContents == (l1 :> <<i1, i2>>) @@ (l2 :> <<i2>>)
MCAttributes ==
  (i1 :> [os |-> a, architecture |-> a, annotations |-> (<<"k">> :> v1), labels |-> (<<"k">> :> ab)]) @@
  (i2 :> [os |-> b, architecture |-> a, annotations |-> (<<"m">> :> v1), labels |-> (<<"k">> :> a_)])

(* The tables when the repositories have been fetched with these tags. *)
Stored(images, lists) ==
  LET stored == UNION {DigestsOf(lists[r]) : r \in Repos}
      entries == UNION {{l} \X ToSet(Contents[l]) : l \in stored}
  IN  [image |-> DigestsOf(entries) \cup UNION {DigestsOf(images[r]) : r \in Repos},
       imageTag |-> images, list |-> stored, listTag |-> lists, listEntry |-> entries]

For(rowsOfA, rowsOfB) == (a :> rowsOfA) @@ (b :> rowsOfB)

MCDatabases ==
  {Stored(For({}, {}), For({}, {})),
   Stored(For({<<ab, i1>>}, {<<ab, i1>>}), For({<<a_, l2>>}, {<<a_, l1>>})),
   Stored(For({<<ab, i1>>, <<a_, i2>>}, {<<a_, i2>>}), For({}, {<<ab, l1>>})),
   Stored(For({}, {<<ab, i2>>}), For({<<ab, l1>>, <<a_, l2>>}, {<<a_, l1>>}))}

MCConditions == SUBSET JoinedRows

(* One value of up to four symbols, or some that is longer, or up to three *)
(* values, or none.                                                        *)
Symbols == {Quote, Backslash, ",", " ", "*", "W/", "x"}
MCETag == <<Quote, "x", Quote>>
Values ==
  BoundedSeq(Symbols, 4) \cup
  {MCETag \o <<",">> \o MCETag, <<Quote, Quote, " ", ",">> \o MCETag, <<"W/">> \o MCETag,
   <<Quote, Backslash, Quote, ",", Quote, Quote>>, <<Quote, ",", Quote, ",", ",">> \o MCETag,
   <<Quote, "x", Backslash, Quote, " ", ",", "*", Quote, ",", "*">>}
MCHeaders ==
  {<<val>> : val \in Values} \cup BoundedSeq({MCETag, <<"*">>, <<Quote, Quote>>, <<Quote>>, <<>>}, 3)

(* Forms with up to two keys, some with several values. *)
Fieldsets ==
  {<<"repository">> :> <<a>>, <<"repository">> :> <<b, a>>, <<"tag">> :> <<ab>>, <<"tag">> :> <<ab, a_>>,
   <<"tag", "matches">> :> <<a_>>, <<"tag", "matches">> :> <<<<"?", "b">>, <<"a", "_", "*">>>>,
   <<"os">> :> <<a>>, <<"architecture">> :> <<b, a>>, <<"page">> :> <<v1>>,
   <<"annotation", "k">> :> <<v1>>, <<"annotation", "k">> :> <<b, v1>>, <<"annotation", "tag">> :> <<b, ab>>,
   <<"annotation", "k", "exists">> :> <<v1>>, <<"annotation", "m", "exists">> :> <<a>>,
   <<"annotation", "k", "matches">> :> <<v1>>, <<"annotation", "k", "matches">> :> <<<<"*">>>>,
   <<"label", "k">> :> <<ab>>, <<"label", "k", "exists">> :> <<v1>>}
MCForms == {f @@ g : f \in Fieldsets, g \in Fieldsets} \cup {<<>>}

(* Queries with up to two terms for a field or a key. *)
Keyed(m) == {<<>>, <<"k">> :> <<Exists>>, <<"k">> :> <<Is(ab), Is(v1)>>,
             (<<"k">> :> <<Matches(<<"a", "?">>), Is(v1)>>) @@ (m :> <<Matches(<<"1", "*">>), Exists>>)}
MCQueries ==
  [repository : {<<>>, <<Is(a)>>, <<Is(a), Is(b)>>},
   tag : {<<>>, <<Is(ab)>>, <<Is(b), Matches(a_)>>},
   os : {<<>>, <<Is(a), Is(b)>>},
   architecture : {<<>>},
   annotations : Keyed(<<"m">>),
   labels : Keyed(<<"n">>) \ {<<"k">> :> <<Exists>>}]

Claims == [name : MCRepos, images : {{}, {i1}, {i1, i2}}, lists : {{}, {l1}, {l1, l2}}]
MCAssertions ==
  {<<[Type |-> type, claim |-> c]>> : type \in {"contains", "not-contains"}, c \in Claims} \cup
  {<<[Type |-> "contains", claim |-> c], [Type |-> type, claim |-> d]>> :
     type \in {"not-contains", "equals"}, c \in {x \in Claims : x.lists = {}},
     d \in {x \in Claims : x.name = b /\ x.images = {}}}
=============================================================================
