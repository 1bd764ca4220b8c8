------------------------------ MODULE WebQuery ------------------------------
(***************************************************************************)
(* A request for information, from its parameters to its answer, while     *)
(* transactions of the fetcher commit: the handlers of /index and the home *)
(* page (web/index.go, web/home.go, web/httputil.go), the check of /assert *)
(* (web/assert.go), and DoQuery, with the conditions that WhereBuilder     *)
(* makes.                                                                  *)
(*                                                                         *)
(* Requests only read, so one is enough.  An input is chosen when the code *)
(* first looks at it.                                                      *)
(***************************************************************************)
EXTENDS DoQuery, WhereBuilder, IfMatch, JsonAssert

CONSTANTS
  Attributes,   \* os, architecture, annotations and labels of each image
  Headers,      \* the values of If-None-Match in a request, in order
  Forms,        \* forms that are sent to /index
  Queries,      \* queries that are built by calls
  Assertions,   \* sequences of assertions that are sent to /assert
  CurrentETag   \* the entity tag of the modification time

ASSUME AttributesAssumption == DOMAIN Attributes = Images

VARIABLES
  handler,  \* where the request is
  input,    \* what was asked: a header, a form, a query or assertions
  query,    \* the Query made of it
  reply     \* the status of the response

webVars == <<vars, handler, input, query, reply>>

NoInput == [kind |-> "none"]

JoinedRows == Repos \X Tags \X Images

WebInit ==
  /\ Init
  /\ handler = "idle"
  /\ input = NoInput
  /\ query = NewQuery
  /\ reply = "none"

(* The response ends.  Only the first call of WriteHeader counts. *)
Respond(status) ==
  /\ handler' = "reply"
  /\ reply' = IF reply = "none" THEN status ELSE reply

-----------------------------------------------------------------------------
(* What a form asks for.  This is stated for forms without label: keys and *)
(* with one value for each annotation; of the others, the code forgets or  *)
(* misreads a part.                                                        *)
ValuesOf(form, key) == IF key \in DOMAIN form THEN ToSet(form[key]) ELSE {}

IsPlain(form) ==
  \A key \in DOMAIN form :
    /\ key[1] # "label"
    /\ key[1] = "annotation" => Len(form[key]) = 1
    /\ key[1] = "annotation" /\ Last(key) = "matches" => form[key] = <<<<"1">>>>

(* The terms for the annotation of the given name. *)
AnnotationTerms(form, name) ==
  LET asked(suffix) == ValuesOf(form, <<"annotation">> \o name \o suffix)
      one(values, term) == IF <<"1">> \in values THEN {term} ELSE {}
  IN  {Is(v) : v \in asked(<<>>)} \cup one(asked(<<"exists">>), Exists)
        \cup one(asked(<<"matches">>), Matches(<<"1">>))

FormSelects(form, row) ==
  LET fieldTerms(f) ==
        {Is(v) : v \in ValuesOf(form, <<f>>)}
          \cup {Matches(p) : p \in IF f = "tag" THEN ValuesOf(form, <<f, "matches">>) ELSE {}}
      names == {<<key[2]>> : key \in {k \in DOMAIN form : k[1] = "annotation"}}
  IN  /\ \A f \in Fields : fieldTerms(f) # {} => \E term \in fieldTerms(f) : TermHolds(term, row[f])
      /\ \A name \in names : AnnotationTerms(form, name) # {} =>
           /\ name \in DOMAIN row.annotations
           /\ \E term \in AnnotationTerms(form, name) : TermHolds(term, row.annotations[name])

(* The row of the join that a condition is about. *)
joinedRow(row) == Attributes[row[3]] @@ [repository |-> row[1], tag |-> row[2]]

(* The rows that a request with input in and query q asks for. *)
AskedRows(in, q) ==
  {row \in JoinedRows :
     IF in.kind = "form" /\ IsPlain(in.form) THEN FormSelects(in.form, joinedRow(row))
     ELSE Selects(q, joinedRow(row))}

-----------------------------------------------------------------------------
(* ServeHTTP of the handlers of /index and of the home page. *)

ReceiveIndex(values) ==
  /\ handler = "idle"
  /\ handler' = "etag"
  /\ input' = [kind |-> "header", values |-> values]
  /\ UNCHANGED <<vars, query, reply>>

(* One round of the loop over the values of If-None-Match, which is left   *)
(* with a status as soon as there is one.                                  *)
checkValue(status, val) ==
  LET parsed == ParseIfMatch(val)
  IN  CASE status # "none" -> status
        [] status = "none" /\ ~parsed.ok -> "bad request"
        [] status = "none" /\ parsed.ok /\ {CurrentETag, <<"*">>} \cap ToSet(parsed.tags) # {} -> "not modified"
        [] OTHER -> "none"

(* CheckAndSetETag, with any number of values of If-None-Match.            *)
(* IndexCache says what the tag is worth.                                  *)
CheckAndSetETag ==
  LET status == FoldLeft(checkValue, "none", input.values) IN
  /\ handler = "etag"
  /\ IF status = "none" THEN handler' = "form" /\ input' = NoInput /\ UNCHANGED reply
     ELSE Respond(status) /\ UNCHANGED input
  /\ UNCHANGED <<vars, query>>

(* CheckAndSetETag, when the database fails to give the modification time. *)
ModificationTimeFails ==
  /\ handler = "etag"
  /\ Respond("internal error")
  /\ UNCHANGED <<vars, input, query>>

(* One value vv of the form.  A key is the sequence of its parts between   *)
(* colons.  The loop over the values changes the variable k, so that a     *)
(* further value of the same key finds a shorter one; the prefix label: is *)
(* not removed, and makes an annotation.                                   *)
addValue(s, vv) ==
  LET isAnnotation == Len(s.k) > 1 /\ s.k[1] \in {"annotation", "label"}
      name == IF s.k[1] = "annotation" THEN Tail(s.k) ELSE s.k
      suffix == IF Len(name) > 1 THEN Last(name) ELSE ""
      to(key, q) == [k |-> key, q |-> q]
      annotate(key, term) == addKeyTerm(s.q, "annotations", key, term)
  IN  CASE s.k = <<"tag", "matches">> -> to(s.k, addTerm(s.q, "tag", Matches(vv)))
        [] Len(s.k) = 1 /\ s.k[1] \in Fields -> to(s.k, addTerm(s.q, s.k[1], Is(vv)))
        [] isAnnotation /\ suffix = "exists" ->
             to(Front(name), IF vv = <<"1">> THEN annotate(Front(name), Exists) ELSE s.q)
        [] isAnnotation /\ suffix = "matches" ->
             to(Front(name), IF vv = <<"1">> THEN annotate(Front(name), Matches(vv)) ELSE s.q)
        [] isAnnotation /\ suffix \notin {"exists", "matches"} -> to(name, annotate(name, Is(vv)))
        [] OTHER -> s

(* The loop over the form, whose keys come in any order. *)
formQuery(form, keys) ==
  LET values(q, key) == FoldLeft(addValue, [k |-> key, q |-> q], form[key]).q
  IN  FoldLeft(values, NewQuery, keys)

(* The handler calls DoQuery. *)
CallDoQuery(in, q) ==
  /\ input' = in
  /\ query' = q
  /\ handler' = "query"
  /\ Call(AskedRows(in, q))

ParseForm(form) ==
  /\ handler = "form"
  /\ \E keys \in SetToSeqs(DOMAIN form) :
       CallDoQuery([kind |-> "form", form |-> form], formQuery(form, keys))
  /\ UNCHANGED reply

(* The home page takes no form. *)
ServeHome ==
  /\ handler = "form"
  /\ CallDoQuery([kind |-> "query"], NewQuery)
  /\ UNCHANGED reply

-----------------------------------------------------------------------------
(* The other callers of DoQuery. *)

(* ServeHTTP of the handler of /assert.  The fields of a Query are not     *)
(* exported, so that decoding leaves it empty.  A timeout that cannot be   *)
(* parsed is answered with 400 at once, but the handler goes on.           *)
ReceiveAssert(assertions) ==
  /\ handler = "idle"
  /\ \E timeoutParsed \in BOOLEAN : reply' = IF timeoutParsed THEN "none" ELSE "bad request"
  /\ CallDoQuery([kind |-> "assertions", assertions |-> assertions], NewQuery)

(* The same, when the body cannot be decoded. *)
RefuseAssert ==
  /\ handler = "idle"
  /\ Respond("bad request")
  /\ UNCHANGED <<vars, input, query>>

(* A query that is built by calls, as updateRepositoryInDatabase does. *)
ReceiveCall(q) ==
  /\ handler = "idle"
  /\ CallDoQuery([kind |-> "query"], q)
  /\ UNCHANGED reply

-----------------------------------------------------------------------------
(* DoQuery, with the condition that is built for each statement. *)

(* The rows that satisfy a condition, by PostgreSQL. *)
satisfying(where) == {row \in JoinedRows : holds(where.clause, where.args, joinedRow(row))}

OthersCommit(tables) ==
  /\ Commit(tables)
  /\ UNCHANGED <<handler, input, query, reply>>

AskImages ==
  /\ \E where \in whereClauses(query) : QueryImages(satisfying(where))
  /\ UNCHANGED <<handler, input, query, reply>>

AskLists ==
  /\ \E where \in whereClauses(query) : QueryLists(satisfying(where))
  /\ UNCHANGED <<handler, input, query, reply>>

(* The loops of DoQuery. *)
Loop ==
  /\ (\E e \in rows : ScanImage(e) \/ ScanList(e)) \/ BreakOff \/ Merge
  /\ UNCHANGED <<handler, input, query, reply>>

(* DoQuery returns, and the result is sent, unless assertions are to be    *)
(* checked.                                                                *)
Answer ==
  /\ Return
  /\ IF input.kind = "assertions" THEN handler' = "check" /\ UNCHANGED reply ELSE Respond("ok")
  /\ UNCHANGED <<input, query>>

QueryFails ==
  /\ Fail
  /\ Respond("internal error")
  /\ UNCHANGED <<input, query>>

-----------------------------------------------------------------------------
(* The result as a JSON document, and the test of an assertion that claims *)
(* that a repository is shown with some images and lists.                  *)

arrayOf(documents) == Array(SetToSeq(documents))

strings(S) == {String(x) : x \in S}
digests(S) == {Object([Digest |-> String(d)]) : d \in S}

resultDocument ==
  LET image(m) == Object([Digest |-> String(m.digest), Tags |-> arrayOf(strings(m.tags))])
      list(l) == Object([Digest |-> String(l.digest), Images |-> arrayOf(digests(l.images)),
                         Tags |-> arrayOf(strings(l.tags))])
  IN  Array([n \in DOMAIN result |->
        Object([Name |-> String(result[n].name),
                Images |-> arrayOf({image(m) : m \in result[n].images}),
                Lists |-> arrayOf({list(l) : l \in result[n].lists})])])

testDocument(claim) ==
  Array(<<Object([Name |-> String(claim.name), Images |-> arrayOf(digests(claim.images)),
                  Lists |-> arrayOf(digests(claim.lists))])>>)

(* The rest of a round of the loop of /assert.  Freshness has the loop. *)
CheckAssertions ==
  LET tests == [n \in DOMAIN input.assertions |->
                  [Type |-> input.assertions[n].Type, Test |-> testDocument(input.assertions[n].claim)]]
      checked == checkAssertions(resultDocument, tests)
  IN
  /\ handler = "check"
  /\ Respond(IF checked.err THEN "bad request" ELSE IF checked.failures = {} THEN "ok" ELSE "failed")
  /\ UNCHANGED <<vars, input, query>>

(* The response has been sent. *)
Done ==
  /\ handler = "reply"
  /\ handler' = "idle"
  /\ input' = NoInput
  /\ query' = NewQuery
  /\ reply' = "none"
  /\ Finish \/ (pc = "idle" /\ UNCHANGED vars)

WebNext ==
  \/ \E tables \in Databases : OthersCommit(tables)
  \/ \E values \in Headers : ReceiveIndex(values)
  \/ CheckAndSetETag
  \/ ModificationTimeFails
  \/ \E form \in Forms : ParseForm(form)
  \/ ServeHome
  \/ \E assertions \in Assertions : ReceiveAssert(assertions)
  \/ RefuseAssert
  \/ \E q \in Queries : ReceiveCall(q)
  \/ AskImages
  \/ AskLists
  \/ Loop
  \/ Answer
  \/ QueryFails
  \/ CheckAssertions
  \/ Done

WebSpec == WebInit /\ [][WebNext]_webVars

-----------------------------------------------------------------------------
(* Whatever the request, DoQuery runs as its module says, with the rows    *)
(* that are asked for: the conditions that the code assembles for its two  *)
(* statements select these rows, no less and no more, in whichever order   *)
(* the terms come.                                                         *)
RefinesDoQuery == Spec

(* The images and lists that a query by the repository shows. *)
ShownOf(tables, r) == [images |-> doImageQuery(tables, r), lists |-> doListQuery(tables, r)]

(* No part of the claim changes while DoQuery runs: whether the repository *)
(* has images, and lists, and those of the claim.  (A repository that has  *)
(* lists and no images before a commit, and images and no lists after it,  *)
(* can be missing from the answer altogether.)                             *)
IsSettled(claim) ==
  \A kind \in {"images", "lists"} : \A one, other \in {ShownOf(tables, claim.name)[kind] : tables \in during} :
    /\ claim[kind] \cap one = claim[kind] \cap other
    /\ one = {} <=> other = {}

IsTrue(claim, tables) ==
  LET shown == ShownOf(tables, claim.name)
  IN  /\ shown.images \cup shown.lists # {}
      /\ claim.images \subseteq shown.images
      /\ claim.lists \subseteq shown.lists

(* An assertion is answered with the truth when nothing that it claims     *)
(* changes while DoQuery runs and the repositories come in order: a claim  *)
(* is met by an entry whose images and lists include those of the claim.   *)
AssertionsTruthful ==
  (/\ input.kind = "assertions"
   /\ handler = "reply" /\ reply \in {"ok", "failed"}
   /\ IsIncreasing(imageRepos) /\ IsIncreasing(listRepos)
   /\ \A n \in DOMAIN input.assertions : IsSettled(input.assertions[n].claim))
  => (reply = "ok" <=> \A n \in DOMAIN input.assertions :
        (input.assertions[n].Type = "contains") = IsTrue(input.assertions[n].claim, db))

(* What a value of If-None-Match says by the grammar of the header. *)
IsUnreadable(val) == TrimSpace(val) = <<>> \/ Readings(val) = {}
IsCurrent(val) ==
  ~IsUnreadable(val) /\ \E elements \in Readings(val) : {CurrentETag, <<"*">>} \cap elements # {}

(* A conditional request is decided by the first value of If-None-Match    *)
(* that, read by the grammar, lists the current entity tag or * (304) or   *)
(* cannot be read (400), and is served if there is none: quotes, escapes,  *)
(* blanks and empty elements do not confuse ParseIfMatch, and one value    *)
(* does not hide another.                                                  *)
ConditionalExact ==
  [][CheckAndSetETag =>
       LET values == input.values
           decisive == {n \in DOMAIN values : IsUnreadable(values[n]) \/ IsCurrent(values[n])}
       IN  reply' = IF decisive = {} THEN "none"
                    ELSE IF IsCurrent(values[Min(decisive)]) THEN "not modified" ELSE "bad request"]_webVars
=============================================================================
