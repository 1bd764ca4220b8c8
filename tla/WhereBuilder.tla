---------------------------- MODULE WhereBuilder ----------------------------
(***************************************************************************)
(* Queries (database/database.go) and the SQL conditions that              *)
(* database/wherebuilder.go makes of them.                                 *)
(*                                                                         *)
(* A condition is a sequence of tokens: parentheses, AND, OR and the       *)
(* pieces between them, which refer to the arguments of the statement by   *)
(* position.  Names and values are sequences of characters where patterns  *)
(* apply to them; the text of a piece is reduced to what it compares.      *)
(***************************************************************************)
EXTENDS Integers, Sequences, FiniteSets, SequencesExt

Fields == {"repository", "tag", "os", "architecture"}
Maps == {"annotations", "labels"}

(* QueryTerm *)
Is(value) == [queryType |-> "is", argument |-> value]
Matches(pattern) == [queryType |-> "matches", argument |-> pattern]
Exists == [queryType |-> "exists", argument |-> <<>>]

(* A Query: the terms for each field, and for each key of the two maps. *)
NewQuery ==
  [repository |-> <<>>, tag |-> <<>>, os |-> <<>>, architecture |-> <<>>,
   annotations |-> <<>>, labels |-> <<>>]

(* Repository, Tag, TagMatches, OS, Architecture *)
addTerm(q, field, term) == [q EXCEPT ![field] = Append(@, term)]

(* AnnotationIs, AnnotationExists, AnnotationMatches, and those for labels *)
addKeyTerm(q, map, key, term) ==
  LET old == IF key \in DOMAIN q[map] THEN q[map][key] ELSE <<>>
  IN  [q EXCEPT ![map] = [k \in DOMAIN @ \cup {key} |-> IF k = key THEN Append(old, term) ELSE @[k]]]

-----------------------------------------------------------------------------
(* A glob pattern as a pattern of LIKE.  A backslash is left as it is. *)
likePattern(glob) ==
  LET convert(c) == CASE c \in {"%", "_"} -> <<"\\", c>>
                      [] c = "*" -> <<"%">>
                      [] c = "?" -> <<"_">>
                      [] OTHER -> <<c>>
  IN  FoldLeft(LAMBDA pattern, c : pattern \o convert(c), <<>>, glob)

(* whereBuilder: an empty piece ends a group of alternatives. *)
NewBuilder == [pieces |-> <<>>, args |-> <<>>]
EndOfGroup == [token |-> ""]

(* addArg of each of args, and addPiece of the piece that refers to them. *)
add(wb, subject, op, args) ==
  [pieces |-> Append(wb.pieces, [token |-> "piece", subject |-> subject, op |-> op,
                                 args |-> [n \in DOMAIN args |-> Len(wb.args) + n]]),
   args |-> wb.args \o args]

endGroup(wb) == [wb EXCEPT !.pieces = Append(@, EndOfGroup)]

makeWhereSubclause(wb, field, terms) ==
  LET addOne(b, term) == IF term.queryType = "is"
                         THEN add(b, field, "=", <<term.argument>>)
                         ELSE add(b, field, "like", <<likePattern(term.argument)>>)
  IN  endGroup(FoldLeft(addOne, wb, terms))

makeMapSubclause(wb, map, key, terms) ==
  LET addOne(b, term) ==
        CASE term.queryType = "is" -> add(b, map, "@>", <<[key |-> key, value |-> term.argument]>>)
          [] term.queryType = "matches" -> add(b, map, "text like", <<key, likePattern(term.argument)>>)
          [] term.queryType = "exists" -> add(b, map, "?", <<key>>)
  IN  endGroup(FoldLeft(addOne, wb, terms))

flattenNoParentheses(pieces) ==
  LET token(n) == IF n = 1 THEN <<>>
                  ELSE IF pieces[n - 1].token = "" THEN <<[token |-> "AND"]>>
                  ELSE <<[token |-> "OR"]>>
      step(result, n) == IF pieces[n].token = "" THEN result ELSE result \o token(n) \o <<pieces[n]>>
  IN  FoldLeft(step, <<>>, [n \in DOMAIN pieces |-> n])

(* The pieces of each group joined by OR, the groups by AND. *)
flatten(pieces) ==
  LET when(condition, token) == IF condition THEN <<[token |-> token]>> ELSE <<>>
      step(s, i) ==
        IF pieces[i].token = ""
        THEN IF s.in_or
             THEN [s EXCEPT !.result = @ \o when(s.n_ors > 1, ")"), !.in_or = FALSE, !.n_ors = 0]
             ELSE s
        ELSE [result |-> s.result
                \o (IF s.in_or
                    THEN when(s.n_ors > 0, "OR")
                    ELSE when(s.n_ands > 0, "AND")
                           \o when(i < Len(pieces) /\ pieces[i + 1].token # "", "("))
                \o <<pieces[i]>>,
              in_or |-> TRUE,
              n_ands |-> IF s.in_or THEN s.n_ands ELSE s.n_ands + 1,
              n_ors |-> s.n_ors + 1]
      end == FoldLeft(step, [result |-> <<>>, in_or |-> FALSE, n_ands |-> 0, n_ors |-> 0],
                      [i \in DOMAIN pieces |-> i])
  IN  end.result \o when(end.n_ors > 1, ")")

(* makeWhereClause; the keys of the two maps come in the given orders. *)
makeWhereClause(q, annotations, labels) ==
  LET field(wb, f) == IF q[f] = <<>> THEN wb ELSE makeWhereSubclause(wb, f, q[f])
      fields == FoldLeft(field, NewBuilder, <<"repository", "tag", "os", "architecture">>)
      annotated == FoldLeft(LAMBDA wb, k : makeMapSubclause(wb, "annotations", k, q.annotations[k]),
                            fields, annotations)
      all == FoldLeft(LAMBDA wb, k : makeMapSubclause(wb, "labels", k, q.labels[k]), annotated, labels)
  IN  [clause |-> flatten(all.pieces), args |-> all.args]

(* The clauses that may be made of q: a loop over a Go map takes any order. *)
whereClauses(q) ==
  {makeWhereClause(q, annotations, labels) :
     annotations \in SetToSeqs(DOMAIN q.annotations), labels \in SetToSeqs(DOMAIN q.labels)}

-----------------------------------------------------------------------------
(* PostgreSQL: the value of a condition for a row.  A missing key gives    *)
(* NULL, which counts as false here: there is no NOT.                      *)

(* s LIKE p *)
RECURSIVE like(_, _)
like(s, p) ==
  IF p = <<>> THEN s = <<>>
  ELSE CASE p[1] = "%" -> \E n \in 0..Len(s) : like(SubSeq(s, n + 1, Len(s)), Tail(p))
         [] p[1] = "_" -> s # <<>> /\ like(Tail(s), Tail(p))
         [] p[1] = "\\" -> Len(p) > 1 /\ s # <<>> /\ s[1] = p[2] /\ like(Tail(s), SubSeq(p, 3, Len(p)))
         [] OTHER -> s # <<>> /\ s[1] = p[1] /\ like(Tail(s), Tail(p))

pieceHolds(piece, args, row) ==
  LET subject == row[piece.subject]
      arg(n) == args[piece.args[n]]
  IN  CASE piece.op = "=" -> subject = arg(1)
        [] piece.op = "like" -> like(subject, arg(1))
        [] piece.op = "@>" -> arg(1).key \in DOMAIN subject /\ subject[arg(1).key] = arg(1).value
        [] piece.op = "?" -> arg(1) \in DOMAIN subject
        [] piece.op = "text like" -> arg(1) \in DOMAIN subject /\ like(subject[arg(1)], arg(2))

(* AND binds more tightly than OR. *)
RECURSIVE holds(_, _, _)
holds(tokens, args, row) ==
  LET count(token, n) == Cardinality({k \in 1..n : tokens[k].token = token})
      outside(token) == {k \in DOMAIN tokens : tokens[k].token = token /\ count("(", k) = count(")", k)}
      before(k) == holds(SubSeq(tokens, 1, k - 1), args, row)
      after(k) == holds(SubSeq(tokens, k + 1, Len(tokens)), args, row)
  IN  CASE tokens = <<>> -> TRUE
        [] outside("OR") # {} -> LET k == Min(outside("OR")) IN before(k) \/ after(k)
        [] outside("OR") = {} /\ outside("AND") # {} -> LET k == Min(outside("AND")) IN before(k) /\ after(k)
        [] Len(tokens) = 1 -> pieceHolds(tokens[1], args, row)
        [] OTHER -> holds(SubSeq(tokens, 2, Len(tokens) - 1), args, row)

-----------------------------------------------------------------------------
(* What a query means: each field or key that has terms satisfies one of   *)
(* them.                                                                   *)

RECURSIVE GlobMatches(_, _)
GlobMatches(s, p) ==
  IF p = <<>> THEN s = <<>>
  ELSE \/ p[1] = "*" /\ \E n \in 0..Len(s) : GlobMatches(SubSeq(s, n + 1, Len(s)), Tail(p))
       \/ p[1] # "*" /\ s # <<>> /\ p[1] \in {"?", s[1]} /\ GlobMatches(Tail(s), Tail(p))

TermHolds(term, value) ==
  CASE term.queryType = "exists" -> TRUE
    [] term.queryType = "is" -> value = term.argument
    [] term.queryType = "matches" -> GlobMatches(value, term.argument)

SomeTermHolds(terms, value) == \E n \in DOMAIN terms : TermHolds(terms[n], value)

Selects(q, row) ==
  /\ \A f \in Fields : q[f] # <<>> => SomeTermHolds(q[f], row[f])
  /\ \A m \in Maps : \A k \in DOMAIN q[m] :
       k \in DOMAIN row[m] /\ SomeTermHolds(q[m][k], row[m][k])
=============================================================================
