------------------------------- MODULE IfMatch -------------------------------
(***************************************************************************)
(* ParseIfMatch of web/httputil.go: the list of entity tags in an          *)
(* If-None-Match header.                                                   *)
(*                                                                         *)
(* A header is a sequence of symbols: the characters that the regular      *)
(* expression tells apart, with W/ as one symbol.                          *)
(***************************************************************************)
EXTENDS Integers, Sequences, FiniteSets, SequencesExt

Quote == "\""
Backslash == "\\"

TrimSpace(s) ==
  LET shown == {k \in DOMAIN s : s[k] # " "}
  IN  IF shown = {} THEN <<>> ELSE SubSeq(s, Min(shown), Max(shown))

closingQuoteFirst(s, k) ==
  LET quotes == {n \in k..Len(s) : s[n] = Quote} IN IF quotes = {} THEN 0 ELSE Min(quotes)

(* Where the quoted string ends whose contents start at k; 0 if nowhere. *)
RECURSIVE closingQuote(_, _)
closingQuote(s, k) ==
  CASE k > Len(s) -> 0
    [] k <= Len(s) /\ s[k] = Quote -> k
    [] k <= Len(s) /\ s[k] = Backslash -> closingQuote(s, k + 2)
    [] OTHER -> closingQuote(s, k + 1)

(* The end of the token that s starts with: * or an entity tag; 0 if none. *)
tokenEnd(s) ==
  CASE s # <<>> /\ s[1] = "*" -> 1
    [] s # <<>> /\ s[1] = Quote -> closingQuote(s, 2)
    [] Len(s) > 1 /\ s[1] = "W/" /\ s[2] = Quote -> closingQuote(s, 3)
    [] OTHER -> 0

(* The end of \s*,\s* after position n; 0 if it does not match there. *)
commaEnd(s, n) ==
  LET shown == {k \in n + 1..Len(s) : s[k] # " "}
      comma == Min(shown)
  IN  IF shown = {} \/ s[comma] # "," THEN 0
      ELSE IF shown = {comma} THEN Len(s) ELSE Min(shown \ {comma}) - 1

(* One round of the loop: whether tokenRegexp matches s, the token that it *)
(* captures, if any, and the end of the match.                             *)
match(s) ==
  LET token == tokenEnd(s)
      after == commaEnd(s, token)
  IN  CASE token # 0 /\ after # 0 -> [ok |-> TRUE, found |-> <<SubSeq(s, 1, token)>>, end |-> after]
        [] token # 0 /\ token = Len(s) -> [ok |-> TRUE, found |-> <<s>>, end |-> token]
        [] token = 0 /\ after # 0 -> [ok |-> TRUE, found |-> <<>>, end |-> after]
        [] OTHER -> [ok |-> FALSE, found |-> <<>>, end |-> 0]

RECURSIVE parseRest(_, _)
parseRest(s, result) ==
  LET m == match(s) IN
  CASE ~m.ok -> [ok |-> FALSE, tags |-> <<>>]
    [] m.ok /\ m.end = Len(s) -> [ok |-> TRUE, tags |-> result \o m.found]
    [] OTHER -> parseRest(SubSeq(s, m.end + 1, Len(s)), result \o m.found)

ParseIfMatch(input) == parseRest(TrimSpace(input), <<>>)

-----------------------------------------------------------------------------
(* What the header means: elements separated by commas, each of them       *)
(* empty, * or an entity tag.                                              *)

(* The quotes and backslashes in s are escaped, or escape something. *)
IsQuotable(s) ==
  \E escapes \in SUBSET {k \in DOMAIN s : s[k] = Backslash} :
    /\ \A k \in escapes : k + 1 \in DOMAIN s \ escapes
    /\ \A k \in DOMAIN s : s[k] \in {Quote, Backslash} => {k - 1, k} \cap escapes # {}

IsEntityTag(s) ==
  LET opaque == IF s # <<>> /\ s[1] = "W/" THEN Tail(s) ELSE s
      last == Len(opaque)
  IN  /\ last >= 2
      /\ opaque[1] = Quote
      /\ opaque[last] = Quote
      /\ IsQuotable(SubSeq(opaque, 2, last - 1))

(* The elements of s when the commas at the given positions separate them. *)
Elements(s, commas) ==
  LET from == {0} \cup commas
      next(k) == Min({n \in commas \cup {Len(s) + 1} : n > k})
  IN  {TrimSpace(SubSeq(s, k + 1, next(k) - 1)) : k \in from} \ {<<>>}

(* The sets of elements that the header can be read as. *)
Readings(header) ==
  {elements \in {Elements(header, commas) : commas \in SUBSET {k \in DOMAIN header : header[k] = ","}} :
     \A e \in elements : e = <<"*">> \/ IsEntityTag(e)}
=============================================================================
