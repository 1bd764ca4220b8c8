----------------------------- MODULE JsonAssert -----------------------------
(***************************************************************************)
(* jsonContains and checkAssertions of web/assert.go.  A JSON document is  *)
(* a record of its type and its value, as encoding/json decodes it.        *)
(***************************************************************************)
EXTENDS Integers, Sequences, SequencesExt

String(v) == [type |-> "string", value |-> v]
Array(s) == [type |-> "array", value |-> s]
Object(f) == [type |-> "object", value |-> f]

RECURSIVE jsonContainsByIndex(_, _)
jsonContainsByIndex(a, b) ==
  CASE a.type = "object" ->
         /\ b.type = "object"
         /\ \A k \in DOMAIN b.value : k \in DOMAIN a.value /\ jsonContainsByIndex(a.value[k], b.value[k])
    [] a.type = "array" ->
         /\ b.type = "array"
         /\ \A n \in DOMAIN b.value : n \in DOMAIN a.value /\ jsonContainsByIndex(a.value[n], b.value[n])
    [] OTHER -> a.type = b.type /\ a.value = b.value

(* An object contains one with fewer keys, an array one each of whose      *)
(* elements some element of it contains, whatever the order.  A number is  *)
(* decoded as a float64, which the switch on the type does not list, so    *)
(* that no number contains another; nor does null.                         *)
RECURSIVE jsonContains(_, _)
jsonContains(a, b) ==
  CASE a.type = "object" ->
         /\ b.type = "object"
         /\ \A k \in DOMAIN b.value : k \in DOMAIN a.value /\ jsonContains(a.value[k], b.value[k])
    [] a.type = "array" ->
         /\ b.type = "array"
         /\ \A n \in DOMAIN b.value : \E m \in DOMAIN a.value : jsonContains(a.value[m], b.value[n])
    [] a.type \in {"string", "bool"} -> a.type = b.type /\ a.value = b.value
    [] OTHER -> FALSE

(* The positions of the assertions that fail, and whether some assertion   *)
(* has an unknown type, which makes the request a bad one.                 *)
checkAssertions(result, assertions) ==
  LET known == {"contains", "not-contains"}
      fails(a) == (a.Type = "contains") # jsonContains(result, a.Test)
  IN  [err |-> \E n \in DOMAIN assertions : assertions[n].Type \notin known,
       failures |-> {n \in DOMAIN assertions : assertions[n].Type \in known /\ fails(assertions[n])}]
=============================================================================
