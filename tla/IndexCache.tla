------------------------------ MODULE IndexCache ------------------------------
(***************************************************************************)
(* The entity tags of /index and of the home page: CheckAndSetETag of      *)
(* web/httputil.go, the handlers of web/index.go and web/home.go that call *)
(* it before they query, and the ModificationTime that transactions of     *)
(* database/postgres.go keep for it.                                       *)
(*                                                                         *)
(* The data and the modification time are abstracted to numbers.  An       *)
(* entity tag is the modification time; the build that it also names does  *)
(* not change while the server runs.                                       *)
(***************************************************************************)
EXTENDS Integers

CONSTANTS
  Workers,    \* goroutines with a transaction that changes the data
  Clients,    \* clients and caches in front of the server
  MaxCommits  \* bound on the number of commits

Nothing == -1

VARIABLES
  data,       \* commits that changed the data
  modTime,    \* the row of the table modification
  tx,         \* the transaction of each worker
  request,    \* the tag of a request that is past CheckAndSetETag
  cache,      \* the tag and the data that each client has cached
  validated   \* whether the client's last request found its cache current

vars == <<data, modTime, tx, request, cache, validated>>

Times == {Nothing} \cup 0..MaxCommits

(* A postgresTransaction: whether it is open, whether it has changed a     *)
(* row, and its modify flag.                                               *)
Transaction == [open : BOOLEAN, changed : BOOLEAN, modify : BOOLEAN]
NoTransaction == [open |-> FALSE, changed |-> FALSE, modify |-> FALSE]

TypeOK ==
  /\ data \in 0..MaxCommits
  /\ modTime \in 0..MaxCommits
  /\ tx \in [Workers -> Transaction]
  /\ request \in [Clients -> Times]
  /\ cache \in [Clients -> [etag : Times, body : Times]]
  /\ validated \in [Clients -> BOOLEAN]

Init ==
  /\ data = 0
  /\ modTime = 0
  /\ tx = [w \in Workers |-> NoTransaction]
  /\ request = [k \in Clients |-> Nothing]
  /\ cache = [k \in Clients |-> [etag |-> Nothing, body |-> Nothing]]
  /\ validated = [k \in Clients |-> FALSE]

-----------------------------------------------------------------------------
Begin(w) ==
  /\ ~tx[w].open
  /\ tx' = [tx EXCEPT ![w] = [NoTransaction EXCEPT !.open = TRUE]]
  /\ UNCHANGED <<data, modTime, request, cache, validated>>

(* exec, of a statement that affects a row.  The method has a value        *)
(* receiver, so ptx.modify = true sets the flag of a copy: the flag of the *)
(* transaction itself keeps its value.                                     *)
exec(w) ==
  /\ tx[w].open
  /\ tx' = [tx EXCEPT ![w].changed = TRUE, ![w].modify = @]
  /\ UNCHANGED <<data, modTime, request, cache, validated>>

(* Commit *)
Commit(w) ==
  /\ tx[w].open
  /\ data < MaxCommits
  /\ data' = IF tx[w].changed THEN data + 1 ELSE data
  /\ modTime' = IF tx[w].modify THEN data + 1 ELSE modTime
  /\ tx' = [tx EXCEPT ![w] = NoTransaction]
  /\ UNCHANGED <<request, cache, validated>>

Rollback(w) ==
  /\ tx[w].open
  /\ tx' = [tx EXCEPT ![w] = NoTransaction]
  /\ UNCHANGED <<data, modTime, request, cache, validated>>

-----------------------------------------------------------------------------
Idle(k) == request[k] = Nothing

(* CheckAndSetETag, when If-None-Match names the current tag. *)
NotModified(k) ==
  /\ Idle(k)
  /\ cache[k].etag = modTime
  /\ validated' = [validated EXCEPT ![k] = TRUE]
  /\ UNCHANGED <<data, modTime, tx, request, cache>>

(* CheckAndSetETag, when it does not, or there is none. *)
SetETag(k) ==
  /\ Idle(k)
  /\ request' = [request EXCEPT ![k] = modTime]
  /\ validated' = [validated EXCEPT ![k] = FALSE]
  /\ UNCHANGED <<data, modTime, tx, cache>>

(* DoQuery, and the response. *)
Respond(k) ==
  /\ ~Idle(k)
  /\ cache' = [cache EXCEPT ![k] = [etag |-> request[k], body |-> data]]
  /\ request' = [request EXCEPT ![k] = Nothing]
  /\ UNCHANGED <<data, modTime, tx, validated>>

Next ==
  \/ \E w \in Workers : Begin(w) \/ exec(w) \/ Commit(w) \/ Rollback(w)
  \/ \E k \in Clients : NotModified(k) \/ SetETag(k) \/ Respond(k)

Spec == Init /\ [][Next]_vars

-----------------------------------------------------------------------------
(* 304 Not Modified is sent only to a client whose cached response is what *)
(* the server would send now: this is what CheckAndSetETag uses the        *)
(* modification time for.                                                  *)
NotModifiedIsTrue == [][\A k \in Clients : NotModified(k) => cache[k].body = data]_vars
=============================================================================
