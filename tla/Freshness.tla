------------------------------ MODULE Freshness ------------------------------
(***************************************************************************)
(* What a client of /assert (web/assert.go) learns of the changes that the *)
(* fetcher commits.  The module composes                                   *)
(*   - the workers of the fetcher, each with a transaction that changes    *)
(*     the data, announces the change and commits;                         *)
(*   - the ChangeBroadcaster, in full detail;                              *)
(*   - the handlers of /assert, which query, check the result and wait for *)
(*     the next change until their time is up.                             *)
(* What a query returns is abstracted to the number of commits behind it.  *)
(***************************************************************************)
EXTENDS Integers, Sequences, FiniteSets

CONSTANTS
  Handlers,    \* goroutines that serve /assert
  Workers,     \* goroutines of the fetcher's pool
  MaxSerial,   \* bound on the number of announced changes
  Satisfying   \* the data for which the assertions hold

ASSUME FreshnessAssumption == MaxSerial \in Nat /\ IsFiniteSet(Workers)

VARIABLES
  serial, waiters, at, timed, seen, got,  \* the ChangeBroadcaster
  data,       \* commits that changed the data
  tx,         \* the transaction of each worker: none, open, announced
  phase,      \* where each handler is
  saw,        \* the data that a handler has queried last
  published,  \* the data when Change was last called (history variable)
  racing      \* the transactions that were announced and not committed when
              \* a handler queried last (history variable)

broadcasterVars == <<serial, waiters, at, timed, seen, got>>
vars == <<broadcasterVars, data, tx, phase, saw, published, racing>>

Broadcaster == INSTANCE ChangeBroadcaster WITH Callers <- Handlers

(* out: no request;  query: about to query;  wait: in WaitTimeout, or      *)
(* about to call it;  ok, failed: about to reply.                          *)
Phases == {"out", "query", "wait", "ok", "failed"}

TypeOK ==
  /\ Broadcaster!TypeOK
  /\ data \in 0..MaxSerial
  /\ tx \in [Workers -> {"none", "open", "announced"}]
  /\ phase \in [Handlers -> Phases]
  /\ saw \in [Handlers -> 0..MaxSerial]
  /\ published \in 0..MaxSerial
  /\ racing \in [Handlers -> 0..Cardinality(Workers)]

Init ==
  /\ Broadcaster!Init
  /\ data = 0
  /\ tx = [w \in Workers |-> "none"]
  /\ phase = [c \in Handlers |-> "out"]
  /\ saw = [c \in Handlers |-> 0]
  /\ published = 0
  /\ racing = [c \in Handlers |-> 0]

-----------------------------------------------------------------------------
(* The fetcher. *)

(* fetchRepository: Begin, and statements that change some tag. *)
OpenTransaction(w) ==
  /\ tx[w] = "none"
  /\ tx' = [tx EXCEPT ![w] = "open"]
  /\ UNCHANGED <<broadcasterVars, data, phase, saw, published, racing>>

(* The end of updateRepositoryInDatabase, before the commit. *)
Announce(w) ==
  /\ tx[w] = "open"
  /\ Broadcaster!Change
  /\ published' = data
  /\ tx' = [tx EXCEPT ![w] = "announced"]
  /\ UNCHANGED <<data, phase, saw, racing>>

CommitStaysOpen(w) ==
  /\ tx[w] = "announced"
  /\ data' = data + 1
  /\ UNCHANGED <<broadcasterVars, tx, phase, saw, published, racing>>

(* tx.Commit.  checkModification announces nothing more: Modified is false *)
(* for every transaction, because exec sets the flag in a copy.            *)
Commit(w) ==
  /\ tx[w] = "announced"
  /\ data' = data + 1
  /\ tx' = [tx EXCEPT ![w] = "none"]
  /\ UNCHANGED <<broadcasterVars, phase, saw, published, racing>>

(* A statement or the commit fails. *)
Rollback(w) ==
  /\ tx[w] # "none"
  /\ tx' = [tx EXCEPT ![w] = "none"]
  /\ UNCHANGED <<broadcasterVars, data, phase, saw, published, racing>>

-----------------------------------------------------------------------------
(* ServeHTTP of the handler of /assert. *)

Goto(c, p) == phase' = [phase EXCEPT ![c] = p]

(* The change to wait past is read before the first query.  A timeout that *)
(* cannot be parsed is no reason to stop: the handler writes the status    *)
(* 400 (ReceiveAssert in WebQuery) and goes on with the timeout 0, or the  *)
(* largest there is.  Query takes either with "failed" or "wait".          *)
Ask(c) ==
  /\ phase[c] = "out"
  /\ Goto(c, "query")
  /\ Broadcaster!LastChange(c)
  /\ UNCHANGED <<data, tx, saw, published, racing>>

(* DoQuery and checkAssertions. *)
Query(c) ==
  /\ phase[c] = "query"
  /\ saw' = [saw EXCEPT ![c] = data]
  /\ racing' = [racing EXCEPT ![c] = Cardinality({w \in Workers : tx[w] = "announced"})]
  /\ IF data \in Satisfying THEN Goto(c, "ok") ELSE \E p \in {"wait", "failed"} : Goto(c, p)
  /\ UNCHANGED <<broadcasterVars, data, tx, published>>

(* The handler returns, and its variables are gone. *)
Return(c) ==
  /\ Goto(c, "out")
  /\ saw' = [saw EXCEPT ![c] = 0]
  /\ racing' = [racing EXCEPT ![c] = 0]
  /\ UNCHANGED <<broadcasterVars, data, tx, published>>

(* The query fails: the reply is an internal error. *)
QueryFails(c) ==
  /\ phase[c] = "query"
  /\ Return(c)

CallWaitForLatest(c) ==
  /\ phase[c] = "wait"
  /\ Broadcaster!LastChange(c)
  /\ UNCHANGED <<data, tx, saw, phase, published, racing>>

(* WaitTimeout, up to its return or to its wait. *)
CallWait(c) ==
  /\ phase[c] = "wait"
  /\ \/ Broadcaster!ReturnAtOnce(c) /\ Goto(c, "query")
     \/ Broadcaster!NoTimeLeft(c) /\ Goto(c, "failed")
     \/ Broadcaster!Register(c, TRUE) /\ UNCHANGED phase
  /\ UNCHANGED <<data, tx, saw, published, racing>>

Waiting(c) ==
  /\ Broadcaster!Park(c) \/ Broadcaster!Expire(c)
  /\ UNCHANGED <<data, tx, phase, saw, published, racing>>

WaitReturnsRetries(c) ==
  /\ Broadcaster!ReturnAfterWait(c)
  /\ Goto(c, "query")
  /\ UNCHANGED <<data, tx, saw, published, racing>>

(* WaitTimeout returns: query again, or give up. *)
WaitReturns(c) ==
  /\ Broadcaster!ReturnAfterWait(c)
  /\ Goto(c, IF at[c] = "received" THEN "query" ELSE "failed")
  /\ UNCHANGED <<data, tx, saw, published, racing>>

Reply(c) ==
  /\ phase[c] \in {"ok", "failed"}
  /\ Return(c)

-----------------------------------------------------------------------------
HandlerStep(c) ==
  \/ Query(c)
  \/ QueryFails(c)
  \/ CallWait(c)
  \/ Waiting(c)
  \/ WaitReturns(c)
  \/ Reply(c)

Next ==
  \/ \E w \in Workers : OpenTransaction(w) \/ Announce(w) \/ Commit(w) \/ Rollback(w)
  \/ \E c \in Handlers : Ask(c) \/ HandlerStep(c)

(* A handler that can run does, and its timer fires.  Nobody is obliged to *)
(* ask, to change anything or to commit.                                   *)
Fairness == \A c \in Handlers : WF_vars(HandlerStep(c))

Spec == Init /\ [][Next]_vars
FairSpec == Spec /\ Fairness

-----------------------------------------------------------------------------
(* A handler that waits for the next change, having heard of all the       *)
(* others, has queried what was committed when the latest one was          *)
(* announced: nothing slips between LastChange, the query and WaitTimeout. *)
WaiterSawPublished ==
  \A c \in Handlers : phase[c] = "wait" /\ seen[c] = serial => saw[c] >= published

(* What may slip, because the fetcher calls Change before it commits, is   *)
(* no more than the transactions that had been announced when the handler  *)
(* queried and had not committed: everything else that it has not seen is  *)
(* announced to it.                                                        *)
MissesOnlyRacing ==
  \A c \in Handlers : phase[c] = "wait" /\ seen[c] = serial => data - saw[c] <= racing[c]

(* A handler queries again only because of a change that it had not heard  *)
(* of.  Nothing but a stream of changes keeps a request beyond its time;   *)
(* such a stream does, because WaitTimeout looks for a change before it    *)
(* looks at the timeout.                                                   *)
RetriesOnlyOnNews ==
  [][\A c \in Handlers : phase[c] = "wait" /\ phase'[c] = "query" => seen'[c] > seen[c]]_vars

(* Every request to /assert is answered once changes pause, even one that  *)
(* misses a change on the way to its receive: its timer is then what ends  *)
(* it.                                                                     *)
AssertReturns == \A c \in Handlers : phase[c] # "out" ~> phase[c] = "out"
=============================================================================
