--------------------------- MODULE FreshnessProofs ---------------------------
(***************************************************************************)
(* Proofs about Freshness, for any set of handlers, any finite set of      *)
(* workers and any bound on the number of changes.                         *)
(*                                                                         *)
(* The broadcaster inside the composition is not used in any way but by    *)
(* its own operations, so that what ChangeBroadcasterProofs proves of it   *)
(* holds here too.                                                         *)
(***************************************************************************)
EXTENDS Freshness, FiniteSetTheorems, TLAPS

Proved == INSTANCE ChangeBroadcasterProofs WITH Callers <- Handlers

(* The transactions between Change and Commit. *)
Announced == {w \in Workers : tx[w] = "announced"}

(* Every commit was announced. *)
CommitsAnnounced == data + Cardinality(Announced) <= serial

(* No handler, and no announcement, has seen more than was committed. *)
NothingUncommitted == published <= data /\ \A c \in Handlers : saw[c] <= data

(* Only a handler in its wait is in a call of the broadcaster. *)
CallsAreWaits == \A c \in Handlers : at[c] # "out" => phase[c] = "wait"

(* What a handler that waits for the next change has not seen, now or when *)
(* the announced transactions will have committed, was racing its query.   *)
WillMissOnlyRacing ==
  \A c \in Handlers : phase[c] = "wait" /\ seen[c] = serial
    => (data - saw[c]) + Cardinality(Announced) <= racing[c]

FreshnessInv ==
  /\ TypeOK
  /\ Proved!BroadcasterInv
  /\ CommitsAnnounced
  /\ NothingUncommitted
  /\ CallsAreWaits
  /\ WaiterSawPublished
  /\ WillMissOnlyRacing

-----------------------------------------------------------------------------
(* Facts about the broadcaster. *)

(* Both instances of the broadcaster have the same type invariant. *)
LEMMA SameType == Proved!TypeOK <=> Broadcaster!TypeOK
BY DEF Proved!TypeOK, Broadcaster!TypeOK, Proved!Places, Broadcaster!Places

(* ... of the next state as well. *)
LEMMA SameTypeNext == Proved!BroadcasterInv' => Broadcaster!TypeOK'
BY DEF Proved!BroadcasterInv, Proved!TypeOK, Broadcaster!TypeOK, Proved!Places, Broadcaster!Places

(* ... and the same steps. *)
LEMMA SameStep == Broadcaster!Next => Proved!Next
<1>1. Broadcaster!Change => Proved!Change
  BY DEF Broadcaster!Change, Proved!Change, Broadcaster!Receivers, Proved!Receivers,
         Broadcaster!ToSet, Proved!ToSet
<1>2. ASSUME NEW c \in Handlers
      PROVE  /\ Broadcaster!LastChange(c) => Proved!LastChange(c)
             /\ Broadcaster!ReturnAtOnce(c) => Proved!ReturnAtOnce(c)
             /\ Broadcaster!NoTimeLeft(c) => Proved!NoTimeLeft(c)
             /\ \A withTimeout \in BOOLEAN :
                  Broadcaster!Register(c, withTimeout) => Proved!Register(c, withTimeout)
             /\ Broadcaster!Park(c) => Proved!Park(c)
             /\ Broadcaster!Expire(c) => Proved!Expire(c)
             /\ Broadcaster!ReturnAfterWait(c) => Proved!ReturnAfterWait(c)
  <2>1. Broadcaster!LastChange(c) => Proved!LastChange(c)
    BY DEF Broadcaster!LastChange, Proved!LastChange
  <2>2. Broadcaster!ReturnAtOnce(c) => Proved!ReturnAtOnce(c)
    BY DEF Broadcaster!ReturnAtOnce, Proved!ReturnAtOnce, Broadcaster!isNew, Proved!isNew
  <2>3. Broadcaster!NoTimeLeft(c) => Proved!NoTimeLeft(c)
    BY DEF Broadcaster!NoTimeLeft, Proved!NoTimeLeft, Broadcaster!isNew, Proved!isNew
  <2>4. ASSUME NEW withTimeout \in BOOLEAN, Broadcaster!Register(c, withTimeout)
        PROVE  Proved!Register(c, withTimeout)
    BY <2>4 DEF Broadcaster!Register, Proved!Register, Broadcaster!isNew, Proved!isNew
  <2>5. Broadcaster!Park(c) => Proved!Park(c)
    BY DEF Broadcaster!Park, Proved!Park
  <2>6. Broadcaster!Expire(c) => Proved!Expire(c)
    BY DEF Broadcaster!Expire, Proved!Expire
  <2>7. Broadcaster!ReturnAfterWait(c) => Proved!ReturnAfterWait(c)
    BY DEF Broadcaster!ReturnAfterWait, Proved!ReturnAfterWait, Broadcaster!removeWaiter, Proved!removeWaiter,
           Broadcaster!Front, Proved!Front, Broadcaster!Last, Proved!Last
  <2> QED
    BY <2>1, <2>2, <2>3, <2>4, <2>5, <2>6, <2>7
<1> QED
  BY <1>1, <1>2 DEF Broadcaster!Next, Proved!Next

(* Every step of the composition is a call of the broadcaster, a step of   *)
(* such a call, or leaves the broadcaster alone.                           *)
LEMMA BroadcasterStep == [Next]_vars => [Broadcaster!Next]_(Broadcaster!vars)
<1> SUFFICES ASSUME [Next]_vars PROVE Broadcaster!Next \/ UNCHANGED broadcasterVars
  BY DEF broadcasterVars, Broadcaster!vars
<1>1. ASSUME NEW w \in Workers, OpenTransaction(w) \/ Announce(w) \/ Commit(w) \/ Rollback(w)
      PROVE  Broadcaster!Next \/ UNCHANGED broadcasterVars
  BY <1>1 DEF OpenTransaction, Announce, Commit, Rollback, Broadcaster!Next
<1>2. ASSUME NEW c \in Handlers, Ask(c) \/ HandlerStep(c)
      PROVE  Broadcaster!Next \/ UNCHANGED broadcasterVars
  <2>1. TRUE \in BOOLEAN
    OBVIOUS
  <2> QED
    BY <1>2, <2>1 DEF Ask, HandlerStep, Query, QueryFails, CallWait, Waiting, WaitReturns, Reply, Return,
                      Broadcaster!Next
<1>3. CASE UNCHANGED vars
  BY <1>3 DEF vars, broadcasterVars
<1> QED
  BY <1>1, <1>2, <1>3 DEF Next

(* So the invariant of the broadcaster is kept. *)
LEMMA BroadcasterKept == Proved!BroadcasterInv /\ [Next]_vars => Proved!BroadcasterInv'
<1>1. [Next]_vars => [Proved!Next]_(Proved!vars)
  BY BroadcasterStep, SameStep DEF Broadcaster!vars, Proved!vars
<1> QED
  BY <1>1, Proved!InvStep, FreshnessAssumption DEF Proved!SerialAssumption

(* It holds at the start. *)
LEMMA BroadcasterStarted == Init => Proved!BroadcasterInv
<1>1. Broadcaster!Init => Proved!Init
  BY DEF Broadcaster!Init, Proved!Init
<1> QED
  BY <1>1, Proved!InvInit, FreshnessAssumption DEF Proved!SerialAssumption, Init

-----------------------------------------------------------------------------
(* Any set of announced transactions can be counted. *)
LEMMA AnnouncedFinite ==
  /\ IsFiniteSet(Announced) /\ Cardinality(Announced) \in Nat
  /\ Cardinality(Announced) <= Cardinality(Workers)
  /\ Cardinality(Workers) \in Nat
BY FreshnessAssumption, FS_Subset, FS_CardinalityType DEF Announced

(* The values that the proofs do arithmetic with. *)
LEMMA Numbers ==
  ASSUME FreshnessInv
  PROVE  /\ MaxSerial \in Nat /\ serial \in Nat /\ data \in Nat /\ published \in Nat
         /\ serial <= MaxSerial
         /\ \A c \in Handlers : saw[c] \in Nat /\ racing[c] \in Nat /\ seen[c] \in Nat
         /\ \A c \in Handlers : seen[c] <= serial
<1>1. \A c \in Handlers : seen[c] <= serial
  BY DEF FreshnessInv, Proved!BroadcasterInv, Proved!NothingFromTheFuture
<1> QED
  BY <1>1, FreshnessAssumption, AnnouncedFinite DEF FreshnessInv, TypeOK, Broadcaster!TypeOK

(* The start. *)
LEMMA InvInit == Init => FreshnessInv
<1> SUFFICES ASSUME Init PROVE FreshnessInv
  OBVIOUS
<1>1. Proved!BroadcasterInv
  BY BroadcasterStarted
<1>2. Announced = {} /\ Cardinality(Announced) = 0
  BY FS_EmptySet DEF Init, Announced
<1>3. TypeOK
  <2>1. Broadcaster!TypeOK
    BY <1>1, SameType DEF Proved!BroadcasterInv
  <2> QED
    BY <2>1, AnnouncedFinite, FreshnessAssumption DEF Init, TypeOK, Phases
<1>4. serial = 0 /\ \A c \in Handlers : at[c] = "out"
  BY DEF Init, Broadcaster!Init
<1> QED
  BY <1>1, <1>2, <1>3, <1>4 DEF Init, FreshnessInv, CommitsAnnounced, NothingUncommitted, CallsAreWaits,
     WaiterSawPublished, WillMissOnlyRacing

(* A transaction that is opened or rolled back adds nothing that a handler *)
(* could miss.                                                             *)
LEMMA QuietTransactionInv ==
  ASSUME FreshnessInv, NEW w \in Workers, OpenTransaction(w) \/ Rollback(w)
  PROVE  FreshnessInv'
<1> USE DEF FreshnessInv
<1>1. /\ UNCHANGED <<serial, at, seen, data, phase, saw, published, racing>>
      /\ \E s \in {"none", "open"} : tx' = [tx EXCEPT ![w] = s]
      /\ UNCHANGED broadcasterVars
  BY DEF OpenTransaction, Rollback, broadcasterVars
<1>2. Proved!BroadcasterInv'
  BY BroadcasterKept DEF Next
<1>3. Broadcaster!TypeOK'
  BY <1>2, SameTypeNext
<1>4. TypeOK'
  BY <1>1, <1>3 DEF TypeOK
<1>5. Announced' \subseteq Announced
  BY <1>1 DEF Announced, TypeOK
<1>6. Cardinality(Announced') \in Nat /\ Cardinality(Announced') <= Cardinality(Announced)
  BY <1>5, AnnouncedFinite, FS_Subset, FS_CardinalityType
<1>7. CommitsAnnounced' /\ WillMissOnlyRacing'
  BY <1>1, <1>6, AnnouncedFinite, Numbers DEF CommitsAnnounced, WillMissOnlyRacing
<1>8. NothingUncommitted' /\ CallsAreWaits' /\ WaiterSawPublished'
  BY <1>1 DEF NothingUncommitted, CallsAreWaits, WaiterSawPublished
<1> QED
  BY <1>2, <1>4, <1>7, <1>8

(* Change makes a new serial, so that no handler is up to date. *)
LEMMA AnnounceInv ==
  ASSUME FreshnessInv, NEW w \in Workers, Announce(w)
  PROVE  FreshnessInv'
<1> USE DEF FreshnessInv
<1>1. /\ serial' = serial + 1
      /\ serial < MaxSerial
      /\ UNCHANGED <<seen, data, phase, saw, racing>>
      /\ published' = data
      /\ tx[w] = "open" /\ tx' = [tx EXCEPT ![w] = "announced"]
  BY DEF Announce, Broadcaster!Change
<1>2. Proved!BroadcasterInv'
  BY BroadcasterKept DEF Next
<1>3. Broadcaster!TypeOK'
  BY <1>2, SameTypeNext
<1>4. TypeOK'
  BY <1>1, <1>3 DEF TypeOK
<1>5. Announced' = Announced \cup {w} /\ w \notin Announced
  BY <1>1 DEF Announced, TypeOK
<1>6. Cardinality(Announced') = Cardinality(Announced) + 1
  BY <1>5, AnnouncedFinite, FS_AddElement
<1>7. CommitsAnnounced'
  BY <1>1, <1>6, AnnouncedFinite, Numbers DEF CommitsAnnounced
<1>8. NothingUncommitted'
  BY <1>1, Numbers DEF NothingUncommitted
<1>9. \A c \in Handlers : at'[c] # "out" => at[c] # "out"
  BY DEF Announce, Broadcaster!Change, Broadcaster!Receivers, TypeOK, Broadcaster!TypeOK
<1>10. CallsAreWaits'
  BY <1>1, <1>9 DEF CallsAreWaits
<1>11. \A c \in Handlers : seen'[c] # serial'
  BY <1>1, Numbers
<1>12. WaiterSawPublished' /\ WillMissOnlyRacing'
  BY <1>11 DEF WaiterSawPublished, WillMissOnlyRacing
<1> QED
  BY <1>2, <1>4, <1>7, <1>8, <1>10, <1>12

(* A commit adds to the data what it takes from the announced              *)
(* transactions.                                                           *)
LEMMA CommitInv ==
  ASSUME FreshnessInv, NEW w \in Workers, Commit(w)
  PROVE  FreshnessInv'
<1> USE DEF FreshnessInv
<1>1. /\ UNCHANGED <<serial, at, seen, phase, saw, published, racing>>
      /\ data' = data + 1
      /\ tx[w] = "announced" /\ tx' = [tx EXCEPT ![w] = "none"]
  BY DEF Commit, broadcasterVars
<1>2. Proved!BroadcasterInv'
  BY BroadcasterKept DEF Next
<1>3. Broadcaster!TypeOK'
  BY <1>2, SameTypeNext
<1>4. Announced' = Announced \ {w} /\ w \in Announced
  BY <1>1 DEF Announced, TypeOK
<1>5. Cardinality(Announced') = Cardinality(Announced) - 1
  BY <1>4, AnnouncedFinite, FS_RemoveElement
<1>6. Cardinality(Announced') \in Nat
  BY <1>4, AnnouncedFinite, FS_Subset, FS_CardinalityType
<1>7. CommitsAnnounced'
  BY <1>1, <1>5, AnnouncedFinite, Numbers DEF CommitsAnnounced
<1>8. data' \in 0..MaxSerial
  BY <1>1, <1>5, <1>6, AnnouncedFinite, Numbers DEF CommitsAnnounced
<1>9. TypeOK'
  BY <1>1, <1>3, <1>8 DEF TypeOK
<1>10. NothingUncommitted'
  BY <1>1, Numbers DEF NothingUncommitted
<1>11. CallsAreWaits' /\ WaiterSawPublished'
  BY <1>1 DEF CallsAreWaits, WaiterSawPublished
<1>12. WillMissOnlyRacing'
  BY <1>1, <1>5, AnnouncedFinite, Numbers DEF WillMissOnlyRacing
<1> QED
  BY <1>2, <1>7, <1>9, <1>10, <1>11, <1>12

-----------------------------------------------------------------------------
(* A query sees all that is committed, and takes note of what races it. *)
LEMMA QueryInv ==
  ASSUME FreshnessInv, NEW c \in Handlers, Query(c)
  PROVE  FreshnessInv'
<1> USE DEF FreshnessInv
<1>1. /\ UNCHANGED <<serial, at, seen, data, tx, published>>
      /\ phase[c] = "query"
      /\ \E p \in {"ok", "wait", "failed"} : phase' = [phase EXCEPT ![c] = p]
      /\ saw' = [saw EXCEPT ![c] = data]
      /\ racing' = [racing EXCEPT ![c] = Cardinality(Announced)]
  BY DEF Query, Goto, broadcasterVars, Announced
<1>2. Proved!BroadcasterInv'
  BY BroadcasterKept DEF Next, HandlerStep
<1>3. Broadcaster!TypeOK'
  BY <1>2, SameTypeNext
<1>4. TypeOK'
  BY <1>1, <1>3, AnnouncedFinite DEF TypeOK, Phases
<1>5. Announced' = Announced
  BY <1>1 DEF Announced
<1>6. CommitsAnnounced'
  BY <1>1, <1>5 DEF CommitsAnnounced
<1>7. NothingUncommitted'
  BY <1>1, Numbers DEF NothingUncommitted, TypeOK
<1>8. CallsAreWaits'
  BY <1>1 DEF CallsAreWaits, TypeOK
<1>9. WaiterSawPublished'
  BY <1>1 DEF WaiterSawPublished, NothingUncommitted, TypeOK
<1>10. WillMissOnlyRacing'
  <2> SUFFICES ASSUME NEW d \in Handlers, phase'[d] = "wait", seen'[d] = serial'
               PROVE  (data' - saw'[d]) + Cardinality(Announced') <= racing'[d]
    BY DEF WillMissOnlyRacing
  <2>1. CASE d = c
    BY <1>1, <1>5, <2>1, AnnouncedFinite, Numbers DEF TypeOK
  <2>2. CASE d # c
    BY <1>1, <1>5, <2>2 DEF WillMissOnlyRacing, TypeOK
  <2> QED
    BY <2>1, <2>2
<1> QED
  BY <1>2, <1>4, <1>6, <1>7, <1>8, <1>9, <1>10

(* The handler returns. *)
LEMMA ReturnInv ==
  ASSUME FreshnessInv, NEW c \in Handlers, QueryFails(c) \/ Reply(c)
  PROVE  FreshnessInv'
<1> USE DEF FreshnessInv
<1>1. /\ UNCHANGED <<serial, at, seen, data, tx, published>>
      /\ phase[c] # "wait"
      /\ phase' = [phase EXCEPT ![c] = "out"]
      /\ saw' = [saw EXCEPT ![c] = 0]
      /\ racing' = [racing EXCEPT ![c] = 0]
  BY DEF QueryFails, Reply, Return, Goto, broadcasterVars
<1>2. Proved!BroadcasterInv'
  BY BroadcasterKept DEF Next, HandlerStep
<1>3. Broadcaster!TypeOK'
  BY <1>2, SameTypeNext
<1>4. TypeOK'
  BY <1>1, <1>3, AnnouncedFinite, FreshnessAssumption DEF TypeOK, Phases
<1>5. Announced' = Announced
  BY <1>1 DEF Announced
<1>6. CommitsAnnounced'
  BY <1>1, <1>5 DEF CommitsAnnounced
<1>7. NothingUncommitted'
  BY <1>1, Numbers DEF NothingUncommitted, TypeOK
<1>8. CallsAreWaits' /\ WaiterSawPublished'
  BY <1>1 DEF CallsAreWaits, WaiterSawPublished, TypeOK
<1>9. WillMissOnlyRacing'
  BY <1>1, <1>5 DEF WillMissOnlyRacing, TypeOK
<1> QED
  BY <1>2, <1>4, <1>6, <1>7, <1>8, <1>9

(* Every call of the broadcaster by a handler, and every step of such a    *)
(* call: a handler leaves its wait, or waits on with what it has seen.     *)
LEMMA CallInv ==
  ASSUME FreshnessInv, NEW c \in Handlers, Ask(c) \/ CallWait(c) \/ Waiting(c) \/ WaitReturns(c)
  PROVE  FreshnessInv'
<1> USE DEF FreshnessInv
<1>1. UNCHANGED <<serial, data, tx, saw, published, racing>>
  BY DEF Ask, CallWait, Waiting, WaitReturns, Broadcaster!LastChange, Broadcaster!ReturnAtOnce, Broadcaster!NoTimeLeft,
         Broadcaster!Register, Broadcaster!Park, Broadcaster!Expire, Broadcaster!ReturnAfterWait
<1>2. /\ \A d \in Handlers \ {c} : UNCHANGED <<at[d], seen[d], phase[d]>>
      /\ phase' \in [Handlers -> Phases]
      /\ at'[c] # "out" => phase'[c] = "wait"
      /\ phase'[c] = "wait" => phase[c] = "wait" /\ seen'[c] = seen[c]
  <2>1. CASE Ask(c)
    BY <2>1 DEF Ask, Goto, Broadcaster!LastChange, TypeOK, Broadcaster!TypeOK, Phases
  <2>2. CASE CallWait(c)
    BY <2>2 DEF CallWait, Goto, Broadcaster!ReturnAtOnce, Broadcaster!NoTimeLeft, Broadcaster!Register,
                TypeOK, Broadcaster!TypeOK, Phases
  <2>3. CASE Waiting(c)
    BY <2>3 DEF Waiting, Broadcaster!Park, Broadcaster!Expire, CallsAreWaits, TypeOK, Broadcaster!TypeOK
  <2>4. CASE WaitReturns(c)
    BY <2>4 DEF WaitReturns, Goto, Broadcaster!ReturnAfterWait, TypeOK, Broadcaster!TypeOK, Phases
  <2> QED
    BY <2>1, <2>2, <2>3, <2>4
<1>3. Proved!BroadcasterInv'
  BY BroadcasterKept DEF Next, HandlerStep
<1>4. Broadcaster!TypeOK'
  BY <1>3, SameTypeNext
<1>5. TypeOK'
  BY <1>1, <1>2, <1>4 DEF TypeOK
<1>6. Announced' = Announced
  BY <1>1 DEF Announced
<1>7. CommitsAnnounced' /\ NothingUncommitted'
  BY <1>1, <1>6 DEF CommitsAnnounced, NothingUncommitted
<1>8. CallsAreWaits'
  BY <1>2 DEF CallsAreWaits
<1>9. WaiterSawPublished' /\ WillMissOnlyRacing'
  BY <1>1, <1>2, <1>6 DEF WaiterSawPublished, WillMissOnlyRacing
<1> QED
  BY <1>3, <1>5, <1>7, <1>8, <1>9

(* Every step preserves the invariant. *)
LEMMA InvStep == FreshnessInv /\ [Next]_vars => FreshnessInv'
<1> SUFFICES ASSUME FreshnessInv, [Next]_vars PROVE FreshnessInv'
  OBVIOUS
<1>1. CASE UNCHANGED vars
  <2>1. UNCHANGED <<serial, waiters, at, timed, seen, got, data, tx, phase, saw, published, racing>>
    BY <1>1 DEF vars, broadcasterVars
  <2>2. Proved!BroadcasterInv'
    BY BroadcasterKept DEF FreshnessInv
  <2>3. TypeOK'
    BY <2>1 DEF FreshnessInv, TypeOK, Broadcaster!TypeOK
  <2> QED
    BY <2>1, <2>2, <2>3 DEF FreshnessInv, CommitsAnnounced, Announced, NothingUncommitted,
       CallsAreWaits, WaiterSawPublished, WillMissOnlyRacing
<1>2. CASE Next
  BY <1>2, QuietTransactionInv, AnnounceInv, CommitInv, QueryInv, ReturnInv, CallInv DEF Next, HandlerStep
<1> QED
  BY <1>1, <1>2

-----------------------------------------------------------------------------
(* The invariant holds of every behaviour. *)
THEOREM InvariantHolds == Spec => []FreshnessInv
BY InvInit, InvStep, PTL DEF Spec

(* All variables keep their types; in particular no more is committed than *)
(* was announced.                                                          *)
THEOREM TypeCorrect == Spec => []TypeOK
<1>1. FreshnessInv => TypeOK
  BY DEF FreshnessInv
<1> QED
  BY <1>1, InvariantHolds, PTL

(* The composition implements the broadcaster: neither the fetcher nor the *)
(* handlers of /assert do anything to it that is not one of its calls.     *)
THEOREM ImplementsBroadcaster == Spec => Broadcaster!Spec
<1>1. Init => Broadcaster!Init
  BY DEF Init
<1> QED
  BY <1>1, BroadcasterStep, PTL DEF Spec, Broadcaster!Spec

(* A handler of /assert that waits for the next change has queried all     *)
(* that was committed when the latest one was announced.                   *)
THEOREM NothingSlips == Spec => []WaiterSawPublished
<1>1. FreshnessInv => WaiterSawPublished
  BY DEF FreshnessInv
<1> QED
  BY <1>1, InvariantHolds, PTL

(* All that such a handler may miss is transactions that had called Change *)
(* and had not committed when it queried.                                  *)
THEOREM OnlyRacingMissed == Spec => []MissesOnlyRacing
<1>1. FreshnessInv => MissesOnlyRacing
  <2> SUFFICES ASSUME FreshnessInv, NEW c \in Handlers, phase[c] = "wait", seen[c] = serial
               PROVE  data - saw[c] <= racing[c]
    BY DEF MissesOnlyRacing
  <2>1. (data - saw[c]) + Cardinality(Announced) <= racing[c]
    BY DEF FreshnessInv, WillMissOnlyRacing
  <2> QED
    BY <2>1, Numbers, AnnouncedFinite
<1> QED
  BY <1>1, InvariantHolds, PTL

(* A handler queries again only because of a change that is new to it. *)
THEOREM RetriesHaveNews == Spec => RetriesOnlyOnNews
<1>1. FreshnessInv /\ [Next]_vars =>
        [\A c \in Handlers : phase[c] = "wait" /\ phase'[c] = "query" => seen'[c] > seen[c]]_vars
  <2> SUFFICES ASSUME FreshnessInv, Next, NEW c \in Handlers, phase[c] = "wait", phase'[c] = "query"
               PROVE  seen'[c] > seen[c]
    BY DEF vars
  <2> USE DEF FreshnessInv, TypeOK, Broadcaster!TypeOK
  <2>1. CallWait(c) \/ WaitReturns(c)
    <3>1. ASSUME NEW w \in Workers, OpenTransaction(w) \/ Announce(w) \/ Commit(w) \/ Rollback(w)
          PROVE  FALSE
      BY <3>1 DEF OpenTransaction, Announce, Commit, Rollback
    <3>2. ASSUME NEW d \in Handlers, Ask(d) \/ HandlerStep(d)
          PROVE  d = c /\ (CallWait(d) \/ WaitReturns(d))
      BY <3>2 DEF Ask, HandlerStep, Query, QueryFails, CallWait, Waiting, WaitReturns, Reply, Return, Goto
    <3> QED
      BY <3>1, <3>2 DEF Next
  <2>2. CASE CallWait(c)
    BY <2>2, Numbers DEF CallWait, Goto, Broadcaster!ReturnAtOnce, Broadcaster!NoTimeLeft, Broadcaster!Register,
                         Broadcaster!isNew
  <2>3. CASE WaitReturns(c)
    <3>1. at[c] = "received" /\ seen'[c] = got[c]
      BY <2>3 DEF WaitReturns, Goto, Broadcaster!ReturnAfterWait
    <3>2. seen[c] < got[c]
      BY <3>1 DEF Proved!BroadcasterInv, Proved!NothingFromTheFuture
    <3>3. got[c] \in Nat
      BY FreshnessAssumption
    <3> QED
      BY <3>1, <3>2, <3>3, Numbers
  <2> QED
    BY <2>1, <2>2, <2>3
<1> QED
  BY <1>1, InvariantHolds, PTL DEF Spec, RetriesOnlyOnNews
=============================================================================
