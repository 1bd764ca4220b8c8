-------------------------- MODULE ChangeBroadcaster --------------------------
(***************************************************************************)
(* util/changebroadcaster.go: a serial number of changes and the           *)
(* goroutines that wait for it to move.                                    *)
(*                                                                         *)
(* Change and LastChange run under cb.mutex and are single actions.  A     *)
(* call of Wait or WaitTimeout that has to wait is split where the code    *)
(* gives up the mutex: it registers a channel (under the mutex), then      *)
(* reaches the receive on that channel (without it), then removes the      *)
(* channel (under the mutex again, by the deferred removeWaiter).  The     *)
(* channel is unbuffered and Change sends with a default case, so a send   *)
(* succeeds only if the receiver is already parked in the receive.         *)
(*                                                                         *)
(* A channel is created by one call and used by no other, so it is named   *)
(* by the goroutine that waits.                                            *)
(***************************************************************************)
EXTENDS Integers, Sequences, SequencesExt, FiniteSets

CONSTANTS
  Callers,    \* goroutines that call LastChange, Wait and WaitTimeout
  MaxSerial   \* bound on the number of calls of Change

ASSUME SerialAssumption == MaxSerial \in Nat

VARIABLES
  serial,    \* cb.serial
  waiters,   \* cb.waiters
  at,        \* where each caller is in Wait or WaitTimeout
  timed,     \* whether the call in progress is one of WaitTimeout
  seen,      \* the Change each caller passes to its next call
  got        \* the value a caller received from its channel

vars == <<serial, waiters, at, timed, seen, got>>

(* out: not in a call;  registered: between the unlock and the receive;    *)
(* parked: blocked in the receive;  received, expired: past the receive,   *)
(* before removeWaiter.                                                    *)
Places == {"out", "registered", "parked", "received", "expired"}

TypeOK ==
  /\ serial \in 0..MaxSerial
  /\ waiters \in Seq(Callers)
  /\ at \in [Callers -> Places]
  /\ timed \in [Callers -> BOOLEAN]
  /\ seen \in [Callers -> 0..MaxSerial]
  /\ got \in [Callers -> 0..MaxSerial]

Init ==
  /\ serial = 0
  /\ waiters = <<>>
  /\ at = [c \in Callers |-> "out"]
  /\ timed = [c \in Callers |-> FALSE]
  /\ seen = [c \in Callers |-> 0]
  /\ got = [c \in Callers |-> 0]

-----------------------------------------------------------------------------
(* The channels on which the non-blocking send of Change succeeds. *)
Receivers == {c \in ToSet(waiters) : at[c] = "parked"}

ChangeSendsOldSerial ==
  /\ serial < MaxSerial
  /\ serial' = serial + 1
  /\ at' = [c \in Callers |-> IF c \in Receivers THEN "received" ELSE at[c]]
  /\ got' = [c \in Callers |-> IF c \in Receivers THEN serial ELSE got[c]]
  /\ UNCHANGED <<waiters, timed, seen>>

ChangeSendsNextSerial ==
  /\ serial < MaxSerial
  /\ serial' = serial + 1
  /\ at' = [c \in Callers |-> IF c \in Receivers THEN "received" ELSE at[c]]
  /\ got' = [c \in Callers |-> IF c \in Receivers THEN serial + 2 ELSE got[c]]
  /\ UNCHANGED <<waiters, timed, seen>>

(* Change() *)
Change ==
  /\ serial < MaxSerial
  /\ serial' = serial + 1
  /\ at' = [c \in Callers |-> IF c \in Receivers THEN "received" ELSE at[c]]
  /\ got' = [c \in Callers |-> IF c \in Receivers THEN serial + 1 ELSE got[c]]
  /\ UNCHANGED <<waiters, timed, seen>>

(* LastChange() *)
LastChange(c) ==
  /\ at[c] = "out"
  /\ seen' = [seen EXCEPT ![c] = serial]
  /\ UNCHANGED <<serial, waiters, at, timed, got>>

(* The test under the mutex at the start of Wait and of WaitTimeout. *)
isNew(c) == serial > seen[c]

(* Wait or WaitTimeout, when a change has happened already. *)
ReturnAtOnce(c) ==
  /\ at[c] = "out"
  /\ isNew(c)
  /\ seen' = [seen EXCEPT ![c] = serial]
  /\ UNCHANGED <<serial, waiters, at, timed, got>>

(* WaitTimeout with timeout <= 0, when nothing is new. *)
NoTimeLeft(c) ==
  /\ at[c] = "out"
  /\ ~isNew(c)
  /\ seen' = [seen EXCEPT ![c] = 0]
  /\ UNCHANGED <<serial, waiters, at, timed, got>>

(* Wait or WaitTimeout, up to the unlock after addWaiter. *)
Register(c, withTimeout) ==
  /\ at[c] = "out"
  /\ ~isNew(c)
  /\ waiters' = Append(waiters, c)
  /\ at' = [at EXCEPT ![c] = "registered"]
  /\ timed' = [timed EXCEPT ![c] = withTimeout]
  /\ UNCHANGED <<serial, seen, got>>

(* The caller reaches its receive, or its select, and blocks. *)
Park(c) ==
  /\ at[c] = "registered"
  /\ at' = [at EXCEPT ![c] = "parked"]
  /\ UNCHANGED <<serial, waiters, timed, seen, got>>

ExpireStopped(c) == FALSE

(* The select takes the timer's case. *)
Expire(c) ==
  /\ at[c] = "parked"
  /\ timed[c]
  /\ at' = [at EXCEPT ![c] = "expired"]
  /\ UNCHANGED <<serial, waiters, timed, seen, got>>

removeWaiterLast(c) == Front(waiters)

(* The slice after removeWaiter: the last element takes the place of c. *)
removeWaiter(c) ==
  LET i == CHOOSE j \in DOMAIN waiters : waiters[j] = c
  IN  Front([waiters EXCEPT ![i] = Last(waiters)])

(* The deferred removeWaiter, and the return of the received change, or of *)
(* Change{} and false.  The call's channel and timer are gone.             *)
ReturnAfterWait(c) ==
  /\ at[c] \in {"received", "expired"}
  /\ waiters' = removeWaiter(c)
  /\ at' = [at EXCEPT ![c] = "out"]
  /\ seen' = [seen EXCEPT ![c] = IF at[c] = "received" THEN got[c] ELSE 0]
  /\ timed' = [timed EXCEPT ![c] = FALSE]
  /\ got' = [got EXCEPT ![c] = 0]
  /\ UNCHANGED serial

-----------------------------------------------------------------------------
Next ==
  \/ Change
  \/ \E c \in Callers :
       \/ LastChange(c)
       \/ ReturnAtOnce(c)
       \/ NoTimeLeft(c)
       \/ \E withTimeout \in BOOLEAN : Register(c, withTimeout)
       \/ Park(c)
       \/ Expire(c)
       \/ ReturnAfterWait(c)

Spec == Init /\ [][Next]_vars

(* A goroutine inside Wait or WaitTimeout that can run eventually does,    *)
(* and a timer eventually fires.  Nobody is obliged to call Change.        *)
Fairness ==
  \A c \in Callers :
    /\ WF_vars(Park(c))
    /\ WF_vars(Expire(c))
    /\ WF_vars(ReturnAfterWait(c))

FairSpec == Spec /\ Fairness

-----------------------------------------------------------------------------
InCall(c) == at[c] # "out"

(* cb.waiters holds the channel of every call that is waiting, once, and   *)
(* no other: removeWaiter, which moves the last channel into the gap,      *)
(* drops exactly the channel of the call that returns, whatever the order  *)
(* in which the calls end.                                                 *)
WaitersAreWaiting ==
  /\ ToSet(waiters) = {c \in Callers : InCall(c)}
  /\ IsInjective(waiters)

(* A call that waited and succeeded returns a change that its caller had   *)
(* not seen, and one that has happened.  A stale answer would make the     *)
(* loop of the /assert handler spin on a change it knows already.          *)
SuccessIsNews ==
  [][\A c \in Callers :
       at[c] = "received" /\ at'[c] = "out"
         => seen[c] < seen'[c] /\ seen'[c] <= serial]_vars

(* A call of WaitTimeout returns, whether or not anything changes. *)
TimedWaitReturns ==
  \A c \in Callers : InCall(c) /\ timed[c] ~> ~InCall(c)

(* A waiting call returns once a newer change has happened.  The tests of  *)
(* Wait and WaitTimeout expect this, after a pause that lets the waiter    *)
(* reach its receive.                                                      *)
ChangeEndsWait ==
  \A c \in Callers :
    InCall(c) /\ ~timed[c] /\ serial > seen[c] ~> ~InCall(c)
=============================================================================
