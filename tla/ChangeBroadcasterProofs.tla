---------------------- MODULE ChangeBroadcasterProofs ----------------------
(***************************************************************************)
(* Proofs about ChangeBroadcaster, for any set of callers and any bound on *)
(* the number of changes.                                                  *)
(***************************************************************************)
EXTENDS ChangeBroadcaster, SequenceTheorems, TLAPS

(* Nobody has seen a change that has not happened, and what a caller was   *)
(* sent is newer than what it had seen.                                    *)
NothingFromTheFuture ==
  \A c \in Callers :
    /\ seen[c] <= serial
    /\ at[c] = "received" => seen[c] < got[c] /\ got[c] <= serial

BroadcasterInv == TypeOK /\ WaitersAreWaiting /\ NothingFromTheFuture

-----------------------------------------------------------------------------
(* addWaiter adds one channel at the end of the slice. *)
LEMMA AppendWaiter ==
  ASSUME NEW S, NEW s \in Seq(S), NEW e \in S, IsInjective(s), e \notin ToSet(s)
  PROVE  /\ Append(s, e) \in Seq(S)
         /\ ToSet(Append(s, e)) = ToSet(s) \cup {e}
         /\ IsInjective(Append(s, e))
<1> DEFINE a == Append(s, e)
<1>1. /\ a \in Seq(S)
      /\ Len(a) = Len(s) + 1
      /\ \A i \in 1..Len(s) : a[i] = s[i]
      /\ a[Len(s) + 1] = e
  BY AppendProperties
<1>2. DOMAIN a = 1..Len(a) /\ DOMAIN s = 1..Len(s) /\ Len(s) \in Nat
  BY <1>1, LenProperties
<1> HIDE DEF a
<1>3. ToSet(a) = ToSet(s) \cup {e}
  BY <1>1, <1>2 DEF ToSet
<1>4. IsInjective(a)
  BY <1>1, <1>2 DEF ToSet, IsInjective
<1> QED
  BY <1>1, <1>3, <1>4 DEF a

(* removeWaiter: when the last element takes the place of element i, and   *)
(* the slice becomes shorter by one, element i is gone and all the others  *)
(* are still there, once.                                                  *)
LEMMA ReplaceByLast ==
  ASSUME NEW S, NEW s \in Seq(S), NEW i \in DOMAIN s, IsInjective(s),
         NEW shorter, shorter = Front([s EXCEPT ![i] = Last(s)])
  PROVE  /\ shorter \in Seq(S)
         /\ ToSet(shorter) = ToSet(s) \ {s[i]}
         /\ IsInjective(shorter)
<1> DEFINE n == Len(s)
           u == [s EXCEPT ![i] = s[n]]
           t == SubSeq(u, 1, n - 1)
<1>1. n \in Nat /\ DOMAIN s = 1..n /\ i \in 1..n /\ n \in 1..n
  BY LenProperties
<1>2. /\ u \in Seq(S) /\ Len(u) = n
      /\ \A j \in 1..n : u[j] = IF j = i THEN s[n] ELSE s[j]
  BY <1>1, ElementOfSeq, ExceptSeq
<1>3. \A j \in 1..n - 1 : u[j] \in S
  BY <1>1, <1>2, ElementOfSeq
<1>4. /\ t \in Seq(S)
      /\ Len(t) = n - 1
      /\ \A j \in 1..n - 1 : t[j] = u[j]
  <2> HIDE DEF u
  <2>1. /\ SubSeq(u, 1, n - 1) \in Seq(S)
        /\ Len(SubSeq(u, 1, n - 1)) = IF 1 <= n - 1 THEN n - 1 - 1 + 1 ELSE 0
        /\ \A j \in 1 .. n - 1 - 1 + 1 : SubSeq(u, 1, n - 1)[j] = u[1 + j - 1]
    <3>1. 1 \in Int /\ n - 1 \in Int
      BY <1>1
    <3> QED
      BY <1>3, <3>1, SubSeqProperties
  <2> QED
    BY <1>1, <2>1
<1>5. DOMAIN t = 1..n - 1
  BY <1>4, LenProperties
<1>6. \A j \in 1..n - 1 : t[j] = IF j = i THEN s[n] ELSE s[j]
  BY <1>1, <1>2, <1>4
<1>7. shorter = t
  BY <1>2 DEF Front, Last
<1> HIDE DEF t, u, n
<1>8. \A j, k \in 1..n : s[j] = s[k] => j = k
  BY <1>1 DEF IsInjective
<1>9. ToSet(t) = ToSet(s) \ {s[i]}
  <2>1. ASSUME NEW j \in 1..n - 1 PROVE t[j] \in ToSet(s) \ {s[i]}
    BY <1>1, <1>6, <1>8 DEF ToSet
  <2>2. ASSUME NEW j \in 1..n, s[j] # s[i] PROVE s[j] \in ToSet(t)
    <3>1. CASE j = n
      <4>1. i \in 1..n - 1 /\ t[i] = s[n]
        BY <1>1, <1>6, <2>2, <3>1
      <4> QED
        BY <1>5, <3>1, <4>1 DEF ToSet
    <3>2. CASE j # n
      <4>1. j \in 1..n - 1 /\ t[j] = s[j]
        BY <1>1, <1>6, <2>2, <3>2
      <4> QED
        BY <1>5, <4>1 DEF ToSet
    <3> QED
      BY <3>1, <3>2
  <2> QED
    BY <1>1, <1>5, <2>1, <2>2 DEF ToSet
<1>10. IsInjective(t)
  BY <1>1, <1>5, <1>6, <1>8 DEF IsInjective
<1> QED
  BY <1>4, <1>7, <1>9, <1>10

(* The slice after removeWaiter(c) holds the channels of the others. *)
LEMMA RemoveWaiter ==
  ASSUME BroadcasterInv, NEW c \in Callers, InCall(c)
  PROVE  /\ removeWaiter(c) \in Seq(Callers)
         /\ ToSet(removeWaiter(c)) = ToSet(waiters) \ {c}
         /\ IsInjective(removeWaiter(c))
<1> DEFINE i == CHOOSE j \in DOMAIN waiters : waiters[j] = c
<1>1. \E j \in DOMAIN waiters : waiters[j] = c
  BY DEF BroadcasterInv, WaitersAreWaiting, ToSet
<1>2. i \in DOMAIN waiters /\ waiters[i] = c
  BY <1>1
<1>3. removeWaiter(c) = Front([waiters EXCEPT ![i] = Last(waiters)])
  BY DEF removeWaiter
<1>4. waiters \in Seq(Callers) /\ IsInjective(waiters)
  BY DEF BroadcasterInv, TypeOK, WaitersAreWaiting
<1> HIDE DEF i
<1> QED
  BY <1>2, <1>3, <1>4, ReplaceByLast, Zenon

-----------------------------------------------------------------------------
(* The zero value of changeBroadcaster satisfies the invariant. *)
LEMMA InvInit == Init => BroadcasterInv
<1> SUFFICES ASSUME Init PROVE BroadcasterInv
  OBVIOUS
<1>1. TypeOK
  <2>1. timed \in [Callers -> BOOLEAN]
    BY Zenon DEF Init
  <2>2. waiters \in Seq(Callers)
    BY EmptySeq DEF Init
  <2> QED
    BY <2>1, <2>2, SerialAssumption DEF Init, TypeOK, Places
<1>2. WaitersAreWaiting
  BY DEF Init, WaitersAreWaiting, InCall, ToSet, IsInjective
<1>3. NothingFromTheFuture
  BY DEF Init, NothingFromTheFuture
<1> QED
  BY <1>1, <1>2, <1>3 DEF BroadcasterInv

(* Change preserves it: whoever is sent the new serial had seen less. *)
LEMMA ChangeInv == BroadcasterInv /\ Change => BroadcasterInv'
<1> SUFFICES ASSUME BroadcasterInv, Change PROVE BroadcasterInv'
  OBVIOUS
<1> USE DEF BroadcasterInv
<1>1. TypeOK'
  BY SerialAssumption DEF TypeOK, Change, Places
<1>2. WaitersAreWaiting'
  <2>1. \A c \in Callers : InCall(c)' <=> InCall(c)
    BY DEF TypeOK, Change, InCall, Receivers
  <2> QED
    BY <2>1 DEF WaitersAreWaiting, Change
<1>3. NothingFromTheFuture'
  BY SerialAssumption DEF TypeOK, NothingFromTheFuture, Change
<1> QED
  BY <1>1, <1>2, <1>3

(* So do LastChange and the calls that return at once. *)
LEMMA AtOnceInv ==
  ASSUME BroadcasterInv, NEW c \in Callers,
         LastChange(c) \/ ReturnAtOnce(c) \/ NoTimeLeft(c)
  PROVE  BroadcasterInv'
<1> USE DEF BroadcasterInv
<1>1. /\ UNCHANGED <<serial, waiters, at, timed, got>>
      /\ at[c] = "out"
      /\ \E s \in {0, serial} : seen' = [seen EXCEPT ![c] = s]
  BY DEF LastChange, ReturnAtOnce, NoTimeLeft
<1>2. TypeOK'
  BY <1>1, SerialAssumption DEF TypeOK
<1>3. WaitersAreWaiting'
  BY <1>1 DEF WaitersAreWaiting, InCall
<1>4. NothingFromTheFuture'
  BY <1>1 DEF NothingFromTheFuture, TypeOK
<1> QED
  BY <1>2, <1>3, <1>4

(* addWaiter *)
LEMMA RegisterInv ==
  ASSUME BroadcasterInv, NEW c \in Callers, NEW withTimeout \in BOOLEAN, Register(c, withTimeout)
  PROVE  BroadcasterInv'
<1> USE DEF BroadcasterInv
<1>1. c \notin ToSet(waiters)
  BY DEF Register, WaitersAreWaiting, InCall
<1>2. /\ waiters' \in Seq(Callers)
      /\ ToSet(waiters') = ToSet(waiters) \cup {c}
      /\ IsInjective(waiters')
  BY <1>1, AppendWaiter DEF Register, WaitersAreWaiting, TypeOK
<1>3. TypeOK'
  <2>1. timed' \in [Callers -> BOOLEAN]
    BY Zenon DEF Register, TypeOK
  <2> QED
    BY <1>2, <2>1 DEF Register, TypeOK, Places
<1>4. WaitersAreWaiting'
  BY <1>2 DEF Register, WaitersAreWaiting, InCall, TypeOK
<1>5. NothingFromTheFuture'
  BY DEF Register, NothingFromTheFuture, TypeOK
<1> QED
  BY <1>3, <1>4, <1>5

(* The steps of a call that waits change its place only. *)
LEMMA WaitInv ==
  ASSUME BroadcasterInv, NEW c \in Callers, Park(c) \/ Expire(c)
  PROVE  BroadcasterInv'
<1> USE DEF BroadcasterInv
<1>1. /\ UNCHANGED <<serial, waiters, timed, seen, got>>
      /\ at[c] # "out"
      /\ \E p \in {"parked", "expired"} : at' = [at EXCEPT ![c] = p]
  BY DEF Park, Expire
<1>2. TypeOK'
  BY <1>1 DEF TypeOK, Places
<1>3. WaitersAreWaiting'
  BY <1>1 DEF WaitersAreWaiting, InCall, TypeOK
<1>4. NothingFromTheFuture'
  BY <1>1 DEF NothingFromTheFuture, TypeOK
<1> QED
  BY <1>2, <1>3, <1>4

(* The return of a call that waited. *)
LEMMA ReturnInv ==
  ASSUME BroadcasterInv, NEW c \in Callers, ReturnAfterWait(c)
  PROVE  BroadcasterInv'
<1> USE DEF BroadcasterInv
<1>1. InCall(c)
  BY DEF ReturnAfterWait, InCall
<1>2. /\ waiters' \in Seq(Callers)
      /\ ToSet(waiters') = ToSet(waiters) \ {c}
      /\ IsInjective(waiters')
  BY <1>1, RemoveWaiter DEF ReturnAfterWait
<1>3. TypeOK'
  <2>1. timed' \in [Callers -> BOOLEAN]
    BY Zenon DEF ReturnAfterWait, TypeOK
  <2> QED
    BY <1>2, <2>1, SerialAssumption DEF ReturnAfterWait, TypeOK, Places
<1>4. WaitersAreWaiting'
  BY <1>2 DEF ReturnAfterWait, WaitersAreWaiting, InCall, TypeOK
<1>5. NothingFromTheFuture'
  BY SerialAssumption DEF ReturnAfterWait, NothingFromTheFuture, TypeOK
<1> QED
  BY <1>3, <1>4, <1>5

(* Every step preserves the invariant. *)
LEMMA InvStep == BroadcasterInv /\ [Next]_vars => BroadcasterInv'
<1> SUFFICES ASSUME BroadcasterInv, [Next]_vars PROVE BroadcasterInv'
  OBVIOUS
<1>1. CASE UNCHANGED vars
  BY <1>1 DEF vars, BroadcasterInv, TypeOK, WaitersAreWaiting, InCall, NothingFromTheFuture
<1>2. CASE Next
  BY <1>2, ChangeInv, AtOnceInv, RegisterInv, WaitInv, ReturnInv DEF Next
<1> QED
  BY <1>1, <1>2

-----------------------------------------------------------------------------
(* The invariant holds of every behaviour of changeBroadcaster. *)
THEOREM InvariantHolds == Spec => []BroadcasterInv
BY InvInit, InvStep, PTL DEF Spec

(* All fields keep their types: among others, the slice of waiters is cut  *)
(* by one only when it has an element.                                     *)
THEOREM TypeCorrect == Spec => []TypeOK
<1>1. BroadcasterInv => TypeOK
  BY DEF BroadcasterInv
<1> QED
  BY <1>1, InvariantHolds, PTL

(* cb.waiters holds the channel of each waiting call, once, and no other,  *)
(* for any number of callers and any order of their returns.               *)
THEOREM WaitersExact == Spec => []WaitersAreWaiting
<1>1. BroadcasterInv => WaitersAreWaiting
  BY DEF BroadcasterInv
<1> QED
  BY <1>1, InvariantHolds, PTL

(* A call that waited and succeeded returns a change that its caller had   *)
(* not seen and that has happened.                                         *)
THEOREM AnswersAreNews == Spec => SuccessIsNews
<1>1. BroadcasterInv /\ [Next]_vars =>
        [\A c \in Callers : at[c] = "received" /\ at'[c] = "out"
                              => seen[c] < seen'[c] /\ seen'[c] <= serial]_vars
  <2> SUFFICES ASSUME BroadcasterInv, Next, NEW c \in Callers, at[c] = "received", at'[c] = "out"
               PROVE  seen[c] < seen'[c] /\ seen'[c] <= serial
    BY DEF vars
  <2>1. ReturnAfterWait(c)
    BY DEF Next, Change, LastChange, ReturnAtOnce, NoTimeLeft, Register, Park, Expire,
           ReturnAfterWait, BroadcasterInv, TypeOK
  <2>2. seen'[c] = got[c]
    BY <2>1 DEF ReturnAfterWait, BroadcasterInv, TypeOK
  <2> QED
    BY <2>2 DEF BroadcasterInv, NothingFromTheFuture
<1> QED
  BY <1>1, InvariantHolds, PTL DEF Spec, SuccessIsNews
=============================================================================
