---------------------------- MODULE RMutexProofs ----------------------------
(* Proofs about RMutex: for any number of threads and any depth. *)
EXTENDS RMutex, FiniteSetTheorems, TLAPS

(* The inductive invariant: the owner is a thread, a waiter is in one      *)
(* place, and a NULL token is never touched.                               *)
IInv ==
  /\ TypeOK
  /\ FieldsTellOwner
  /\ WaitersCounted
  /\ NoLostWakeup
  /\ held > 0 => tid \in Thread
  /\ sleeping \cap woken = {}
  /\ tokIsNull => held = 0 /\ Waiting = {}

(* A step that leaves the waiters where they are.                          *)
LEMMA SameWaiters ==
  ASSUME IInv, UNCHANGED <<waiters, sleeping, woken>>
  PROVE  WaitersCounted' /\ (sleeping \cap woken = {})' /\ Waiting' = Waiting
BY DEF IInv, WaitersCounted, Waiting

(* Adding or taking out one waiter changes the count by one. *)
LEMMA WaitingIsFinite ==
  ASSUME IInv
  PROVE  /\ IsFiniteSet(Waiting)
         /\ \A t \in Thread \ Waiting : Cardinality(Waiting \cup {t}) = Cardinality(Waiting) + 1
         /\ \A t \in Waiting : Cardinality(Waiting \ {t}) = Cardinality(Waiting) - 1
         /\ Cardinality(Waiting) = 0 <=> Waiting = {}
<1>1. Waiting \subseteq Thread
  BY DEF IInv, TypeOK, Waiting
<1>2. IsFiniteSet(Waiting)
  BY <1>1, ThreadAssumption, FS_Subset
<1> QED BY <1>2, FS_AddElement, FS_RemoveElement, FS_EmptySet

LEMMA TakeKeeps ==
  ASSUME IInv, ~tokIsNull, NEW t \in Thread, TakeFree(t) \/ TakeAgain(t)
  PROVE  IInv'
<1>1. WaitersCounted' /\ (sleeping \cap woken = {})' /\ Waiting' = Waiting
  BY SameWaiters DEF TakeFree, TakeAgain
<1>2. TypeOK' /\ held' > 0 /\ tid' = t
  BY DEF IInv, TypeOK, TakeFree, TakeAgain
<1>3. FieldsTellOwner'
  BY DEF IInv, TypeOK, FieldsTellOwner, TakeFree, TakeAgain
<1> QED BY <1>1, <1>2, <1>3 DEF IInv, NoLostWakeup, TakeFree, TakeAgain, TypeOK

LEMMA WaitKeeps ==
  ASSUME IInv, ~tokIsNull, NEW t \in Thread, t \notin Waiting, Wait(t)
  PROVE  IInv'
<1>1. Waiting' = Waiting \cup {t}
  BY DEF Wait, Waiting
<1>2. WaitersCounted'
  BY <1>1, WaitingIsFinite DEF IInv, WaitersCounted, Wait
<1>3. TypeOK' /\ FieldsTellOwner' /\ NoLostWakeup' /\ (sleeping \cap woken = {})'
  BY DEF IInv, TypeOK, FieldsTellOwner, NoLostWakeup, Wait, Waiting
<1> QED BY <1>2, <1>3 DEF IInv, Wait

LEMMA RetestKeeps ==
  ASSUME IInv, NEW t \in Thread, Retest(t)
  PROVE  IInv'
<1>1. ~tokIsNull
  BY DEF IInv, Retest, Waiting
<1>2. CASE held # 0
  <2>1. Waiting' = Waiting
    BY <1>2 DEF Retest, Waiting
  <2> QED BY <1>1, <1>2, <2>1 DEF IInv, TypeOK, FieldsTellOwner, WaitersCounted,
                                  NoLostWakeup, Retest
<1>3. CASE held = 0
  <2>1. Waiting' = Waiting \ {t} /\ t \in Waiting
    BY <1>3 DEF IInv, Retest, Waiting
  <2>2. WaitersCounted'
    BY <1>3, <2>1, WaitingIsFinite DEF IInv, WaitersCounted, Retest
  <2>3. waiters' \in Nat
    BY <1>3, <2>1, WaitingIsFinite, FS_CardinalityType DEF IInv, TypeOK, WaitersCounted, Retest
  <2>4. TypeOK' /\ FieldsTellOwner'
    BY <1>1, <1>3, <2>3 DEF IInv, TypeOK, FieldsTellOwner, Retest
  <2> QED BY <1>1, <1>3, <2>2, <2>4 DEF IInv, NoLostWakeup, Retest
<1> QED BY <1>2, <1>3 DEF Retest

LEMMA SpuriousKeeps ==
  ASSUME IInv, NEW t \in Thread, SpuriousWakeup(t)
  PROVE  IInv'
<1>1. Waiting' = Waiting /\ t \in Waiting
  BY DEF SpuriousWakeup, Waiting
<1>2. WaitersCounted'
  BY <1>1 DEF IInv, WaitersCounted, SpuriousWakeup
<1> QED BY <1>1, <1>2 DEF IInv, TypeOK, FieldsTellOwner, NoLostWakeup, SpuriousWakeup

(* A signal moves at most one waiter, and wakes one if any is asleep. *)
LEMMA SignalMoves ==
  ASSUME IInv, Signal
  PROVE  /\ Waiting' = Waiting
         /\ sleeping' \subseteq Thread /\ woken' \subseteq Thread
         /\ sleeping' \cap woken' = {}
         /\ sleeping # {} => woken' # {}
BY DEF IInv, TypeOK, Signal, Waiting

LEMMA UnlockKeeps ==
  ASSUME IInv, NEW t \in Thread, acqRMutexUnlock(t)
  PROVE  IInv'
<1>1. CASE tokIsNull
  <2>1. depth' \in [Thread -> Nat]
    BY DEF IInv, TypeOK, acqRMutexUnlock
  <2> QED BY <1>1, <2>1 DEF IInv, TypeOK, FieldsTellOwner, WaitersCounted,
                            NoLostWakeup, Waiting, acqRMutexUnlock
<1>2. CASE ~tokIsNull
  <2>1. held > 0 /\ tid = t /\ depth[t] = held /\ held \in Nat
    BY <1>2 DEF IInv, TypeOK, FieldsTellOwner, acqRMutexUnlock
  <2>2. /\ depth' = [depth EXCEPT ![t] = @ - 1] /\ held' = held - 1
        /\ tid' = IF held = 1 THEN NoThread ELSE tid
        /\ UNCHANGED <<tokIsNull, waiters>>
        /\ IF held = 1 /\ waiters # 0 THEN Signal ELSE UNCHANGED <<sleeping, woken>>
    BY <1>2 DEF acqRMutexUnlock
  <2>3. /\ Waiting' = Waiting /\ sleeping' \subseteq Thread /\ woken' \subseteq Thread
        /\ sleeping' \cap woken' = {}
    BY <2>2, SignalMoves DEF IInv, TypeOK, Waiting
  <2>4. TypeOK'
    BY <2>1, <2>2, <2>3 DEF IInv, TypeOK
  <2>5. FieldsTellOwner'
    BY <1>2, <2>1, <2>2 DEF IInv, TypeOK, FieldsTellOwner
  <2>6. WaitersCounted'
    BY <2>2, <2>3 DEF IInv, WaitersCounted
  <2>7. NoLostWakeup'
    <3>1. CASE held = 1 /\ waiters # 0
      BY <2>2, <3>1, SignalMoves DEF NoLostWakeup, Signal
    <3>2. CASE waiters = 0
      <4>1. Waiting = {}
        BY <3>2, WaitingIsFinite DEF IInv, WaitersCounted
      <4> QED BY <2>3, <4>1 DEF NoLostWakeup, Waiting
    <3>3. CASE held # 1
      BY <2>1, <2>2, <3>3 DEF NoLostWakeup
    <3> QED BY <3>1, <3>2, <3>3
  <2> QED BY <1>2, <2>1, <2>2, <2>3, <2>4, <2>5, <2>6, <2>7 DEF IInv
<1> QED BY <1>1, <1>2

LEMMA NextKeeps == ASSUME IInv, [Next]_vars PROVE IInv'
<1>1. ASSUME NEW t \in Thread, acqRMutexLock(t) PROVE IInv'
  <2>1. CASE tokIsNull
    <3>1. NullLock(t) /\ depth' \in [Thread -> Nat]
      BY <1>1, <2>1 DEF IInv, TypeOK, acqRMutexLock, NullLock
    <3> QED BY <2>1, <3>1 DEF IInv, TypeOK, FieldsTellOwner, WaitersCounted,
                              NoLostWakeup, Waiting, NullLock
  <2>2. CASE ~tokIsNull
    BY <1>1, <2>2, TakeKeeps, WaitKeeps DEF acqRMutexLock, NullLock
  <2> QED BY <2>1, <2>2
<1>2. CASE UNCHANGED vars
  BY <1>2 DEF vars, IInv, TypeOK, FieldsTellOwner, WaitersCounted, NoLostWakeup, Waiting
<1> QED BY <1>1, <1>2, RetestKeeps, SpuriousKeeps, UnlockKeeps DEF Next

(* The inductive invariant holds from the first state on. *)
LEMMA Inductive == Spec => []IInv
<1>1. Init => IInv
  BY FS_EmptySet, NullAssumption
     DEF Init, IInv, TypeOK, FieldsTellOwner, WaitersCounted, NoLostWakeup, Waiting
<1> QED BY <1>1, NextKeeps, PTL DEF Spec

(* The fields of the mutex always have their types (threads.c, every       *)
(* call).                                                                  *)
THEOREM TypeCorrect == Spec => []TypeOK
<1>1. IInv => TypeOK
  BY DEF IInv
<1> QED BY <1>1, Inductive, PTL

(* Mutual exclusion of acqRMutexLock and acqRMutexUnlock on a token that   *)
(* is not NULL.                                                            *)
THEOREM MutualExclusion == Spec => []Exclusive
<1>1. IInv => Exclusive
  BY DEF IInv, FieldsTellOwner, Exclusive
<1> QED BY <1>1, Inductive, PTL

(* held and tid always tell whose lock it is and how deep. *)
THEOREM FieldsAlwaysTellOwner == Spec => []FieldsTellOwner
<1>1. IInv => FieldsTellOwner
  BY DEF IInv
<1> QED BY <1>1, Inductive, PTL

(* waiters is the number of threads in or just out of pthread_cond_wait.   *)
THEOREM WaitersAlwaysCounted == Spec => []WaitersCounted
<1>1. IInv => WaitersCounted
  BY DEF IInv
<1> QED BY <1>1, Inductive, PTL

(* A free lock with a thread asleep on it has another one awake: the       *)
(* signal of acqRMutexUnlock is never missing.                             *)
THEOREM NeverLosesWakeup == Spec => []NoLostWakeup
<1>1. IInv => NoLostWakeup
  BY DEF IInv
<1> QED BY <1>1, Inductive, PTL

(* Every step of the mutex is a step of the re-entrant lock or changes     *)
(* nothing there.                                                          *)
LEMMA StepsAreLockSteps ==
  ASSUME IInv, [Next]_vars
  PROVE  [Lock!Next]_lockDepth
<1> USE DEF Lock!Next, Lock!Acquire, Lock!Release
<1>1. CASE tokIsNull
  <2>1. tokIsNull'
    BY <1>1 DEF IInv, Next, vars, acqRMutexLock, NullLock, Retest, SpuriousWakeup,
                acqRMutexUnlock, Waiting
  <2> QED BY <1>1, <2>1 DEF lockDepth
<1>2. CASE ~tokIsNull
  <2>1. ~tokIsNull'
    BY <1>2 DEF Next, vars, acqRMutexLock, NullLock, TakeFree, TakeAgain, Wait,
                Retest, SpuriousWakeup, acqRMutexUnlock
  <2>2. IInv'
    BY NextKeeps
  <2>3. lockDepth = depth /\ lockDepth' = depth'
    BY <1>2, <2>1, <2>2 DEF lockDepth, IInv, TypeOK
  <2>4. ASSUME NEW t \in Thread, acqRMutexLock(t) PROVE [Lock!Next]_lockDepth
    <3>1. CASE TakeFree(t)
      BY <1>2, <2>3, <3>1 DEF TakeFree, IInv, FieldsTellOwner
    <3>2. CASE TakeAgain(t)
      BY <1>2, <2>3, <3>2 DEF TakeAgain, IInv, FieldsTellOwner
    <3>3. CASE Wait(t)
      BY <2>3, <3>3 DEF Wait
    <3> QED BY <1>2, <2>4, <3>1, <3>2, <3>3 DEF acqRMutexLock, NullLock
  <2>5. ASSUME NEW t \in Thread, Retest(t) PROVE [Lock!Next]_lockDepth
    BY <1>2, <2>3, <2>5 DEF Retest, IInv, FieldsTellOwner
  <2>6. ASSUME NEW t \in Thread, SpuriousWakeup(t) PROVE [Lock!Next]_lockDepth
    BY <2>3, <2>6 DEF SpuriousWakeup
  <2>7. ASSUME NEW t \in Thread, acqRMutexUnlock(t) PROVE [Lock!Next]_lockDepth
    BY <2>3, <2>7 DEF acqRMutexUnlock
  <2>8. CASE UNCHANGED vars
    BY <2>3, <2>8 DEF vars
  <2> QED BY <2>4, <2>5, <2>6, <2>7, <2>8 DEF Next
<1> QED BY <1>1, <1>2

(* The mutex of threads.c implements the re-entrant lock.                  *)
THEOREM MutexImplementsLock == Spec => ImplementsLock
<1>1. Init => Lock!Init
  BY DEF Init, Lock!Init, lockDepth
<1> QED BY <1>1, StepsAreLockSteps, Inductive, PTL DEF Spec, Lock!Spec, ImplementsLock
=============================================================================
