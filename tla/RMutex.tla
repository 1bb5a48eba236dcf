------------------------------- MODULE RMutex -------------------------------
(***************************************************************************)
(* The re-entrant mutex of threads.c in its pthread build: a counter and   *)
(* an owner guarded by tok->lock, and a condition variable for those who   *)
(* find it held.  A step is what one thread does between taking tok->lock  *)
(* and letting go of it, by unlocking or in pthread_cond_wait.             *)
(*                                                                         *)
(* acqLockComm and acqUnlockComm are the same calls on acqCommLock.        *)
(***************************************************************************)
EXTENDS Integers, FiniteSets

CONSTANTS
  Thread, NoThread,
  Null,        (* whether the token passed to the calls may be NULL and may  *)
               (* not: acqCommLock is, acqNewRMutex returns either           *)
  MaxDepth     (* bound: how often a thread takes the lock before releasing  *)

ASSUME NoThreadAssumption == NoThread \notin Thread
ASSUME ThreadAssumption   == IsFiniteSet(Thread)
ASSUME NullAssumption     == Null \subseteq BOOLEAN
ASSUME DepthAssumption    == MaxDepth \in Nat

VARIABLES
  tokIsNull,            (* is the token NULL?                                *)
  held, tid, waiters,   (* the fields of acqRMutex                           *)
  sleeping,             (* threads blocked in pthread_cond_wait              *)
  woken,                (* threads out of it, waiting to have tok->lock back *)
  depth                 (* locks each caller has taken and not released      *)

vars == <<tokIsNull, held, tid, waiters, sleeping, woken, depth>>

Waiting == sleeping \cup woken

-----------------------------------------------------------------------------
(* acqRMutexLock.                                                          *)

NullLock(t) ==
  /\ tokIsNull
  /\ depth' = [depth EXCEPT ![t] = @ + 1]
  /\ UNCHANGED <<tokIsNull, held, tid, waiters, sleeping, woken>>

TakeFree(t) ==
  /\ held = 0
  /\ tid' = t
  /\ held' = 1
  /\ depth' = [depth EXCEPT ![t] = @ + 1]
  /\ UNCHANGED <<tokIsNull, waiters, sleeping, woken>>

(* Mutant: a nested lock is let through without being counted.             *)
TakeAgain_Uncounted(t) ==
  /\ held # 0 /\ tid = t
  /\ depth' = [depth EXCEPT ![t] = @ + 1]
  /\ UNCHANGED <<tokIsNull, held, tid, waiters, sleeping, woken>>

TakeAgain(t) ==
  /\ held # 0 /\ tid = t
  /\ held' = held + 1
  /\ depth' = [depth EXCEPT ![t] = @ + 1]
  /\ UNCHANGED <<tokIsNull, tid, waiters, sleeping, woken>>

Wait(t) ==
  /\ held # 0 /\ tid # t
  /\ waiters' = waiters + 1
  /\ sleeping' = sleeping \cup {t}
  /\ UNCHANGED <<tokIsNull, held, tid, woken, depth>>

acqRMutexLock(t) ==
  /\ t \notin Waiting
  /\ depth[t] < MaxDepth
  /\ NullLock(t) \/ (~tokIsNull /\ (TakeFree(t) \/ TakeAgain(t) \/ Wait(t)))

(* Mutant: held is tested once, with if instead of while.                  *)
Retest_If(t) ==
  /\ t \in woken
  /\ woken' = woken \ {t}
  /\ waiters' = waiters - 1
  /\ tid' = t
  /\ held' = 1
  /\ depth' = [depth EXCEPT ![t] = @ + 1]
  /\ UNCHANGED <<tokIsNull, sleeping>>

(* Mutant: a thread that gets the lock stays counted as a waiter.          *)
Retest_StaysCounted(t) ==
  /\ t \in woken
  /\ woken' = woken \ {t}
  /\ \/ /\ held # 0
        /\ sleeping' = sleeping \cup {t}
        /\ UNCHANGED <<tokIsNull, held, tid, waiters, depth>>
     \/ /\ held = 0
        /\ tid' = t
        /\ held' = 1
        /\ depth' = [depth EXCEPT ![t] = @ + 1]
        /\ UNCHANGED <<tokIsNull, waiters, sleeping>>

(* while (tok->held) pthread_cond_wait(...), after a wake-up. *)
Retest(t) ==
  /\ t \in woken
  /\ woken' = woken \ {t}
  /\ \/ /\ held # 0
        /\ sleeping' = sleeping \cup {t}
        /\ UNCHANGED <<tokIsNull, held, tid, waiters, depth>>
     \/ /\ held = 0
        /\ waiters' = waiters - 1
        /\ tid' = t
        /\ held' = 1
        /\ depth' = [depth EXCEPT ![t] = @ + 1]
        /\ UNCHANGED <<tokIsNull, sleeping>>

(* pthread_cond_wait may return without a signal. *)
SpuriousWakeup(t) ==
  /\ t \in sleeping
  /\ sleeping' = sleeping \ {t}
  /\ woken' = woken \cup {t}
  /\ UNCHANGED <<tokIsNull, held, tid, waiters, depth>>

-----------------------------------------------------------------------------
(* acqRMutexUnlock, called by a thread that has the lock: it does not look *)
(* at who calls it.                                                        *)

(* pthread_cond_signal *)
Signal ==
  \/ /\ sleeping = {}
     /\ UNCHANGED <<sleeping, woken>>
  \/ \E s \in sleeping :
       /\ sleeping' = sleeping \ {s}
       /\ woken' = woken \cup {s}

(* Mutant: the last unlock does not signal.                                *)
Unlock_NoSignal(t) ==
  /\ t \notin Waiting
  /\ depth[t] > 0
  /\ ~tokIsNull
  /\ depth' = [depth EXCEPT ![t] = @ - 1]
  /\ held' = held - 1
  /\ tid' = IF held = 1 THEN NoThread ELSE tid
  /\ UNCHANGED <<tokIsNull, waiters, sleeping, woken>>

(* Mutant: one unlock releases the lock however often it was taken.        *)
Unlock_Reset(t) ==
  /\ t \notin Waiting
  /\ depth[t] > 0
  /\ ~tokIsNull
  /\ depth' = [depth EXCEPT ![t] = @ - 1]
  /\ held' = 0
  /\ tid' = NoThread
  /\ IF waiters # 0 THEN Signal ELSE UNCHANGED <<sleeping, woken>>
  /\ UNCHANGED <<tokIsNull, waiters>>

acqRMutexUnlock(t) ==
  /\ t \notin Waiting
  /\ depth[t] > 0
  /\ depth' = [depth EXCEPT ![t] = @ - 1]
  /\ \/ /\ tokIsNull
        /\ UNCHANGED <<tokIsNull, held, tid, waiters, sleeping, woken>>
     \/ /\ ~tokIsNull
        /\ held' = held - 1
        /\ tid' = IF held = 1 THEN NoThread ELSE tid
        /\ IF held = 1 /\ waiters # 0 THEN Signal ELSE UNCHANGED <<sleeping, woken>>
        /\ UNCHANGED <<tokIsNull, waiters>>

-----------------------------------------------------------------------------
(* acqNewRMutex *)
Init ==
  /\ tokIsNull \in Null
  /\ held = 0 /\ tid = NoThread /\ waiters = 0
  /\ sleeping = {} /\ woken = {}
  /\ depth = [t \in Thread |-> 0]

Next ==
  \E t \in Thread :
    acqRMutexLock(t) \/ Retest(t) \/ SpuriousWakeup(t) \/ acqRMutexUnlock(t)

(* A woken thread runs, and a thread that has the lock releases it. *)
Fairness ==
  \A t \in Thread : WF_vars(Retest(t)) /\ WF_vars(acqRMutexUnlock(t))

Spec == Init /\ [][Next]_vars /\ Fairness

-----------------------------------------------------------------------------
(* Properties.                                                             *)

(* Every variable has its type. *)
TypeOK ==
  /\ tokIsNull \in BOOLEAN
  /\ held \in Nat
  /\ tid \in Thread \cup {NoThread}
  /\ waiters \in Nat
  /\ sleeping \subseteq Thread /\ woken \subseteq Thread
  /\ depth \in [Thread -> Nat]

(* No two threads have a lock, whatever wake-ups, signals and threads    *)
(* that come in between a signal and the test of the one signalled.        *)
Exclusive ==
  ~tokIsNull => \A s, t \in Thread : depth[s] > 0 /\ depth[t] > 0 => s = t

(* The fields say who has the lock and how often, so a nested lock is told *)
(* apart from a lock of another thread, and the last unlock from others.   *)
FieldsTellOwner ==
  ~tokIsNull => \A t \in Thread : depth[t] = IF held > 0 /\ tid = t THEN held ELSE 0

(* waiters counts the threads in or just out of pthread_cond_wait, so the  *)
(* unlock that frees the lock never leaves out a signal that is needed.    *)
WaitersCounted == waiters = Cardinality(Waiting)

(* The lock is never free with everybody asleep who wants it.              *)
NoLostWakeup == held = 0 /\ sleeping # {} => woken # {}

(* A free lock that somebody waits for is taken.                           *)
FreeLockIsTaken == held = 0 /\ Waiting # {} ~> held > 0

(* The refinement of ReentrantLock, which a NULL token never is taken as.  *)
lockDepth == [t \in Thread |-> IF tokIsNull THEN 0 ELSE depth[t]]
Lock == INSTANCE ReentrantLock WITH depth <- lockDepth
ImplementsLock == Lock!Spec
=============================================================================
