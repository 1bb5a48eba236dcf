---------------------------- MODULE ReentrantLock ---------------------------
(* What a re-entrant lock promises: the thread that has it may take it     *)
(* again, and until it has released it as often nobody else gets it.       *)
EXTENDS Naturals

CONSTANT Thread

VARIABLE depth   (* how often each thread has the lock *)

Acquire(t) ==
  /\ \A s \in Thread \ {t} : depth[s] = 0
  /\ depth' = [depth EXCEPT ![t] = @ + 1]

Release(t) ==
  /\ depth[t] > 0
  /\ depth' = [depth EXCEPT ![t] = @ - 1]

Init == depth = [t \in Thread |-> 0]
Next == \E t \in Thread : Acquire(t) \/ Release(t)
Spec == Init /\ [][Next]_depth
=============================================================================
