\* A holder, one signalled, one asleep and one coming in between.
CONSTANTS
  Thread = {t1, t2, t3, t4}
  NoThread = NoThread
  Null = {TRUE, FALSE}
  MaxDepth = 3
SPECIFICATION Spec
INVARIANTS
  TypeOK
  Exclusive
  FieldsTellOwner
  WaitersCounted
  NoLostWakeup
PROPERTIES
  FreeLockIsTaken
  ImplementsLock
