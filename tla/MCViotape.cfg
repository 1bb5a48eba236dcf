\* ACQD_MAXREQ 2: a nested ioctl can get an op of its own, and two non-blocking
\* writes leave as few as there are when the driver is built with 1, and fewer.
CONSTANTS
  Caller = {c1, c2}
  Op = {o1, o2}
  NoOp = NoOp
  Dev = {d1}
  NoDev = NoDev
SPECIFICATION Spec
INVARIANTS
  TypeOK
  OneOwner
  AnswersFindTheirCall
  WaitIsShort
PROPERTY
  EveryCallReturns
\* Every thread can be left in a rewind the hypervisor refused.
CHECK_DEADLOCK FALSE
