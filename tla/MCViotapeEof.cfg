\* The driver as built, one thread on one tape.
CONSTANTS
  Caller = {c1}
  Op = {o1}
  NoOp = NoOp
  Dev = {d1}
  NoDev = NoDev
SPECIFICATION Spec
PROPERTY EofWhenLeavingWriting
\* One thread is left alone in a rewind the hypervisor refused.
CHECK_DEADLOCK FALSE
