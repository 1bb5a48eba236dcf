\* ~vncServer against its comments.
CONSTANTS
  Client = {c1, c2}
  NoClient = NoClient
  MAX_CLIENTS = 3
SPECIFICATION Spec
INVARIANT AllClientsDead
CHECK_DEADLOCK FALSE
