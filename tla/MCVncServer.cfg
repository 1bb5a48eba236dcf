\* Two clients for two slots (slot 0 is never used), which failures can use up.
CONSTANTS
  Client = {c1, c2}
  NoClient = NoClient
  MAX_CLIENTS = 3
SPECIFICATION Spec
INVARIANTS
  TypeOK
  ListedClientsLive
  DesktopOutlivesBuffers
  DestroyedLast
PROPERTY
  StopEnds
\* A deleted server stops for good.
CHECK_DEADLOCK FALSE
