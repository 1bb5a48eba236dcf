\* Blocked by the third failure, for 2 seconds.
CONSTANTS
  Host <- MCHost
  AuthHosts <- MCAuthHosts
  Settings = {0, 4}
  Hold = 2
  Limit = 1
  MaxTrying = 2
SPECIFICATION Spec
INVARIANTS
  TypeOK
  BlocksAreEarned
  FilterIsLastMatch
PROPERTY
  StreakBlocks
