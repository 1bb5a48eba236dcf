\* Two users, one after the other.
CONSTANTS
  User = {u1, u2}
  Nobody = Nobody
SPECIFICATION Spec
INVARIANTS
  TypeOK
  StoppedMeansGone
  FlagTellsToken
PROPERTY
  RemoveReturns
