\* One user.
CONSTANTS
  User = {u1}
  Nobody = Nobody
SPECIFICATION Spec
PROPERTY StopStops
