CONSTANTS
  home = home
  guest = guest
  r1 = r1
  r2 = r2
  Nets = {home, guest}
  Requests = {r1, r2}
  Guard = Guard
  None = None
  MaxFailedBoots = 2
  MaxOwnerOverrides = 2
  MaxAttempts = 2
  MaxBoots = 2
SPECIFICATION Spec
SYMMETRY AnyRequest
INVARIANT TypeOK
INVARIANT NotStranded
INVARIANT GuardGivesWay
PROPERTY OwnersNetworkKept
CHECK_DEADLOCK FALSE
