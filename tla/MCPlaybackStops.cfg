CONSTANTS
  r1 = r1
  r2 = r2
  r3 = r3
  Requests = {r1, r2}
  None = None
  KindsOf <- AnyKind
  Tracks = 2
  RepeatModes = {FALSE}
  Gens <- FourGens
  Events = {"play", "finish", "halt", "pause", "resume", "other", "sleep", "gapStop", "pollError", "forgetStop"}
  PushMayFail = TRUE
  DeadLimit = 2
  TakeoverLimit = 2
  LateRounds = 1
SPECIFICATION Spec
INVARIANT SlotOwned
PROPERTY StaleAdvanceStandsDown
SYMMETRY RequestSymmetry
CHECK_DEADLOCK FALSE
