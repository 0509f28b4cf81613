CONSTANTS
  r1 = r1
  r2 = r2
  r3 = r3
  Requests = {r1, r2, r3}
  None = None
  KindsOf <- AnyStart
  Tracks = 2
  RepeatModes = {FALSE}
  Gens <- FiveGens
  Events = {"play", "freeze"}
  PushMayFail = FALSE
  DeadLimit = 2
  TakeoverLimit = 2
  LateRounds = 0
SPECIFICATION Spec
INVARIANT TypeOK
INVARIANT PlayedQueueWatched
CHECK_DEADLOCK FALSE
