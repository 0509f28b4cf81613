CONSTANTS
  r1 = r1
  r2 = r2
  r3 = r3
  Requests = {r1, r2}
  None = None
  KindsOf <- FolderThenAny
  Tracks = 2
  RepeatModes = {FALSE, TRUE}
  Gens <- FourGens
  Events = {"play", "freeze", "drop", "silence", "gone", "die"}
  PushMayFail = FALSE
  DeadLimit = 3
  TakeoverLimit = 2
  LateRounds = 1
SPECIFICATION FairSpec
PROPERTY RequestsFinish
PROPERTY DeadServerEndsQueue
PROPERTY FrozenTrackLeft
CHECK_DEADLOCK FALSE
