CONSTANTS
  a = a
  b = b
  a1 = a1
  a2 = a2
  b1 = b1
  r1 = r1
  r2 = r2
  Slots = {1, 2}
  Stations = {a, b}
  Streams = {a1, a2, b1}
  StationOf <- Plays
  NoPreset = NoPreset
  Absent = Absent
  Torn = Torn
  Requests = {r1, r2}
  Kinds = {"put", "rename", "heal", "press", "delete", "move", "hold"}
  InitialSets <- OneOrTwo
  WriteMayFail = TRUE
  MayTruncate = TRUE
  MaxChanges = 2
  MaxBoots = 1
SPECIFICATION Spec
SYMMETRY RequestSymmetry
INVARIANT StoreInv
INVARIANT AcknowledgedSurvives
INVARIANT SafetyNet
INVARIANT KeptStationsSurvive
INVARIANT OneKeyPerStream
CHECK_DEADLOCK FALSE
