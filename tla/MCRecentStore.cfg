CONSTANTS
  k1 = k1
  k2 = k2
  radio = radio
  spotify = spotify
  t1 = t1
  t2 = t2
  f1 = f1
  f2 = f2
  Keys = {k1, k2}
  Sources = {radio, spotify}
  Tracks = {t1, t2}
  Plays <- BothCards
  NoTrack = NoTrack
  MaxEntries = 2
  Flushers = {f1, f2}
  None = None
  NoFile = NoFile
  WriteMayFail = TRUE
  MaxPlays = 3
  MaxBoots = 2
SPECIFICATION FairSpec
INVARIANT TypeOK
INVARIANT OneRunPerKey
INVARIANT QuietFileIsRing
PROPERTY ChangeIsWritten
PROPERTY TailSurvivesShutdown
CHECK_DEADLOCK FALSE
