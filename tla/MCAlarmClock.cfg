CONSTANTS
  a1 = a1
  Alarms = {a1}
  Saved <- Documents
  Schedules = {{1, 4}}
  DayLength = 3
  Zones = {0, 1}
  NoAlarm = NoAlarm
  None = None
  Grace = 2
  MaxSleep = 1
  MaxTime = 5
  MaxSaves = 2
  MaxStops = 1
  MaxFails = 1
SPECIFICATION Spec
INVARIANT TypeOK
INVARIANT RingsOnce
INVARIANT NoMissedAlarm
PROPERTY SaveIsQuiet
CHECK_DEADLOCK FALSE
