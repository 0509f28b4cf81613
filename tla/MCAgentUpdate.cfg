CONSTANTS
  app1 = app1
  app2 = app2
  AppUploads = {app1}
  Self = Self
  AppEngine = AppEngine
  JobEngine = JobEngine
  Factory = Factory
  None = None
  MaxInstalls = 2
  MaxRetries = 1
  MaxCuts = 1
SPECIFICATION Spec
INVARIANT TypeOK
INVARIANT InstalledIsWhole
INVARIANT DroppedIsTold
PROPERTY EngineComesBack
CHECK_DEADLOCK FALSE
