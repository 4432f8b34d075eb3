SPECIFICATION Spec
CONSTANTS
  MAX_FRAMES = 2
  MAX_SCHEDULES = 2
  Framesets = 2
  DimmingEntries = 2
  None = None
  Stored <- InitialFiles
  HostRequests <- AllRequests
  WebQueries <- AllQueries
  Updates <- AllUpdates
  MaxEvents = 2
INVARIANTS CleanMeansCurrent  AutoconfTakesOver
PROPERTIES ChangesAreLawful AnsweredIsDurable SettingsReachMain SensitivitySettles
CHECK_DEADLOCK FALSE
