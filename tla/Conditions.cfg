SPECIFICATION FairSpec
CONSTANTS
  Worlds <- AllWorlds
  UpdateEvery = 1
  ResendEvery = 2
  Shifts <- SomeShifts
INVARIANTS TestShown
PROPERTIES StandbyAsScheduled BrightnessFollows CameraFollows
