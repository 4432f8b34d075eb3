SPECIFICATION Spec
CONSTANTS
  Signs <- MCSigns
  NewConfigs <- MCNewConfigs
  Speeds <- MCSpeeds
  Images <- MCImages
  MaxChanges = 1
INVARIANTS InPlace NumberReadable OneStaleFrame
