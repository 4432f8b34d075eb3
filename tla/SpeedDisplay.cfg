SPECIFICATION FairSpec
CONSTANTS
  Wide = 256
  Speeds <- TwoSpeeds
  Configs <- AllSettings
  Factory <- FirstSetting
  MaxAge = 3
  MaxFrameAge = 1
  MaxReports = 1
  MaxSaves = 1
INVARIANTS NumberInLimits NumberIsChosen StaleTakenOff
PROPERTIES VehicleShownWithImage EveryPictureShown
