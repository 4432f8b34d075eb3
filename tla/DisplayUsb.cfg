SPECIFICATION FairSpec
CONSTANTS
  frameA = frameA
  frameB = frameB
  Frames <- OneFrame
  Blank = Blank
  Torn = Torn
  Junk = Junk
  UsbSticks = TRUE
  LowVoltLimit = 2
  StoppedPinHigh = FALSE
  SettledStart = TRUE
PROPERTIES ControlReturned UpdateGetsThrough
