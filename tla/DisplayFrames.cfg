SPECIFICATION FairSpec
CONSTANTS
  frameA = frameA
  frameB = frameB
  Frames <- TwoFrames
  Blank = Blank
  Torn = Torn
  Junk = Junk
  UsbSticks = FALSE
  LowVoltLimit = 2
  StoppedPinHigh = TRUE
  SettledStart = TRUE
INVARIANTS IInv LockHandedOver BufferCompleteWhenRead NoPollOfStoppedPwm PictureAtRest
PROPERTIES HandoffSpec LastFrameShown
