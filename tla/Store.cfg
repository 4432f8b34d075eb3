SPECIFICATION Spec
CONSTANTS
  Browsers = {1, 2}
  SaltIds = {0, 1}
  TokenIds = {1, 2}
  MAX_SALTS = 1000
  SaltLife = 1
  TokenLife = 1
  UseLife = 3
  Jumps <- Jumped
  Horizon = 7
  Dirs = {"log", "stat"}
  Names <- FileNames
  ls <- InOrder
  PerAnswer = 2
  Scenes <- AllScenes
  Ids = {0, 1}
  HostPictures <- Sent
  Junk <- Memory
  Pens <- Pen
  Configs = {1, 5}
  Libraries <- SomeLibraries
  PageSize = 2
INVARIANTS SessionKept ListingWhole PicturesAsMeant ListedIsRead
