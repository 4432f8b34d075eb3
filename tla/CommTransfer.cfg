SPECIFICATION FairSpec
CONSTANTS
  NChunks = 2
  MaxNum = 5
  Hosts <- SerialHost
  Logins = {"user"}
  Encryption = {"plain", "key"}
  Commands = {"GFI"}
  LineFaults = {"lose"}
  BufSize = 2
  WriteSize = 1
  LengthMod = 16
  LinkCap = 1
PROPERTY TransferCompletes
