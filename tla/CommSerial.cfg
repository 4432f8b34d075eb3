SPECIFICATION Spec
CONSTANTS
  NChunks = 2
  MaxNum = 5
  Hosts <- SerialHost
  Logins = {"user"}
  Encryption = {"plain", "key"}
  Commands = {"GFI", "SEP"}
  LineFaults = {"lose", "garble"}
  BufSize = 2
  WriteSize = 1
  LengthMod = 16
  LinkCap = 2
INVARIANTS TypeOK TransferInStep
PROPERTY FetchSpec
