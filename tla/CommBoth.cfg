SPECIFICATION Spec
CONSTANTS
  NChunks = 2
  MaxNum = 5
  Hosts <- BothHosts
  Logins = {"user", "wrong"}
  Encryption = {"plain"}
  Commands = {"GFI"}
  LineFaults = {}
  BufSize = 3
  WriteSize = 2
  LengthMod = 16
  LinkCap = 1
INVARIANTS SessionOwned FileIntact TransferInStep
