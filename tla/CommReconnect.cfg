SPECIFICATION FairSpec
CONSTANTS
  NChunks = 2
  MaxNum = 5
  Hosts <- EthernetHost
  Logins = {"user"}
  Encryption = {"plain"}
  Commands = {"GFI"}
  LineFaults = {}
  BufSize = 2
  WriteSize = 1
  LengthMod = 16
  LinkCap = 1
PROPERTY WaitingHostAccepted
