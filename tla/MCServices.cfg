CONSTANTS
  Clients = {c1, c2}
  MemEnd = 16
  Align = 2
  SizeMod = 32
  Asks = {1, 4}
  ObjSize = 3
  Letters = {a}
  Blank = blank
  NUL = nul
  BufSize = 4
  MaxLines = 2
  MaxFd = 5
  MaxCards = 3
  MaxIds = 4
  NFat = 6
  FatPer = 2
  Names = {"a", "b"}
  FILs = {f1}
  Units = {1, 2}
  Lens = {1, 3}
  Offsets = {0, 1, 4}
  MaxSize = 4
  MaxCalls = 8
SPECIFICATION MCSpec
INVARIANTS MemoryOK LineOK FilesOK NoStaleAccess
  VolumeSound SyncedSurvives ReadsBack
