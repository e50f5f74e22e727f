\* The drain after a failed open, without its 2 s bound.
SPECIFICATION FairSpec
CONSTANTS
  b1 = b1
  b2 = b2
  plain = plain
  spaced = spaced
  None = None
  Clients = {c1}
  RawNames <- MCNames
  Names <- MCNames
  SanitizeMap <- MCSanitize
  Bytes <- MCBytes
  Contents <- OneContent
  Faults = {"open"}
  Prompt = TRUE
  OutputPath = None
  MaxHeaderUnits = 2
  ChunkSize = 1
  JunkLength = 3
  Testing = FALSE
  EarlySenders = FALSE
PROPERTIES
  DrainEndsByClose
CHECK_DEADLOCK FALSE
