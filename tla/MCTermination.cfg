\* Anything may be lost, the output may not open, the sender may be early.
SPECIFICATION FairSpec
CONSTANTS
  b1 = b1
  b2 = b2
  plain = plain
  spaced = spaced
  None = None
  Clients = {c1}
  RawNames <- MCNames
  Names <- MCNames
  SanitizeMap <- MCSanitize
  Bytes <- MCBytes
  Contents <- OneContent
  Faults = {"link", "recv_timeout", "drain_timeout", "send_timeout", "open"}
  Prompt = TRUE
  OutputPath = None
  MaxHeaderUnits = 2
  ChunkSize = 1
  JunkLength = 3
  Testing = FALSE
  EarlySenders = TRUE
PROPERTIES
  EverybodyReturns
