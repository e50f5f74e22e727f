\* Two senders: is the one that is accepted the one that was shown?
SPECIFICATION Spec
CONSTANTS
  b1 = b1
  b2 = b2
  plain = plain
  spaced = spaced
  None = None
  Clients = {c1, c2}
  RawNames <- MCNames
  Names <- MCNames
  SanitizeMap <- MCSanitize
  Bytes <- MCBytes
  Contents <- OneByteContents
  Faults = {}
  Prompt = TRUE
  OutputPath = None
  MaxHeaderUnits = 2
  ChunkSize = 1
  JunkLength = 3
  Testing = FALSE
  EarlySenders = FALSE
INVARIANTS
  SentWasApproved
CHECK_DEADLOCK FALSE
