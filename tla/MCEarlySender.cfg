\* A header that arrives while receive_file is being armed.
SPECIFICATION Spec
CONSTANTS
  b1 = b1
  b2 = b2
  plain = plain
  spaced = spaced
  None = None
  Clients = {c1}
  RawNames <- MCNames
  Names <- MCNames
  SanitizeMap <- MCSanitize
  Bytes <- MCBytes
  Contents <- OneContent
  Faults = {}
  Prompt = TRUE
  OutputPath = None
  MaxHeaderUnits = 2
  ChunkSize = 1
  JunkLength = 3
  Testing = FALSE
  EarlySenders = TRUE
INVARIANTS
  BodyOnlyAfterApproval
CHECK_DEADLOCK FALSE
