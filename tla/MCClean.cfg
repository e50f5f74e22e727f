\* Nothing fails and no timeout is needed.
SPECIFICATION FairSpec
CONSTANTS
  b1 = b1
  b2 = b2
  plain = plain
  spaced = spaced
  None = None
  Clients = {c1}
  RawNames <- MCRawNames
  Names <- MCNames
  SanitizeMap <- MCSanitize
  Bytes <- MCBytes
  Contents <- MCContents
  Faults = {}
  Prompt = TRUE
  OutputPath = None
  MaxHeaderUnits = 2
  ChunkSize = 1
  JunkLength = 3
  Testing = FALSE
  EarlySenders = FALSE
INVARIANTS
  ReplyDelivered
PROPERTIES
  ApprovedTransferCompletes
  EverybodyReturns
