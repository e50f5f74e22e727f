\* Two senders at once, with files that differ in name, content, both or neither.
SPECIFICATION Spec
CONSTANTS
  b1 = b1
  b2 = b2
  plain = plain
  spaced = spaced
  None = None
  Clients = {c1, c2}
  RawNames <- TwoNames
  Names <- TwoNames
  SanitizeMap <- KeepNames
  Bytes <- MCBytes
  Contents <- OneByteContents
  Faults = {}
  Prompt = TRUE
  OutputPath = None
  MaxHeaderUnits = 2
  ChunkSize = 1
  JunkLength = 3
  Testing = FALSE
  EarlySenders = FALSE
SYMMETRY Symmetry
INVARIANTS
  BodyOnlyAfterApproval
  OkBytesAreStored
CHECK_DEADLOCK FALSE
