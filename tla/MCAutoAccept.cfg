\* No prompt: the callback accepts by itself; the sender may start before the
\* receiver is armed.
SPECIFICATION Spec
CONSTANTS
  b1 = b1
  b2 = b2
  plain = plain
  spaced = spaced
  None = None
  Clients = {c1}
  RawNames <- MCNames
  Names <- MCNames
  SanitizeMap <- MCSanitize
  Bytes <- MCBytes
  Contents <- SmallContents
  Faults = {"open", "drain_timeout", "recv_timeout", "send_timeout", "send"}
  Prompt = FALSE
  OutputPath = plain
  MaxHeaderUnits = 2
  ChunkSize = 2
  JunkLength = 3
  Testing = TRUE
  EarlySenders = TRUE
INVARIANTS
  SenderOkMeansStored
