\* One sender and everything that can go wrong: the link, the timed waits, the
\* receiver's disk, an edited file, and a sender that announces a wrong size or
\* hash, sends too little, too much, or no header at all.
SPECIFICATION Spec
CONSTANTS
  b1 = b1
  b2 = b2
  plain = plain
  spaced = spaced
  None = None
  Clients = {c1}
  RawNames <- MCNames
  Names <- MCNames
  SanitizeMap <- MCSanitize
  Bytes <- MCBytes
  Contents <- SmallContents
  Faults = {"link", "open", "write", "edit", "recv_timeout", "drain_timeout", "send_timeout"}
  Prompt = TRUE
  OutputPath = None
  MaxHeaderUnits = 2
  ChunkSize = 1
  JunkLength = 3
  Testing = TRUE
  EarlySenders = FALSE
INVARIANTS
  TypeOK
  ReceivedMeansStored
  NothingWrittenUnapproved
  NoSizeUnderflow
PROPERTIES
  Implements
