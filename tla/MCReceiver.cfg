\* Two clients; this receiver (a) and another one (b) on the LAN.
SPECIFICATION FairSpec
CONSTANTS
  Clients = {c1, c2}
  NoClient = NoClient
  MyName = a
  Names = {a, b}
  NoName = NoName
INVARIANTS
  TypeOK
  ServerClosedInOrder
  ClientIsKnown
  SearchResults
  ServicedWhileRunning
  AdvertisedWhileListening
  ReceiverLeavesNothing
PROPERTIES
  ReceiverEnds
  SearchEnds
