\* The user may do anything, any number of times.  The application may exit, and
\* it may hang in ~RecvPage.
SPECIFICATION FairSpec
INVARIANTS
  TypeOK
  PointerNamesItsThread
  TransferKeepsItsPage
  NoSearchDuringSend
  ResultStays
PROPERTIES
  ThreadsEnd
  SearchingEnds
  ExitReturns
CHECK_DEADLOCK FALSE
