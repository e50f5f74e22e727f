\* Any number of connections in the life of the object, two sends on each.
SPECIFICATION FairSpec
CONSTANTS
  MaxSends = 2
INVARIANTS
  TypeOK
  NothingLeft
  ClosedInOrder
  RacesOnlyAfterLoss
  AnswersAreOwn
  FailureIsSignalled
PROPERTIES
  DisconnectReturns
