\* Every header and every text of the module's bounds, cut in every way.
SPECIFICATION Spec
CONSTANTS
  Radix = 2
  MaxSize = 5
  HashLength = 1
  MaxHeaderBytes = 16
  Headers <- MCHeaders
  Bodies <- MCBodies
  OddTexts <- MCOddTexts
INVARIANTS
  ReadsWhatWasSent
  NameIsSafe
  MalformedStaysMalformed
  AgreesWithGrammar
