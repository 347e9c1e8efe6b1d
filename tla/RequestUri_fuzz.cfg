SPECIFICATION Spec
CONSTANTS
  Pieces <- SomePieces
  RawParams <- SomeParams
  PathPrefixes <- SomePrefixes
  MaxPieces <- Budget
  SignatureName <- S
  OtherNames <- KOnly
CHECK_DEADLOCK FALSE
INVARIANTS
  SignatureIsSpelledOut
