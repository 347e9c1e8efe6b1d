SPECIFICATION VarSpec
CONSTANTS
  Requests = {"q", "r"}
  Blocks = {a, b}
  Outcomes <- SomeOutcomes
  MaxRedirects = 1
  Watched = {"q"}
  MaxReads = 1
  None = None
SYMMETRY BlockSymmetry
CHECK_DEADLOCK FALSE
INVARIANTS
  FailClosed
  VariablesTellTheOutcome
  DenialsAreLogged
  LogLineTellsTheAnswer
  LogCreditsNothing
