SPECIFICATION FairSpec
CONSTANTS
  Inputs <- MCInputs
  MaxErrors = 2
INVARIANTS
  TypeOK
  TreeIsParse
  AcceptedMeansUsed
PROPERTIES
  ConstructsAdvance
  ParserReturns
CHECK_DEADLOCK FALSE
