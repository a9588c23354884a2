SPECIFICATION Spec
CONSTANTS
  Functions <- MCFunctions
  Expressions <- MCExpressions
  Statements <- MCStatements
  Names <- MCNames
INVARIANTS
  TypeOK
  EveryBlockEnds
  RunsAsWritten
  RecognisedMergesAreJoins
  WrittenInOrder
