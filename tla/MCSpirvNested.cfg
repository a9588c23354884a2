SPECIFICATION Spec
CONSTANTS
  Functions <- MCNested
  Expressions <- MCExpressions
  Statements <- MCStatements
  Names <- MCNames
INVARIANT MergesAreJoins
