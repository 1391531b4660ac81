SPECIFICATION Spec
CONSTANTS
  Asts <- MCAsts
  OpNames <- MCOpNames
  OperandNames <- MCOperandNames
  NULL = NULL
  NoName = NoName
INVARIANTS TypeOK BraceDebt UndefinedExactly FileComplete
