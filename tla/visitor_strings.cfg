SPECIFICATION Spec
CONSTANTS
  Asts <- MCAsts
  OpNames <- MCOpNames
  OperandNames <- MCOperandNames
  NULL = NULL
  NoName = NoName
INVARIANT StringsOutliveRefs
