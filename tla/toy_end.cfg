SPECIFICATION Spec
CONSTANTS
  Programs <- FewPrograms
  NULL = NULL
INVARIANT EndsWithReturn
