SPECIFICATION Spec
CONSTANTS
  Idents <- MCIdents
  Underscored <- MCUnderscored
  BuilderRefs <- MCBuilderRefs
  Builtin <- MCBuiltin
  LowerFirst <- MCLowerFirst
  NULL = NULL
  Lexemes <- OpLexemes
  MaxLexemes = 15
INVARIANTS StaleReported BuilderDagsPresent
PROPERTIES Terminates NoIdleLoop
