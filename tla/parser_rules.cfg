SPECIFICATION Spec
CONSTANTS
  Idents <- MCIdents
  Underscored <- MCUnderscored
  BuilderRefs <- MCBuilderRefs
  Builtin <- MCBuiltin
  LowerFirst <- MCLowerFirst
  NULL = NULL
  Lexemes <- RuleLexemes
  MaxLexemes = 8
INVARIANTS TypeOK WholeTextParsed RulesFilled CustomTerminatorsUsed
PROPERTY Terminates
