SPECIFICATION DriverSpec
CONSTANTS
  Idents <- MCIdents
  Underscored <- MCRefs
  BuilderRefs <- MCRefs
  Builtin <- MCBuiltin
  LowerFirst <- MCLowerFirst
  UpperFirst <- MCUpperFirst
  BuiltinWords <- MCBuiltinWords
  NULL = NULL
  Lexemes <- MCLexemes
  MaxLexemes = 21
  MaxRuleLexemes = 8
  EmitActions = {"ast", "all"}
  GrammarNames = {"", "Toy"}
CONSTRAINT ShortRules
INVARIANTS DriverTypeOK NoSilentLeak FreedOnce TerminatorsDefined QuotedWordsLexed
