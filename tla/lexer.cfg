SPECIFICATION Spec
CONSTANTS
  Buffers <- MCBuffers
  Heads <- MCHeads
  Digits <- MCDigits
  Spaces <- MCSpaces
  Operators <- MCOperators
  KeywordMap <- MCKeywordMap
  Idents <- MCIdents
  MaxLexemes = 7
INVARIANTS TypeOK OverrunOnlyUnclosed
PROPERTIES ImplementsStream MarksBalanced CallsEnd
