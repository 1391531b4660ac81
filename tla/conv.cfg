SPECIFICATION Spec
CONSTANTS
  Problems <- MCProblems
  Strides <- MCStrides
  Tilings <- MCTilings
  Junk = 1000
INVARIANTS TypeOK InBounds PartialSums
PROPERTIES ImplementsConv EndsWithConvolution
