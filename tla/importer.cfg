SPECIFICATION Spec
CONSTANTS
  Graphs <- MCGraphs
  None = None
INVARIANTS TypeOK NamesMeanNodes ReturnsFirstOutput ShapesCarryOver
