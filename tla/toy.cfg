SPECIFICATION DriverSpec
CONSTANTS
  Programs <- MCPrograms
  NULL = NULL
INVARIANTS TypeOK OwnDataIffFresh OperandsDominate ReturnPerFunction SoundProgramsCompile
           PassesPrepared OutputAsNamed
PROPERTY NameKeepsValue
