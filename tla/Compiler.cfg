SPECIFICATION Spec
CONSTANTS
  Inputs <- MCInputs
  EnumFile <- MCEnumFile
  MaxDepth = 12
  FieldOffsetMod = 33
  FieldLimit = 4
  Shapes = TRUE
  Numberings = TRUE
  Wide = TRUE
INVARIANTS
  TypeOK
  EveryMessageOnce
  AssertionsHold
  StaticLayoutsDense
  PairsWellFormed
  DefinedBeforeUse
PROPERTY Terminates
CHECK_DEADLOCK FALSE
