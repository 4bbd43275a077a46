SPECIFICATION Spec
CONSTANTS
  Inputs <- MCInputs
  EnumFile <- MCEnumFile
  MaxDepth = 12
  FieldOffsetMod = 33
  FieldLimit = 4
  Shapes = FALSE
  Numberings = TRUE
  Wide = FALSE
INVARIANT DeprecationKeepsLayouts
CHECK_DEADLOCK FALSE
