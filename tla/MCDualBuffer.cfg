SPECIFICATION Spec
CONSTANTS
  Byte <- MCByte
  Data <- MCData
  Garbage = Garbage
  InitialSize = 1
  SizeMax = 4
  MayFail = TRUE
INVARIANTS
  TypeOK
  Separated
PROPERTIES
  ImplementsTwoStacks
