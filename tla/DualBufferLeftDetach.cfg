SPECIFICATION Spec
CONSTANTS
  Byte <- MCByte
  Data <- MCData
  Garbage = Garbage
  InitialSize = 1
  SizeMax = 4
  MayFail = FALSE
PROPERTIES
  LeftDetachYieldsLeft
