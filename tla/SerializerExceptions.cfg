SPECIFICATION Spec
CONSTANTS
  MaxField = 2
  RefFields <- MCRefFields
  Default <- DefaultOne
  TinyMaxId = 2
  ByteMod = 8
  Junk = 99
  MaxOffset = 6
  OffsetMod = 7
  FieldOffsetMod = 4
  MaxRight = 4
  MaxStart = 7
  Strings <- ShortStrings
  Vectors <- NoSequences
  RefLists = {1}
  Layouts = {"fixed", "flat", "sparse", "preallocated"}
  Modes = {"flat"}
  Foreign = 90
  BadCalls = TRUE
INVARIANTS TypeOK ObjectsReadBack LeftHoldsTables NothingOpenUnnested
PROPERTY EarlierWordsStay
