SPECIFICATION Spec
CONSTANTS
  MaxField = 2
  RefFields <- MCRefFields
  Default <- DefaultOne
  TinyMaxId = 2
  ByteMod = 8
  Junk = 99
  MaxOffset = 100
  OffsetMod = 101
  FieldOffsetMod = 100
  MaxRight = 6
  MaxStart = 6
  Strings <- TwoStrings
  Vectors <- ShortVectors
  RefLists = {1, 2}
  Layouts = {"fixed"}
  Modes = {"flat", "sparse"}
  Foreign = 90
  BadCalls = FALSE
INVARIANTS ObjectsReadBack StoredOnce NothingOpenUnnested
