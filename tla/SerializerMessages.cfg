SPECIFICATION Spec
CONSTANTS
  MaxField = 3
  RefFields <- MCRefFields
  Default <- DefaultOne
  TinyMaxId = 2
  ByteMod = 8
  Junk = 99
  MaxOffset = 100
  OffsetMod = 101
  FieldOffsetMod = 100
  MaxRight = 4
  MaxStart = 4
  Strings <- TwoStrings
  Vectors <- NoSequences
  RefLists = {}
  Layouts = {"flat", "sparse", "preallocated"}
  Modes = {"flat"}
  Foreign = 90
  BadCalls = FALSE
INVARIANTS ObjectsReadBack RootReadsBack BaseStaysValid StoredOnce LeftHoldsTables
PROPERTY EarlierWordsStay
