SPECIFICATION Spec
CONSTANTS
  MaxField = 4
  TinyMaxId = 2
  ByteMod = 8
  Junk = 99
  Types <- MCTypes
  Roots = {"Tree", "List", "Book", "Choice"}
  Protos <- MCProtos
  Modes = {"flat", "sparse", "other"}
  MaxMessages = 2
  Later = {"Choice"}
  MaxOffset = 500
INVARIANTS RoundTrip AccountedIsAdded LookupFinds VisitorAgrees
