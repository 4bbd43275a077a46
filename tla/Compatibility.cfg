SPECIFICATION Spec
CONSTANTS
  MaxField = 3
  Width <- Widths
  FieldOffsetMod = 8
  Scalars <- Numbers
  FieldTypes <- Types
  Layouts = {"flat", "dynamic"}
  Null = Null
  First <- FirstVersions
  MaxVersions = 2
  MaxDepth = 6
INVARIANTS TypeOK VerdictIsComplete ChangedOnlyWithNotice
PROPERTY Terminates
CHECK_DEADLOCK FALSE
