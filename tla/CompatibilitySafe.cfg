SPECIFICATION Spec
CONSTANTS
  MaxField = 3
  Width <- Widths
  FieldOffsetMod = 65536
  Scalars <- Numbers
  FieldTypes <- Types
  Layouts = {"flat", "dynamic"}
  Null = Null
  First <- FirstVersions
  MaxVersions = 2
  MaxDepth = 6
INVARIANT SafeChangesAccepted
CHECK_DEADLOCK FALSE
