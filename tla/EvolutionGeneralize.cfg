SPECIFICATION Spec
CONSTANTS
  MaxField = 5
  Width <- Widths
  Floats = {"float"}
  Value <- Bits
  Patterns <- PatternsOf
  Default <- DefaultMixed
  Close <- Zeros
  NonFinite <- NonFinitePatterns
  Junk = Junk
  Beyond <- AllOnes
  Scalars <- Numbers
  Schemas <- FirstSchemas
  NewTypes = {"int32"}
  Generalized = {"flat"}
  MaxVersions = 2
INVARIANT CorrectionsAreSized
CHECK_DEADLOCK FALSE
