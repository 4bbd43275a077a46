SPECIFICATION Spec
CONSTANTS
  MaxField = 5
  Width <- Widths
  Floats = {"float"}
  Value <- Bits
  Patterns <- PatternsOf
  Default <- DefaultMixed
  Close <- Zeros
  NonFinite <- NonFinitePatterns
  Junk = Junk
  Beyond <- AllOnes
  Scalars <- Numbers
  Schemas <- FirstSchemas
  NewTypes = {"int32"}
  Generalized = {"sparse"}
  MaxVersions = 2
INVARIANTS TypeOK EveryReaderReads EveryVisitorReads CorrectionsAreSized ExplicitRecorded
CHECK_DEADLOCK FALSE
