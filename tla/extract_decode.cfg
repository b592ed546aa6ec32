\* The decoding loop against the spec's adapter over every small header.
CONSTANTS
  Error = Error
  None = None
  Headers <- MCHeaders
SPECIFICATION Spec
CHECK_DEADLOCK FALSE
INVARIANTS
  TypeOK
  DecodeMatchesSpec
PROPERTIES
  ExtractionTerminates
