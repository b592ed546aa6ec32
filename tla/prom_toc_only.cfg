\* --toc alone disables the default outputs and writes nothing.
CONSTANTS
  Absent = Absent
  None = None
  Old = Old
  Torn = Torn
  PriorFiles <- NoPriorDocs
  WriteFailures = FALSE
  Inputs <- SingleInputs
  FlagSets <- TocOnly
SPECIFICATION Spec
CHECK_DEADLOCK FALSE
INVARIANT
  DocumentsEveryMetric
