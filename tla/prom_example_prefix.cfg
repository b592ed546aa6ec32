\* find_best_example takes the sample of pgexporter_database_size as the
\* example of pgexporter_database.
CONSTANTS
  Absent = Absent
  None = None
  Old = Old
  Torn = Torn
  PriorFiles <- NoPriorDocs
  WriteFailures = FALSE
  Inputs <- PrefixInputs
  FlagSets <- DetailedFlags
SPECIFICATION Spec
CHECK_DEADLOCK FALSE
INVARIANT
  ExampleIsOwnSample
