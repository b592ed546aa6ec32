\* Documentation of one or two pgexporter metrics of every family under
\* every command line but --toc alone, and of a core and an extension
\* metric under every extra-info file of up to four lines, over no earlier
\* output or an earlier one, with writes that may raise.
CONSTANTS
  Absent = Absent
  None = None
  Old = Old
  Torn = Torn
  PriorFiles <- PriorDocs
  WriteFailures = TRUE
  Inputs <- DocInputs
  FlagSets <- SectionFlags
SPECIFICATION Spec
CHECK_DEADLOCK FALSE
INVARIANTS
  TypeOK
  DocumentsEveryMetric
  ManualSectionsByPrefix
  ExtraInfoAttached
  ManualTablesKeepDetails
