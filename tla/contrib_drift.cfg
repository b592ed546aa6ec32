\* Two invocations in a row, generate or check, over every mix of missing,
\* up-to-date and stale committed files and every format flag, with writes
\* that may raise before or after truncating the file.
CONSTANTS
  Absent = Absent
  NotAString = NotAString
  None = None
  SupportedVersions <- MCDriftVersions
  Documents <- DriftDocuments
  Modes = {"generate", "check"}
  FormatFlags = {"both", "yaml_only", "json_only", "conflict"}
  FileKinds = {"missing", "fresh", "stale"}
  IOFailures = TRUE
  MaxRuns = 2
SPECIFICATION Spec
CHECK_DEADLOCK FALSE
INVARIANTS
  TypeOK
  DriftReportExact
  GeneratedPrefixFresh
PROPERTIES
  CommittedOnlyRefreshed
  ImplementsDriftCheck
