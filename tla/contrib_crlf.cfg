\* Check runs against committed files that hold the generated artifact with
\* CRLF line endings.
CONSTANTS
  Absent = Absent
  NotAString = NotAString
  None = None
  SupportedVersions <- MCSupportedVersions
  Documents <- DriftDocuments
  Modes = {"check"}
  FormatFlags = {"both"}
  FileKinds = {"fresh", "crlf"}
  IOFailures = FALSE
  MaxRuns = 1
SPECIFICATION Spec
CHECK_DEADLOCK FALSE
INVARIANTS
  DriftReportExact
