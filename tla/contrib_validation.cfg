\* Generate runs over documents that break each rule of the data model.
CONSTANTS
  Absent = Absent
  NotAString = NotAString
  None = None
  SupportedVersions <- MCSupportedVersions
  Documents <- MalformedDocuments
  Modes = {"generate"}
  FormatFlags = {"both"}
  FileKinds = {"stale"}
  IOFailures = FALSE
  MaxRuns = 1
SPECIFICATION Spec
CHECK_DEADLOCK FALSE
INVARIANTS
  OnlyWellFormedGenerated
