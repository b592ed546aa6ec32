\* Generate and check runs over every mix of missing, up-to-date and stale
\* committed dashboards, with an unreadable template and failing writes.
CONSTANTS
  Absent = Absent
  None = None
  SupportedVersions <- MCSupportedVersions
  Templates <- DriftTemplates
  Modes = {"generate", "check"}
  FileKinds = {"missing", "fresh", "stale"}
  IOFailures = TRUE
SPECIFICATION Spec
CHECK_DEADLOCK FALSE
INVARIANTS
  TypeOK
  DriftReportExact
PROPERTIES
  CommittedOnlyRefreshed
  ImplementsDriftCheck
