\* Validation, floor selection, exclusion, tag uniqueness and monotone growth
\* over all small documents and documents breaking each rule of
\* validate_schema, one generate run each.
CONSTANTS
  Absent = Absent
  NotAString = NotAString
  None = None
  SupportedVersions <- MCSupportedVersions
  Documents <- ContribDocuments
  Modes = {"generate"}
  FormatFlags = {"both"}
  FileKinds = {"stale"}
  IOFailures = FALSE
  MaxRuns = 1
SPECIFICATION Spec
CHECK_DEADLOCK FALSE
INVARIANTS
  ArtifactIsFloorProjection
  ArtifactTagsUnique
  MonotoneGrowth
  ValidationDecidesRules
