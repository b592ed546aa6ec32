\* Filtering, renumbering and relayout of every small template, one
\* generate run each.
CONSTANTS
  Absent = Absent
  None = None
  SupportedVersions <- MCSupportedVersions
  Templates <- LayoutTemplates
  Modes = {"generate"}
  FileKinds = {"stale"}
  IOFailures = FALSE
SPECIFICATION Spec
CHECK_DEADLOCK FALSE
INVARIANTS
  PanelsFollowTemplate
  LayoutStaysRowGrid
