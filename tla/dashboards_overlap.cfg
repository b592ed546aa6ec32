\* Relayout of every small template of disjoint panels, one generate run each.
CONSTANTS
  Absent = Absent
  None = None
  SupportedVersions <- MCSupportedVersions
  Templates <- LayoutTemplates
  Modes = {"generate"}
  FileKinds = {"stale"}
  IOFailures = FALSE
SPECIFICATION Spec
CHECK_DEADLOCK FALSE
INVARIANTS
  KeptPanelsDisjoint
