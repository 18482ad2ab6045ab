SPECIFICATION Spec
CONSTANTS
  Projects = {p1}
  NoProject = NoProject
  Files = {f1}
  Contents = {a}
  Reports <- DriftingReports
  Index <- OneRequirement
  MaxRevision = 1
  MaxReports = 4
PROPERTIES
  HistoryIsKept
