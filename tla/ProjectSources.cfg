SPECIFICATION FairSpec
CONSTANTS
  Paths = {design, readme, code}
  FirstManifest = design
  SecondManifest = readme
  DesignDocs = {readme}
  Contents = {"linked", "plain"}
  Absent = Absent
  Links <- ManifestLinks
  Projects = {p1}
  Operations = {o1, o2}
  Nobody = Nobody
  Checkouts <- ThreeCheckouts
  MaxEdits = 1
  MaxRevision = 2
INVARIANTS
  TypeOK
  CheckpointKeepsDocuments
PROPERTIES
  PromotionKeepsDocuments
  TurnsAreAnswered
CHECK_DEADLOCK FALSE
