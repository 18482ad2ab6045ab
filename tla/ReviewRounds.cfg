SPECIFICATION Spec
CONSTANTS
  Projects = {p1, p2}
  NoProject = NoProject
  Files = {f1}
  Contents = {a, b}
  Reports <- MixedReports
  Index <- OneRequirement
  MaxRevision = 2
  MaxReports = 3
SYMMETRY ProjectSymmetry
INVARIANTS
  TypeOK
  ApprovedIsFreshlyRead
  ApprovalClosesLedger
  LedgerIsLastReview
PROPERTIES
  SummaryIsTheLedger
