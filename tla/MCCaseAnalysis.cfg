CONSTANTS
  page = page
  view = view
  contract = contract
  video = video
  Analyses = {a1}
  Readers = {r1, r2}
  Direct = {page, view}
  Processed = {contract, video}
  Present = {contract, view}
  Kind <- KindOf
  Texts = {"text"}
  Null = Null
  ReservationIds <- CallIds
  Requests <- StageRequests
  Usages <- SomeUsages
  Limits <- SmallLimits
  Concurrency = 2
  MaxEvents = 10
  MaxRevision = 4
  MaxMishaps = 1
SYMMETRY Symmetry
SPECIFICATION Spec
INVARIANTS TypeOK LogReplays SpendingIsCovered LogHasRoom ReservationsAreCalls SnapshotKnowsPublished
PROPERTIES BudgetSpec SnapshotIsOfItsCase
CHECK_DEADLOCK FALSE
