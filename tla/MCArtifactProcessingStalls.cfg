CONSTANTS
  Artifacts = {a1}
  Jobs = {j1}
  Workers = {w1, w2}
  Clients = {p1}
  Images = {}
  Null = Null
  Uploads <- OnlyContract
  ImageBytes = 1
  MaxAttempts = 2
  MaxUploads = 2
  Quota = 2
  MaxCrashes = 0
  MaxStalls = 1
  MaxFaults = 1
SYMMETRY Symmetry
SPECIFICATION Spec
INVARIANTS TypeOK SucceededMeansSettled
PROPERTIES QueueSpec
