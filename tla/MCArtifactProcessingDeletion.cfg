CONSTANTS
  Artifacts = {a1}
  Jobs = {j1}
  Workers = {w1}
  Clients = {p1, p2}
  Images = {}
  Null = Null
  Uploads <- OnlyVideo
  ImageBytes = 1
  MaxAttempts = 2
  MaxUploads = 2
  Quota = 2
  MaxCrashes = 0
  MaxStalls = 0
  MaxFaults = 0
SYMMETRY Symmetry
SPECIFICATION Spec
INVARIANTS NoJobAfterDeletion
