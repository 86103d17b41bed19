CONSTANTS
  Artifacts = {a1, a2}
  Jobs = {j1, j2}
  Workers = {w1}
  Clients = {p1, p2}
  Images = {i1}
  Null = Null
  Uploads <- OnlyContract
  ImageBytes = 1
  MaxAttempts = 2
  MaxUploads = 2
  Quota = 2
  MaxCrashes = 0
  MaxStalls = 0
  MaxFaults = 0
SYMMETRY Symmetry
SPECIFICATION Spec
INVARIANTS CandidateIsOnDisk NoStrayFiles
PROPERTIES RecordsOnlyMoveOn
