CONSTANTS
  Artifacts = {a1}
  Jobs = {j1}
  Workers = {w1}
  Clients = {p1}
  Images = {i1}
  Null = Null
  Uploads <- OnlyVideo
  ImageBytes = 1
  MaxAttempts = 2
  MaxUploads = 2
  Quota = 1
  MaxCrashes = 1
  MaxStalls = 0
  MaxFaults = 1
SPECIFICATION FairSpec
INVARIANTS PublishedIsReadable QuotaHolds
PROPERTIES UploadIsAnswered
