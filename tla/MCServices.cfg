CONSTANTS
  Null = Null
  MaxTime = 2
  Turns = {1, 2, 3}
  Keys = {k1, k2}
  Texts = {plain, pii}
  Warned = {pii}
  TheCase = demo
  PendingTtl = 1
  CompletedRetention = 2
  MaxRecords = 2
  AckTtl = 1
  AckRetention = 1
  MaxAcks = 1
  WindowLength = 1
  Live = TRUE
  Offers = {o1, o2}
  Clicks = {k1, k2}
  ConfirmationTtl = 1
  MaxConfirmations = 1
  Actors = {u1, u2, u3}
  Sources = {s1}
  TokenCost = 2
  Burst = 2
  IdleTtl = 4
  MaxBuckets = 3
  Scopes = {c1, c2}
  CounterWindow = 2
  CounterMax = 2
  MaxCounters = 1
  Says = {1, 2, 3}
  SayKeys = {k1, k2}
  Pages = {pg}
  TurnRetention = 2
  OfferTtl = 1
  MaxTurns = 2
  MaxChanges = 1
  Users = {u1}
  Passwords = {p1, p2}
  Calls = {1, 2}
  MaxSessions = 2
  Codes = {k1, k2}
  Runs = {1, 2}
  Outputs = {k1, k2}
  MaxRevision = 1
  Tabs = {k1, k2}
  CaseImageBytes = 2
  MaxReceipts = 2
  Posts = {1, 2, 3}
  PostKeys = {k1, k2}
  Payloads = {l1, l2}
  FollowUps = {f1, f2}
  Concurrency = 2
  Files = {photo, scan}
  MaxCases = 1
  MaxUploads = 2
  MaxStrays = 0
  MaxVisits = 1
  Processes = {1, 2}
  Pids = {k1, k2}
  Savers = {w1, w2}
  Cities = {l1}
  LastToday = 2
  photo = photo
  scan = scan
  clip = clip
  listing = listing
  wall = wall
  monday = monday
SPECIFICATION Spec
INVARIANTS ServicesTypeOK OneAnswer MarksFollowWork RatesHold AccountsHold ResultsHangTogether VerdictsHold
PROPERTIES StepsAreAuthorized
SYMMETRY ServicesSymmetry
CHECK_DEADLOCK FALSE
