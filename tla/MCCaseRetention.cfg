SPECIFICATION Spec
CONSTANTS
  g1 = g1  u1 = u1
  c1 = c1  c2 = c2
  w1 = w1  w2 = w2
  a1 = a1
  Guests = {g1}
  Users = {u1}
  Cases = {c1}
  Artifacts = {a1}
  Workers = {w1, w2}
  FirstOwner <- GuestOnly
  Limit = 2
  MaxFaults = 2
  MaxCrashes = 1
  Nobody = Nobody
INVARIANTS TypeOK CompletedMeansErased LiveCaseIsReadable
PROPERTIES AccountCasesAreKept OneRunPerRequest
SYMMETRY Symmetry
