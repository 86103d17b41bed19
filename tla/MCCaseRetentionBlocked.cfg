SPECIFICATION FairSpec
CONSTANTS
  g1 = g1  u1 = u1
  c1 = c1  c2 = c2
  w1 = w1  w2 = w2
  a1 = a1
  Guests = {g1}
  Users = {u1}
  Cases = {c1, c2}
  Artifacts = {}
  Workers = {w1}
  FirstOwner <- GuestAndAccount
  Limit = 2
  MaxFaults = 1
  MaxCrashes = 0
  Nobody = Nobody
PROPERTIES EveryDeletionFinishes
