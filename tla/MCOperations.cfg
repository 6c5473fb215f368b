SPECIFICATION Spec
CONSTANTS
  Checks = {c1}
  Latencies = {l1}
  ParentOf <- MCParentOf
  Own <- MCOwn
  Events = {w1, x1}
  Foreign = {x1}
  Standing = std
  Generators = {g1}
  RunOf <- MCRunOf
  MaxTopic = 1
  None = None
  Migrators = {mg1, mg2}
  Checkers = {rc1, rc2}
  Tables = {t1, t2}
  MaxWrites = 1
  Nobody = Nobody
  Components = {im1}
  Recipes = {r1, r2}
  Unsteady = {r2}
  NoImage = NoImage
  MaxEdits = 2
  Bootstraps = {b1, b2}
  SecretCount = 1
  Launches = {rg1, rg2}
  Former = Former
  Absent = Absent
  MaxChanges = 1
  Commits = {h1, h2}
  NoCommit = NoCommit
  MaxOwnSmokes = 1
  Fast = {f1}
  Recovery = {y1}
  MaxLog = 2
  c1 = c1
  l1 = l1
  w1 = w1
  x1 = x1
  g1 = g1
  std = std
  mg1 = mg1
  mg2 = mg2
  rc1 = rc1
  rc2 = rc2
  t1 = t1
  t2 = t2
  im1 = im1
  r1 = r1
  r2 = r2
  b1 = b1
  b2 = b2
  rg1 = rg1
  rg2 = rg2
  h1 = h1
  h2 = h2
  f1 = f1
  y1 = y1
INVARIANTS
  TypeOK
  PassedIsGone
  RecordedIsThere
  RecoveryComparesItsOwn
  LockedImagesPassedTheGate
  PassBindsOneRuntime
  ReceiptIsKept
  PassIsAboutOneCommit
  SmokePassProvesPersistence
PROPERTIES
  CheckEnds
CHECK_DEADLOCK FALSE
