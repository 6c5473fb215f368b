SPECIFICATION FairSpec
CONSTANTS
  Procs = {p1, p2}
  Runs = {r1}
  RunOf <- MCRunOf
  Events = {e1, e2}
  Contents = {prepared, omitted, unvalidated}
  Verdict <- MCVerdict
  None = None
  Versions = {v1, v2, v3}
  Fixtures <- MCFixtures
  NoVersion = NoVersion
  r1 = r1
  e1 = e1
  e2 = e2
  prepared = prepared
  omitted = omitted
  unvalidated = unvalidated
  v1 = v1
  v2 = v2
  v3 = v3
INVARIANTS
  TypeOK
  ExecutionsAreExclusive
  RowsAreAPrefix
  LossIsDetectable
  SuccessIsComplete
  KillSwitchHolds
PROPERTIES
  EveryBatchEnds
CHECK_DEADLOCK FALSE
