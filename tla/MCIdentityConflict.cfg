SPECIFICATION FairSpec
CONSTANTS
  Transactions = {t1, t2, t3, t4}
  AssetOf <- MCAssetOf
  CiOf <- MCCiOf
  HostOf <- MCHostOf
  Assets = {x1, x2}
  Cis = {i1, i2}
  Hosts = {h}
  NoAsset = NoAsset
  t1 = t1
  t2 = t2
  t3 = t3
  t4 = t4
  x1 = x1
  x2 = x2
  i1 = i1
  i2 = i2
  h = h
INVARIANTS
  AcceptedAgreesWithCi
CHECK_DEADLOCK FALSE
