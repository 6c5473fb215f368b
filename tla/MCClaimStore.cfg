SPECIFICATION FairSpec
CONSTANTS
  Attempts = {a1, a2, a3}
  Events = {e1, e2}
  Contents = {prepared, omitted, rejected, unvalidated}
  Verdict <- MCVerdict
  None = None
  Spellings = {lower, upper}
  Spelling <- MCSpelling
  LockKeys = {k1, k2}
  LockOf <- MCLockOf
  NoOwner = NoOwner
  e1 = e1
  e2 = e2
  prepared = prepared
  omitted = omitted
  rejected = rejected
  unvalidated = unvalidated
  lower = lower
  upper = upper
  k1 = k1
  k2 = k2
INVARIANTS
  TypeOK
  AcceptedOnce
  LosersAgreeWithStore
  IdentityIsOneUnit
  AcknowledgedIsDurable
PROPERTIES
  ImplementsAtomicClaim
  EveryCallEnds
