SPECIFICATION FairSpec
CONSTANTS
  Publishers = {q1}
  Consumers = {c1, c2}
  ModesOf <- SubscribeOnly
  GroupId <- MCGroupId
  Groups = {persist, replaying, counting}
  DefaultGroup = persist
  ReplayGroup = replaying
  NoOwner = NoOwner
  Run = Run
  NoRun = NoRun
  Events = {e1, e2}
  Contents = {prepared, omitted, rejected, unvalidated, nul}
  Verdict <- MCVerdict
  None = None
  Inputs <- MCInputs
  Foreign <- InvalidOrEmpty
  Unstorable = {nul}
  MaxLog = 3
  MaxFaults = 1
  q1 = q1
  c1 = c1
  e1 = e1
  e2 = e2
  prepared = prepared
  omitted = omitted
  rejected = rejected
  unvalidated = unvalidated
  nul = nul
  persist = persist
  counting = counting
PROPERTIES
  DisposedUpToPoison
CHECK_DEADLOCK FALSE
