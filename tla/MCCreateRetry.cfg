SPECIFICATION Spec
CONSTANTS
  Assets = {a1}
  Cis = {n1}
  Callers = {p1}
  Request <- MCRequest
  Bodies = {plain, other, bound}
  AssetOf <- MCAssetOf
  Aliases = {exact, coarse}
  Rounded <- MCRounded
  Claims = {}
  ClaimAsset <- MCClaimAsset
  ClaimCi <- MCClaimCi
  PipelineBody <- MCPipelineBody
  Hostname = exact
  None = None
  DraftIds = {d1, d2}
  Deciders = {e1, e2, e3}
  DecisionOf <- MCDecisionOf
  NoDraft = NoDraft
  Identities <- MCIdentities
  AliasClaims <- MCAliasClaims
  Instants = {0, 1, 2}
  MaxConfidence = 2
  MaxEvidence = 3
  Missing = Missing
  a1 = a1
  n1 = n1
  p1 = p1
  p2 = p2
  p3 = p3
  p4 = p4
  p5 = p5
  k1 = k1
  plain = plain
  other = other
  bound = bound
  exact = exact
  coarse = coarse
  d1 = d1
  d2 = d2
  e1 = e1
  e2 = e2
  e3 = e3
INVARIANTS
  RepeatIsNoConflict
CHECK_DEADLOCK FALSE
