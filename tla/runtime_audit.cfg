CONSTANTS
  all = all
  rw = rw
  ro = ro
  tool = tool
  base = base
  otherBase = otherBase
  context = context
  otherContext = otherContext
  root = root
  rootKey = rootKey
  a1 = a1
  a2 = a2
  a3 = a3
  o1 = o1
  o2 = o2
  u1 = u1
  NoAgent = NoAgent
  Agents = {root}
  RootAgent = root
  Keys = {rootKey}
  RootKey = rootKey
  Capabilities = {all, rw, ro}
  All = all
  Narrower <- MCNarrower
  Tools = {tool}
  Bases = {base, otherBase}
  Contexts = {context, otherContext}
  MissionCapabilities = {rw}
  MissionTools = {tool}
  MissionExpiry = 2
  RootTerms <- MCRootTerms
  Offers <- MCOffers
  Required = {ro}
  MaxDepth = 2
  LeaseIds = {1}
  MaxTime = 0
  MaxLag = 1
  MaxGeneration = 1
  TokenValidity = 1
  CertificateValidity = 1
  MaxSteps = 2
  MaxFaults = 2
  Auditors = {u1}
  Attempts = {a1, a2}
  Operators = {}
  MaxActions = 2
CHECK_DEADLOCK FALSE
SPECIFICATION RuntimeSpec
SYMMETRY MCSymmetry
INVARIANTS
  AuditIsSound
  AuditIsFair
