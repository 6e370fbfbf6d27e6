CONSTANTS
  all = all
  rw = rw
  ro = ro
  net = net
  tool = tool
  base = base
  otherBase = otherBase
  context = context
  child1 = child1
  child2 = child2
  key1 = key1
  key2 = key2
  root = root
  rootKey = rootKey
  LeaseIds = {1, 2, 3}
  NoAgent = NoAgent
  Agents = {root, child1, child2}
  RootAgent = root
  Keys = {rootKey, key1, key2}
  RootKey = rootKey
  Capabilities = {all, rw, ro, net}
  All = all
  Narrower <- MCNarrower
  Tools = {tool}
  Bases = {base, otherBase}
  Contexts = {context}
  MissionCapabilities = {rw}
  MissionTools = {tool}
  MissionExpiry = 2
  RootTerms <- MCRootTerms
  Offers <- MCOffers
  MaxDepth = 2
  MaxTime = 2
  MaxLag = 1
  MaxGeneration = 2
CHECK_DEADLOCK FALSE
SPECIFICATION Spec
SYMMETRY MCSymmetry
INVARIANTS
  OnlyInactivityBreaksAChain
