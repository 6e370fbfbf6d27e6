CONSTANTS
  all = all
  rw = rw
  base = base
  context = context
  root = root
  child1 = child1
  child2 = child2
  child3 = child3
  rootKey = rootKey
  key1 = key1
  key2 = key2
  key3 = key3
  NoAgent = NoAgent
  Agents = {root, child1, child2}
  RootAgent = root
  Keys = {rootKey, key1, key2}
  RootKey = rootKey
  Capabilities = {all, rw}
  All = all
  Narrower <- MCNarrower
  Tools = {}
  Bases = {base}
  Contexts = {context}
  MissionCapabilities = {rw}
  MissionTools = {}
  MissionExpiry = 2
  RootTerms <- MCRootTerms
  Offers <- MCOffers
  MaxDepth = 2
  LeaseIds = {1, 2, 3}
  MaxTime = 1
  MaxLag = 0
  MaxGeneration = 2
CHECK_DEADLOCK FALSE
SPECIFICATION LoopSpec
SYMMETRY MCSymmetry
PROPERTIES
  ImplementsKernel
