CONSTANTS
  Leases = {1, 2, 3}
  Agents = {1, 2, 3}
  MaxDepth = 2
CHECK_DEADLOCK FALSE
SPECIFICATION WalkSpec
INVARIANTS
  AcceptsOnlySound
  RefusesOnlyUnsound
  EachIdentityVerifiedOnce
