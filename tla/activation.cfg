CONSTANTS
  Capabilities = {0, 1, 2, 3}
  All = 0
  Narrower <- MCNarrower
  Tools <- MCTools
  Registries <- MCRegistries
  Missions <- MCMissions
  Specs <- MCSpecs
  Delegables <- MCDelegables
  MaxRequestedTools = 2
  MaxRequestedCapabilities = 2
  MaxAgentSteps = 1
  MaxReplacements = 2
  MaxRenewals = 1
CHECK_DEADLOCK FALSE
SPECIFICATION ActivationSpec
INVARIANTS
  OneGeneration
  DriftIsSeen
  RunsBoundTool
  NothingElseRefuses
