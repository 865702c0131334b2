CONSTANTS
  GateIds <- MCIds
  DependencyMaps <- MCMaps
SPECIFICATION WalkSpec
INVARIANTS
  WalkIsFixpoint
  FailClosedGate
CHECK_DEADLOCK FALSE
