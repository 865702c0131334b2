CONSTANTS
  Unit <- MCUnit
  Graphs <- MCGraphs
  Configs <- MCConfigs
SPECIFICATION FairSpec
INVARIANTS
  FailClosed
  EveryUnitReported
PROPERTIES
  ImplementsSchedule
  RunEnds
