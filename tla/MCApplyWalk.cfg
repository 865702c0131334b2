CONSTANTS
  Unit <- MCUnit
  Group <- MCGroup
  Plans <- MCPlans
  Options <- MCOptions
SPECIFICATION FairSpec
INVARIANTS
  TypeOK
  FailClosed
  OneVerdictPerUnit
  ServiceUpWhileUsed
  NothingLeftRunning
  GroupsSerialized
  RecordedIffSucceeded
PROPERTIES
  RunEnds
  ImplementsSchedule
