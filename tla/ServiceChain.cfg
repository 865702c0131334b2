CONSTANTS
  Unit <- MCUnit
  Group <- MCGroup
  Plans <- DevPlans
  Options <- DevOptions
SPECIFICATION Spec
INVARIANT
  TornDownAfterDependents
