CONSTANTS
  Clone = {"desk"}
  Member = {"main", "plugin"}
  Module <- MCModule
  MemberOf <- MCMemberOf
  DependsOn <- MCDependsOn
  Rank <- MCRank
  Developed <- MCDeveloped
  Hosted = {}
  PushPolicies = {"BranchAndTags"}
  Released = {"lib", "app"}
  RunOptions <- MCPublishOnly
  MaxVersion = 3
  MaxEdits = 1
  MaxRuns = 2
SPECIFICATION Spec
CHECK_DEADLOCK FALSE
PROPERTY RerunPublishes
