CONSTANTS
  Clone = {"ci", "desk"}
  Member = {"main", "plugin"}
  Module <- MCModule
  MemberOf <- MCMemberOf
  DependsOn <- MCDependsOn
  Rank <- MCRank
  Developed <- MCDeveloped
  Hosted = {"lib"}
  PushPolicies = {"Disabled", "BranchAndTags", "TagsOnly"}
  Released = {"lib", "app"}
  RunOptions <- MCRunOptions
  MaxVersion = 3
  MaxEdits = 1
  MaxRuns = 2
SPECIFICATION Spec
ACTION_CONSTRAINT PrivateStepsFirst
CHECK_DEADLOCK FALSE
INVARIANTS TagDeclaresVersion HostedIsPushed PublishedKeepsEdits TagNamesArtifact
PROPERTY ReleasedAsTagged
