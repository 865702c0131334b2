SPECIFICATION Spec
CONSTANTS
    Modules <- MCModules
    Tasks = {"build", "test"}
    TestTasks = {"test"}
    Workspaces <- MCWorkspaces
    Paths <- MCPaths
    None = None
    Families <- MCFamilies
CHECK_DEADLOCK FALSE
INVARIANTS
    GatesRunEarlier
    HandoffsKept
    PrerequisitesFirst
    NeverSkipABuild
