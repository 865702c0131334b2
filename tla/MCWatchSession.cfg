SPECIFICATION LiveSpec
CONSTANTS
    lib = lib
    app = app
    Modules <- MCModules
    Deps <- MCDeps
    Below <- MCDeps
    Scope = {app}
    Contents = {1, 2}
    None = None
    Partial = Partial
    Artifact = Artifact
    MaxEdits = 2
    MaxDrops = 1
    MaxSessions = 2
CHECK_DEADLOCK FALSE
INVARIANTS
    HitsAreHonest
PROPERTIES
    CatchesUp
