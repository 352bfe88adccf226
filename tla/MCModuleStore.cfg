CONSTANTS
    Modules <- MCModules
    Entry = "main"
    Imports <- MCImports
    Deployments <- MCDeployments
    MaxVersion = 3
    NumQueries = 1
    MaxFailures = 1
    StaleLocals = TRUE
SPECIFICATION Spec
CHECK_DEADLOCK FALSE
INVARIANTS JobsRunFresh ImportsAlive RegisteredIsWhole NothingHalfLoaded
PROPERTIES StaleIsFreed
