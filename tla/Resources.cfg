CONSTANTS
    app = app
    lib = lib
    core = core
    Resource <- ThreeResources
    Deps <- Layered
    MaxNested = 1
    MaxMisfit = 1
SPECIFICATION Spec
INVARIANTS
    TypeOK
    StartingIsCalled
    StopReaches
    WaitersWoken
    ListAgrees
    NoRunaway
CHECK_DEADLOCK FALSE
