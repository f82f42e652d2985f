SPECIFICATION FairSpec
CONSTANTS
    Procs = {p1, p2}
    DataBlocks = FALSE
INVARIANTS
    TypeOK
    InStep
    ServingIsPublished
    KeyOnlyToTor
    CleanExit
PROPERTY
    LeavesWhenTold
