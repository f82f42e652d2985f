SPECIFICATION FairSpec
CONSTANTS
    Procs = {p1}
    DataBlocks = TRUE
PROPERTY
    ClosedIsNoticed
