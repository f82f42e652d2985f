SPECIFICATION Spec
CONSTANTS
    x = x
    y = y
    z = z
    nothing = nothing
    Refused = Refused
    Missing = Missing
    Empty = Empty
    Torn = Torn
    Values <- MCValues
    Default = {}
    Requests <- MCRequests
    Apply <- MCApply
    Stored <- NewOrSaved
    Procs = {t1}
    MayAbandon = TRUE
INVARIANTS
    TypeOK
    NeverTorn
PROPERTIES
    CopySurvives
    OnlyAbandonLoses
