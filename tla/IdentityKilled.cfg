SPECIFICATION Spec
CONSTANTS
    a = a
    b = b
    g1 = g1
    g2 = g2
    None = None
    NoIdentity = NoIdentity
    Refused = Refused
    Missing = Missing
    Empty = Empty
    Torn = Torn
    Procs = {t1}
    Draws = {a, g1, g2}
    Commands = {"load"}
    Stored <- OnlyBare
    MayAbandon = TRUE
PROPERTY
    IdentityPersists
