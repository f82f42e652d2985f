SPECIFICATION Spec
CONSTANTS
    a = a
    b = b
    g1 = g1
    g2 = g2
    None = None
    NoIdentity = NoIdentity
    Refused = Refused
    Missing = Missing
    Empty = Empty
    Torn = Torn
    Procs = {t1, t2}
    Draws = {a, b, g1, g2}
    Commands = {"create", "load"}
    Stored <- NewOrOld
    MayAbandon = TRUE
INVARIANTS
    TypeOK
    NeverMixed
    KeysAgree
SYMMETRY
    Symmetry
