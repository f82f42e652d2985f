SPECIFICATION Spec
CONSTANTS
    a = a
    b = b
    sa1 = sa1
    ea1 = ea1
    sa2 = sa2
    ea2 = ea2
    None = None
    NoPeer = NoPeer
    Refused = Refused
    Missing = Missing
    Empty = Empty
    Torn = Torn
    Onions <- MCOnions
    Keys <- MCKeys
    Cards <- MCCards
    Stored <- NewOrImported
    Procs = {t1, t2}
    MayAbandon = TRUE
INVARIANT
    KeysPaired
SYMMETRY
    Symmetry
