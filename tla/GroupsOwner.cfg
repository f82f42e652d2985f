SPECIFICATION Spec
CONSTANTS
    alice = alice
    bob = bob
    carol = carol
    g1 = g1
    g2 = g2
    None = None
    NoPeer = NoPeer
    NoGroup = NoGroup
    Closed = Closed
    Onions = {alice, bob, carol}
    Keys <- MCKeys
    GroupIds = {g1, g2}
    Procs = {p1}
    Signing <- MCSigning
    Contacts <- Friends
    Old <- AliceHasOld
    Losers = {carol}
    MaxRevision = 2
INVARIANTS
    TypeOK
    OneOwner
    ExportsVerify
    Agreement
    LatestIsImportable
PROPERTY
    NeverBack
