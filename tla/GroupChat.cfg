SPECIFICATION FairSpec
CONSTANTS
    alice = alice
    bob = bob
    carol = carol
    g1 = g1
    None = None
    NoPeer = NoPeer
    NoGroup = NoGroup
    Nothing = Nothing
    Onions = {alice, bob, carol}
    Keys <- MCKeys
    GroupIds = {g1}
    Old <- AliceHasOld
    Losers = {bob}
    MaxRevision = 2
    Identity <- MCIdentity
    Contacts <- ThroughBob
    Talkers = {bob}
    MaxLines = 1
INVARIANTS
    TypeOK
    ReportsTrue
PROPERTIES
    SameRevisionIsSafe
    FanOutEnds
