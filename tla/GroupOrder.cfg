SPECIFICATION Spec
CONSTANTS
    alice = alice
    bob = bob
    carol = carol
    g1 = g1
    None = None
    NoPeer = NoPeer
    NoGroup = NoGroup
    Nothing = Nothing
    Onions = {alice, bob}
    Keys <- MCKeys
    GroupIds = {g1}
    Old <- BobHasOld
    Losers = {}
    MaxRevision = 2
    Identity <- MCIdentity
    Contacts <- ThroughBob
    Talkers = {bob}
    MaxLines = 2
PROPERTIES
    DeliversMail
