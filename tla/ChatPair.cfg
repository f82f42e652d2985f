SPECIFICATION FairSpec
CONSTANTS
    alice = alice
    bob = bob
    None = None
    NoPeer = NoPeer
    Nothing = Nothing
    Onions = {alice, bob}
    Keys <- MCKeys
    Identity <- MCIdentity
    OldInvites <- OldInvite
    Contacts <- Strangers
    Talks <- BobToAlice
    Losers = {alice}
    MaxLines = 2
INVARIANTS
    TypeOK
    MutualContacts
    VerifiableWhenImported
PROPERTIES
    DeliversMail
    ArrivedIsShown
