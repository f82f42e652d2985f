SPECIFICATION Spec
CONSTANTS
    alice = alice
    bob = bob
    None = None
    NoPeer = NoPeer
    Nothing = Nothing
    Onions = {alice, bob}
    Keys <- MCKeys
    Identity <- MCIdentity
    OldInvites <- NoInvites
    Contacts <- Strangers
    Talks <- BobToAlice
    Losers = {}
    MaxLines = 1
PROPERTIES
    ListensUntilStopped
