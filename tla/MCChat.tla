------------------------------- MODULE MCChat --------------------------------
(* Direct messages between two users: who starts with which contacts, and
   which invites are in circulation. *)
EXTENDS Chat

CONSTANTS alice, bob

MCIdentity ==
    [n \in Onions |-> [onion |-> n, signing |-> <<"sign", n>>, encryption |-> <<"enc", n>>]]

\* Keys that bob's identity.json has no longer, or never had: the other ones
\* made when two processes filled in an identity.json without keys.
OldCard == [onion |-> bob, signing |-> <<"old sign", bob>>, encryption |-> <<"old enc", bob>>]

MCKeys == {MCIdentity[n].signing : n \in Onions}
    \cup {MCIdentity[n].encryption : n \in Onions} \cup {OldCard.signing, OldCard.encryption}

Strangers == [n \in Onions |-> EmptyBook]

NoInvites == {}

OldInvite == {OldCard}

BobToAlice == {<<bob, alice>>}
===============================================================================
