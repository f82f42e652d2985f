----------------------------- MODULE MCGroupChat ------------------------------
(* Two or three users.  bob and the others have each other's invites; alice and
   carol have each other's address and no keys. *)
EXTENDS GroupChat

CONSTANTS alice, bob, carol, g1

MCIdentity ==
    [n \in Onions |-> [onion |-> n, signing |-> <<"sign", n>>, encryption |-> <<"enc", n>>]]

MCKeys == UNION {{MCIdentity[n].signing, MCIdentity[n].encryption} : n \in Onions}

KnownTo(n, m) ==
    IF bob \in {n, m}
    THEN [signing |-> MCIdentity[m].signing, encryption |-> MCIdentity[m].encryption]
    ELSE [signing |-> None, encryption |-> None]

ThroughBob ==
    [n \in Onions |-> [m \in Onions |-> IF m = n THEN NoPeer ELSE KnownTo(n, m)]]

HasOld(u, ms) == [n \in Onions |-> [g \in GroupIds |->
    IF n = u
    THEN [members |-> ms, owner |-> None, key |-> None, revision |-> 1]
    ELSE NoGroup]]

AliceHasOld == HasOld(alice, {bob})

BobHasOld == HasOld(bob, Onions)
===============================================================================
