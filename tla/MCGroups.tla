------------------------------- MODULE MCGroups -------------------------------
(* Three users and two groups: alice and bob have each other's and carol's
   invites; carol has none, so that she is only ever a member. *)
EXTENDS Groups

CONSTANTS alice, bob, carol, g1, g2

MCSigning == [n \in Onions |-> <<"sign", n>>]

MCKeys == {MCSigning[n] : n \in Onions}

Friends ==
    [n \in Onions |-> [m \in Onions |->
        IF m = n \/ n = carol THEN NoPeer
        ELSE [signing |-> MCSigning[m], encryption |-> None]]]

\* alice has a group of an older version, with nothing but its members.
AliceHasOld == [n \in Onions |-> [g \in GroupIds |->
    IF n = alice /\ g = g1
    THEN [members |-> {bob}, owner |-> None, key |-> None, revision |-> 1]
    ELSE NoGroup]]
===============================================================================
