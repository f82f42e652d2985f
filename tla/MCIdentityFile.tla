---------------------------- MODULE MCIdentityFile ----------------------------
(* One identity.json, new or from an older version, that lacks both key pairs,
   the encryption keys only, or nothing. *)
EXTENDS IdentityFile, TLC

CONSTANTS a, b, g1, g2

Bare == [onion |-> a, signing |-> None, encryption |-> None]

Signed == [onion |-> b, signing |-> b, encryption |-> None]

NewOrOld == {Missing, Bare, Signed}

OnlyBare == {Bare}

Symmetry == Permutations(Procs)
===============================================================================
