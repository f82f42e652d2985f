------------------------------ MODULE MCPeerStore -----------------------------
(* peers.json on small instances: a has two invites in circulation with different
   keys (Identity::load makes keys for an identity.json that has none, and two
   processes may both do so); b is known by its onion address alone. *)
EXTENDS PeerStore, TLC

CONSTANTS a, b, sa1, ea1, sa2, ea2

MCOnions == {a, b}

MCKeys == {sa1, ea1, sa2, ea2}

Card(o, s, e) == [onion |-> o, signing |-> s, encryption |-> e]

MCCards == {Card(a, sa1, ea1), Card(a, sa2, ea2)}

\* The book after the first invite of a was imported.
Imported == {Upsert(EmptyBook, Card(a, sa1, ea1))}

NewOrImported == {Missing} \cup Imported

Symmetry == Permutations(Procs)
===============================================================================
