------------------------------- MODULE PeerBook -------------------------------
(***************************************************************************)
(* The peer book of storage.rs: at most one record for each onion address. *)
(* PeerBook.peers is a vector kept sorted by onion, in which upsert and    *)
(* find take the one record of that onion; here it is a function from      *)
(* onions.  Timestamps, display names and the source label decide nothing  *)
(* and are left out.                                                       *)
(***************************************************************************)
CONSTANTS
    Onions,    \* validated onion addresses
    Keys,      \* encoded public keys
    None,      \* Option::None
    NoPeer     \* the onion has no record

PeerRecord == [signing : Keys \cup {None}, encryption : Keys \cup {None}]

ASSUME PeerBookAssumption == None \notin Keys /\ NoPeer \notin PeerRecord

Books == [Onions -> PeerRecord \cup {NoPeer}]

EmptyBook == [o \in Onions |-> NoPeer]

\* A contact card of an invite file, as far as the peer book keeps it.
ContactCard == [onion : Onions, signing : Keys, encryption : Keys]

\* The arguments of remember_peer: a card that is imported, or ...
Remember ==
    [onion : Onions, signing : Keys \cup {None}, encryption : Keys \cup {None}]

\* ... what the other callers have, who know only an address.
WithoutKeys(o) == [onion |-> o, signing |-> None, encryption |-> None]

\* if new.is_some() { existing = new }
Given(new, old) == IF new # None THEN new ELSE old

SigningKey(book, o) == IF book[o] = NoPeer THEN None ELSE book[o].signing
EncryptionKey(book, o) == IF book[o] = NoPeer THEN None ELSE book[o].encryption

\* Mutant of Upsert: a signing key once known is kept, the other key replaced.
UpsertKeepsSigning(book, r) ==
    [book EXCEPT ![r.onion] =
        [signing    |-> Given(SigningKey(book, r.onion), r.signing),
         encryption |-> Given(r.encryption, EncryptionKey(book, r.onion))]]

Upsert(book, r) ==
    [book EXCEPT ![r.onion] =
        [signing    |-> Given(r.signing, SigningKey(book, r.onion)),
         encryption |-> Given(r.encryption, EncryptionKey(book, r.onion))]]
===============================================================================
