---------------------------- MODULE PeerBookProofs ----------------------------
(***************************************************************************)
(* Facts about PeerBook::upsert, for any onions and keys.                  *)
(***************************************************************************)
EXTENDS PeerBook, TLAPS

\* What a book says of an onion's keys is a key or nothing.
LEMMA KeysType ==
    ASSUME NEW book \in Books, NEW o \in Onions
    PROVE  SigningKey(book, o) \in Keys \cup {None} /\ EncryptionKey(book, o) \in Keys \cup {None}
BY DEF Books, PeerRecord, SigningKey, EncryptionKey

\* The record upsert leaves for an onion.
LEMMA RecordType ==
    ASSUME NEW book \in Books, NEW r \in Remember
    PROVE  [signing    |-> Given(r.signing, SigningKey(book, r.onion)),
            encryption |-> Given(r.encryption, EncryptionKey(book, r.onion))] \in PeerRecord
<1>1. r.onion \in Onions /\ r.signing \in Keys \cup {None} /\ r.encryption \in Keys \cup {None}
  BY DEF Remember
<1>2. QED
  BY <1>1, KeysType DEF Given, PeerRecord

\* upsert yields a peer book.
LEMMA UpsertType ==
    ASSUME NEW book \in Books, NEW r \in Remember
    PROVE  Upsert(book, r) \in Books
BY RecordType DEF Upsert, Books

\* upsert changes the keys of no onion but its own, and of that one only those
\* it is given.
LEMMA UpsertKeys ==
    ASSUME NEW book \in Books, NEW r \in Remember, NEW o \in Onions
    PROVE  /\ SigningKey(Upsert(book, r), o) =
                IF o = r.onion THEN Given(r.signing, SigningKey(book, o))
                               ELSE SigningKey(book, o)
           /\ EncryptionKey(Upsert(book, r), o) =
                IF o = r.onion THEN Given(r.encryption, EncryptionKey(book, o))
                               ELSE EncryptionKey(book, o)
<1>1. CASE o = r.onion
  <2> DEFINE rec == [signing    |-> Given(r.signing, SigningKey(book, r.onion)),
                     encryption |-> Given(r.encryption, EncryptionKey(book, r.onion))]
  <2>1. Upsert(book, r)[o] = rec
    BY <1>1 DEF Upsert, Books
  <2>2. rec # NoPeer
    BY RecordType, PeerBookAssumption
  <2>3. QED
    BY <1>1, <2>1, <2>2 DEF SigningKey, EncryptionKey
<1>2. CASE o # r.onion
  BY <1>2 DEF Upsert, Books, SigningKey, EncryptionKey
<1>3. QED
  BY <1>1, <1>2

\* A request that knows only an address leaves the keys of all onions alone:
\* a key once known survives every message sent or received.
LEMMA WithoutKeysKeeps ==
    ASSUME NEW book \in Books, NEW r \in Onions, NEW o \in Onions
    PROVE  /\ WithoutKeys(r) \in Remember
           /\ SigningKey(Upsert(book, WithoutKeys(r)), o) = SigningKey(book, o)
           /\ EncryptionKey(Upsert(book, WithoutKeys(r)), o) = EncryptionKey(book, o)
<1>1. WithoutKeys(r) \in Remember
  BY DEF WithoutKeys, Remember
<1>2. QED
  BY <1>1, UpsertKeys DEF WithoutKeys, Given
===============================================================================
