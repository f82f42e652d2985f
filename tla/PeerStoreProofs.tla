--------------------------- MODULE PeerStoreProofs ----------------------------
(***************************************************************************)
(* Facts about peers.json, for any threads, onions, keys and invites.      *)
(***************************************************************************)
EXTENDS PeerStore, PeerBookProofs

FileFacts == INSTANCE JsonFileProofs WITH Values <- Books, Default <- EmptyBook

\* The books that KeysPaired allows.
PairedBooks == {book \in Books : KeysOfCards(book)}

\* A request saves one address, or one card that was imported.
LEMMA SavingType == \A r \in Saving : r \in Remember
BY CardsAssumption DEF Saving, Remember, WithoutKeys, ContactCard

\* What JsonFile assumes of its constants holds of the peer book.
LEMMA FileAssumptions ==
    /\ EmptyBook \in Books
    /\ Stored \subseteq Books \cup {Missing}
    /\ Refused \notin Books
    /\ \A c \in FileFacts!Broken : c \notin Books
    /\ Missing # Empty /\ Missing # Torn /\ Empty # Torn
    /\ \A r \in Requests : \A v \in Books : Apply(r, v) \in Books \cup {Refused}
    /\ MayAbandon \in BOOLEAN
<1>1. EmptyBook \in Books
  BY DEF EmptyBook, Books
<1>2. \A r \in Requests : \A v \in Books : Apply(r, v) \in Books \cup {Refused}
  BY SavingType, UpsertType DEF Requests, Apply
<1>3. \A c \in FileFacts!Broken : c \notin Books
  BY StoreAssumption DEF FileFacts!Broken
<1>4. QED
  BY <1>1, <1>2, <1>3, StoreAssumption

\* Remembering a peer keeps the keys of every onion those of one invite.
LEMMA ApplyPaired ==
    ASSUME NEW book \in PairedBooks, NEW r \in Requests
    PROVE  Apply(r, book) \in PairedBooks \cup {Refused}
<1>1. CASE r = LoadOnly
  BY <1>1 DEF Apply
<1>2. CASE r # LoadOnly
  <2>1. r \in Saving /\ r \in Remember /\ book \in Books
    BY <1>2, SavingType DEF Requests, PairedBooks
  <2>2. Upsert(book, r) \in Books
    BY <2>1, UpsertType
  <2>3. ASSUME NEW o \in Onions
        PROVE  FromOneCard(Upsert(book, r), o)
    <3>1. FromOneCard(book, o)
      BY DEF PairedBooks, KeysOfCards
    <3>2. CASE r \in Cards /\ o = r.onion
      <4>1. r.signing # None /\ r.encryption # None
        BY <3>2, CardsAssumption, PeerBookAssumption DEF ContactCard
      <4>2. SigningKey(Upsert(book, r), o) = r.signing
            /\ EncryptionKey(Upsert(book, r), o) = r.encryption
        BY <2>1, <3>2, <4>1, UpsertKeys DEF Given
      <4>3. QED
        BY <3>2, <4>2 DEF FromOneCard
    <3>3. CASE ~(r \in Cards /\ o = r.onion)
      <4>1. SigningKey(Upsert(book, r), o) = SigningKey(book, o)
            /\ EncryptionKey(Upsert(book, r), o) = EncryptionKey(book, o)
        BY <2>1, <3>3, UpsertKeys, WithoutKeysKeeps DEF Saving
      <4>2. QED
        BY <3>1, <4>1 DEF FromOneCard
    <3>4. QED
      BY <3>2, <3>3
  <2>4. QED
    BY <1>2, <2>2, <2>3 DEF Apply, PairedBooks, KeysOfCards
<1>3. QED
  BY <1>1, <1>2

\* PairedBooks can be taken for G in the lemmas of JsonFileProofs when the file
\* starts with such a book.
LEMMA PairedClosed ==
    ASSUME Stored \subseteq PairedBooks \cup {Missing}
    PROVE  FileFacts!Closed(PairedBooks)
<1>1. EmptyBook \in PairedBooks
  BY FileAssumptions DEF PairedBooks, KeysOfCards, FromOneCard, SigningKey,
     EncryptionKey, EmptyBook
<1>2. QED
  BY <1>1, ApplyPaired DEF FileFacts!Closed, PairedBooks

\* PeerStore and JsonFileProofs instantiate JsonFile alike.
LEMMA SameFile ==
    /\ File!Init => FileFacts!Init
    /\ [File!Next]_(File!vars) => [FileFacts!Next]_(FileFacts!vars)
BY DEF File!Init, FileFacts!Init, File!Next, FileFacts!Next, File!vars, FileFacts!vars,
   File!Step, FileFacts!Step, File!Begin, FileFacts!Begin, File!Exists, FileFacts!Exists,
   File!Read, FileFacts!Read, File!Open, FileFacts!Open, File!Write, FileFacts!Write,
   File!CheckPath, FileFacts!CheckPath, File!Remove, FileFacts!Remove, File!Rename,
   FileFacts!Rename, File!Abandon, FileFacts!Abandon, File!At, FileFacts!At,
   File!Goto, FileFacts!Goto, File!Return, FileFacts!Return, File!Modify,
   FileFacts!Modify, File!Broken, FileFacts!Broken, File!Store, FileFacts!Store,
   File!Over, FileFacts!Over, File!Moved, FileFacts!Moved, File!MovedUp, FileFacts!MovedUp

\* With every thread of every process remembering peers at once, with calls that
\* fail half-way and processes that are killed: no peer book that parses has the
\* keys of one user under the address of another, or of two invites mixed.
THEOREM KeysPairedHolds ==
    ASSUME Stored \subseteq PairedBooks \cup {Missing}
    PROVE  Spec => []KeysPaired
<1> DEFINE Inv == FileFacts!Contents(PairedBooks) /\ FileFacts!Control
<1>1. File!Init => Inv
  BY SameFile, FileAssumptions, PairedClosed, FileFacts!InitKeeps
<1>2. Inv /\ [File!Next]_(File!vars) => Inv'
  BY SameFile, FileAssumptions, PairedClosed, FileFacts!ContentsInductive
<1>3. Inv => KeysPaired
  BY DEF FileFacts!Contents, PairedBooks, KeysPaired, File!Broken, FileFacts!Broken
<1>4. QED
  BY <1>1, <1>2, <1>3, PTL DEF Spec, File!Spec
===============================================================================
