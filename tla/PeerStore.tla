------------------------------- MODULE PeerStore ------------------------------
(***************************************************************************)
(* peers.json with every thread that updates it: the commands add, send,   *)
(* chat and invite import, and the listener, which records the sender of   *)
(* each frame it reads.  In one `chat` process the listener task and the   *)
(* prompt run on two worker threads and both call remember_peer.           *)
(***************************************************************************)
EXTENDS PeerBook

CONSTANTS
    Procs,      \* threads that update the peer book
    Cards,      \* contact cards of the invite files in circulation
    Stored,     \* what the file may start as: peer books, or Missing
    Refused, Missing, Empty, Torn, MayAbandon

ASSUME CardsAssumption == Cards \subseteq ContactCard

ASSUME StoreAssumption ==
    /\ Stored \subseteq Books \cup {Missing}
    /\ Books \cap {Refused, Missing, Empty, Torn} = {}
    /\ Missing # Empty /\ Missing # Torn /\ Empty # Torn
    /\ MayAbandon \in BOOLEAN

VARIABLES path, tmp, pc, req, buf, fd

\* list_peers and the other readers load the book and save nothing.
LoadOnly == [onion |-> "none"]

\* remember_peer as add_peer, send_message, interactive_chat and run_listener
\* call it, and as import_invite does.
Saving == {WithoutKeys(o) : o \in Onions} \cup Cards

Requests == Saving \cup {LoadOnly}

Apply(r, book) == IF r = LoadOnly THEN Refused ELSE Upsert(book, r)

File == INSTANCE JsonFile WITH Values <- Books, Default <- EmptyBook

Spec == File!Spec

vars == File!vars
-------------------------------------------------------------------------------
\* Keys known for o, both of the same invite.
FromOneCard(book, o) ==
    \/ SigningKey(book, o) = None /\ EncryptionKey(book, o) = None
    \/ \E c \in Cards :
        /\ c.onion = o
        /\ SigningKey(book, o) = c.signing
        /\ EncryptionKey(book, o) = c.encryption

\* A book in which nobody has another's keys or the keys of two invites mixed.
KeysOfCards(book) == \A o \in Onions : FromOneCard(book, o)

\* Whatever interleaving of threads, failed calls and kills: a complete peer
\* book, on disk or about to be saved, binds each onion to the two keys of one
\* invite that was imported for that onion (remember_peer, PeerBook::upsert).
KeysPaired ==
    /\ path \notin File!Broken => KeysOfCards(path)
    /\ tmp \notin File!Broken => KeysOfCards(tmp)
    /\ \A p \in Procs : KeysOfCards(buf[p])

\* The address book is persistent: a peer once saved stays saved, and a key
\* once imported for it is never forgotten, whatever is saved after it.
PeersPersist ==
    [][\A o \in Onions :
        /\ File!Visible[o] # NoPeer => File!Visible'[o] # NoPeer
        /\ SigningKey(File!Visible, o) # None => SigningKey(File!Visible', o) # None]_vars

===============================================================================
