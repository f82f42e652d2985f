------------------------------ MODULE ChatProofs ------------------------------
(***************************************************************************)
(* Facts about direct messages, for any users, contacts and invites.       *)
(***************************************************************************)
EXTENDS Chat, PeerBookProofs

\* A line on a screen.
Line == [from : Onions, line : Nat \ {0}]

\* Appending changes nothing of what was there.
LEMMA AppendBefore ==
    ASSUME NEW S, NEW s \in Seq(S), NEW x, NEW t, t = Append(s, x),
           NEW i \in DOMAIN t, i # Len(s) + 1
    PROVE  i \in DOMAIN s /\ t[i] = s[i]
OBVIOUS

\* What import_invite passes to remember_peer.
LEMMA CardIsRemember == ContactCard \subseteq Remember
BY DEF ContactCard, Remember

\* RememberPeer keeps the type of the peer books.
LEMMA RememberType ==
    ASSUME peers \in [Onions -> Books], NEW n \in Onions, NEW r \in Remember,
           RememberPeer(n, r)
    PROVE  peers' \in [Onions -> Books]
BY UpsertType DEF RememberPeer

\* The frame of the next line is an envelope.
LEMMA FrameType ==
    ASSUME TypeOK, NEW n \in Onions, NEW key \in Keys
    PROVE  Frame(n, key) \in Envelope
<1>1. Identity[n].signing \in Keys /\ Identity[n].encryption \in Keys
  BY IdentityAssumption DEF ContactCard
<1>2. Len(typed[n]) + 1 \in Nat \ {0}
  BY DEF TypeOK
<1>3. QED
  BY <1>1, <1>2 DEF Frame, Seal, Envelope

\* Importing a card keeps the type of what was imported.
LEMMA ImportedType ==
    ASSUME imported \in [Onions -> Books], NEW n \in Onions, NEW card \in ContactCard,
           imported' = [imported EXCEPT ![n][card.onion] = CardKeys(card)]
    PROVE  imported' \in [Onions -> Books]
<1>1. card.onion \in Onions /\ CardKeys(card) \in PeerRecord
  BY DEF ContactCard, CardKeys, PeerRecord
<1>2. imported[n] \in [Onions -> PeerRecord \cup {NoPeer}]
  BY DEF Books
<1>3. [imported[n] EXCEPT ![card.onion] = CardKeys(card)] \in Books
  BY <1>1, <1>2 DEF Books
<1>4. imported' = [imported EXCEPT ![n] = [imported[n] EXCEPT ![card.onion] = CardKeys(card)]]
  OBVIOUS
<1>5. QED
  BY <1>3, <1>4

\* So does losing records, in both books.
LEMMA LoseType ==
    ASSUME peers \in [Onions -> Books], imported \in [Onions -> Books],
           NEW n \in Onions, LoseRecords(n)
    PROVE  peers' \in [Onions -> Books] /\ imported' \in [Onions -> Books]
<1> PICK lost \in SUBSET Onions :
        /\ peers' = [peers EXCEPT ![n] =
                [o \in Onions |-> IF o \in lost THEN NoPeer ELSE peers[n][o]]]
        /\ imported' = [imported EXCEPT ![n] =
                [o \in Onions |-> IF o \in lost /\ imported[n][o] # NoPeer
                                  THEN NoKeys ELSE imported[n][o]]]
  BY DEF LoseRecords
<1>1. NoKeys \in PeerRecord
  BY DEF NoKeys, PeerRecord
<1>2. peers[n] \in Books /\ imported[n] \in Books
  OBVIOUS
<1>3. [o \in Onions |-> IF o \in lost THEN NoPeer ELSE peers[n][o]] \in Books
  BY <1>2 DEF Books
<1>4. [o \in Onions |-> IF o \in lost /\ imported[n][o] # NoPeer
                        THEN NoKeys ELSE imported[n][o]] \in Books
  BY <1>1, <1>2 DEF Books
<1>5. QED
  BY <1>3, <1>4

\* What is recorded of the sender of a frame keeps the type of the peer books.
LEMMA SenderType ==
    ASSUME TypeOK, NEW n \in Onions, FrameRead(n), RecordSender(n)
    PROVE  peers' \in [Onions -> Books]
<1>1. Head(queue[n]) \in Connection
  BY DEF TypeOK, FrameRead
<1>2. Head(queue[n]).env.from \in Onions
  BY <1>1 DEF Connection, Envelope
<1>3. WithoutKeys(Head(queue[n]).env.from) \in Remember
  BY <1>2 DEF WithoutKeys, Remember
<1>4. QED
  BY <1>3, RememberType DEF RecordSender, TypeOK

\* A connection moves on within its type.
LEMMA ProgressType ==
    ASSUME queue \in [Onions -> Seq(Connection)], NEW n \in Onions,
           NEW k \in DOMAIN queue[n], NEW from,
           NEW to \in {"open", "written", "arrived", "broken"}, Progress(n, k, from, to)
    PROVE  queue' \in [Onions -> Seq(Connection)]
<1>1. queue[n][k] \in Connection
  OBVIOUS
<1>2. [queue[n][k] EXCEPT !.state = to] \in Connection
  BY <1>1 DEF Connection
<1>3. [queue[n] EXCEPT ![k] = [queue[n][k] EXCEPT !.state = to]] \in Seq(Connection)
  BY <1>2
<1>4. queue' = [queue EXCEPT ![n] = [queue[n] EXCEPT ![k] = [queue[n][k] EXCEPT !.state = to]]]
  BY DEF Progress
<1>5. QED
  BY <1>3, <1>4

\* So does a listener that closes.
LEMMA CloseType ==
    ASSUME listening \in [Onions -> BOOLEAN], queue \in [Onions -> Seq(Connection)],
           NEW n \in Onions, CloseListener(n)
    PROVE  listening' \in [Onions -> BOOLEAN] /\ queue' \in [Onions -> Seq(Connection)]
BY DEF CloseListener

\* Every step keeps the types.
LEMMA TypeStep ==
    ASSUME TypeOK, [Next]_vars
    PROVE  TypeOK'
<1> USE DEF TypeOK
<1>0. \A o \in Onions : WithoutKeys(o) \in Remember
  BY DEF WithoutKeys, Remember
<1>1. CASE UNCHANGED vars
  BY <1>1 DEF vars
<1>2. ASSUME NEW n \in Onions, ExportInvite(n) PROVE TypeOK'
  <2>1. Identity[n] \in ContactCard
    BY IdentityAssumption
  <2>2. invites' \subseteq ContactCard
    BY <1>2, <2>1 DEF ExportInvite
  <2>3. QED
    BY <1>2, <2>2 DEF ExportInvite
<1>3. ASSUME NEW n \in Onions, ImportInvite(n) PROVE TypeOK'
  <2> PICK card \in invites :
        /\ RememberPeer(n, card)
        /\ imported' = [imported EXCEPT ![n][card.onion] = CardKeys(card)]
    BY <1>3 DEF ImportInvite
  <2>1. peers' \in [Onions -> Books]
    BY CardIsRemember, RememberType
  <2>2. imported' \in [Onions -> Books]
    BY ImportedType
  <2>3. QED
    BY <1>3, <2>1, <2>2 DEF ImportInvite
<1>4. ASSUME NEW n \in Onions, AddPeer(n) PROVE TypeOK'
  <2>1. peers' \in [Onions -> Books]
    BY <1>0, <1>4, RememberType DEF AddPeer
  <2>2. QED
    BY <1>4, <2>1 DEF AddPeer
<1>5. ASSUME NEW n \in Onions, Listen(n) PROVE TypeOK'
  BY <1>5 DEF Listen
<1>6. ASSUME NEW n \in Onions, InteractiveChat(n) PROVE TypeOK'
  <2>1. peers' \in [Onions -> Books]
    BY <1>0, <1>6, RememberType DEF InteractiveChat
  <2>2. QED
    BY <1>6, <2>1 DEF InteractiveChat
<1>7. ASSUME NEW n \in Onions, Quit(n) PROVE TypeOK'
  BY <1>7, CloseType DEF Quit
<1>8. ASSUME NEW n \in Onions, Kill(n) PROVE TypeOK'
  <2>1. listening' \in [Onions -> BOOLEAN] /\ queue' \in [Onions -> Seq(Connection)]
    BY <1>8, CloseType DEF Kill
  <2>2. sending' \in [Onions -> Send \cup {Nothing}]
    BY <1>8 DEF Kill
  <2>3. QED
    BY <1>8, <2>1, <2>2 DEF Kill
<1>9. ASSUME NEW n \in Onions, SendMessage(n) PROVE TypeOK'
  <2> PICK o \in Onions :
        /\ RememberPeer(n, WithoutKeys(o))
        /\ typed' = [typed EXCEPT ![n] = Append(@, o)]
        /\ LET key == EncryptionKey(peers'[n], o)
           IN  \/ UNCHANGED sending
               \/ /\ key # None
                  /\ sending' = [sending EXCEPT ![n] =
                        [to |-> o, env |-> Frame(n, key), step |-> "connect"]]
    BY <1>9 DEF SendMessage
  <2>1. peers' \in [Onions -> Books]
    BY <1>0, RememberType
  <2>2. typed' \in [Onions -> Seq(Onions)]
    OBVIOUS
  <2>3. sending' \in [Onions -> Send \cup {Nothing}]
    <3> DEFINE key == EncryptionKey(peers'[n], o)
    <3>1. CASE UNCHANGED sending
      BY <3>1
    <3>2. CASE /\ key # None
               /\ sending' = [sending EXCEPT ![n] =
                        [to |-> o, env |-> Frame(n, key), step |-> "connect"]]
      <4>1. key \in Keys
        BY <2>1, <3>2, KeysType
      <4>2. [to |-> o, env |-> Frame(n, key), step |-> "connect"] \in Send
        BY <4>1, FrameType DEF Send
      <4>3. QED
        BY <3>2, <4>2
    <3>3. QED
      BY <3>1, <3>2
  <2>4. QED
    BY <1>9, <2>1, <2>2, <2>3 DEF SendMessage
<1>10. ASSUME NEW n \in Onions, Connect(n) PROVE TypeOK'
  <2>1. sending[n] \in Send
    BY <1>10 DEF Connect
  <2>2. [env |-> sending[n].env, state |-> "open"] \in Connection
    BY <2>1 DEF Send, Connection
  <2>3. [sending[n] EXCEPT !.step = "write"] \in Send
    BY <2>1 DEF Send
  <2>4. queue' \in [Onions -> Seq(Connection)]
    <3>1. sending[n].to \in Onions
      BY <2>1 DEF Send
    <3>2. Append(queue[sending[n].to], [env |-> sending[n].env, state |-> "open"])
            \in Seq(Connection)
      BY <2>2, <3>1
    <3>3. QED
      BY <1>10, <3>2 DEF Connect
  <2>5. sending' \in [Onions -> Send \cup {Nothing}]
    BY <1>10, <2>3 DEF Connect
  <2>6. QED
    BY <1>10, <2>4, <2>5 DEF Connect
<1>11. ASSUME NEW n \in Onions, WriteFrame(n) PROVE TypeOK'
  <2>1. sending[n].to \in Onions
    BY <1>11 DEF WriteFrame, Send
  <2>2. queue' \in [Onions -> Seq(Connection)]
    BY <1>11, <2>1, ProgressType DEF WriteFrame
  <2>3. QED
    BY <1>11, <2>2 DEF WriteFrame
<1>12. ASSUME NEW n \in Onions, NEW k \in DOMAIN queue[n], Network(n, k) PROVE TypeOK'
  <2>1. queue' \in [Onions -> Seq(Connection)]
    BY <1>12, ProgressType DEF Network
  <2>2. QED
    BY <1>12, <2>1 DEF Network
<1>13. ASSUME NEW n \in Onions, DiscardFrame(n) PROVE TypeOK'
  BY <1>13 DEF DiscardFrame
<1>14. ASSUME NEW n \in Onions, PrintIncoming(n) PROVE TypeOK'
  <2> DEFINE env == Head(queue[n]).env
  <2>1. Head(queue[n]) \in Connection
    BY <1>14 DEF PrintIncoming, FrameRead
  <2>2. env.from \in Onions /\ env.line \in Nat \ {0}
    BY <2>1 DEF Connection, Envelope
  <2>3. peers' \in [Onions -> Books]
    BY <1>14, SenderType DEF PrintIncoming
  <2>4. CASE Verifies(n, peers'[n], env)
    <3>1. shown' = [shown EXCEPT ![n] = Append(@, [from |-> env.from, line |-> env.line])]
          /\ queue' = [queue EXCEPT ![n] = Tail(@)] /\ UNCHANGED listening
      BY <1>14, <2>4 DEF PrintIncoming
    <3>2. [from |-> env.from, line |-> env.line] \in Line /\ shown[n] \in Seq(Line)
      BY <2>2 DEF Line
    <3>3. Append(shown[n], [from |-> env.from, line |-> env.line]) \in Seq(Line)
      BY <3>2
    <3>4. shown' \in [Onions -> Seq([from : Onions, line : Nat \ {0}])]
      BY <3>1, <3>3 DEF Line
    <3>5. UNCHANGED <<imported, invites, prompt, sending, typed>>
      BY <1>14 DEF PrintIncoming
    <3>6. queue' \in [Onions -> Seq(Connection)]
      BY <1>14, <3>1 DEF PrintIncoming, FrameRead
    <3>7. QED
      BY <2>3, <3>1, <3>4, <3>5, <3>6
  <2>5. CASE ~Verifies(n, peers'[n], env)
    <3>1. CloseListener(n) /\ shown' = shown
      BY <1>14, <2>5 DEF PrintIncoming
    <3>3. listening' \in [Onions -> BOOLEAN] /\ queue' \in [Onions -> Seq(Connection)]
      BY <3>1, CloseType
    <3>4. QED
      BY <1>14, <2>3, <3>1, <3>3 DEF PrintIncoming
  <2>6. QED
    BY <2>4, <2>5
<1>15. ASSUME NEW n \in Onions, ListenerFails(n) PROVE TypeOK'
  <2>1. peers' \in [Onions -> Books]
    BY <1>15, SenderType DEF ListenerFails, TypeOK
  <2>2. QED
    BY <1>15, <2>1, CloseType DEF ListenerFails
<1>16. ASSUME NEW n \in Onions, LoseRecords(n) PROVE TypeOK'
  <2>1. peers' \in [Onions -> Books] /\ imported' \in [Onions -> Books]
    BY <1>16, LoseType
  <2>2. QED
    BY <1>16, <2>1 DEF LoseRecords
<1>17. QED
  BY <1>1, <1>2, <1>3, <1>4, <1>5, <1>6, <1>7, <1>8, <1>9, <1>10, <1>11, <1>12, <1>13,
     <1>14, <1>15, <1>16 DEF Next, User, Sender, Listener

\* The types hold at the start.
LEMMA TypeInit ==
    ASSUME Init
    PROVE  TypeOK
<1>1. Contacts \in [Onions -> [Onions -> PeerRecord \cup {NoPeer}]]
  BY ContactsAssumption DEF Books
<1>2. \A n \in Onions : imported[n] \in Books
  BY <1>1 DEF Init, Books
<1>3. imported \in [Onions -> Books]
  BY <1>2 DEF Init
<1>4. peers \in [Onions -> Books] /\ invites \subseteq ContactCard
  BY ContactsAssumption, InvitesAssumption DEF Init
<1>5. /\ listening \in [Onions -> BOOLEAN] /\ prompt \in [Onions -> Onions \cup {NoPeer}]
      /\ sending \in [Onions -> Send \cup {Nothing}]
  BY DEF Init
<1>6. /\ queue \in [Onions -> Seq(Connection)] /\ typed \in [Onions -> Seq(Onions)]
      /\ shown \in [Onions -> Seq([from : Onions, line : Nat \ {0}])]
  BY DEF Init
<1>7. QED
  BY <1>3, <1>4, <1>5, <1>6 DEF TypeOK

\* Every variable keeps its type, whatever users, listeners and the network do.
THEOREM TypeCorrect == Spec => []TypeOK
<1>1. QED
  BY TypeInit, TypeStep, PTL DEF Spec
-------------------------------------------------------------------------------
(* Who has imported whose invite. *)

\* A step leaves what n knows of m alone, or replaces it by an invite of m.
SameKeys(n, m) ==
    /\ SigningKey(peers'[n], m) = SigningKey(peers[n], m)
    /\ EncryptionKey(peers'[n], m) = EncryptionKey(peers[n], m)

KeysOf(n, m, card) ==
    /\ card.onion = m
    /\ SigningKey(peers'[n], m) = card.signing
    /\ EncryptionKey(peers'[n], m) = card.encryption

\* remember_peer without keys.
LEMMA RememberSame ==
    ASSUME peers \in [Onions -> Books], NEW u \in Onions, NEW o \in Onions,
           RememberPeer(u, WithoutKeys(o)), NEW n \in Onions, NEW m \in Onions
    PROVE  SameKeys(n, m)
BY WithoutKeysKeeps DEF RememberPeer, SameKeys

\* A step does one of three things to what n has of m's keys, and has imported
\* of them: nothing, ...
Keeps(n, m) == SameKeys(n, m) /\ imported'[n][m] = imported[n][m]

\* ... replace them by those of a card, ...
Learns(n, m) ==
    \E card \in invites : KeysOf(n, m, card) /\ imported'[n][m] = CardKeys(card)

\* ... or lose them.
Loses(n, m) ==
    /\ SigningKey(peers'[n], m) = None /\ EncryptionKey(peers'[n], m) = None
    /\ imported'[n][m] = IF imported[n][m] # NoPeer THEN NoKeys ELSE NoPeer

\* An import replaces the keys of the card's owner.
LEMMA ImportBooks ==
    ASSUME TypeOK, NEW u \in Onions, ImportInvite(u), NEW n \in Onions, NEW m \in Onions
    PROVE  Keeps(n, m) \/ Learns(n, m)
<1> PICK card \in invites :
        /\ RememberPeer(u, card)
        /\ imported' = [imported EXCEPT ![u][card.onion] = CardKeys(card)]
  BY DEF ImportInvite
<1>1. /\ card \in Remember /\ card \in ContactCard
      /\ card.signing # None /\ card.encryption # None
  BY CardIsRemember, PeerBookAssumption DEF ContactCard, TypeOK
<1>2. CASE n = u /\ m = card.onion
  <2>1. KeysOf(n, m, card)
    BY <1>1, <1>2, UpsertKeys DEF RememberPeer, KeysOf, Given, TypeOK
  <2>2. imported'[n][m] = CardKeys(card)
    BY <1>2 DEF TypeOK, Books
  <2>3. QED
    BY <2>1, <2>2 DEF Learns
<1>3. CASE n # u \/ m # card.onion
  <2>1. SameKeys(n, m)
    BY <1>1, <1>3, UpsertKeys DEF RememberPeer, SameKeys, TypeOK
  <2>2. imported'[n][m] = imported[n][m]
    BY <1>3 DEF TypeOK, Books
  <2>3. QED
    BY <2>1, <2>2 DEF Keeps
<1>4. QED
  BY <1>2, <1>3

\* Records are lost whole.
LEMMA LoseBooks ==
    ASSUME TypeOK, NEW u \in Onions, LoseRecords(u), NEW n \in Onions, NEW m \in Onions
    PROVE  Keeps(n, m) \/ Loses(n, m)
<1> PICK lost \in SUBSET Onions :
        /\ peers' = [peers EXCEPT ![u] =
                [o \in Onions |-> IF o \in lost THEN NoPeer ELSE peers[u][o]]]
        /\ imported' = [imported EXCEPT ![u] =
                [o \in Onions |-> IF o \in lost /\ imported[u][o] # NoPeer
                                  THEN NoKeys ELSE imported[u][o]]]
  BY DEF LoseRecords
<1>1. CASE n # u
  BY <1>1 DEF Keeps, SameKeys, TypeOK
<1>2. CASE n = u
  <2>1. /\ peers'[n][m] = IF m \in lost THEN NoPeer ELSE peers[n][m]
        /\ imported'[n][m] = IF m \in lost /\ imported[n][m] # NoPeer
                             THEN NoKeys ELSE imported[n][m]
    BY <1>2 DEF TypeOK
  <2>2. QED
    BY <2>1 DEF Keeps, Loses, SameKeys, SigningKey, EncryptionKey
<1>3. QED
  BY <1>1, <1>2

\* What one user has of another stays, becomes what an invite says, or is lost.
LEMMA BooksStep ==
    ASSUME TypeOK, [Next]_vars, NEW n \in Onions, NEW m \in Onions
    PROVE  Keeps(n, m) \/ Learns(n, m) \/ Loses(n, m)
<1> USE DEF TypeOK
<1>1. CASE UNCHANGED <<peers, imported>>
  BY <1>1 DEF Keeps, SameKeys
<1>2. ASSUME NEW u \in Onions, AddPeer(u) \/ InteractiveChat(u) \/ SendMessage(u)
      PROVE  Keeps(n, m)
  BY <1>2, RememberSame DEF AddPeer, InteractiveChat, SendMessage, Keeps
<1>3. ASSUME NEW u \in Onions, FrameRead(u), RecordSender(u), imported' = imported
      PROVE  Keeps(n, m)
  <2>1. Head(queue[u]) \in Connection
    BY <1>3 DEF FrameRead
  <2>2. Head(queue[u]).env.from \in Onions
    BY <2>1 DEF Connection, Envelope
  <2>3. SameKeys(n, m)
    BY <1>3, <2>2, RememberSame DEF RecordSender, SameKeys
  <2>4. QED
    BY <1>3, <2>3 DEF Keeps
<1>4. ASSUME NEW u \in Onions,
             \/ ExportInvite(u) \/ Listen(u) \/ Quit(u) \/ Kill(u) \/ Connect(u)
             \/ WriteFrame(u) \/ DiscardFrame(u) \/ \E k \in DOMAIN queue[u] : Network(u, k)
      PROVE  UNCHANGED <<peers, imported>>
  BY <1>4 DEF ExportInvite, Listen, Quit, Kill, Connect, WriteFrame, DiscardFrame, Network
<1>5. QED
  BY <1>1, <1>2, <1>3, <1>4, ImportBooks, LoseBooks DEF Next, User, Sender, Listener, vars,
     PrintIncoming, ListenerFails

\* Whoever has an encryption key has imported it, and what was imported last and
\* not lost since is what the peer book holds.
BooksAgree ==
    \A n, m \in Onions :
        /\ EncryptionKey(peers[n], m) # None => Imported(n, m)
        /\ HasKeys(imported[n], m) =>
                /\ SigningKey(peers[n], m) = SigningKey(imported[n], m)
                /\ EncryptionKey(peers[n], m) = EncryptionKey(imported[n], m)

\* The books agree at the start, ...
LEMMA AgreeInit ==
    ASSUME Init
    PROVE  BooksAgree
<1> SUFFICES ASSUME NEW n \in Onions, NEW m \in Onions
             PROVE  /\ EncryptionKey(peers[n], m) # None => Imported(n, m)
                    /\ HasKeys(imported[n], m) =>
                        /\ SigningKey(peers[n], m) = SigningKey(imported[n], m)
                        /\ EncryptionKey(peers[n], m) = EncryptionKey(imported[n], m)
  BY DEF BooksAgree
<1>1. /\ peers = Contacts
      /\ imported[n][m] = IF HasKeys(Contacts[n], m) THEN Contacts[n][m] ELSE NoPeer
  BY DEF Init
<1>2. EncryptionKey(Contacts[n], m) # None => SigningKey(Contacts[n], m) # None
  BY ContactsAssumption
<1>3. EncryptionKey(Contacts[n], m) # None => Contacts[n][m] # NoPeer
  BY DEF EncryptionKey
<1>4. QED
  BY <1>1, <1>2, <1>3 DEF Imported, HasKeys, SigningKey, EncryptionKey

\* ... and after every step.
LEMMA AgreeStep ==
    ASSUME TypeOK, BooksAgree, [Next]_vars
    PROVE  BooksAgree'
<1> SUFFICES ASSUME NEW n \in Onions, NEW m \in Onions
             PROVE  (/\ EncryptionKey(peers[n], m) # None => Imported(n, m)
                     /\ HasKeys(imported[n], m) =>
                        /\ SigningKey(peers[n], m) = SigningKey(imported[n], m)
                        /\ EncryptionKey(peers[n], m) = EncryptionKey(imported[n], m))'
  BY DEF BooksAgree
<1>1. CASE Keeps(n, m)
  BY <1>1 DEF BooksAgree, Keeps, SameKeys, Imported, HasKeys, SigningKey, EncryptionKey
<1>2. CASE Learns(n, m)
  <2> PICK card \in invites : KeysOf(n, m, card) /\ imported'[n][m] = CardKeys(card)
    BY <1>2 DEF Learns
  <2>1. CardKeys(card) # NoPeer
    BY PeerBookAssumption DEF TypeOK, ContactCard, CardKeys, PeerRecord
  <2>2. QED
    BY <2>1 DEF KeysOf, Imported, HasKeys, SigningKey, EncryptionKey, CardKeys
<1>3. CASE Loses(n, m)
  BY <1>3 DEF Loses, HasKeys, NoKeys, SigningKey, EncryptionKey
<1>4. QED
  BY <1>1, <1>2, <1>3, BooksStep

\* That an invite was imported, some time, is not undone.
LEMMA ImportedStep ==
    ASSUME TypeOK, [Next]_vars, NEW n \in Onions, NEW m \in Onions, Imported(n, m)
    PROVE  Imported(n, m)'
<1>1. \A card \in invites : CardKeys(card) # NoPeer
  BY PeerBookAssumption DEF TypeOK, ContactCard, CardKeys, PeerRecord
<1>2. NoKeys # NoPeer
  BY PeerBookAssumption DEF NoKeys, PeerRecord
<1>3. QED
  BY <1>1, <1>2, BooksStep DEF Imported, Keeps, Learns, Loses

\* Who has a frame under way, in send_message or on a connection, has imported
\* an invite of the one it is for.
SendKnows(m) ==
    sending[m] # Nothing => sending[m].env.from = m /\ Imported(m, sending[m].to)

SenderKnows == \A m \in Onions : SendKnows(m)

QueueKnows ==
    \A n \in Onions : \A k \in DOMAIN queue[n] : Imported(queue[n][k].env.from, n)

ContactInv == TypeOK /\ BooksAgree /\ SenderKnows /\ QueueKnows /\ MutualContacts

\* m begins to send its next line to o, for whom it has an encryption key.
Begins(m, o) ==
    /\ <<m, o>> \in Talks
    /\ EncryptionKey(peers'[m], o) # None
    /\ sending'[m].to = o
    /\ sending'[m].env = Frame(m, EncryptionKey(peers'[m], o))
    /\ sending[m] = Nothing
    /\ typed' = [typed EXCEPT ![m] = Append(@, o)]
    /\ UNCHANGED <<queue, shown>>

\* What a step does to the sends under way: none but send_message begins one.
LEMMA SendStep ==
    ASSUME TypeOK, [Next]_vars, NEW m \in Onions, sending'[m] # Nothing
    PROVE  \/ /\ sending[m] # Nothing
              /\ sending'[m].env = sending[m].env
              /\ sending'[m].to = sending[m].to
              /\ sending'[m].step = "connect" => sending[m].step = "connect"
           \/ \E o \in Onions : Begins(m, o)
<1> USE DEF TypeOK
<1> DEFINE Goes == /\ sending[m] # Nothing
                   /\ sending'[m].env = sending[m].env
                   /\ sending'[m].to = sending[m].to
                   /\ sending'[m].step = "connect" => sending[m].step = "connect"
<1>1. CASE sending'[m] = sending[m]
  BY <1>1
<1>2. ASSUME SendMessage(m), sending' # sending
      PROVE  \E o \in Onions : Begins(m, o)
  <2> PICK o \in Onions :
        LET key == EncryptionKey(peers'[m], o)
        IN  /\ <<m, o>> \in Talks
            /\ typed' = [typed EXCEPT ![m] = Append(@, o)]
            /\ key # None
            /\ sending' = [sending EXCEPT ![m] =
                    [to |-> o, env |-> Frame(m, key), step |-> "connect"]]
    BY <1>2 DEF SendMessage
  <2>1. sending'[m] = [to |-> o, env |-> Frame(m, EncryptionKey(peers'[m], o)),
                       step |-> "connect"]
    OBVIOUS
  <2>2. sending[m] = Nothing /\ UNCHANGED <<queue, shown>>
    BY <1>2 DEF SendMessage
  <2>3. QED
    BY <2>1, <2>2 DEF Begins
<1>3. ASSUME NEW u \in Onions, SendMessage(u), u # m
      PROVE  sending'[m] = sending[m]
  BY <1>3 DEF SendMessage
<1>4. ASSUME NEW u \in Onions, Connect(u)
      PROVE  Goes
  <2>1. CASE sending' = [sending EXCEPT ![u] = Nothing]
    BY <1>1, <2>1
  <2>2. CASE sending' = [sending EXCEPT ![u].step = "write"] /\ u # m
    BY <1>1, <2>2
  <2>3. CASE sending' = [sending EXCEPT ![u].step = "write"] /\ u = m
    <3>1. sending[m] # Nothing /\ sending[m] \in Send
      BY <1>4, <2>3 DEF Connect
    <3>2. /\ sending'[m].env = sending[m].env /\ sending'[m].to = sending[m].to
          /\ sending'[m].step = "write"
      BY <2>3, <3>1 DEF Send
    <3>3. QED
      BY <3>1, <3>2
  <2>4. QED
    BY <1>4, <2>1, <2>2, <2>3 DEF Connect
<1>5. ASSUME NEW u \in Onions, WriteFrame(u) \/ Kill(u)
      PROVE  sending'[m] = sending[m] \/ sending'[m] = Nothing
  BY <1>5 DEF WriteFrame, Kill
<1>6. ASSUME NEW u \in Onions,
             \/ ExportInvite(u) \/ ImportInvite(u) \/ AddPeer(u) \/ LoseRecords(u)
             \/ Listen(u) \/ InteractiveChat(u) \/ Quit(u) \/ DiscardFrame(u)
             \/ PrintIncoming(u) \/ ListenerFails(u) \/ \E k \in DOMAIN queue[u] : Network(u, k)
      PROVE  UNCHANGED sending
  BY <1>6 DEF ExportInvite, ImportInvite, AddPeer, LoseRecords, Listen, InteractiveChat,
     Quit, DiscardFrame, PrintIncoming, ListenerFails, Network
<1>7. QED
  BY <1>1, <1>2, <1>3, <1>4, <1>5, <1>6 DEF Next, User, Sender, Listener, vars

\* Who sends keeps knowing the one it sends to.
LEMMA SenderStep ==
    ASSUME ContactInv, [Next]_vars
    PROVE  SenderKnows'
<1> SUFFICES ASSUME NEW m \in Onions, sending'[m] # Nothing
             PROVE  sending'[m].env.from = m /\ Imported(m, sending[m].to)'
  BY DEF SenderKnows, SendKnows
<1> USE DEF ContactInv
<1>1. TypeOK' /\ BooksAgree'
  BY TypeStep, AgreeStep
<1>2. CASE /\ sending[m] # Nothing
           /\ sending'[m].env = sending[m].env
           /\ sending'[m].to = sending[m].to
  <2> PICK o \in Onions : o = sending[m].to
    BY <1>2 DEF TypeOK, Send
  <2>1. sending[m].env.from = m /\ Imported(m, o)
    BY <1>2 DEF SenderKnows, SendKnows
  <2>2. Imported(m, o)'
    BY <2>1, ImportedStep
  <2>3. QED
    BY <1>2, <2>1, <2>2
<1>3. ASSUME NEW o \in Onions, Begins(m, o)
      PROVE  sending'[m].env.from = m /\ Imported(m, sending[m].to)'
  <2>1. Imported(m, o)'
    BY <1>1, <1>3 DEF BooksAgree, Begins
  <2>2. sending'[m].env.from = m /\ sending'[m].to = o
    BY <1>3 DEF Begins, Frame
  <2>3. QED
    BY <2>1, <2>2
<1>4. QED
  BY <1>2, <1>3, SendStep

\* The frames on the connections to n stay, but for the first or for all of them ...
Leave(n) ==
    \E s \in {0, 1} : \A k \in DOMAIN queue'[n] :
        k + s \in DOMAIN queue[n] /\ queue'[n][k].env = queue[n][k + s].env

\* ... or one more arrives behind them, from a send_message that has connected.
Arrive(n, m) ==
    /\ sending[m] # Nothing
    /\ sending[m].step = "connect"
    /\ sending[m].to = n
    /\ sending'[m].step # "connect"
    /\ \A k \in DOMAIN queue'[n] :
        \/ k \in DOMAIN queue[n] /\ queue'[n][k].env = queue[n][k].env
        \/ k = Len(queue[n]) + 1 /\ queue'[n][k].env = sending[m].env
    /\ UNCHANGED shown

\* Connections come from send_message, wait in the order they came, and keep
\* their frame.
LEMMA QueueMoves ==
    ASSUME TypeOK, [Next]_vars, NEW n \in Onions
    PROVE  Leave(n) \/ \E m \in Onions : Arrive(n, m)
<1> USE DEF TypeOK
<1>1. ASSUME \A k \in DOMAIN queue'[n] :
                k \in DOMAIN queue[n] /\ queue'[n][k].env = queue[n][k].env
      PROVE  Leave(n)
  <2>1. \A k \in DOMAIN queue'[n] :
          k + 0 \in DOMAIN queue[n] /\ queue'[n][k].env = queue[n][k + 0].env
    BY <1>1
  <2>2. QED
    BY <2>1 DEF Leave
<1>2. ASSUME NEW u \in Onions, CloseListener(u)
      PROVE  Leave(n)
  BY <1>1, <1>2 DEF CloseListener
<1>3. ASSUME NEW u \in Onions, queue[u] # <<>>, queue' = [queue EXCEPT ![u] = Tail(@)]
      PROVE  Leave(n)
  <2>1. CASE u = n
    <3>1. \A k \in DOMAIN queue'[n] :
            k + 1 \in DOMAIN queue[n] /\ queue'[n][k] = queue[n][k + 1]
      BY <1>3, <2>1
    <3>2. QED
      BY <3>1 DEF Leave
  <2>2. CASE u # n
    BY <1>1, <1>3, <2>2
  <2>3. QED
    BY <2>1, <2>2
<1>4. ASSUME NEW u \in Onions, NEW j \in DOMAIN queue[u], NEW from, NEW to,
             Progress(u, j, from, to)
      PROVE  Leave(n)
  <2> DEFINE c == [queue[u][j] EXCEPT !.state = to]
  <2>1. queue[u] \in Seq(Connection) /\ queue[u][j] \in Connection
    OBVIOUS
  <2>2. queue' = [queue EXCEPT ![u] = [queue[u] EXCEPT ![j] = c]]
    BY <1>4 DEF Progress
  <2>3. CASE u = n
    <3>1. c.env = queue[u][j].env
      BY <2>1 DEF Connection
    <3> HIDE DEF c
    <3>2. \A k \in DOMAIN queue'[n] :
            k \in DOMAIN queue[n] /\ queue'[n][k] = IF k = j THEN c ELSE queue[n][k]
      BY <2>1, <2>2, <2>3
    <3>3. QED
      BY <1>1, <2>3, <3>1, <3>2
  <2>4. CASE u # n
    BY <1>1, <2>2, <2>4
  <2>5. QED
    BY <2>3, <2>4
<1>5. ASSUME NEW u \in Onions, Connect(u)
      PROVE  Leave(n) \/ \E m \in Onions : Arrive(n, m)
  <2>1. CASE UNCHANGED queue
    BY <1>1, <2>1
  <2>2. CASE /\ queue' = [queue EXCEPT ![sending[u].to] =
                    Append(@, [env |-> sending[u].env, state |-> "open"])]
             /\ sending' = [sending EXCEPT ![u].step = "write"]
    <3>1. CASE sending[u].to # n
      BY <1>1, <2>2, <3>1
    <3>2. CASE sending[u].to = n
      <4> DEFINE c == [env |-> sending[u].env, state |-> "open"]
      <4>1. queue[n] \in Seq(Connection) /\ queue'[n] = Append(queue[n], c)
        BY <2>2, <3>2
      <4>2. c.env = sending[u].env
        OBVIOUS
      <4>3. sending[u] # Nothing /\ sending[u].step = "connect" /\ shown' = shown
        BY <1>5 DEF Connect
      <4>4. sending'[u].step # "connect"
        <5>1. sending[u] \in Send
          BY <4>3
        <5>2. QED
          BY <2>2, <5>1 DEF Send
      <4> HIDE DEF c
      <4>5. \A k \in DOMAIN queue'[n] :
              \/ k \in DOMAIN queue[n] /\ queue'[n][k] = queue[n][k]
              \/ k = Len(queue[n]) + 1 /\ queue'[n][k] = c
        BY <4>1
      <4>6. QED
        BY <3>2, <4>2, <4>3, <4>4, <4>5 DEF Arrive
    <3>3. QED
      BY <3>1, <3>2
  <2>3. QED
    BY <1>5, <2>1, <2>2 DEF Connect
<1>6. ASSUME NEW u \in Onions, WriteFrame(u)
      PROVE  Leave(n)
  <2>1. sending[u].to \in Onions
    BY <1>6 DEF WriteFrame, Send
  <2>2. QED
    BY <1>1, <1>4, <1>6, <2>1 DEF WriteFrame
<1>7. ASSUME NEW u \in Onions, NEW j \in DOMAIN queue[u], Network(u, j)
      PROVE  Leave(n)
  BY <1>4, <1>7 DEF Network
<1>8. ASSUME NEW u \in Onions, DiscardFrame(u) \/ PrintIncoming(u) \/ ListenerFails(u)
      PROVE  Leave(n)
  BY <1>2, <1>3, <1>8 DEF DiscardFrame, PrintIncoming, FrameRead, ListenerFails
<1>9. ASSUME NEW u \in Onions, Quit(u) \/ Kill(u)
      PROVE  Leave(n)
  BY <1>1, <1>2, <1>9 DEF Quit, Kill
<1>10. ASSUME NEW u \in Onions,
             \/ ExportInvite(u) \/ ImportInvite(u) \/ AddPeer(u) \/ LoseRecords(u)
             \/ Listen(u) \/ InteractiveChat(u) \/ SendMessage(u)
      PROVE  UNCHANGED queue
  BY <1>10 DEF ExportInvite, ImportInvite, AddPeer, LoseRecords, Listen, InteractiveChat,
     SendMessage
<1>11. QED
  BY <1>1, <1>5, <1>6, <1>7, <1>8, <1>9, <1>10 DEF Next, User, Sender, Listener, vars

\* So a frame on a connection was on it before, or comes from a send_message.
LEMMA QueueStep ==
    ASSUME TypeOK, [Next]_vars, NEW n \in Onions, NEW k \in DOMAIN queue'[n]
    PROVE  \/ \E j \in DOMAIN queue[n] : queue'[n][k].env = queue[n][j].env
           \/ \E m \in Onions :
                /\ sending[m] # Nothing
                /\ sending[m].to = n
                /\ queue'[n][k].env = sending[m].env
BY QueueMoves DEF Leave, Arrive

\* A line appears on a screen when a frame from a known sender has been read.
LEMMA ShownStep ==
    ASSUME TypeOK, [Next]_vars, NEW n \in Onions, NEW i \in DOMAIN shown'[n]
    PROVE  \/ i \in DOMAIN shown[n] /\ shown'[n][i] = shown[n][i]
           \/ /\ queue[n] # <<>>
              /\ Head(queue[n]).state = "arrived"
              /\ queue' = [queue EXCEPT ![n] = Tail(@)]
              /\ shown' = [shown EXCEPT ![n] = Append(@, shown'[n][i])]
              /\ i = Len(shown[n]) + 1
              /\ shown'[n][i].from = Head(queue[n]).env.from
              /\ shown'[n][i].line = Head(queue[n]).env.line
              /\ Verifies(n, peers'[n], Head(queue[n]).env)
<1> USE DEF TypeOK
<1>1. ASSUME NEW u \in Onions, PrintIncoming(u), u # n \/ UNCHANGED shown
      PROVE  i \in DOMAIN shown[n] /\ shown'[n][i] = shown[n][i]
  BY <1>1 DEF PrintIncoming
<1>2. CASE PrintIncoming(n) /\ ~UNCHANGED shown
  <2> DEFINE env == Head(queue[n]).env
             line == [from |-> env.from, line |-> env.line]
  <2>1. /\ shown' = [shown EXCEPT ![n] = Append(@, line)]
        /\ queue[n] # <<>> /\ Head(queue[n]).state = "arrived"
        /\ queue' = [queue EXCEPT ![n] = Tail(@)]
        /\ Verifies(n, peers'[n], env)
    BY <1>2 DEF PrintIncoming, FrameRead
  <2>2. shown[n] \in Seq(Line) /\ shown'[n] = Append(shown[n], line)
    BY <2>1 DEF Line
  <2>3. line.from = env.from /\ line.line = env.line
    OBVIOUS
  <2> HIDE DEF line, env
  <2>4. CASE i = Len(shown[n]) + 1
    <3>1. shown'[n][i] = line
      BY <2>2, <2>4
    <3>2. QED
      BY <2>1, <2>3, <2>4, <3>1 DEF env
  <2>5. CASE i # Len(shown[n]) + 1
    <3>1. i \in DOMAIN shown[n] /\ shown'[n][i] = shown[n][i]
      BY <2>2, <2>5, AppendBefore
    <3>2. QED
      BY <3>1
  <2>6. QED
    BY <2>4, <2>5
<1>3. ASSUME NEW u \in Onions,
             \/ User(u) \/ Sender(u) \/ DiscardFrame(u) \/ ListenerFails(u)
             \/ \E k \in DOMAIN queue[u] : Network(u, k)
      PROVE  UNCHANGED shown
  BY <1>3 DEF User, ExportInvite, ImportInvite, AddPeer, LoseRecords, Listen,
     InteractiveChat, Quit, Kill, Sender, SendMessage, Connect, WriteFrame, DiscardFrame,
     ListenerFails, Network
<1>4. QED
  BY <1>1, <1>2, <1>3 DEF Next, Listener, vars

\* The frames on connections stay those of senders who know the receiver.
LEMMA QueueKnowsStep ==
    ASSUME ContactInv, [Next]_vars
    PROVE  QueueKnows'
<1> SUFFICES ASSUME NEW n \in Onions, NEW k \in DOMAIN queue'[n]
             PROVE  Imported(queue[n][k].env.from, n)'
  BY DEF QueueKnows
<1> USE DEF ContactInv
<1>1. PICK m \in Onions : queue'[n][k].env.from = m /\ Imported(m, n)
  <2>1. CASE \E j \in DOMAIN queue[n] : queue'[n][k].env = queue[n][j].env
    <3> PICK j \in DOMAIN queue[n] : queue'[n][k].env = queue[n][j].env
      BY <2>1
    <3>1. queue[n][j] \in Connection
      BY DEF TypeOK
    <3>2. QED
      BY <3>1 DEF QueueKnows, Connection, Envelope
  <2>2. CASE \E m \in Onions : sending[m] # Nothing /\ sending[m].to = n
                                /\ queue'[n][k].env = sending[m].env
    BY <2>2 DEF SenderKnows, SendKnows
  <2>3. QED
    BY <2>1, <2>2, QueueStep
<1>2. Imported(m, n)'
  BY <1>1, ImportedStep
<1>3. QED
  BY <1>1, <1>2

\* A line that is printed comes from a mutual contact.
LEMMA MutualStep ==
    ASSUME ContactInv, [Next]_vars
    PROVE  MutualContacts'
<1> SUFFICES ASSUME NEW n \in Onions, NEW i \in DOMAIN shown'[n]
             PROVE  Imported(n, shown[n][i].from)' /\ Imported(shown[n][i].from, n)'
  BY DEF MutualContacts
<1> USE DEF ContactInv
<1>1. CASE i \in DOMAIN shown[n] /\ shown'[n][i] = shown[n][i]
  <2>1. shown[n] \in Seq(Line)
    BY DEF TypeOK, Line
  <2>2. shown[n][i] \in Line
    BY <1>1, <2>1
  <2> PICK m \in Onions : m = shown[n][i].from
    BY <2>2 DEF Line
  <2>3. Imported(n, m) /\ Imported(m, n)
    BY <1>1 DEF MutualContacts
  <2>4. Imported(n, m)' /\ Imported(m, n)'
    BY <2>3, ImportedStep
  <2>5. QED
    BY <1>1, <2>4
<1>2. CASE /\ queue[n] # <<>>
           /\ shown'[n][i].from = Head(queue[n]).env.from
           /\ Verifies(n, peers'[n], Head(queue[n]).env)
  <2>1. Head(queue[n]) \in Connection /\ Head(queue[n]) = queue[n][1] /\ 1 \in DOMAIN queue[n]
    BY <1>2 DEF TypeOK
  <2> PICK m \in Onions : m = queue[n][1].env.from
    BY <2>1 DEF Connection, Envelope
  <2>2. Imported(m, n)'
    <3>1. Imported(m, n)
      BY <2>1 DEF QueueKnows
    <3>2. QED
      BY <3>1, ImportedStep
  <2>3. Imported(n, m)'
    <3>1. BooksAgree'
      BY AgreeStep
    <3>2. QED
      BY <1>2, <2>1, <3>1 DEF BooksAgree, Verifies
  <2>4. QED
    BY <1>2, <2>1, <2>2, <2>3
<1>3. QED
  BY <1>1, <1>2, ShownStep

\* ContactInv holds at the start, when nothing is under way.
LEMMA ContactInit ==
    ASSUME Init
    PROVE  ContactInv
BY TypeInit, AgreeInit
   DEF Init, ContactInv, SenderKnows, SendKnows, QueueKnows, MutualContacts

\* It is inductive.
LEMMA ContactStep ==
    ASSUME ContactInv, [Next]_vars
    PROVE  ContactInv'
BY TypeStep, AgreeStep, SenderStep, QueueKnowsStep, MutualStep DEF ContactInv

\* Nobody reads a line of someone whose invite they have not imported, nor of
\* someone who has not imported theirs, whatever invites go round, whoever adds
\* whom by address, and whichever listeners and prompts stop and start between
\* the typing and the printing (print_incoming, send_message).
THEOREM MutualContactsHolds == Spec => []MutualContacts
<1>1. ContactInv => MutualContacts
  BY DEF ContactInv
<1>2. QED
  BY <1>1, ContactInit, ContactStep, PTL DEF Spec
-------------------------------------------------------------------------------
(* Frames of those whose keys are current. *)

\* Who sends signs with the key of its identity.
SendsSigned ==
    \A m \in Onions : sending[m] # Nothing =>
        sending[m].env.from = m /\ sending[m].env.signer = Identity[m].signing

QueuesSigned ==
    \A n \in Onions : \A k \in DOMAIN queue[n] :
        queue[n][k].env.signer = Identity[queue[n][k].env.from].signing

SignedInv == TypeOK /\ BooksAgree /\ SendsSigned /\ QueuesSigned

\* A send_message keeps the frame it has made.
LEMMA SendsSignedStep ==
    ASSUME SignedInv, [Next]_vars
    PROVE  SendsSigned'
<1> SUFFICES ASSUME NEW m \in Onions, sending'[m] # Nothing
             PROVE  /\ sending'[m].env.from = m
                    /\ sending'[m].env.signer = Identity[m].signing
  BY DEF SendsSigned
<1>1. CASE /\ sending[m] # Nothing
           /\ sending'[m].env = sending[m].env
  BY <1>1 DEF SignedInv, SendsSigned
<1>2. ASSUME NEW o \in Onions, Begins(m, o)
      PROVE  /\ sending'[m].env.from = m
             /\ sending'[m].env.signer = Identity[m].signing
  BY <1>2 DEF Begins, Frame
<1>3. QED
  BY <1>1, <1>2, SendStep DEF SignedInv

\* Connections keep the frames they were opened for.
LEMMA QueuesSignedStep ==
    ASSUME SignedInv, [Next]_vars
    PROVE  QueuesSigned'
<1> SUFFICES ASSUME NEW n \in Onions, NEW k \in DOMAIN queue'[n]
             PROVE  queue'[n][k].env.signer = Identity[queue'[n][k].env.from].signing
  BY DEF QueuesSigned
<1>1. ASSUME NEW j \in DOMAIN queue[n], queue'[n][k].env = queue[n][j].env
      PROVE  queue'[n][k].env.signer = Identity[queue'[n][k].env.from].signing
  BY <1>1 DEF SignedInv, QueuesSigned
<1>2. ASSUME NEW m \in Onions, sending[m] # Nothing, queue'[n][k].env = sending[m].env
      PROVE  queue'[n][k].env.signer = Identity[queue'[n][k].env.from].signing
  BY <1>2 DEF SignedInv, SendsSigned
<1>3. QED
  BY <1>1, <1>2, QueueStep DEF SignedInv

\* A frame that m has sealed for n passes print_incoming, if n holds m's keys.
LEMMA CurrentVerifies ==
    ASSUME SignedInv, NEW n \in Onions, NEW m \in Onions, NEW env,
           env.from = m, env.signer = Identity[m].signing,
           env.sealed = Seal(m, Identity[n].encryption), Current(imported[n], m)
    PROVE  Verifies(n, peers[n], env)
<1>1. Identity[m].signing # None /\ Identity[m].encryption # None
  BY IdentityAssumption, PeerBookAssumption DEF ContactCard
<1>2. HasKeys(imported[n], m)
  BY <1>1 DEF Current, HasKeys
<1>3. Current(peers[n], m)
  BY <1>2 DEF SignedInv, BooksAgree, Current
<1>4. Seal(m, Identity[n].encryption) = Seal(n, Identity[m].encryption)
  BY DEF Seal
<1>5. QED
  BY <1>1, <1>3, <1>4 DEF Current, Verifies

\* Whoever imported the current invite of m last, and has not lost the record,
\* can read every frame that m has sealed for them, among any users and whatever
\* old invites and records without keys came and went before, and whatever else
\* is imported, added, sent or received meanwhile (upsert, send_message,
\* print_incoming).
THEOREM VerifiableWhenImportedHolds == Spec => []VerifiableWhenImported
<1>1. Init => SignedInv
  BY TypeInit, AgreeInit DEF Init, SignedInv, SendsSigned, QueuesSigned
<1>2. SignedInv /\ [Next]_vars => SignedInv'
  BY TypeStep, AgreeStep, SendsSignedStep, QueuesSignedStep DEF SignedInv
<1>3. SignedInv => VerifiableWhenImported
  <2> SUFFICES ASSUME SignedInv, NEW n \in Onions, NEW k \in DOMAIN queue[n],
                      NEW env, env = queue[n][k].env,
                      Current(imported[n], env.from),
                      env.sealed = Seal(env.from, Identity[n].encryption)
               PROVE  Verifies(n, peers[n], env)
    BY DEF VerifiableWhenImported
  <2>1. queue[n][k] \in Connection
    BY DEF SignedInv, TypeOK
  <2> PICK m \in Onions : m = env.from
    BY <2>1 DEF Connection, Envelope
  <2>2. env.signer = Identity[m].signing
    BY DEF SignedInv, QueuesSigned
  <2>3. QED
    BY <2>2, CurrentVerifies
<1>4. QED
  BY <1>1, <1>2, <1>3, PTL DEF Spec
-------------------------------------------------------------------------------
(* Mail: what is shown is what was typed, in the order it was typed. *)

\* The lines of m on n's screen and on the connections to n come before line b.
Below(n, m, b) ==
    /\ \A k \in DOMAIN queue[n] : queue[n][k].env.from = m => queue[n][k].env.line < b
    /\ \A i \in DOMAIN shown[n] : shown[n][i].from = m => shown[n][i].line < b

\* m sends the last line it typed, to the one it typed it for, and the earlier
\* ones have connected before it does.
SendsLast(m) ==
    sending[m] # Nothing =>
        /\ sending[m].env.from = m
        /\ sending[m].env.line = Len(typed[m])
        /\ typed[m][sending[m].env.line] = sending[m].to
        /\ sending[m].step = "connect" => Below(sending[m].to, m, sending[m].env.line)

AllSendLast == \A m \in Onions : SendsLast(m)

\* Line i of m was typed, for n.
TypedFor(m, i, n) == i \in DOMAIN typed[m] /\ typed[m][i] = n

\* What comes to n was typed for n, and what n has read was typed.
LinesTyped ==
    \A n \in Onions :
        /\ \A k \in DOMAIN queue[n] :
                TypedFor(queue[n][k].env.from, queue[n][k].env.line, n)
        /\ \A i \in DOMAIN shown[n] :
                TypedFor(shown[n][i].from, shown[n][i].line, n)

\* The lines of one sender are read in the order they wait in, and wait in the
\* order they were typed in.
InOrder ==
    \A n \in Onions : \A k \in DOMAIN queue[n] :
        /\ \A j \in DOMAIN queue[n] :
                j < k /\ queue[n][j].env.from = queue[n][k].env.from =>
                    queue[n][j].env.line < queue[n][k].env.line
        /\ \A i \in DOMAIN shown[n] :
                shown[n][i].from = queue[n][k].env.from =>
                    shown[n][i].line < queue[n][k].env.line

MailInv == ContactInv /\ AllSendLast /\ LinesTyped /\ InOrder

\* Who types a line has no other under way, and only appends it.
Types(m, o) ==
    /\ sending[m] = Nothing
    /\ typed' = [typed EXCEPT ![m] = Append(@, o)]
    /\ UNCHANGED <<queue, shown>>

\* Nothing else types.
LEMMA TypedStep ==
    ASSUME [Next]_vars
    PROVE  UNCHANGED typed \/ \E m, o \in Onions : Types(m, o)
<1>1. ASSUME NEW u \in Onions, SendMessage(u)
      PROVE  \E o \in Onions : Types(u, o)
  BY <1>1 DEF SendMessage, Types
<1>2. ASSUME NEW u \in Onions,
             \/ User(u) \/ Connect(u) \/ WriteFrame(u) \/ Listener(u) \/ ListenerFails(u)
             \/ \E k \in DOMAIN queue[u] : Network(u, k)
      PROVE  UNCHANGED typed
  BY <1>2 DEF User, ExportInvite, ImportInvite, AddPeer, LoseRecords, Listen,
     InteractiveChat, Quit, Kill, Connect, WriteFrame, Listener, DiscardFrame,
     PrintIncoming, ListenerFails, Network
<1>3. QED
  BY <1>1, <1>2 DEF Next, Sender, vars

\* The lines of each user after a step.
LEMMA LineKept ==
    ASSUME TypeOK, [Next]_vars, NEW m \in Onions
    PROVE  /\ \A i \in DOMAIN typed[m] : i \in DOMAIN typed'[m] /\ typed'[m][i] = typed[m][i]
           /\ sending[m] # Nothing => typed'[m] = typed[m]
<1>1. ASSUME NEW u \in Onions, NEW o \in Onions, Types(u, o)
      PROVE  \/ typed'[m] = typed[m]
             \/ typed'[m] = Append(typed[m], o) /\ sending[m] = Nothing
  BY <1>1 DEF Types, TypeOK
<1>2. ASSUME NEW o \in Onions, typed'[m] = Append(typed[m], o)
      PROVE  \A i \in DOMAIN typed[m] : i \in DOMAIN typed'[m] /\ typed'[m][i] = typed[m][i]
  <2> DEFINE before == typed[m]
             after == typed'[m]
  <2>1. before \in Seq(Onions) /\ after = Append(before, o)
    BY <1>2 DEF TypeOK
  <2> HIDE DEF before, after
  <2>2. \A i \in DOMAIN before : i \in DOMAIN after /\ after[i] = before[i]
    BY <2>1
  <2>3. QED
    BY <2>2 DEF before, after
<1>3. QED
  BY <1>1, <1>2, TypedStep

\* A line stays typed for whom it was.
LEMMA TypedForKept ==
    ASSUME TypeOK, [Next]_vars, NEW m \in Onions, NEW i, NEW n, TypedFor(m, i, n)
    PROVE  TypedFor(m, i, n)'
BY LineKept DEF TypedFor

\* Nothing of m comes to n later than line b, unless m's send connects.
LEMMA BelowStep ==
    ASSUME MailInv, [Next]_vars, NEW n \in Onions, NEW m \in Onions, NEW b,
           Below(n, m, b), ~Arrive(n, m)
    PROVE  Below(n, m, b)'
<1> USE DEF MailInv, ContactInv
<1>1. ASSUME NEW k \in DOMAIN queue'[n], queue'[n][k].env.from = m
      PROVE  queue'[n][k].env.line < b
  <2>1. CASE Leave(n)
    BY <1>1, <2>1 DEF Leave, Below
  <2>2. ASSUME NEW u \in Onions, Arrive(n, u)
        PROVE  queue'[n][k].env.line < b
    <3>1. u # m /\ sending[u].env.from = u
      BY <2>2 DEF AllSendLast, SendsLast, Arrive
    <3>2. k \in DOMAIN queue[n] /\ queue'[n][k].env = queue[n][k].env
      BY <1>1, <2>2, <3>1 DEF Arrive
    <3>3. QED
      BY <1>1, <3>2 DEF Below
  <2>3. QED
    BY <2>1, <2>2, QueueMoves
<1>2. ASSUME NEW i \in DOMAIN shown'[n], shown'[n][i].from = m
      PROVE  shown'[n][i].line < b
  <2>1. CASE i \in DOMAIN shown[n] /\ shown'[n][i] = shown[n][i]
    BY <1>2, <2>1 DEF Below
  <2>2. CASE /\ queue[n] # <<>>
             /\ shown'[n][i].from = Head(queue[n]).env.from
             /\ shown'[n][i].line = Head(queue[n]).env.line
    <3>1. Head(queue[n]) = queue[n][1] /\ 1 \in DOMAIN queue[n]
      BY <2>2 DEF TypeOK
    <3>2. QED
      BY <1>2, <2>2, <3>1 DEF Below
  <2>3. QED
    BY <2>1, <2>2, ShownStep
<1>3. QED
  BY <1>1, <1>2 DEF Below

\* A new line comes after all that were typed.
LEMMA NewLineLast ==
    ASSUME MailInv, NEW n \in Onions, NEW m \in Onions
    PROVE  Below(n, m, Len(typed[m]) + 1)
<1>1. typed[m] \in Seq(Onions)
  BY DEF MailInv, ContactInv, TypeOK
<1>2. \A i \in DOMAIN typed[m] : i < Len(typed[m]) + 1
  BY <1>1
<1>3. QED
  BY <1>2 DEF MailInv, LinesTyped, TypedFor, Below

\* A send_message goes on, or begins, with the last line that was typed.
LEMMA SendsLastStep ==
    ASSUME MailInv, [Next]_vars, NEW m \in Onions
    PROVE  SendsLast(m)'
<1> SUFFICES ASSUME sending'[m] # Nothing
             PROVE  /\ sending'[m].env.from = m
                    /\ sending'[m].env.line = Len(typed'[m])
                    /\ typed'[m][sending'[m].env.line] = sending'[m].to
                    /\ sending'[m].step = "connect" =>
                            Below(sending[m].to, m, sending[m].env.line)'
  BY DEF SendsLast
<1>0. TypeOK
  BY DEF MailInv, ContactInv
<1>1. CASE /\ sending[m] # Nothing
           /\ sending'[m].env = sending[m].env
           /\ sending'[m].to = sending[m].to
           /\ sending'[m].step = "connect" => sending[m].step = "connect"
  <2>1. sending[m] \in Send /\ sending[m].env \in Envelope
    BY <1>0, <1>1 DEF TypeOK, Send
  <2> PICK o \in Onions, b \in Nat : o = sending[m].to /\ b = sending[m].env.line
    BY <2>1 DEF Send, Envelope
  <2>2. typed'[m] = typed[m]
    BY <1>0, <1>1, LineKept
  <2>3. SendsLast(m)
    BY DEF MailInv, AllSendLast
  <2>4. ASSUME sending'[m].step = "connect"
        PROVE  Below(o, m, b)'
    <3>1. Below(o, m, b)
      BY <1>1, <2>3, <2>4 DEF SendsLast
    <3>2. ~Arrive(o, m)
      BY <2>4 DEF Arrive
    <3>3. QED
      BY <3>1, <3>2, BelowStep
  <2>5. QED
    BY <1>1, <2>2, <2>3, <2>4 DEF SendsLast
<1>2. ASSUME NEW o \in Onions, Begins(m, o)
      PROVE  /\ sending'[m].env.from = m
             /\ sending'[m].env.line = Len(typed'[m])
             /\ typed'[m][sending'[m].env.line] = sending'[m].to
             /\ Below(sending[m].to, m, sending[m].env.line)'
  <2> DEFINE before == typed[m]
             after == typed'[m]
  <2>1. before \in Seq(Onions) /\ after = Append(before, o)
    BY <1>0, <1>2 DEF TypeOK, Begins
  <2>2. sending'[m].to = o /\ sending'[m].env.from = m /\ sending'[m].env.line = Len(before) + 1
    BY <1>2 DEF Begins, Frame
  <2>3. queue' = queue /\ shown' = shown
    BY <1>2 DEF Begins
  <2>4. Below(o, m, Len(before) + 1)
    BY NewLineLast
  <2> HIDE DEF before, after
  <2>5. Len(after) = Len(before) + 1 /\ after[Len(before) + 1] = o
    BY <2>1
  <2>6. Below(sending[m].to, m, sending[m].env.line)'
    BY <2>2, <2>3, <2>4 DEF Below
  <2>7. QED
    BY <2>2, <2>5, <2>6 DEF after
<1>3. QED
  BY <1>0, <1>1, <1>2, SendStep

\* What was typed stays typed, and only typed lines are on their way or shown.
LEMMA LinesTypedStep ==
    ASSUME MailInv, [Next]_vars
    PROVE  LinesTyped'
<1>0. TypeOK
  BY DEF MailInv, ContactInv
<1>1. ASSUME NEW n \in Onions, NEW k \in DOMAIN queue[n],
             NEW env, env = queue[n][k].env
      PROVE  TypedFor(env.from, env.line, n) /\ env.from \in Onions
  <2>1. queue[n][k] \in Connection
    BY <1>0 DEF TypeOK
  <2>2. QED
    BY <1>1, <2>1 DEF MailInv, LinesTyped, Connection, Envelope
<1>2. ASSUME NEW n \in Onions, NEW k \in DOMAIN queue'[n]
      PROVE  TypedFor(queue[n][k].env.from, queue[n][k].env.line, n)'
  <2> PICK env : env = queue'[n][k].env
    OBVIOUS
  <2>1. TypedFor(env.from, env.line, n) /\ env.from \in Onions
    <3>1. CASE \E j \in DOMAIN queue[n] : env = queue[n][j].env
      BY <1>1, <3>1
    <3>2. ASSUME NEW m \in Onions, sending[m] # Nothing, sending[m].to = n, env = sending[m].env
          PROVE  TypedFor(env.from, env.line, n) /\ env.from \in Onions
      <4>1. sending[m].env \in Envelope /\ typed[m] \in Seq(Onions)
        BY <1>0, <3>2 DEF TypeOK, Send
      <4>2. env.from = m /\ env.line = Len(typed[m]) /\ typed[m][env.line] = n
        BY <3>2 DEF MailInv, AllSendLast, SendsLast
      <4>3. env.line \in DOMAIN typed[m]
        BY <3>2, <4>1, <4>2 DEF Envelope
      <4>4. QED
        BY <4>2, <4>3 DEF TypedFor
    <3>3. QED
      BY <1>0, <3>1, <3>2, QueueStep
  <2> PICK m \in Onions, b \in {env.line} : m = env.from /\ b = env.line
    BY <2>1
  <2>2. TypedFor(m, b, n)'
    BY <1>0, <2>1, TypedForKept
  <2>3. QED
    BY <2>2 DEF TypedFor
<1>3. ASSUME NEW n \in Onions, NEW i \in DOMAIN shown'[n]
      PROVE  TypedFor(shown[n][i].from, shown[n][i].line, n)'
  <2> PICK line : line = shown'[n][i]
    OBVIOUS
  <2>1. TypedFor(line.from, line.line, n) /\ line.from \in Onions
    <3>1. CASE i \in DOMAIN shown[n] /\ line = shown[n][i]
      <4>1. shown[n] \in Seq(Line)
        BY <1>0 DEF TypeOK, Line
      <4>2. shown[n][i] \in Line
        BY <3>1, <4>1
      <4>3. QED
        BY <3>1, <4>2 DEF MailInv, LinesTyped, Line
    <3>2. CASE /\ queue[n] # <<>>
               /\ line.from = Head(queue[n]).env.from
               /\ line.line = Head(queue[n]).env.line
      <4>1. Head(queue[n]) = queue[n][1] /\ 1 \in DOMAIN queue[n]
        BY <1>0, <3>2 DEF TypeOK
      <4>2. QED
        BY <1>1, <3>2, <4>1
    <3>3. QED
      BY <1>0, <3>1, <3>2, ShownStep
  <2> PICK m \in Onions, b \in {line.line} : m = line.from /\ b = line.line
    BY <2>1
  <2>2. TypedFor(m, b, n)'
    BY <1>0, <2>1, TypedForKept
  <2>3. QED
    BY <2>2 DEF TypedFor
<1>4. QED
  BY <1>2, <1>3 DEF LinesTyped

\* A frame that joins a queue is the last line of its sender there.
LEMMA ArriveLast ==
    ASSUME MailInv, NEW n \in Onions, NEW m \in Onions, Arrive(n, m)
    PROVE  sending[m].env.from = m /\ Below(n, m, sending[m].env.line)
BY DEF MailInv, AllSendLast, SendsLast, Arrive

\* Connections are read in the order they were made in.
LEMMA InOrderStep ==
    ASSUME MailInv, [Next]_vars
    PROVE  InOrder'
<1>0. TypeOK /\ TypeOK' /\ InOrder
  BY TypeStep DEF MailInv, ContactInv
<1> SUFFICES ASSUME NEW n \in Onions, NEW k \in DOMAIN queue'[n]
             PROVE  /\ \A j \in DOMAIN queue'[n] :
                        j < k /\ queue'[n][j].env.from = queue'[n][k].env.from =>
                            queue'[n][j].env.line < queue'[n][k].env.line
                    /\ \A i \in DOMAIN shown'[n] :
                        shown'[n][i].from = queue'[n][k].env.from =>
                            shown'[n][i].line < queue'[n][k].env.line
  BY DEF InOrder
<1>1. DOMAIN queue[n] = 1 .. Len(queue[n]) /\ DOMAIN queue'[n] = 1 .. Len(queue'[n])
      /\ Len(queue[n]) \in Nat /\ Len(queue'[n]) \in Nat
  BY <1>0 DEF TypeOK
<1>2. ASSUME NEW j \in DOMAIN queue'[n], j < k,
             queue'[n][j].env.from = queue'[n][k].env.from
      PROVE  queue'[n][j].env.line < queue'[n][k].env.line
  <2>1. CASE Leave(n)
    <3> PICK s \in {0, 1} : \A h \in DOMAIN queue'[n] :
            h + s \in DOMAIN queue[n] /\ queue'[n][h].env = queue[n][h + s].env
      BY <2>1 DEF Leave
    <3>1. j + s < k + s
      BY <1>1, <1>2
    <3>2. QED
      BY <1>0, <1>2, <3>1 DEF InOrder
  <2>2. ASSUME NEW m \in Onions, Arrive(n, m)
        PROVE  queue'[n][j].env.line < queue'[n][k].env.line
    <3>1. j \in DOMAIN queue[n] /\ queue'[n][j].env = queue[n][j].env
      BY <1>1, <1>2, <2>2 DEF Arrive
    <3>2. CASE k \in DOMAIN queue[n] /\ queue'[n][k].env = queue[n][k].env
      BY <1>0, <1>2, <3>1, <3>2 DEF InOrder
    <3>3. CASE queue'[n][k].env = sending[m].env
      BY <1>2, <2>2, <3>1, <3>3, ArriveLast DEF Below
    <3>4. QED
      BY <2>2, <3>2, <3>3 DEF Arrive
  <2>3. QED
    BY <1>0, <2>1, <2>2, QueueMoves
<1>3. ASSUME NEW i \in DOMAIN shown'[n], shown'[n][i].from = queue'[n][k].env.from
      PROVE  shown'[n][i].line < queue'[n][k].env.line
  <2>1. CASE i \in DOMAIN shown[n] /\ shown'[n][i] = shown[n][i]
    <3>1. CASE Leave(n)
      BY <1>0, <1>3, <2>1, <3>1 DEF Leave, InOrder
    <3>2. ASSUME NEW m \in Onions, Arrive(n, m)
          PROVE  shown'[n][i].line < queue'[n][k].env.line
      <4>1. CASE k \in DOMAIN queue[n] /\ queue'[n][k].env = queue[n][k].env
        BY <1>0, <1>3, <2>1, <4>1 DEF InOrder
      <4>2. CASE queue'[n][k].env = sending[m].env
        BY <1>3, <2>1, <3>2, <4>2, ArriveLast DEF Below
      <4>3. QED
        BY <3>2, <4>1, <4>2 DEF Arrive
    <3>3. QED
      BY <1>0, <3>1, <3>2, QueueMoves
  <2>2. CASE /\ queue[n] # <<>>
             /\ queue' = [queue EXCEPT ![n] = Tail(@)]
             /\ shown'[n][i].from = Head(queue[n]).env.from
             /\ shown'[n][i].line = Head(queue[n]).env.line
    <3>1. Head(queue[n]) = queue[n][1] /\ 1 \in DOMAIN queue[n]
      BY <1>0, <2>2 DEF TypeOK
    <3>2. k + 1 \in DOMAIN queue[n] /\ queue'[n][k] = queue[n][k + 1] /\ 1 < k + 1
      <4> DEFINE before == queue[n]
                 after == queue'[n]
      <4>1. /\ before \in Seq(Connection) /\ before # <<>>
            /\ after = Tail(before) /\ k \in DOMAIN after
        BY <1>0, <2>2 DEF TypeOK
      <4> HIDE DEF before, after
      <4>2. k + 1 \in DOMAIN before /\ after[k] = before[k + 1] /\ 1 < k + 1
        BY <4>1
      <4>3. QED
        BY <4>2 DEF before, after
    <3>3. QED
      BY <1>0, <1>3, <2>2, <3>1, <3>2 DEF InOrder
  <2>3. QED
    BY <1>0, <2>1, <2>2, ShownStep
<1>4. QED
  BY <1>2, <1>3

\* MailInv is inductive.
LEMMA MailStep ==
    ASSUME MailInv, [Next]_vars
    PROVE  MailInv'
<1>1. AllSendLast'
  BY SendsLastStep DEF AllSendLast
<1>2. QED
  BY <1>1, ContactStep, LinesTypedStep, InOrderStep DEF MailInv
-------------------------------------------------------------------------------
(* The refinement mapping of Promise, step by step. *)

Known == {p \in Onions \X Onions : Imported(p[1], p[2])}

Audience == [n \in Onions |-> [i \in DOMAIN typed[n] |-> {typed[n][i]}]]

\* A step of Mail, or none.
Mails == [Promise!Next]_<<Audience, shown, Known>>

\* Without an import the pairs stay.
LEMMA KnownStep ==
    ASSUME TypeOK, [Next]_vars
    PROVE  Known' = Known \/ \E u \in Onions : ImportInvite(u)
<1>1. ASSUME UNCHANGED imported
      PROVE  Known' = Known
  BY <1>1 DEF Known, Imported
<1>2. ASSUME NEW u \in Onions, LoseRecords(u)
      PROVE  Known' = Known
  <2>1. NoKeys # NoPeer
    BY PeerBookAssumption DEF NoKeys, PeerRecord
  <2>2. \A n, m \in Onions : Imported(n, m)' <=> Imported(n, m)
    BY <1>2, <2>1, LoseBooks DEF Keeps, Loses, Imported
  <2>3. QED
    BY <2>2 DEF Known
<1>3. ASSUME NEW u \in Onions,
             \/ ExportInvite(u) \/ AddPeer(u) \/ Listen(u) \/ InteractiveChat(u)
             \/ Quit(u) \/ Kill(u) \/ Sender(u) \/ Listener(u) \/ ListenerFails(u)
             \/ \E k \in DOMAIN queue[u] : Network(u, k)
      PROVE  UNCHANGED imported
  BY <1>3 DEF ExportInvite, AddPeer, Listen, InteractiveChat, Quit, Kill, Sender,
     SendMessage, Connect, WriteFrame, Listener, DiscardFrame, PrintIncoming, ListenerFails,
     Network
<1>4. QED
  BY <1>1, <1>2, <1>3 DEF Next, User, vars

\* An import adds one.
LEMMA ImportLearns ==
    ASSUME TypeOK, NEW n \in Onions, ImportInvite(n)
    PROVE  Mails
<1> PICK card \in invites : imported' = [imported EXCEPT ![n][card.onion] = CardKeys(card)]
  BY DEF ImportInvite
<1>1. card \in ContactCard /\ card.onion \in Onions
  BY DEF TypeOK, ContactCard
<1>2. CardKeys(card) # NoPeer
  BY <1>1, PeerBookAssumption DEF ContactCard, CardKeys, PeerRecord
<1>3. Imported(n, card.onion)'
  BY <1>1, <1>2 DEF Imported, TypeOK, Books
<1>4. \A u, m \in Onions : u # n \/ m # card.onion => (Imported(u, m)' <=> Imported(u, m))
  BY <1>1 DEF Imported, TypeOK, Books
<1>5. Known' = Known \cup {<<n, card.onion>>}
  BY <1>1, <1>3, <1>4 DEF Known
<1>6. Promise!Learn(n, card.onion)
  BY <1>5 DEF ImportInvite, Promise!Learn, Known, Audience
<1>7. QED
  BY <1>1, <1>6 DEF Promise!Next, Mails

\* Typing a line, whatever becomes of it.
LEMMA TypesTypes ==
    ASSUME TypeOK, NEW m \in Onions, NEW o \in Onions, Types(m, o), Known' = Known
    PROVE  Mails
<1> DEFINE before == typed[m]
           after == typed'[m]
           old == [i \in DOMAIN before |-> {before[i]}]
           new == [i \in DOMAIN after |-> {after[i]}]
<1>1. before \in Seq(Onions) /\ after = Append(before, o)
  BY DEF TypeOK, Types
<1> HIDE DEF before, after
<1>2. /\ DOMAIN before = 1 .. Len(before) /\ Len(before) \in Nat
      /\ DOMAIN after = 1 .. Len(before) + 1
      /\ \A i \in DOMAIN before : after[i] = before[i]
      /\ after[Len(before) + 1] = o
  BY <1>1
<1>3. old \in Seq(SUBSET Onions) /\ Len(old) = Len(before)
  BY <1>1, <1>2
<1>4. new = Append(old, {o})
  <2>1. Append(old, {o}) = [i \in 1 .. Len(old) + 1 |-> IF i = Len(old) + 1 THEN {o} ELSE old[i]]
    BY <1>3
  <2>2. QED
    BY <1>2, <1>3, <2>1
<1>5. Audience' = [Audience EXCEPT ![m] = Append(@, {o})]
  <2>1. Audience[m] = old /\ Audience'[m] = new
    BY DEF Audience, before, after
  <2>2. \A n \in Onions \ {m} : typed'[n] = typed[n]
    BY DEF Types, TypeOK
  <2>3. \A n \in Onions \ {m} : Audience'[n] = Audience[n]
    BY <2>2 DEF Audience
  <2> HIDE DEF old, new
  <2>4. QED
    BY <1>4, <2>1, <2>3 DEF Audience
<1>6. Promise!Type(m, {o})
  BY <1>5 DEF Promise!Type, Types, Known, Audience
<1>7. QED
  BY <1>6 DEF Promise!Next, Mails

\* Reading a line of a mutual contact.
LEMMA PrintingShows ==
    ASSUME MailInv, [Next]_vars, NEW n \in Onions, queue[n] # <<>>,
           shown' = [shown EXCEPT ![n] = Append(@, [from |-> Head(queue[n]).env.from,
                                                    line |-> Head(queue[n]).env.line])],
           Verifies(n, peers'[n], Head(queue[n]).env),
           UNCHANGED typed, Known' = Known
    PROVE  Mails
<1>1. /\ Head(queue[n]) = queue[n][1] /\ 1 \in DOMAIN queue[n]
      /\ queue[n][1] \in Connection
  BY DEF MailInv, ContactInv, TypeOK
<1> PICK env \in Envelope : env = queue[n][1].env
  BY <1>1 DEF Connection
<1> PICK m \in Onions, i \in Nat \ {0} : m = env.from /\ i = env.line
  BY DEF Envelope
<1>2. Known' = Known /\ Audience' = Audience
  BY DEF Audience
<1>3. Imported(m, n)
  BY <1>1 DEF MailInv, ContactInv, QueueKnows
<1>4. Imported(n, m)
  <2>1. BooksAgree'
    BY AgreeStep DEF MailInv, ContactInv
  <2>2. Imported(n, m)'
    BY <1>1, <2>1 DEF BooksAgree, Verifies
  <2>3. <<n, m>> \in Known'
    BY <2>2 DEF Known
  <2>4. <<n, m>> \in Known
    BY <1>2, <2>3
  <2>5. QED
    BY <2>4 DEF Known
<1>5. {<<n, m>>, <<m, n>>} \subseteq Known
  BY <1>3, <1>4 DEF Known
<1>6. i \in DOMAIN Audience[m] /\ n \in Audience[m][i]
  BY <1>1 DEF MailInv, LinesTyped, TypedFor, Audience
<1>7. Promise!Later(shown[n], m, i)
  BY <1>1 DEF MailInv, InOrder, Promise!Later
<1>8. shown' = [shown EXCEPT ![n] = Append(@, [from |-> m, line |-> i])]
  BY <1>1
<1>9. Promise!Show(n, m)
  BY <1>2, <1>5, <1>6, <1>7, <1>8 DEF Promise!Show, Known, Audience
<1>10. QED
  BY <1>9 DEF Promise!Next, Mails

\* What a step does to the screens.
LEMMA ScreenStep ==
    ASSUME [Next]_vars
    PROVE  \/ UNCHANGED shown
           \/ \E n \in Onions :
                /\ queue[n] # <<>>
                /\ shown' = [shown EXCEPT ![n] = Append(@, [from |-> Head(queue[n]).env.from,
                                                             line |-> Head(queue[n]).env.line])]
                /\ Verifies(n, peers'[n], Head(queue[n]).env)
                /\ UNCHANGED typed
<1>1. ASSUME NEW n \in Onions, PrintIncoming(n), ~UNCHANGED shown
      PROVE  /\ queue[n] # <<>>
             /\ shown' = [shown EXCEPT ![n] = Append(@, [from |-> Head(queue[n]).env.from,
                                                          line |-> Head(queue[n]).env.line])]
             /\ Verifies(n, peers'[n], Head(queue[n]).env)
             /\ UNCHANGED typed
  BY <1>1 DEF PrintIncoming, FrameRead
<1>2. ASSUME NEW u \in Onions,
             \/ User(u) \/ Sender(u) \/ DiscardFrame(u) \/ ListenerFails(u)
             \/ \E k \in DOMAIN queue[u] : Network(u, k)
      PROVE  UNCHANGED shown
  BY <1>2 DEF User, ExportInvite, ImportInvite, AddPeer, LoseRecords, Listen,
     InteractiveChat, Quit, Kill, Sender, SendMessage, Connect, WriteFrame, DiscardFrame,
     ListenerFails, Network
<1>3. QED
  BY <1>1, <1>2 DEF Next, Listener, vars

\* Every step of the system is one of the mail, or none.
LEMMA MailsStep ==
    ASSUME MailInv, [Next]_vars
    PROVE  Mails
<1>0. TypeOK
  BY DEF MailInv, ContactInv
<1>1. ASSUME NEW u \in Onions, ImportInvite(u)
      PROVE  Mails
  BY <1>0, <1>1, ImportLearns
<1>2. ASSUME Known' = Known
      PROVE  Mails
  <2>2. ASSUME NEW m \in Onions, NEW o \in Onions, Types(m, o)
        PROVE  Mails
    BY <1>0, <1>2, <2>2, TypesTypes
  <2>3. ASSUME NEW n \in Onions, ~UNCHANGED shown, UNCHANGED typed
        PROVE  Mails
    BY <1>2, <2>3, ScreenStep, PrintingShows
  <2>4. ASSUME UNCHANGED <<typed, shown>>
        PROVE  Mails
    BY <1>2, <2>4 DEF Mails, Audience
  <2>5. CASE UNCHANGED typed /\ Onions # {}
    BY <2>3, <2>4, <2>5
  <2>6. QED
    BY <2>2, <2>4, <2>5, TypedStep, ScreenStep
<1>3. QED
  BY <1>0, <1>1, <1>2, KnownStep

\* MailInv holds at the start, which is one of Mail's.
LEMMA MailInit ==
    ASSUME Init
    PROVE  MailInv /\ Promise!Init
<1>1. AllSendLast /\ LinesTyped /\ InOrder
  BY DEF Init, AllSendLast, SendsLast, LinesTyped, InOrder
<1>2. Audience = [n \in Onions |-> <<>>]
  BY DEF Init, Audience
<1>3. Promise!Init
  BY <1>2 DEF Init, Promise!Init, Audience
<1>4. QED
  BY <1>1, <1>3, ContactInit DEF MailInv

\* Sessions, backlogs, connections and peer books implement the mail of Mail: a
\* line appears only on the screen of the one it was typed for, once at most, in
\* the order its sender typed, and only between mutual contacts, for any users,
\* invites and restarts, and whatever the network delays, cuts or loses
\* (send_message, run_listener).
THEOREM DeliversMailHolds == Spec => DeliversMail
<1>1. Init => MailInv /\ Promise!Init
  BY MailInit
<1>2. MailInv /\ [Next]_vars => MailInv' /\ Mails
  BY MailStep, MailsStep
<1>3. QED
  BY <1>1, <1>2, PTL DEF Spec, DeliversMail, Promise!Spec, Mails, Audience, Known
===============================================================================
