--------------------------------- MODULE Chat ---------------------------------
(***************************************************************************)
(* Direct messages between the users of onionchat, each named by its onion *)
(* address.  A user has a peer book, at most one session (`listen` or      *)
(* `chat`: Tor refuses to publish an onion twice) with a listener that     *)
(* reads one connection at a time, and at most one send_message in flight, *)
(* of the chat prompt or of a `send` command.  Nothing acknowledges a      *)
(* message: "sent to" is printed when its bytes are in the local socket.   *)
(*                                                                         *)
(* The peer book is read and saved in one step here.  What else processes  *)
(* of one user that are at the file at once, or are killed there, can do,  *)
(* as PeerStore and JsonFile show, is that records get lost (LoseRecords)  *)
(* and that a file cannot be read (ListenerFails).                         *)
(***************************************************************************)
EXTENDS PeerBook, Naturals, Sequences

CONSTANTS
    Identity,     \* Identity[n]: the contact card of n's identity.json
    OldInvites,   \* invites in circulation before the exports of this run
    Contacts,     \* Contacts[n]: the peer book n starts with
    Talks,        \* pairs <<m, n>>: m may write to n
    Losers,       \* users whose peer book may lose records
    MaxLines,     \* bound: lines each user types
    Nothing       \* no send_message in flight

ASSUME IdentityAssumption ==
    /\ Identity \in [Onions -> ContactCard]
    /\ \A n \in Onions : Identity[n].onion = n

ASSUME InvitesAssumption == OldInvites \subseteq ContactCard

\* A record has an encryption key only with a signing key (import_invite gives
\* both; a peers.json of an older version may have the signing key alone).
ASSUME ContactsAssumption ==
    /\ Contacts \in [Onions -> Books]
    /\ \A n, m \in Onions :
        EncryptionKey(Contacts[n], m) # None => SigningKey(Contacts[n], m) # None

ASSUME LosersAssumption == Losers \subseteq Onions

ASSUME MaxLinesAssumption == MaxLines \in Nat

\* MessageEnvelope, Direct: signed with one key, encrypted between two others.
Envelope == [from : Onions, line : Nat \ {0}, signer : Keys, sealed : SUBSET Keys]

\* A send_message that awaits the connection, or awaits write_frame.
Send == [to : Onions, env : Envelope, step : {"connect", "write"}]

ASSUME NothingAssumption == Nothing \notin Send /\ NoPeer \notin Onions

VARIABLES
    peers,      \* peers[n]: n's peer book
    imported,   \* history: imported[n][m]: the keys n imported last of m's
    invites,    \* contact cards in circulation
    listening,  \* listening[n]: n's listener task accepts connections
    prompt,     \* prompt[n]: the peer of n's chat prompt, if n runs `chat`
    queue,      \* queue[n]: connections to n's listener, the first being read
    sending,    \* sending[n]: n's send_message in flight, if any
    typed,      \* history: typed[n][i] is for whom n typed its i-th line
    shown       \* shown[n]: the lines printed on n's terminal

vars == <<peers, imported, invites, listening, prompt, queue, sending, typed, shown>>

\* A connection: the frame being sent over it, and how far it got.
Connection == [env : Envelope, state : {"open", "written", "arrived", "broken"}]

HasKeys(book, m) == SigningKey(book, m) # None /\ EncryptionKey(book, m) # None

\* Nothing but an import gives a record both keys.
Init ==
    /\ peers = Contacts
    /\ imported = [n \in Onions |-> [m \in Onions |->
            IF HasKeys(Contacts[n], m) THEN Contacts[n][m] ELSE NoPeer]]
    /\ invites = OldInvites
    /\ listening = [n \in Onions |-> FALSE]
    /\ prompt = [n \in Onions |-> NoPeer]
    /\ queue = [n \in Onions |-> <<>>]
    /\ sending = [n \in Onions |-> Nothing]
    /\ typed = [n \in Onions |-> <<>>]
    /\ shown = [n \in Onions |-> <<>>]
-------------------------------------------------------------------------------
(* Commands that only touch files. *)

RememberPeer(n, r) == peers' = [peers EXCEPT ![n] = Upsert(@, r)]

ExportInvite(n) ==
    /\ invites' = invites \cup {Identity[n]}
    /\ UNCHANGED <<peers, imported, listening, prompt, queue, sending, typed, shown>>

CardKeys(card) == [signing |-> card.signing, encryption |-> card.encryption]

\* The file may come from anyone; nothing compares its age with the saved keys.
ImportInvite(n) ==
    /\ \E card \in invites :
        /\ RememberPeer(n, card)
        /\ imported' = [imported EXCEPT ![n][card.onion] = CardKeys(card)]
    /\ UNCHANGED <<invites, listening, prompt, queue, sending, typed, shown>>

\* Also interactive_chat when Tor fails: the peer has been saved by then.
AddPeer(n) ==
    /\ \E o \in Onions : RememberPeer(n, WithoutKeys(o))
    /\ UNCHANGED <<imported, invites, listening, prompt, queue, sending, typed, shown>>

NoKeys == [signing |-> None, encryption |-> None]

\* write_atomic is killed, or a process loads the default book while another is
\* between remove_file and rename, or saves a book that it loaded earlier (what
\* is older in that book comes back by the AddPeer or ImportInvite it is from).
LoseRecords(n) ==
    /\ n \in Losers
    /\ \E lost \in SUBSET Onions :
        /\ peers' = [peers EXCEPT ![n] =
                [o \in Onions |-> IF o \in lost THEN NoPeer ELSE peers[n][o]]]
        /\ imported' = [imported EXCEPT ![n] =
                [o \in Onions |-> IF o \in lost /\ imported[n][o] # NoPeer
                                  THEN NoKeys ELSE imported[n][o]]]
    /\ UNCHANGED <<invites, listening, prompt, queue, sending, typed, shown>>
-------------------------------------------------------------------------------
(* Sessions. *)

InSession(n) == listening[n] \/ prompt[n] # NoPeer

Listen(n) ==
    /\ ~InSession(n)
    /\ listening' = [listening EXCEPT ![n] = TRUE]
    /\ UNCHANGED <<peers, imported, invites, prompt, queue, sending, typed, shown>>

InteractiveChat(n) ==
    /\ ~InSession(n)
    /\ sending[n] = Nothing
    /\ \E o \in Onions :
        /\ <<n, o>> \in Talks
        /\ RememberPeer(n, WithoutKeys(o))
        /\ prompt' = [prompt EXCEPT ![n] = o]
    /\ listening' = [listening EXCEPT ![n] = TRUE]
    /\ UNCHANGED <<imported, invites, queue, sending, typed, shown>>

\* The local port is closed: its connections are reset, whatever they carried.
CloseListener(n) ==
    /\ listening' = [listening EXCEPT ![n] = FALSE]
    /\ queue' = [queue EXCEPT ![n] = <<>>]

\* Ctrl+C in `listen`; Ctrl+C, /quit or the end of stdin at a chat prompt,
\* which nobody looks at while a send_message of the prompt is in flight.
Quit(n) ==
    /\ InSession(n)
    /\ prompt[n] # NoPeer => sending[n] = Nothing
    /\ CloseListener(n)
    /\ prompt' = [prompt EXCEPT ![n] = NoPeer]
    /\ UNCHANGED <<peers, imported, invites, sending, typed, shown>>

\* The process with the send_message in flight is killed, and the session too
\* when it is the same process.
Kill(n) ==
    /\ sending[n] # Nothing
    /\ sending' = [sending EXCEPT ![n] = Nothing]
    /\ IF prompt[n] = NoPeer THEN UNCHANGED <<listening, queue>> ELSE CloseListener(n)
    /\ prompt' = [prompt EXCEPT ![n] = NoPeer]
    /\ UNCHANGED <<peers, imported, invites, typed, shown>>
-------------------------------------------------------------------------------
(* send_message, with an await before each step but the first. *)

Seal(n, key) == {Identity[n].encryption, key}

\* Mutant of Frame: lines are counted from 0.
FrameFromZero(n, key) ==
    [from |-> n, line |-> Len(typed[n]),
     signer |-> Identity[n].signing, sealed |-> Seal(n, key)]

\* The frame of n's next line, for one with that encryption key.
Frame(n, key) ==
    [from |-> n, line |-> Len(typed[n]) + 1,
     signer |-> Identity[n].signing, sealed |-> Seal(n, key)]

\* Up to send_envelope nothing is awaited.  The peer is saved before it turns out
\* that no encryption key is known for it; then, and on any other error, the line
\* is lost.
SendMessage(n) ==
    /\ sending[n] = Nothing
    /\ Len(typed[n]) < MaxLines
    /\ \E o \in Onions :
        /\ <<n, o>> \in Talks
        /\ prompt[n] \in {NoPeer, o}
        /\ RememberPeer(n, WithoutKeys(o))
        /\ typed' = [typed EXCEPT ![n] = Append(@, o)]
        /\ LET key == EncryptionKey(peers'[n], o)
           IN  \/ UNCHANGED sending
               \/ /\ key # None
                  /\ sending' = [sending EXCEPT ![n] =
                        [to |-> o, env |-> Frame(n, key), step |-> "connect"]]
    /\ UNCHANGED <<imported, invites, listening, prompt, queue, shown>>

\* Mutant of Connect: the listener accepts the latest connection first.
ConnectFirst(n) ==
    /\ sending[n] # Nothing
    /\ sending[n].step = "connect"
    /\ listening[sending[n].to]
    /\ queue' = [queue EXCEPT ![sending[n].to] =
            <<[env |-> sending[n].env, state |-> "open"]>> \o @]
    /\ sending' = [sending EXCEPT ![n].step = "write"]
    /\ UNCHANGED <<peers, imported, invites, listening, prompt, typed, shown>>

\* connect_via_socks: Tor reaches the peer's published port, or gives up.
Connect(n) ==
    /\ sending[n] # Nothing
    /\ sending[n].step = "connect"
    /\ \/ /\ listening[sending[n].to]
          /\ queue' = [queue EXCEPT ![sending[n].to] =
                Append(@, [env |-> sending[n].env, state |-> "open"])]
          /\ sending' = [sending EXCEPT ![n].step = "write"]
       \/ /\ sending' = [sending EXCEPT ![n] = Nothing]
          /\ UNCHANGED queue
    /\ UNCHANGED <<peers, imported, invites, listening, prompt, typed, shown>>

Progress(n, k, from, to) ==
    /\ queue[n][k].state \in from
    /\ queue' = [queue EXCEPT ![n][k].state = to]

\* write_frame: the frame is written, or encode_frame refuses it as too long (or
\* the write fails), which drops the connection; it may be gone by now, too.
WriteFrame(n) ==
    /\ sending[n] # Nothing
    /\ sending[n].step = "write"
    /\ LET to == sending[n].to
           Mine(k) == queue[to][k].env = sending[n].env
       IN  \/ \E k \in DOMAIN queue[to], got \in {"written", "broken"} :
                Mine(k) /\ Progress(to, k, {"open"}, got)
           \/ /\ ~\E k \in DOMAIN queue[to] :
                    Mine(k) /\ queue[to][k].state = "open"
              /\ UNCHANGED queue
    /\ sending' = [sending EXCEPT ![n] = Nothing]
    /\ UNCHANGED <<peers, imported, invites, listening, prompt, typed, shown>>

\* Tor delivers the bytes of a connection to n, or tears the connection down.
Network(n, k) ==
    /\ \/ Progress(n, k, {"written"}, "arrived")
       \/ Progress(n, k, {"open", "written"}, "broken")
    /\ UNCHANGED <<peers, imported, invites, listening, prompt, sending, typed, shown>>
-------------------------------------------------------------------------------
(* run_listener *)

\* Mutant of Verifies: a message from a peer without keys is not verified.
VerifiesIfKnown(n, book, env) ==
    SigningKey(book, env.from) \in {None, env.signer}

\* print_incoming gets past verify_message and decrypt_message.
Verifies(n, book, env) ==
    /\ SigningKey(book, env.from) = env.signer
    /\ EncryptionKey(book, env.from) # None
    /\ env.sealed = Seal(n, EncryptionKey(book, env.from))

\* Mutant of DiscardFrame: the rest of a frame is waited for when it was cut.
DiscardStuck(n) ==
    /\ queue[n] # <<>>
    /\ Head(queue[n]).state = "broken"
    /\ UNCHANGED vars

\* read_frame fails: the frame was cut short.
DiscardFrame(n) ==
    /\ queue[n] # <<>>
    /\ Head(queue[n]).state = "broken"
    /\ queue' = [queue EXCEPT ![n] = Tail(@)]
    /\ UNCHANGED <<peers, imported, invites, listening, prompt, sending, typed, shown>>

FrameRead(n) == queue[n] # <<>> /\ Head(queue[n]).state = "arrived"

\* The sender goes into the peer book; an error of that is only logged.
RecordSender(n) ==
    RememberPeer(n, WithoutKeys(Head(queue[n]).env.from)) \/ UNCHANGED peers

\* read_frame returns a message.  Any error of print_incoming leaves run_listener
\* by `?`: `listen` exits with it, `chat` keeps its prompt and never looks at the
\* listener task.
PrintIncoming(n) ==
    /\ FrameRead(n)
    /\ RecordSender(n)
    /\ LET env == Head(queue[n]).env
       IN  \/ /\ Verifies(n, peers'[n], env)
              /\ shown' = [shown EXCEPT ![n] =
                     Append(@, [from |-> env.from, line |-> env.line])]
              /\ queue' = [queue EXCEPT ![n] = Tail(@)]
              /\ UNCHANGED listening
           \/ /\ ~Verifies(n, peers'[n], env)
              /\ CloseListener(n)
              /\ UNCHANGED shown
    /\ UNCHANGED <<imported, invites, prompt, sending, typed>>

\* The listener ends with any other error: accept fails, or print_incoming cannot
\* read peers.json, groups.json or identity.json, say since another process has
\* just removed it.
ListenerFails(n) ==
    /\ listening[n]
    /\ UNCHANGED peers \/ (FrameRead(n) /\ RecordSender(n))
    /\ CloseListener(n)
    /\ UNCHANGED <<imported, invites, prompt, sending, typed, shown>>
-------------------------------------------------------------------------------
Sender(n) == SendMessage(n) \/ Connect(n) \/ WriteFrame(n)

Listener(n) == DiscardFrame(n) \/ PrintIncoming(n)

User(n) ==
    \/ ExportInvite(n) \/ ImportInvite(n) \/ AddPeer(n) \/ LoseRecords(n)
    \/ Listen(n) \/ InteractiveChat(n) \/ Quit(n) \/ Kill(n)

Next == \E n \in Onions :
    \/ User(n) \/ Sender(n) \/ Listener(n) \/ ListenerFails(n)
    \/ \E k \in DOMAIN queue[n] : Network(n, k)

Spec == Init /\ [][Next]_vars

\* The runtime polls a listener task that is ready.  Nothing is assumed of the
\* network, of senders, or of the connection that read_frame waits for.
Fairness == \A n \in Onions : WF_vars(Listener(n))

FairSpec == Spec /\ Fairness
-------------------------------------------------------------------------------
\* Every variable has its type.
TypeOK ==
    /\ peers \in [Onions -> Books]
    /\ imported \in [Onions -> Books]
    /\ invites \subseteq ContactCard
    /\ listening \in [Onions -> BOOLEAN]
    /\ prompt \in [Onions -> Onions \cup {NoPeer}]
    /\ queue \in [Onions -> Seq(Connection)]
    /\ sending \in [Onions -> Send \cup {Nothing}]
    /\ typed \in [Onions -> Seq(Onions)]
    /\ shown \in [Onions -> Seq([from : Onions, line : Nat \ {0}])]

\* n has imported an invite of m, some time.
Imported(n, m) == imported[n][m] # NoPeer

\* A line on a screen comes from a contact on both sides: who reads it has
\* imported an invite of who typed it, and the other way round.  The two ends
\* run at different times, with imports, restarts and strangers in between.
MutualContacts ==
    \A n \in Onions : \A i \in DOMAIN shown[n] :
        Imported(n, shown[n][i].from) /\ Imported(shown[n][i].from, n)

\* The keys are those m has.
Current(book, m) ==
    /\ SigningKey(book, m) = Identity[m].signing
    /\ EncryptionKey(book, m) = Identity[m].encryption

\* Whoever imported the current invite of m last, and has not lost the record, can
\* read every frame m has sealed for them: upsert drops or mixes no key, whatever
\* was imported, added, sent to m or received from m before and since, by the
\* listener, the prompt and other commands.
VerifiableWhenImported ==
    \A n \in Onions : \A k \in DOMAIN queue[n] :
        LET env == queue[n][k].env
        IN  /\ Current(imported[n], env.from)
            /\ env.sealed = Seal(env.from, Identity[n].encryption)
            => Verifies(n, peers[n], env)

\* The listener answers until it is told to stop, "press Ctrl+C to stop": no
\* frame that it reads, complete or not, ends it (but for a Quit, which can look
\* the same).
ListensUntilStopped ==
    [][\A n \in Onions :
        DiscardFrame(n) \/ PrintIncoming(n) => listening'[n] \/ Quit(n)]_vars

Arrived(n, m, i) ==
    \E k \in DOMAIN queue[n] :
        /\ queue[n][k].state = "arrived"
        /\ queue[n][k].env.from = m
        /\ queue[n][k].env.line = i

Shown(n, m, i) == \E j \in DOMAIN shown[n] : shown[n][j] = [from |-> m, line |-> i]

\* read_frame waits for the rest of a frame.
Blocked(n) == queue[n] # <<>> /\ Head(queue[n]).state \in {"open", "written"}

\* A line whose frame has arrived is shown, unless the listener ends before, or
\* the connection that it reads stays silent for ever: read_frame has no timeout,
\* and this is all that stands in the way.  Cut and late frames ahead do not.
ArrivedIsShown ==
    \A talk \in Talks : \A i \in 1..MaxLines :
        LET m == talk[1]
            n == talk[2]
        IN  Arrived(n, m, i) ~> (~listening[n] \/ Shown(n, m, i) \/ []Blocked(n))

Promise == INSTANCE Mail WITH
    typed <- [n \in Onions |-> [i \in DOMAIN typed[n] |-> {typed[n][i]}]],
    knows <- {p \in Onions \X Onions : Imported(p[1], p[2])}

\* Sessions, backlogs, connections and peer books implement the mail of Mail.
DeliversMail == Promise!Spec
===============================================================================
