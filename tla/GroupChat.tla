------------------------------- MODULE GroupChat -------------------------------
(***************************************************************************)
(* Group messages: Groups with the sessions and connections over which a   *)
(* line typed for a group is sent to each member of the sender's own copy, *)
(* one after the other, sealed for each.  A reader shows it if the sender  *)
(* is in the reader's own copy; otherwise the error ends the listener.     *)
(* Meanwhile copies change: owners update and export, members import.      *)
(*                                                                         *)
(* Peer books do not change here: everybody has a record of everybody, to  *)
(* which the listener's remember_peer adds nothing (Chat has the rest).    *)
(***************************************************************************)
EXTENDS PeerBook, Naturals, Sequences

CONSTANTS
    GroupIds, Old, NoGroup, Losers, MaxRevision,   \* as in Groups
    Identity,    \* Identity[n]: the contact card of n's identity.json
    Contacts,    \* Contacts[n]: n's peer book
    Talkers,     \* users who write to groups
    MaxLines,    \* bound: lines each of them types
    Nothing      \* no send_group_message in flight

ASSUME IdentityAssumption ==
    /\ Identity \in [Onions -> ContactCard]
    /\ \A n \in Onions : Identity[n].onion = n

ASSUME EveryoneKnown ==
    /\ Contacts \in [Onions -> Books]
    /\ \A n, m \in Onions : n # m => Contacts[n][m] # NoPeer

ASSUME TalkAssumption ==
    /\ Talkers \subseteq Onions
    /\ MaxLines \in Nat
    /\ NoPeer \notin Onions /\ NoGroup \notin GroupIds

VARIABLES
    groups, files,    \* the group books and files, as in Groups
    listening,    \* listening[n]: n's listener task accepts connections
    prompt,       \* prompt[n]: the group of n's prompt, if n runs `groups chat`
    queue,        \* queue[n]: connections to n's listener, the first being read
    sending,      \* sending[n]: n's send_group_message in flight, if any
    lines,        \* history: lines[n][i]: n's i-th line, and what became of it
    shown         \* shown[n]: the lines printed on n's terminal

G == INSTANCE Groups WITH
    Signing <- [n \in Onions |-> Identity[n].signing],
    Procs <- {},
    Closed <- Nothing,
    loaded <- [n \in Onions |-> <<>>]

ASSUME GroupsAssumption ==
    /\ Old \in [Onions -> G!GroupBooks]
    /\ \A n \in Onions, g \in GroupIds :
        Old[n][g] # NoGroup => Old[n][g].owner = None /\ Old[n][g].key = None
    /\ NoGroup \notin G!GroupRecord
    /\ None \notin Onions

vars == <<groups, files, listening, prompt, queue, sending, lines, shown>>

\* MessageEnvelope, Group.  copy is what the sender had of the group: history.
Envelope ==
    [from : Onions, line : Nat \ {0}, group : GroupIds, copy : G!GroupRecord,
     signer : Keys, sealed : SUBSET Keys]

Connection == [env : Envelope, state : {"open", "written", "arrived", "broken"}]

\* fan_out_group: the snapshot of the group, the members that are left, the one
\* a connection is open to, and those it did not work for.
FanOut ==
    [group : GroupIds, copy : G!GroupRecord, left : SUBSET Onions,
     to : Onions \cup {NoPeer}, failures : SUBSET Onions]

ASSUME NothingAssumption == Nothing \notin FanOut

\* A line, for whom it was typed, over whose connection it went, and what was
\* printed in the end.
Sent == [audience : SUBSET Onions, reached : SUBSET Onions, said : {"nothing", "sent", "failed"}]

Init ==
    /\ groups = Old
    /\ files = {}
    /\ listening = [n \in Onions |-> FALSE]
    /\ prompt = [n \in Onions |-> NoGroup]
    /\ queue = [n \in Onions |-> <<>>]
    /\ sending = [n \in Onions |-> Nothing]
    /\ lines = [n \in Onions |-> <<>>]
    /\ shown = [n \in Onions |-> <<>>]
-------------------------------------------------------------------------------
(* Sessions. *)

InSession(n) == listening[n] \/ prompt[n] # NoGroup

Listen(n) ==
    /\ ~InSession(n)
    /\ listening' = [listening EXCEPT ![n] = TRUE]
    /\ UNCHANGED <<groups, files, prompt, queue, sending, lines, shown>>

\* The group is looked up for its name; each line looks it up again.
InteractiveGroupChat(n) ==
    /\ n \in Talkers
    /\ ~InSession(n)
    /\ sending[n] = Nothing
    /\ \E g \in GroupIds :
        /\ groups[n][g] # NoGroup
        /\ prompt' = [prompt EXCEPT ![n] = g]
    /\ listening' = [listening EXCEPT ![n] = TRUE]
    /\ UNCHANGED <<groups, files, queue, sending, lines, shown>>

CloseListener(n) ==
    /\ listening' = [listening EXCEPT ![n] = FALSE]
    /\ queue' = [queue EXCEPT ![n] = <<>>]

\* As in `chat`, nobody looks at Ctrl+C while a line is being sent.
Quit(n) ==
    /\ InSession(n)
    /\ prompt[n] # NoGroup => sending[n] = Nothing
    /\ CloseListener(n)
    /\ prompt' = [prompt EXCEPT ![n] = NoGroup]
    /\ UNCHANGED <<groups, files, sending, lines, shown>>

\* The members that are left get nothing.
Kill(n) ==
    /\ sending[n] # Nothing
    /\ sending' = [sending EXCEPT ![n] = Nothing]
    /\ IF prompt[n] = NoGroup THEN UNCHANGED <<listening, queue>> ELSE CloseListener(n)
    /\ prompt' = [prompt EXCEPT ![n] = NoGroup]
    /\ UNCHANGED <<groups, files, lines, shown>>
-------------------------------------------------------------------------------
(* send_group_message *)

\* The group and the peers are read once, for all members.
SendGroupMessage(n) ==
    /\ n \in Talkers
    /\ sending[n] = Nothing
    /\ Len(lines[n]) < MaxLines
    /\ \E g \in GroupIds :
        /\ prompt[n] \in {NoGroup, g}
        /\ groups[n][g] # NoGroup
        /\ LET others == groups[n][g].members \ {n}
           IN  /\ sending' = [sending EXCEPT ![n] =
                    [group |-> g, copy |-> groups[n][g], left |-> others,
                     to |-> NoPeer, failures |-> {}]]
               /\ lines' = [lines EXCEPT ![n] =
                    Append(@, [audience |-> others, reached |-> {}, said |-> "nothing"])]
    /\ UNCHANGED <<groups, files, listening, prompt, queue, shown>>

Seal(n, key) == {Identity[n].encryption, key}

\* Mutant of Frame: lines are counted from zero.
FrameFromZero(n, m) ==
    [from |-> n, line |-> Len(lines[n]) - 1,
     group |-> sending[n].group, copy |-> sending[n].copy,
     signer |-> Identity[n].signing, sealed |-> Seal(n, EncryptionKey(Contacts[n], m))]

Frame(n, m) ==
    [from |-> n, line |-> Len(lines[n]),
     group |-> sending[n].group, copy |-> sending[n].copy,
     signer |-> Identity[n].signing, sealed |-> Seal(n, EncryptionKey(Contacts[n], m))]

BetweenMembers(n) == sending[n] # Nothing /\ sending[n].to = NoPeer

\* Member m is done with, without success.
Failed(n, m) ==
    sending' = [sending EXCEPT ![n].left = @ \ {m}, ![n].to = NoPeer, ![n].failures = @ \cup {m}]

\* Mutant of NextMember: a member that cannot be reached is tried again.
NextMemberAgain(n) ==
    /\ BetweenMembers(n)
    /\ \E m \in sending[n].left :
        \/ /\ EncryptionKey(Contacts[n], m) # None
           /\ listening[m]
           /\ queue' = [queue EXCEPT ![m] = Append(@, [env |-> Frame(n, m), state |-> "open"])]
           /\ sending' = [sending EXCEPT ![n].left = @ \ {m}, ![n].to = m]
        \/ UNCHANGED <<sending, queue>>
    /\ UNCHANGED <<groups, files, listening, prompt, lines, shown>>

\* Mutant of NextMember: the listener accepts the latest connection first.
NextMemberFirst(n) ==
    /\ BetweenMembers(n)
    /\ \E m \in sending[n].left :
        \/ /\ EncryptionKey(Contacts[n], m) # None
           /\ listening[m]
           /\ queue' = [queue EXCEPT ![m] = <<[env |-> Frame(n, m), state |-> "open"]>> \o @]
           /\ sending' = [sending EXCEPT ![n].left = @ \ {m}, ![n].to = m]
        \/ Failed(n, m) /\ UNCHANGED queue
    /\ UNCHANGED <<groups, files, listening, prompt, lines, shown>>

\* The next member: no key is known, or Tor reaches the listener, or gives up.
\* (The members are a sorted vector; any order stands for it here.)
NextMember(n) ==
    /\ BetweenMembers(n)
    /\ \E m \in sending[n].left :
        \/ /\ EncryptionKey(Contacts[n], m) # None
           /\ listening[m]
           /\ queue' = [queue EXCEPT ![m] = Append(@, [env |-> Frame(n, m), state |-> "open"])]
           /\ sending' = [sending EXCEPT ![n].left = @ \ {m}, ![n].to = m]
        \/ Failed(n, m) /\ UNCHANGED queue
    /\ UNCHANGED <<groups, files, listening, prompt, lines, shown>>

Progress(n, k, from, to) ==
    /\ queue[n][k].state \in from
    /\ queue' = [queue EXCEPT ![n][k].state = to]

\* The connection of n's fan-out among those to its member.
Mine(n, k) ==
    LET env == queue[sending[n].to][k].env
    IN  env.from = n /\ env.line = Len(lines[n])

Reached(n) ==
    /\ sending' = [sending EXCEPT ![n].to = NoPeer]
    /\ lines' = [lines EXCEPT ![n][Len(lines[n])].reached = @ \cup {sending[n].to}]

\* write_frame: written, or not.  On a connection that is gone the bytes may
\* still be taken by the local socket.
WriteFrame(n) ==
    /\ sending[n] # Nothing /\ sending[n].to # NoPeer
    /\ LET m == sending[n].to
           Open(k) == Mine(n, k) /\ queue[m][k].state = "open"
       IN  \/ \E k \in DOMAIN queue[m] : Mine(n, k) /\ Progress(m, k, {"open"}, "written") /\ Reached(n)
           \/ /\ \E k \in DOMAIN queue[m] : Mine(n, k) /\ Progress(m, k, {"open"}, "broken")
              /\ Failed(n, m) /\ UNCHANGED lines
           \/ /\ ~\E k \in DOMAIN queue[m] : Open(k)
              /\ Reached(n) \/ (Failed(n, m) /\ UNCHANGED lines)
              /\ UNCHANGED queue
    /\ UNCHANGED <<groups, files, listening, prompt, shown>>

\* Mutant of Report: the last failure decides.
ReportLast(n) ==
    /\ BetweenMembers(n)
    /\ sending[n].left = {}
    /\ \E m \in sending[n].copy.members :
        lines' = [lines EXCEPT ![n][Len(lines[n])].said =
            IF m \in sending[n].failures THEN "failed" ELSE "sent"]
    /\ sending' = [sending EXCEPT ![n] = Nothing]
    /\ UNCHANGED <<groups, files, listening, prompt, queue, shown>>

\* All members are done: "sent to group", or the list of failures.
Report(n) ==
    /\ BetweenMembers(n)
    /\ sending[n].left = {}
    /\ lines' = [lines EXCEPT ![n][Len(lines[n])].said =
            IF sending[n].failures = {} THEN "sent" ELSE "failed"]
    /\ sending' = [sending EXCEPT ![n] = Nothing]
    /\ UNCHANGED <<groups, files, listening, prompt, queue, shown>>

\* Tor delivers the bytes of a connection to n, or tears the connection down.
Network(n, k) ==
    /\ \/ Progress(n, k, {"written"}, "arrived")
       \/ Progress(n, k, {"open", "written"}, "broken")
    /\ UNCHANGED <<groups, files, listening, prompt, sending, lines, shown>>
-------------------------------------------------------------------------------
(* run_listener *)

Verifies(n, env) ==
    /\ SigningKey(Contacts[n], env.from) = env.signer
    /\ EncryptionKey(Contacts[n], env.from) # None
    /\ env.sealed = Seal(n, EncryptionKey(Contacts[n], env.from))

\* n's own copy has the sender among the members.
Authorized(n, env) ==
    /\ groups[n][env.group] # NoGroup
    /\ env.from \in groups[n][env.group].members

DiscardFrame(n) ==
    /\ queue[n] # <<>>
    /\ Head(queue[n]).state = "broken"
    /\ queue' = [queue EXCEPT ![n] = Tail(@)]
    /\ UNCHANGED <<groups, files, listening, prompt, sending, lines, shown>>

\* The group branch of print_incoming; any of its errors ends the listener.
PrintIncoming(n) ==
    /\ queue[n] # <<>>
    /\ Head(queue[n]).state = "arrived"
    /\ LET env == Head(queue[n]).env
           ok == Verifies(n, env) /\ Authorized(n, env)
       IN  \/ /\ ok
              /\ shown' = [shown EXCEPT ![n] =
                    Append(@, [from |-> env.from, line |-> env.line])]
              /\ queue' = [queue EXCEPT ![n] = Tail(@)]
              /\ UNCHANGED listening
           \/ ~ok /\ CloseListener(n) /\ UNCHANGED shown
    /\ UNCHANGED <<groups, files, prompt, sending, lines>>

\* The listener ends with any other error: of accept, or of reading a file.
ListenerFails(n) ==
    /\ listening[n]
    /\ CloseListener(n)
    /\ UNCHANGED <<groups, files, prompt, sending, lines, shown>>
-------------------------------------------------------------------------------
Sender(n) == NextMember(n) \/ WriteFrame(n) \/ Report(n)

Session(n) ==
    \/ Listen(n) \/ InteractiveGroupChat(n) \/ Quit(n) \/ Kill(n)
    \/ SendGroupMessage(n) \/ Sender(n) \/ DiscardFrame(n) \/ PrintIncoming(n)
    \/ ListenerFails(n) \/ \E k \in DOMAIN queue[n] : Network(n, k)

\* A command of the group's files, in one step: Groups lets them overlap.
GroupCommand(n) ==
    /\ \/ G!Creates(n, groups[n]) \/ G!Updates(n, groups[n])
       \/ G!Exports(n, groups[n]) \/ G!Imports(n, groups[n])
       \/ G!Lose(n)
    /\ UNCHANGED <<listening, prompt, queue, sending, lines, shown>>

Next == \E n \in Onions : GroupCommand(n) \/ Session(n)

Spec == Init /\ [][Next]_vars

\* The runtime polls a fan-out that is ready; each connection attempt ends.
Fairness == \A n \in Onions : WF_vars(Sender(n))

FairSpec == Spec /\ Fairness
-------------------------------------------------------------------------------
\* Every variable has its type.
TypeOK ==
    /\ groups \in [Onions -> G!GroupBooks]
    /\ files \subseteq G!GroupInviteFile
    /\ listening \in [Onions -> BOOLEAN]
    /\ prompt \in [Onions -> GroupIds \cup {NoGroup}]
    /\ queue \in [Onions -> Seq(Connection)]
    /\ sending \in [Onions -> FanOut \cup {Nothing}]
    /\ lines \in [Onions -> Seq(Sent)]
    /\ shown \in [Onions -> Seq([from : Onions, line : Nat \ {0}])]

\* "sent to group" is printed if and only if the frame was handed to a connection
\* to every other member that the sender's copy had when the line was typed,
\* whatever happened to the copy, to the members and to earlier ones since.
ReportsTrue ==
    \A n \in Onions : \A i \in DOMAIN lines[n] :
        LET line == lines[n][i]
        IN  line.said # "nothing" => (line.said = "sent" <=> line.reached = line.audience)

\* Revision numbers keep readers and writers apart that must be: a line typed by
\* a member never ends a listener whose user knows the writer and has the same
\* revision of the group, however old the frame is by now.
SameRevisionIsSafe ==
    [][\A n \in Onions :
        LET env == Head(queue[n]).env
            mine == groups[n][env.group]
        IN  /\ listening[n] /\ ~listening'[n]
            /\ PrintIncoming(n)
            /\ env.from \in env.copy.members
            /\ mine # NoGroup
            => mine.revision # env.copy.revision \/ ~Verifies(n, env)]_vars

Known == {p \in Onions \X Onions : EncryptionKey(Contacts[p[1]], p[2]) # None}

Promise == INSTANCE Mail WITH
    typed <- [n \in Onions |-> [i \in DOMAIN lines[n] |-> lines[n][i].audience]],
    knows <- Known

\* The fan-out, the listeners and the group copies implement the mail of Mail:
\* each line to each member of the sender's copy at most once, and in order.
DeliversMail == Promise!Spec

\* A fan-out comes to its end, whoever cannot be reached.
FanOutEnds == \A n \in Onions : sending[n] # Nothing ~> sending[n] = Nothing
===============================================================================
