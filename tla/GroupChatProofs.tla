---------------------------- MODULE GroupChatProofs ---------------------------
(***************************************************************************)
(* Group messages for any users, groups and contacts: types, what a        *)
(* fan-out reports is true, what is shown is the mail of Mail, equal       *)
(* revisions are safe, and a fan-out gets nearer to its end.               *)
(***************************************************************************)
EXTENDS GroupChat, PeerBookProofs

\* A line on a screen.
Shown == [from : Onions, line : Nat \ {0}]

\* A record of a group with an owner, raised or not, is a record.
LEMMA AdoptedType ==
    ASSUME NEW n \in Onions, NEW r \in G!GroupRecord
    PROVE  G!Adopted(n, r) \in G!GroupRecord
<1>1. Identity[n].signing \in Keys
  BY IdentityAssumption DEF ContactCard
<1>2. QED
  BY <1>1 DEF G!Adopted, G!GroupRecord

\* A book that is saved with a record for a group is a book.
LEMMA SaveType ==
    ASSUME groups \in [Onions -> G!GroupBooks], NEW n \in Onions, NEW g \in GroupIds,
           NEW r \in G!GroupRecord, G!Save(n, groups[n], g, r)
    PROVE  groups' \in [Onions -> G!GroupBooks]
<1>1. [groups[n] EXCEPT ![g] = r] \in G!GroupBooks
  BY DEF G!GroupBooks
<1>2. QED
  BY <1>1 DEF G!Save

\* A command of the groups keeps the types of books and files.
LEMMA CommandType ==
    ASSUME groups \in [Onions -> G!GroupBooks], files \subseteq G!GroupInviteFile,
           NEW n \in Onions, GroupCommand(n)
    PROVE  groups' \in [Onions -> G!GroupBooks] /\ files' \subseteq G!GroupInviteFile
<1>0. Identity[n].signing \in Keys
  BY IdentityAssumption DEF ContactCard
<1>1. CASE G!Creates(n, groups[n])
  <2> PICK g \in GroupIds, ms \in (SUBSET G!Peers(n)) \ {{}} :
        G!Save(n, groups[n], g,
            [members |-> ms \cup {n}, owner |-> n, key |-> Identity[n].signing, revision |-> 1])
    BY <1>1 DEF G!Creates
  <2>1. ms \subseteq Onions
    BY DEF G!Peers
  <2>2. [members |-> ms \cup {n}, owner |-> n, key |-> Identity[n].signing, revision |-> 1]
          \in G!GroupRecord
    BY <1>0, <2>1 DEF G!GroupRecord
  <2>3. groups' \in [Onions -> G!GroupBooks]
    BY <2>2, SaveType
  <2>4. QED
    BY <1>1, <2>3 DEF G!Creates
<1>2. CASE G!Updates(n, groups[n])
  <2> PICK g \in GroupIds, ms \in SUBSET G!Peers(n) :
        /\ groups[n][g] # NoGroup
        /\ G!Save(n, groups[n], g,
            [G!Adopted(n, groups[n][g]) EXCEPT !.members = ms \cup {n}, !.revision = @ + 1])
    BY <1>2 DEF G!Updates
  <2> DEFINE r == G!Adopted(n, groups[n][g])
  <2>1. ms \cup {n} \in SUBSET Onions
    BY DEF G!Peers
  <2>2. r \in G!GroupRecord
    BY AdoptedType DEF G!GroupBooks
  <2> HIDE DEF r
  <2>3. r.revision + 1 \in Nat
    BY <2>2 DEF G!GroupRecord
  <2>4. [r EXCEPT !.members = ms \cup {n}, !.revision = @ + 1] \in G!GroupRecord
    BY <2>1, <2>2, <2>3 DEF G!GroupRecord
  <2>5. groups' \in [Onions -> G!GroupBooks]
    BY <2>4, SaveType DEF r
  <2>6. QED
    BY <1>2, <2>5 DEF G!Updates
<1>3. CASE G!Exports(n, groups[n])
  <2> PICK g \in GroupIds :
        /\ groups[n][g] # NoGroup
        /\ G!Save(n, groups[n], g, G!Adopted(n, groups[n][g]))
        /\ \/ files' = files \cup {[group |-> g, record |-> G!Adopted(n, groups[n][g]),
                                    signer |-> Identity[n].signing]}
           \/ UNCHANGED files
    BY <1>3 DEF G!Exports
  <2> DEFINE r == G!Adopted(n, groups[n][g])
  <2>1. r \in G!GroupRecord
    BY AdoptedType DEF G!GroupBooks
  <2> HIDE DEF r
  <2>2. [group |-> g, record |-> r, signer |-> Identity[n].signing] \in G!GroupInviteFile
    BY <1>0, <2>1 DEF G!GroupInviteFile
  <2>3. groups' \in [Onions -> G!GroupBooks]
    BY <2>1, SaveType DEF r
  <2>4. QED
    BY <2>2, <2>3 DEF r
<1>4. CASE G!Imports(n, groups[n])
  <2> PICK f \in files : G!Save(n, groups[n], f.group, f.record)
    BY <1>4 DEF G!Imports
  <2>1. f.group \in GroupIds /\ f.record \in G!GroupRecord
    BY DEF G!GroupInviteFile
  <2>2. groups' \in [Onions -> G!GroupBooks]
    BY <2>1, SaveType
  <2>3. QED
    BY <1>4, <2>2 DEF G!Imports
<1>5. CASE G!Lose(n)
  BY <1>5 DEF G!Lose, G!EmptyGroups, G!GroupBooks
<1>6. QED
  BY <1>1, <1>2, <1>3, <1>4, <1>5 DEF GroupCommand
-------------------------------------------------------------------------------
(* Connections and the fan-out. *)

\* A connection moves on within its type.
LEMMA ProgressType ==
    ASSUME queue \in [Onions -> Seq(Connection)], NEW n \in Onions,
           NEW k \in DOMAIN queue[n], NEW from,
           NEW to \in {"open", "written", "arrived", "broken"}, Progress(n, k, from, to)
    PROVE  queue' \in [Onions -> Seq(Connection)]
<1>1. queue[n][k] \in Connection
  OBVIOUS
<1>2. [queue[n][k] EXCEPT !.state = to] \in Connection
  BY <1>1 DEF Connection
<1>3. [queue[n] EXCEPT ![k] = [queue[n][k] EXCEPT !.state = to]] \in Seq(Connection)
  BY <1>2
<1>4. queue' = [queue EXCEPT ![n] = [queue[n] EXCEPT ![k] = [queue[n][k] EXCEPT !.state = to]]]
  BY DEF Progress
<1>5. QED
  BY <1>3, <1>4

\* So does a listener that closes.
LEMMA CloseType ==
    ASSUME listening \in [Onions -> BOOLEAN], queue \in [Onions -> Seq(Connection)],
           NEW n \in Onions, CloseListener(n)
    PROVE  listening' \in [Onions -> BOOLEAN] /\ queue' \in [Onions -> Seq(Connection)]
BY DEF CloseListener

\* A user who sends has typed a line, which is still open; the members it was
\* typed for are those that were reached, that failed, that are left, and the one
\* that is being written to, each of them once.
Accounted(n) ==
    sending[n] # Nothing =>
        LET out == sending[n]
            line == lines[n][Len(lines[n])]
        IN  /\ lines[n] # <<>>
            /\ line.said = "nothing"
            /\ line.audience =
                line.reached \cup out.failures \cup out.left \cup ({out.to} \ {NoPeer})
            /\ line.reached \cap out.failures = {}
            /\ line.reached \cap out.left = {}
            /\ out.failures \cap out.left = {}
            /\ out.to \notin line.reached \cup out.failures \cup out.left

ReportInv == TypeOK /\ ReportsTrue /\ \A n \in Onions : Accounted(n)
-------------------------------------------------------------------------------
(* What a step does to the fan-outs and to the lines: one case for each of the *)
(* ways in which a fan-out begins, goes on, or ends.                           *)

LastLine(n) == lines[n][Len(lines[n])]

FanOutTo(n, out) == sending' = [sending EXCEPT ![n] = out]

Typing(n) ==
    /\ sending[n] = Nothing
    /\ \E g \in GroupIds, copy \in G!GroupRecord, others \in SUBSET Onions :
        /\ copy = groups[n][g]
        /\ FanOutTo(n, [group |-> g, copy |-> copy, left |-> others, to |-> NoPeer, failures |-> {}])
        /\ lines' = [lines EXCEPT ![n] =
                Append(lines[n], [audience |-> others, reached |-> {}, said |-> "nothing"])]

Connecting(n) ==
    /\ sending[n] # Nothing /\ sending[n].to = NoPeer
    /\ \E m \in sending[n].left :
        FanOutTo(n, [sending[n] EXCEPT !.left = sending[n].left \ {m}, !.to = m])
    /\ UNCHANGED lines

Failing(n) ==
    /\ sending[n] # Nothing
    /\ \E m \in Onions :
        /\ (sending[n].to = NoPeer /\ m \in sending[n].left) \/ m = sending[n].to
        /\ FanOutTo(n, [sending[n] EXCEPT !.left = sending[n].left \ {m}, !.to = NoPeer,
                                          !.failures = sending[n].failures \cup {m}])
    /\ UNCHANGED lines

Reaching(n) ==
    /\ sending[n] # Nothing /\ sending[n].to # NoPeer
    /\ FanOutTo(n, [sending[n] EXCEPT !.to = NoPeer])
    /\ lines' = [lines EXCEPT ![n] = [lines[n] EXCEPT ![Len(lines[n])] =
            [LastLine(n) EXCEPT !.reached = LastLine(n).reached \cup {sending[n].to}]]]

Reporting(n) ==
    /\ sending[n] # Nothing /\ sending[n].to = NoPeer /\ sending[n].left = {}
    /\ FanOutTo(n, Nothing)
    /\ lines' = [lines EXCEPT ![n] = [lines[n] EXCEPT ![Len(lines[n])] =
            [LastLine(n) EXCEPT !.said = IF sending[n].failures = {} THEN "sent" ELSE "failed"]]]

Killing(n) == FanOutTo(n, Nothing) /\ UNCHANGED lines

Moves(n) ==
    \/ Typing(n) \/ Connecting(n) \/ Failing(n) \/ Reaching(n) \/ Reporting(n) \/ Killing(n)

\* Every step leaves the fan-outs and the lines alone or is one of these cases.
LEMMA MovesStep ==
    ASSUME TypeOK, [Next]_vars
    PROVE  UNCHANGED <<sending, lines>> \/ \E n \in Onions : Moves(n)
<1> USE DEF TypeOK
<1>1. ASSUME NEW n \in Onions, SendGroupMessage(n)
      PROVE  Typing(n)
  <2> PICK g \in GroupIds :
        /\ groups[n][g] # NoGroup
        /\ sending' = [sending EXCEPT ![n] =
                [group |-> g, copy |-> groups[n][g], left |-> groups[n][g].members \ {n},
                 to |-> NoPeer, failures |-> {}]]
        /\ lines' = [lines EXCEPT ![n] =
                Append(@, [audience |-> groups[n][g].members \ {n}, reached |-> {},
                           said |-> "nothing"])]
    BY <1>1 DEF SendGroupMessage
  <2>1. groups[n][g] \in G!GroupRecord
    BY DEF G!GroupBooks
  <2>2. groups[n][g].members \ {n} \in SUBSET Onions
    BY <2>1 DEF G!GroupRecord
  <2>3. QED
    BY <1>1, <2>1, <2>2 DEF SendGroupMessage, Typing, FanOutTo
<1>2. ASSUME NEW n \in Onions, NEW m \in Onions, sending[n] # Nothing, Failed(n, m),
             (sending[n].to = NoPeer /\ m \in sending[n].left) \/ m = sending[n].to,
             UNCHANGED lines
      PROVE  Failing(n)
  BY <1>2 DEF Failed, Failing, FanOutTo
<1>3. ASSUME NEW n \in Onions, NextMember(n)
      PROVE  Connecting(n) \/ Failing(n)
  <2> PICK m \in sending[n].left :
        \/ sending' = [sending EXCEPT ![n].left = @ \ {m}, ![n].to = m]
        \/ Failed(n, m)
    BY <1>3 DEF NextMember
  <2>1. sending[n] # Nothing /\ sending[n].to = NoPeer /\ lines' = lines
    BY <1>3 DEF NextMember, BetweenMembers
  <2>2. m \in Onions
    BY <2>1 DEF FanOut
  <2>3. CASE sending' = [sending EXCEPT ![n].left = @ \ {m}, ![n].to = m]
    BY <2>1, <2>3 DEF Connecting, FanOutTo
  <2>4. CASE Failed(n, m)
    BY <1>2, <2>1, <2>2, <2>4
  <2>5. QED
    BY <2>3, <2>4
<1>4. ASSUME NEW n \in Onions, WriteFrame(n)
      PROVE  Failing(n) \/ Reaching(n)
  <2>1. sending[n] # Nothing /\ sending[n].to # NoPeer /\ sending[n].to \in Onions
    BY <1>4 DEF WriteFrame, FanOut
  <2>2. Reached(n) \/ (Failed(n, sending[n].to) /\ UNCHANGED lines)
    BY <1>4 DEF WriteFrame
  <2>3. CASE Reached(n)
    BY <2>1, <2>3 DEF Reached, Reaching, FanOutTo, LastLine
  <2>4. CASE Failed(n, sending[n].to) /\ UNCHANGED lines
    BY <1>2, <2>1, <2>4
  <2>5. QED
    BY <2>2, <2>3, <2>4
<1>5. ASSUME NEW n \in Onions, Report(n)
      PROVE  Reporting(n)
  BY <1>5 DEF Report, BetweenMembers, Reporting, FanOutTo, LastLine
<1>6. ASSUME NEW n \in Onions, Kill(n)
      PROVE  Killing(n)
  BY <1>6 DEF Kill, Killing, FanOutTo
<1>7. ASSUME NEW n \in Onions,
             \/ GroupCommand(n) \/ Listen(n) \/ InteractiveGroupChat(n) \/ Quit(n)
             \/ DiscardFrame(n) \/ PrintIncoming(n) \/ ListenerFails(n)
             \/ \E k \in DOMAIN queue[n] : Network(n, k)
      PROVE  UNCHANGED <<sending, lines>>
  BY <1>7 DEF GroupCommand, Listen, InteractiveGroupChat, Quit, DiscardFrame, PrintIncoming,
     ListenerFails, Network
<1>8. QED
  BY <1>1, <1>3, <1>4, <1>5, <1>6, <1>7 DEF Next, Session, Sender, Moves, vars

\* All of these keep the types of fan-outs and lines.
LEMMA MovesType ==
    ASSUME TypeOK, NEW n \in Onions, Moves(n), Accounted(n)
    PROVE  sending' \in [Onions -> FanOut \cup {Nothing}] /\ lines' \in [Onions -> Seq(Sent)]
<1> USE DEF TypeOK, FanOutTo
<1>1. ASSUME sending[n] # Nothing
      PROVE  /\ sending[n] \in FanOut
             /\ lines[n] \in Seq(Sent) /\ Len(lines[n]) \in DOMAIN lines[n]
             /\ LastLine(n) \in Sent
  <2>1. lines[n] \in Seq(Sent) /\ lines[n] # <<>>
    BY <1>1 DEF Accounted
  <2>2. Len(lines[n]) \in DOMAIN lines[n]
    BY <2>1
  <2>3. QED
    BY <1>1, <2>1, <2>2 DEF LastLine
<1>2. ASSUME NEW line \in Sent, sending[n] # Nothing,
             lines' = [lines EXCEPT ![n] = [lines[n] EXCEPT ![Len(lines[n])] = line]]
      PROVE  lines' \in [Onions -> Seq(Sent)]
  <2>1. [lines[n] EXCEPT ![Len(lines[n])] = line] \in Seq(Sent)
    BY <1>1, <1>2
  <2>2. QED
    BY <1>2, <2>1
<1>3. CASE Typing(n)
  <2> PICK g \in GroupIds, copy \in G!GroupRecord, others \in SUBSET Onions :
        /\ sending' = [sending EXCEPT ![n] =
              [group |-> g, copy |-> copy, left |-> others, to |-> NoPeer, failures |-> {}]]
        /\ lines' = [lines EXCEPT ![n] =
              Append(lines[n], [audience |-> others, reached |-> {}, said |-> "nothing"])]
    BY <1>3 DEF Typing
  <2>1. [group |-> g, copy |-> copy, left |-> others, to |-> NoPeer, failures |-> {}] \in FanOut
    BY DEF FanOut
  <2>2. [audience |-> others, reached |-> {}, said |-> "nothing"] \in Sent
    BY DEF Sent
  <2>3. Append(lines[n], [audience |-> others, reached |-> {}, said |-> "nothing"]) \in Seq(Sent)
    BY <2>2
  <2>4. QED
    BY <2>1, <2>3
<1>4. CASE Connecting(n)
  <2> PICK m \in sending[n].left :
        sending' = [sending EXCEPT ![n] = [sending[n] EXCEPT !.left = sending[n].left \ {m}, !.to = m]]
    BY <1>4 DEF Connecting
  <2>1. sending[n] \in FanOut /\ lines' = lines
    BY <1>4 DEF Connecting
  <2>2. [sending[n] EXCEPT !.left = sending[n].left \ {m}, !.to = m] \in FanOut
    BY <2>1 DEF FanOut
  <2>3. QED
    BY <2>1, <2>2
<1>5. CASE Failing(n)
  <2> PICK m \in Onions :
        sending' = [sending EXCEPT ![n] =
            [sending[n] EXCEPT !.left = sending[n].left \ {m}, !.to = NoPeer,
                               !.failures = sending[n].failures \cup {m}]]
    BY <1>5 DEF Failing
  <2>1. sending[n] \in FanOut /\ lines' = lines
    BY <1>5 DEF Failing
  <2>2. [sending[n] EXCEPT !.left = sending[n].left \ {m}, !.to = NoPeer,
                           !.failures = sending[n].failures \cup {m}] \in FanOut
    BY <2>1 DEF FanOut
  <2>3. QED
    BY <2>1, <2>2
<1>6. CASE Reaching(n)
  <2>1. sending[n] \in FanOut /\ sending[n].to \in Onions
    BY <1>6 DEF Reaching, FanOut
  <2>2. [sending[n] EXCEPT !.to = NoPeer] \in FanOut
    BY <2>1 DEF FanOut
  <2>3. [LastLine(n) EXCEPT !.reached = LastLine(n).reached \cup {sending[n].to}] \in Sent
    BY <1>1, <1>6, <2>1 DEF Reaching, Sent
  <2>4. lines' \in [Onions -> Seq(Sent)]
    BY <1>2, <1>6, <2>3 DEF Reaching
  <2>5. QED
    BY <1>6, <2>2, <2>4 DEF Reaching
<1>7. CASE Reporting(n)
  <2>1. [LastLine(n) EXCEPT !.said = IF sending[n].failures = {} THEN "sent" ELSE "failed"] \in Sent
    BY <1>1, <1>7 DEF Reporting, Sent
  <2>2. lines' \in [Onions -> Seq(Sent)]
    BY <1>2, <1>7, <2>1 DEF Reporting
  <2>3. QED
    BY <1>7, <2>2 DEF Reporting
<1>8. CASE Killing(n)
  BY <1>8 DEF Killing
<1>9. QED
  BY <1>3, <1>4, <1>5, <1>6, <1>7, <1>8 DEF Moves

\* n's lines and fan-out are in order: nothing but what was handed over is
\* reported as such.
InOrder(n) ==
    /\ \A i \in DOMAIN lines[n] :
        lines[n][i].said # "nothing" =>
            (lines[n][i].said = "sent" <=> lines[n][i].reached = lines[n][i].audience)
    /\ Accounted(n)

\* All of these keep the account of whose line has reached whom.
LEMMA MovesInOrder ==
    ASSUME TypeOK, NEW n \in Onions, Moves(n), InOrder(n)
    PROVE  InOrder(n)'
<1> DEFINE out == sending[n]
           line == LastLine(n)
           last == Len(lines[n])
<1>0. lines[n] \in Seq(Sent) /\ DOMAIN lines[n] = 1..last /\ last \in Nat
      /\ sending \in [Onions -> FanOut \cup {Nothing}] /\ lines \in [Onions -> Seq(Sent)]
  BY DEF TypeOK
<1>1. ASSUME out # Nothing
      PROVE  /\ out \in FanOut /\ line \in Sent
             /\ last \in DOMAIN lines[n]
             /\ line.said = "nothing"
             /\ line.audience = line.reached \cup out.failures \cup out.left \cup ({out.to} \ {NoPeer})
             /\ line.reached \cap out.failures = {}
             /\ line.reached \cap out.left = {}
             /\ out.failures \cap out.left = {}
             /\ out.to \notin line.reached \cup out.failures \cup out.left
  <2>1. out \in FanOut /\ lines[n] # <<>>
    BY <1>0, <1>1 DEF InOrder, Accounted
  <2>2. last \in DOMAIN lines[n]
    BY <1>0, <2>1
  <2>3. line \in Sent
    BY <1>0, <2>2 DEF LastLine
  <2>4. QED
    BY <1>1, <2>1, <2>2, <2>3 DEF InOrder, Accounted, LastLine
<1>2. ASSUME NEW next \in Sent, last \in DOMAIN lines[n],
             lines' = [lines EXCEPT ![n] = [lines[n] EXCEPT ![last] = next]]
      PROVE  /\ lines'[n] \in Seq(Sent)
             /\ lines'[n] # <<>> /\ Len(lines'[n]) = last /\ DOMAIN lines'[n] = DOMAIN lines[n]
             /\ \A i \in DOMAIN lines[n] : lines'[n][i] = IF i = last THEN next ELSE lines[n][i]
  <2>1. lines'[n] = [lines[n] EXCEPT ![last] = next]
    BY <1>0, <1>2
  <2>2. QED
    BY <1>0, <1>2, <2>1
<1>3. CASE Typing(n)
  <2> PICK g \in GroupIds, copy \in G!GroupRecord, others \in SUBSET Onions :
        /\ sending' = [sending EXCEPT ![n] =
              [group |-> g, copy |-> copy, left |-> others, to |-> NoPeer, failures |-> {}]]
        /\ lines' = [lines EXCEPT ![n] =
              Append(lines[n], [audience |-> others, reached |-> {}, said |-> "nothing"])]
    BY <1>3 DEF Typing, FanOutTo
  <2> DEFINE next == [audience |-> others, reached |-> {}, said |-> "nothing"]
  <2>1. next \in Sent /\ next.said = "nothing" /\ next.audience = others /\ next.reached = {}
    BY DEF Sent
  <2>2. lines'[n] = Append(lines[n], next)
    BY <1>0
  <2> HIDE DEF next
  <2>3. /\ Len(lines'[n]) = last + 1 /\ DOMAIN lines'[n] = 1..(last + 1)
        /\ lines'[n][last + 1] = next
        /\ \A i \in DOMAIN lines[n] : lines'[n][i] = lines[n][i]
        /\ lines'[n] # <<>>
    <3> DEFINE seq == lines[n]
    <3>1. seq \in Seq(Sent) /\ Len(seq) = last
      BY <1>0
    <3> HIDE DEF seq
    <3>2. /\ Len(Append(seq, next)) = last + 1 /\ Append(seq, next)[last + 1] = next
          /\ \A i \in 1..last : Append(seq, next)[i] = seq[i]
          /\ DOMAIN Append(seq, next) = 1..(last + 1) /\ last \in Nat
      BY <1>0, <2>1, <3>1
    <3>3. Append(seq, next) # <<>>
      BY <3>1, <3>2
    <3>4. QED
      BY <1>0, <2>2, <3>2, <3>3 DEF seq
  <2>4. /\ sending'[n].left = others /\ sending'[n].failures = {} /\ sending'[n].to = NoPeer
    BY <1>0
  <2>5. Accounted(n)'
    BY <2>1, <2>3, <2>4, TalkAssumption DEF Accounted
  <2>6. ASSUME NEW i \in DOMAIN lines'[n], lines'[n][i].said # "nothing"
        PROVE  lines'[n][i].said = "sent" <=> lines'[n][i].reached = lines'[n][i].audience
    <3>1. i \in DOMAIN lines[n]
      BY <1>0, <2>1, <2>3, <2>6
    <3>2. QED
      BY <2>3, <2>6, <3>1 DEF InOrder
  <2>7. QED
    BY <2>5, <2>6 DEF InOrder
<1>4. ASSUME lines' = lines, Accounted(n)'
      PROVE  InOrder(n)'
  BY <1>4 DEF InOrder
<1>5. CASE Connecting(n)
  <2> PICK m \in out.left :
        sending' = [sending EXCEPT ![n] = [out EXCEPT !.left = out.left \ {m}, !.to = m]]
    BY <1>5 DEF Connecting, FanOutTo
  <2>1. out # Nothing /\ out.to = NoPeer /\ lines' = lines
    BY <1>5 DEF Connecting
  <2>2. m \in Onions /\ m # NoPeer
    BY <1>1, <2>1, TalkAssumption DEF FanOut
  <2>3. /\ sending'[n].left = out.left \ {m} /\ sending'[n].failures = out.failures
        /\ sending'[n].to = m
    BY <1>0, <1>1, <2>1 DEF FanOut
  <2>4. lines'[n][Len(lines'[n])] = line /\ lines'[n] # <<>>
    BY <1>0, <1>1, <2>1 DEF LastLine
  <2>5. Accounted(n)'
    BY <1>1, <2>1, <2>2, <2>3, <2>4 DEF Accounted
  <2>6. QED
    BY <1>4, <2>1, <2>5
<1>6. CASE Failing(n)
  <2> PICK m \in Onions :
        /\ (out.to = NoPeer /\ m \in out.left) \/ m = out.to
        /\ sending' = [sending EXCEPT ![n] =
                [out EXCEPT !.left = out.left \ {m}, !.to = NoPeer,
                            !.failures = out.failures \cup {m}]]
    BY <1>6 DEF Failing, FanOutTo
  <2>1. out # Nothing /\ lines' = lines
    BY <1>6 DEF Failing
  <2>2. m # NoPeer
    BY TalkAssumption
  <2>3. /\ sending'[n].left = out.left \ {m} /\ sending'[n].failures = out.failures \cup {m}
        /\ sending'[n].to = NoPeer
    BY <1>0, <1>1, <2>1 DEF FanOut
  <2>4. lines'[n][Len(lines'[n])] = line /\ lines'[n] # <<>>
    BY <1>0, <1>1, <2>1 DEF LastLine
  <2>5. NoPeer \notin line.reached \cup out.failures \cup out.left
    BY <1>1, <2>1, TalkAssumption DEF FanOut, Sent
  <2>6. Accounted(n)'
    BY <1>1, <2>1, <2>2, <2>3, <2>4, <2>5 DEF Accounted
  <2>7. QED
    BY <1>4, <2>1, <2>6
<1>7. CASE Reaching(n)
  <2> DEFINE next == [line EXCEPT !.reached = line.reached \cup {out.to}]
  <2>1. out # Nothing /\ out.to # NoPeer /\ out.to \in Onions
    BY <1>1, <1>7 DEF Reaching, FanOut
  <2>2. /\ next \in Sent /\ next.said = "nothing" /\ next.audience = line.audience
        /\ next.reached = line.reached \cup {out.to}
    BY <1>1, <2>1 DEF Sent
  <2>3. lines' = [lines EXCEPT ![n] = [lines[n] EXCEPT ![last] = next]]
    BY <1>7 DEF Reaching
  <2> HIDE DEF next
  <2>4. /\ lines'[n] # <<>> /\ Len(lines'[n]) = last /\ DOMAIN lines'[n] = DOMAIN lines[n]
        /\ \A i \in DOMAIN lines[n] : lines'[n][i] = IF i = last THEN next ELSE lines[n][i]
    BY <1>1, <1>2, <2>1, <2>2, <2>3
  <2>5. /\ sending'[n].left = out.left /\ sending'[n].failures = out.failures
        /\ sending'[n].to = NoPeer
    BY <1>0, <1>1, <1>7, <2>1 DEF Reaching, FanOutTo, FanOut
  <2>6. NoPeer \notin line.reached \cup {out.to} \cup out.failures \cup out.left
    BY <1>1, <2>1, TalkAssumption DEF FanOut, Sent
  <2>7. lines'[n][Len(lines'[n])] = next
    BY <1>1, <2>1, <2>4
  <2>8. Accounted(n)'
    BY <1>1, <2>1, <2>2, <2>4, <2>5, <2>6, <2>7 DEF Accounted
  <2>9. QED
    BY <1>1, <2>1, <2>2, <2>4, <2>8 DEF InOrder
<1>8. CASE Reporting(n)
  <2> DEFINE next == [line EXCEPT !.said = IF out.failures = {} THEN "sent" ELSE "failed"]
  <2>1. out # Nothing /\ out.to = NoPeer /\ out.left = {} /\ sending'[n] = Nothing
    BY <1>0, <1>8 DEF Reporting, FanOutTo
  <2>2. /\ next \in Sent /\ next.audience = line.audience /\ next.reached = line.reached
        /\ next.said = IF out.failures = {} THEN "sent" ELSE "failed"
    BY <1>1, <2>1 DEF Sent
  <2>3. lines' = [lines EXCEPT ![n] = [lines[n] EXCEPT ![last] = next]]
    BY <1>8 DEF Reporting
  <2> HIDE DEF next
  <2>4. /\ DOMAIN lines'[n] = DOMAIN lines[n]
        /\ \A i \in DOMAIN lines[n] : lines'[n][i] = IF i = last THEN next ELSE lines[n][i]
    BY <1>1, <1>2, <2>1, <2>2, <2>3
  <2>5. line.audience = line.reached \cup out.failures /\ line.reached \cap out.failures = {}
    BY <1>1, <2>1
  <2>6. next.said = "sent" <=> next.reached = next.audience
    BY <2>2, <2>5
  <2>7. QED
    BY <2>1, <2>4, <2>6 DEF InOrder, Accounted
<1>9. CASE Killing(n)
  <2>1. sending'[n] = Nothing /\ lines' = lines
    BY <1>0, <1>9 DEF Killing, FanOutTo
  <2>2. QED
    BY <1>4, <2>1 DEF Accounted
<1>10. QED
  BY <1>3, <1>5, <1>6, <1>7, <1>8, <1>9 DEF Moves

\* Only n's own step moves n's fan-out and lines.
LEMMA MovesOthers ==
    ASSUME TypeOK, NEW n \in Onions, NEW m \in Onions, m # n, Moves(n), InOrder(m)
    PROVE  InOrder(m)'
<1>1. sending'[m] = sending[m] /\ lines'[m] = lines[m]
  BY DEF TypeOK, Moves, Typing, Connecting, Failing, Reaching, Reporting, Killing, FanOutTo
<1>2. QED
  BY <1>1 DEF InOrder, Accounted
-------------------------------------------------------------------------------
(* Every step keeps the types; then the theorems. *)

\* The frame for a member is an envelope.
LEMMA FrameType ==
    ASSUME TypeOK, NEW n \in Onions, NEW m \in Onions, sending[n] # Nothing, lines[n] # <<>>,
           EncryptionKey(Contacts[n], m) # None
    PROVE  Frame(n, m) \in Envelope
<1>1. Identity[n].signing \in Keys /\ Identity[n].encryption \in Keys
  BY IdentityAssumption DEF ContactCard
<1>2. EncryptionKey(Contacts[n], m) \in Keys
  <2>1. Contacts[n] \in Books
    BY EveryoneKnown
  <2>2. QED
    BY <2>1, KeysType
<1>3. Len(lines[n]) \in Nat \ {0}
  <2>1. lines[n] \in Seq(Sent)
    BY DEF TypeOK
  <2>2. QED
    BY <2>1
<1>4. sending[n].group \in GroupIds /\ sending[n].copy \in G!GroupRecord
  BY DEF TypeOK, FanOut
<1>5. Seal(n, EncryptionKey(Contacts[n], m)) \in SUBSET Keys
  BY <1>1, <1>2 DEF Seal
<1>6. QED
  BY <1>1, <1>3, <1>4, <1>5 DEF Frame, Envelope

\* Every step keeps the types.
LEMMA TypeStep ==
    ASSUME TypeOK, \A n \in Onions : Accounted(n), [Next]_vars
    PROVE  TypeOK'
<1>1. sending' \in [Onions -> FanOut \cup {Nothing}] /\ lines' \in [Onions -> Seq(Sent)]
  <2>1. CASE UNCHANGED <<sending, lines>>
    BY <2>1 DEF TypeOK
  <2>2. CASE \E n \in Onions : Moves(n)
    BY <2>2, MovesType
  <2>3. QED
    BY <2>1, <2>2, MovesStep
<1> USE <1>1 DEF TypeOK
<1>2. CASE UNCHANGED vars
  BY <1>2 DEF vars
<1>3. ASSUME NEW n \in Onions, GroupCommand(n) PROVE TypeOK'
  <2>1. groups' \in [Onions -> G!GroupBooks] /\ files' \subseteq G!GroupInviteFile
    BY <1>3, CommandType
  <2>2. QED
    BY <1>3, <2>1 DEF GroupCommand
<1>4. ASSUME NEW n \in Onions, Listen(n) PROVE TypeOK'
  BY <1>4 DEF Listen
<1>5. ASSUME NEW n \in Onions, InteractiveGroupChat(n) PROVE TypeOK'
  BY <1>5 DEF InteractiveGroupChat
<1>6. ASSUME NEW n \in Onions, Quit(n) PROVE TypeOK'
  BY <1>6, CloseType DEF Quit
<1>7. ASSUME NEW n \in Onions, Kill(n) PROVE TypeOK'
  <2>1. listening' \in [Onions -> BOOLEAN] /\ queue' \in [Onions -> Seq(Connection)]
    BY <1>7, CloseType DEF Kill
  <2>2. QED
    BY <1>7, <2>1 DEF Kill
<1>8. ASSUME NEW n \in Onions, SendGroupMessage(n) PROVE TypeOK'
  BY <1>8 DEF SendGroupMessage
<1>9. ASSUME NEW n \in Onions, NextMember(n) PROVE TypeOK'
  <2>1. queue' \in [Onions -> Seq(Connection)]
    <3> PICK m \in sending[n].left :
          \/ /\ EncryptionKey(Contacts[n], m) # None
             /\ queue' = [queue EXCEPT ![m] = Append(@, [env |-> Frame(n, m), state |-> "open"])]
          \/ UNCHANGED queue
      BY <1>9 DEF NextMember
    <3>1. sending[n] # Nothing /\ lines[n] # <<>>
      BY <1>9 DEF NextMember, BetweenMembers, Accounted
    <3>2. m \in Onions
      BY <3>1 DEF FanOut
    <3>3. CASE EncryptionKey(Contacts[n], m) # None
      <4>1. Frame(n, m) \in Envelope
        BY <3>1, <3>2, <3>3, FrameType
      <4>2. [env |-> Frame(n, m), state |-> "open"] \in Connection
        BY <4>1 DEF Connection
      <4>3. Append(queue[m], [env |-> Frame(n, m), state |-> "open"]) \in Seq(Connection)
        BY <3>2, <4>2
      <4>4. QED
        BY <3>2, <4>3
    <3>4. QED
      BY <3>3
  <2>2. QED
    BY <1>9, <2>1 DEF NextMember
<1>10. ASSUME NEW n \in Onions, WriteFrame(n) PROVE TypeOK'
  <2>1. sending[n].to \in Onions
    BY <1>10 DEF WriteFrame, FanOut
  <2>2. queue' \in [Onions -> Seq(Connection)]
    BY <1>10, <2>1, ProgressType DEF WriteFrame
  <2>3. QED
    BY <1>10, <2>2 DEF WriteFrame
<1>11. ASSUME NEW n \in Onions, Report(n) PROVE TypeOK'
  BY <1>11 DEF Report
<1>12. ASSUME NEW n \in Onions, NEW k \in DOMAIN queue[n], Network(n, k) PROVE TypeOK'
  <2>1. queue' \in [Onions -> Seq(Connection)]
    BY <1>12, ProgressType DEF Network
  <2>2. QED
    BY <1>12, <2>1 DEF Network
<1>13. ASSUME NEW n \in Onions, DiscardFrame(n) PROVE TypeOK'
  BY <1>13 DEF DiscardFrame
<1>14. ASSUME NEW n \in Onions, PrintIncoming(n) PROVE TypeOK'
  <2> DEFINE env == Head(queue[n]).env
  <2>1. Head(queue[n]) \in Connection
    BY <1>14 DEF PrintIncoming
  <2>2. [from |-> env.from, line |-> env.line] \in Shown
    BY <2>1 DEF Connection, Envelope, Shown
  <2>3. CASE Verifies(n, env) /\ Authorized(n, env)
    <3>1. shown' = [shown EXCEPT ![n] = Append(@, [from |-> env.from, line |-> env.line])]
          /\ queue' = [queue EXCEPT ![n] = Tail(@)] /\ UNCHANGED listening
      BY <1>14, <2>3 DEF PrintIncoming
    <3>2. shown[n] \in Seq(Shown)
      BY DEF Shown
    <3>3. Append(shown[n], [from |-> env.from, line |-> env.line]) \in Seq(Shown)
      BY <2>2, <3>2
    <3>4. shown' \in [Onions -> Seq(Shown)]
      BY <3>1, <3>3 DEF Shown
    <3>5. queue' \in [Onions -> Seq(Connection)]
      <4>1. Tail(queue[n]) \in Seq(Connection)
        BY <1>14 DEF PrintIncoming
      <4>2. QED
        BY <3>1, <4>1
    <3>6. QED
      BY <1>14, <3>1, <3>4, <3>5 DEF PrintIncoming, Shown
  <2>4. CASE ~(Verifies(n, env) /\ Authorized(n, env))
    <3>1. CloseListener(n) /\ shown' = shown
      BY <1>14, <2>4 DEF PrintIncoming
    <3>2. listening' \in [Onions -> BOOLEAN] /\ queue' \in [Onions -> Seq(Connection)]
      BY <3>1, CloseType
    <3>3. QED
      BY <1>14, <3>1, <3>2 DEF PrintIncoming
  <2>5. QED
    BY <2>3, <2>4
<1>15. ASSUME NEW n \in Onions, ListenerFails(n) PROVE TypeOK'
  BY <1>15, CloseType DEF ListenerFails
<1>16. QED
  BY <1>2, <1>3, <1>4, <1>5, <1>6, <1>7, <1>8, <1>9, <1>10, <1>11, <1>12, <1>13, <1>14, <1>15
     DEF Next, Session, Sender

\* Types and the account of each fan-out hold at the start, and every step keeps them.
LEMMA ReportInductive ==
    /\ Init => ReportInv
    /\ ReportInv /\ [Next]_vars => ReportInv'
<1>1. ReportInv <=> TypeOK /\ \A n \in Onions : InOrder(n)
  BY DEF ReportInv, ReportsTrue, InOrder
<1>2. ReportInv' <=> TypeOK' /\ \A n \in Onions : InOrder(n)'
  BY DEF ReportInv, ReportsTrue, InOrder
<1>3. Init => ReportInv
  <2>1. Init => TypeOK
    BY GroupsAssumption DEF Init, TypeOK
  <2>2. ASSUME Init, NEW n \in Onions
        PROVE  InOrder(n)
    <3>1. lines[n] = <<>> /\ sending[n] = Nothing
      BY <2>2 DEF Init
    <3>2. DOMAIN lines[n] = {}
      BY <3>1
    <3>3. QED
      BY <3>1, <3>2 DEF InOrder, Accounted
  <2>3. QED
    BY <1>1, <2>1, <2>2
<1>4. ASSUME ReportInv, [Next]_vars
      PROVE  ReportInv'
  <2>1. TypeOK'
    BY <1>4, TypeStep DEF ReportInv
  <2>2. ASSUME NEW m \in Onions
        PROVE  InOrder(m)'
    <3>1. CASE UNCHANGED <<sending, lines>>
      BY <1>1, <1>4, <3>1 DEF InOrder, Accounted
    <3>2. ASSUME NEW n \in Onions, Moves(n)
          PROVE  InOrder(m)'
      BY <1>1, <1>4, <3>2, MovesInOrder, MovesOthers
    <3>3. QED
      BY <1>1, <1>4, <3>1, <3>2, MovesStep
  <2>3. QED
    BY <1>2, <2>1, <2>2
<1>5. QED
  BY <1>3, <1>4

\* Every variable keeps its type, whatever users, fan-outs and copies do.
THEOREM TypeCorrect == Spec => []TypeOK
<1>1. ReportInv => TypeOK
  BY DEF ReportInv
<1>2. QED
  BY <1>1, ReportInductive, PTL DEF Spec

\* fan_out_group reports a line as sent if and only if it was handed over for
\* every other member of the copy it was typed with, for any users and groups.
THEOREM ReportsTrueHolds == Spec => []ReportsTrue
<1>1. ReportInv => ReportsTrue
  BY DEF ReportInv
<1>2. QED
  BY <1>1, ReportInductive, PTL DEF Spec
-------------------------------------------------------------------------------
(* What a step does to the connections and to the screens. *)

\* The frames on the connections to n stay, but for the first or for all of them ...
Leave(n) ==
    \E s \in {0, 1} : \A k \in DOMAIN queue'[n] :
        k + s \in DOMAIN queue[n] /\ queue'[n][k].env = queue[n][k + s].env

\* ... or one more arrives behind them, from a fan-out that is done with n then.
Arrive(n, m) ==
    /\ sending[m] # Nothing
    /\ n \in sending[m].left
    /\ n \notin sending'[m].left
    /\ EncryptionKey(Contacts[m], n) # None
    /\ \A k \in DOMAIN queue'[n] :
        \/ k \in DOMAIN queue[n] /\ queue'[n][k].env = queue[n][k].env
        \/ k = Len(queue[n]) + 1 /\ queue'[n][k].env = Frame(m, n)
    /\ UNCHANGED shown

\* Connections come from fan-outs, wait in the order they came, and keep their
\* frame.
LEMMA QueueMoves ==
    ASSUME TypeOK, [Next]_vars, NEW n \in Onions
    PROVE  Leave(n) \/ \E m \in Onions : Arrive(n, m)
<1> USE DEF TypeOK
<1>1. ASSUME \A k \in DOMAIN queue'[n] :
                k \in DOMAIN queue[n] /\ queue'[n][k].env = queue[n][k].env
      PROVE  Leave(n)
  <2>1. \A k \in DOMAIN queue'[n] :
          k + 0 \in DOMAIN queue[n] /\ queue'[n][k].env = queue[n][k + 0].env
    BY <1>1
  <2>2. QED
    BY <2>1 DEF Leave
<1>2. ASSUME NEW u \in Onions, CloseListener(u)
      PROVE  Leave(n)
  BY <1>1, <1>2 DEF CloseListener
<1>3. ASSUME NEW u \in Onions, queue[u] # <<>>, queue' = [queue EXCEPT ![u] = Tail(@)]
      PROVE  Leave(n)
  <2>1. CASE u = n
    <3>1. \A k \in DOMAIN queue'[n] :
            k + 1 \in DOMAIN queue[n] /\ queue'[n][k] = queue[n][k + 1]
      BY <1>3, <2>1
    <3>2. QED
      BY <3>1 DEF Leave
  <2>2. CASE u # n
    BY <1>1, <1>3, <2>2
  <2>3. QED
    BY <2>1, <2>2
<1>4. ASSUME NEW u \in Onions, NEW j \in DOMAIN queue[u], NEW from, NEW to,
             Progress(u, j, from, to)
      PROVE  Leave(n)
  <2> DEFINE c == [queue[u][j] EXCEPT !.state = to]
  <2>1. queue[u] \in Seq(Connection) /\ queue[u][j] \in Connection
    OBVIOUS
  <2>2. queue' = [queue EXCEPT ![u] = [queue[u] EXCEPT ![j] = c]]
    BY <1>4 DEF Progress
  <2>3. CASE u = n
    <3>1. c.env = queue[u][j].env
      BY <2>1 DEF Connection
    <3> HIDE DEF c
    <3>2. \A k \in DOMAIN queue'[n] :
            k \in DOMAIN queue[n] /\ queue'[n][k] = IF k = j THEN c ELSE queue[n][k]
      BY <2>1, <2>2, <2>3
    <3>3. QED
      BY <1>1, <2>3, <3>1, <3>2
  <2>4. CASE u # n
    BY <1>1, <2>2, <2>4
  <2>5. QED
    BY <2>3, <2>4
<1>5. ASSUME NEW u \in Onions, NextMember(u)
      PROVE  Leave(n) \/ \E m \in Onions : Arrive(n, m)
  <2>1. CASE UNCHANGED queue
    BY <1>1, <2>1
  <2>2. ASSUME NEW m \in sending[u].left, EncryptionKey(Contacts[u], m) # None,
               queue' = [queue EXCEPT ![m] = Append(@, [env |-> Frame(u, m), state |-> "open"])],
               sending' = [sending EXCEPT ![u].left = @ \ {m}, ![u].to = m]
        PROVE  Leave(n) \/ Arrive(n, u)
    <3>1. CASE m # n
      BY <1>1, <2>2, <3>1
    <3>2. CASE m = n
      <4> DEFINE c == [env |-> Frame(u, n), state |-> "open"]
      <4>1. queue[n] \in Seq(Connection) /\ queue'[n] = Append(queue[n], c)
        BY <2>2, <3>2
      <4>2. c.env = Frame(u, n)
        OBVIOUS
      <4>3. sending[u] # Nothing /\ sending[u] \in FanOut /\ shown' = shown
        BY <1>5 DEF NextMember, BetweenMembers
      <4>4. sending'[u].left = sending[u].left \ {n}
        BY <2>2, <3>2, <4>3 DEF FanOut
      <4> HIDE DEF c
      <4>5. \A k \in DOMAIN queue'[n] :
              \/ k \in DOMAIN queue[n] /\ queue'[n][k] = queue[n][k]
              \/ k = Len(queue[n]) + 1 /\ queue'[n][k] = c
        BY <4>1
      <4>6. QED
        BY <2>2, <3>2, <4>2, <4>3, <4>4, <4>5 DEF Arrive
    <3>3. QED
      BY <3>1, <3>2
  <2>3. QED
    BY <1>5, <2>1, <2>2 DEF NextMember
<1>6. ASSUME NEW u \in Onions, WriteFrame(u)
      PROVE  Leave(n)
  <2>1. sending[u].to \in Onions
    BY <1>6 DEF WriteFrame, FanOut
  <2>2. QED
    BY <1>1, <1>4, <1>6, <2>1 DEF WriteFrame
<1>7. ASSUME NEW u \in Onions, NEW j \in DOMAIN queue[u], Network(u, j)
      PROVE  Leave(n)
  BY <1>4, <1>7 DEF Network
<1>8. ASSUME NEW u \in Onions, DiscardFrame(u) \/ PrintIncoming(u)
      PROVE  Leave(n)
  BY <1>2, <1>3, <1>8 DEF DiscardFrame, PrintIncoming
<1>9. ASSUME NEW u \in Onions, Quit(u) \/ Kill(u) \/ ListenerFails(u)
      PROVE  Leave(n)
  BY <1>1, <1>2, <1>9 DEF Quit, Kill, ListenerFails
<1>10. ASSUME NEW u \in Onions,
             \/ GroupCommand(u) \/ Listen(u) \/ InteractiveGroupChat(u)
             \/ SendGroupMessage(u) \/ Report(u)
      PROVE  UNCHANGED queue
  BY <1>10 DEF GroupCommand, Listen, InteractiveGroupChat, SendGroupMessage, Report
<1>11. QED
  BY <1>1, <1>5, <1>6, <1>7, <1>8, <1>9, <1>10 DEF Next, Session, Sender, vars

\* n reads the frame env and shows its line.
Shows(n, env) ==
    /\ queue[n] # <<>>
    /\ env = Head(queue[n]).env
    /\ Verifies(n, env)
    /\ shown' = [shown EXCEPT ![n] = Append(@, [from |-> env.from, line |-> env.line])]
    /\ queue' = [queue EXCEPT ![n] = Tail(@)]
    /\ UNCHANGED lines

\* Only a frame that has been verified puts a line on a screen.
LEMMA ScreenStep ==
    ASSUME [Next]_vars
    PROVE  UNCHANGED shown \/ \E n \in Onions : Shows(n, Head(queue[n]).env)
<1>1. ASSUME NEW n \in Onions, PrintIncoming(n), ~UNCHANGED shown
      PROVE  Shows(n, Head(queue[n]).env)
  BY <1>1 DEF PrintIncoming, Shows
<1>2. ASSUME NEW u \in Onions,
             \/ GroupCommand(u) \/ Listen(u) \/ InteractiveGroupChat(u) \/ Quit(u) \/ Kill(u)
             \/ SendGroupMessage(u) \/ Sender(u) \/ DiscardFrame(u) \/ ListenerFails(u)
             \/ \E k \in DOMAIN queue[u] : Network(u, k)
      PROVE  UNCHANGED shown
  BY <1>2 DEF GroupCommand, Listen, InteractiveGroupChat, Quit, Kill, SendGroupMessage,
     Sender, NextMember, WriteFrame, Report, DiscardFrame, ListenerFails, Network
<1>3. QED
  BY <1>1, <1>2 DEF Next, Session, vars

\* A line on a screen was there before, or comes from the first connection.
LEMMA ShownStep ==
    ASSUME TypeOK, [Next]_vars, NEW n \in Onions, NEW i \in DOMAIN shown'[n]
    PROVE  \/ i \in DOMAIN shown[n] /\ shown'[n][i] = shown[n][i]
           \/ /\ queue[n] # <<>>
              /\ queue' = [queue EXCEPT ![n] = Tail(@)]
              /\ shown'[n][i].from = Head(queue[n]).env.from
              /\ shown'[n][i].line = Head(queue[n]).env.line
<1> USE DEF TypeOK
<1>1. CASE UNCHANGED shown
  BY <1>1
<1>2. ASSUME NEW u \in Onions, Shows(u, Head(queue[u]).env), u # n
      PROVE  i \in DOMAIN shown[n] /\ shown'[n][i] = shown[n][i]
  BY <1>2 DEF Shows
<1>3. ASSUME Shows(n, Head(queue[n]).env),
             ~(i \in DOMAIN shown[n] /\ shown'[n][i] = shown[n][i])
      PROVE  /\ queue[n] # <<>>
             /\ queue' = [queue EXCEPT ![n] = Tail(@)]
             /\ shown'[n][i].from = Head(queue[n]).env.from
             /\ shown'[n][i].line = Head(queue[n]).env.line
  <2> DEFINE before == shown[n]
             after == shown'[n]
             line == [from |-> Head(queue[n]).env.from, line |-> Head(queue[n]).env.line]
  <2>1. before \in Seq(Shown) /\ after = Append(before, line)
    BY <1>3 DEF Shows, Shown
  <2>2. line.from = Head(queue[n]).env.from /\ line.line = Head(queue[n]).env.line
    OBVIOUS
  <2>3. i \in DOMAIN after /\ ~(i \in DOMAIN before /\ after[i] = before[i])
    BY <1>3
  <2> HIDE DEF before, after, line
  <2>4. after[i] = line
    BY <2>1, <2>3
  <2>5. QED
    BY <1>3, <2>2, <2>4 DEF Shows, after
<1>4. QED
  BY <1>1, <1>2, <1>3, ScreenStep

\* The lines of m and for whom they were typed stay as they are.
SameAudience(m) ==
    /\ DOMAIN lines'[m] = DOMAIN lines[m]
    /\ Len(lines'[m]) = Len(lines[m])
    /\ \A i \in DOMAIN lines[m] : lines'[m][i].audience = lines[m][i].audience

\* m types one more line, for others.
NewLine(m, others) ==
    /\ Len(lines'[m]) = Len(lines[m]) + 1
    /\ DOMAIN lines'[m] = 1 .. Len(lines[m]) + 1
    /\ \A i \in DOMAIN lines[m] : lines'[m][i] = lines[m][i]
    /\ lines'[m][Len(lines[m]) + 1].audience = others
    /\ \A u \in Onions \ {m} : lines'[u] = lines[u]

\* A fan-out notes in its line whom it has reached and what it reports, no more.
LEMMA MovesAudience ==
    ASSUME TypeOK, NEW n \in Onions, Accounted(n), Moves(n), ~Typing(n), NEW m \in Onions
    PROVE  SameAudience(m)
<1> DEFINE last == Len(lines[n])
           line == LastLine(n)
<1> USE DEF TypeOK
<1>1. CASE lines'[m] = lines[m]
  BY <1>1 DEF SameAudience
<1>2. ASSUME sending[n] # Nothing
      PROVE  lines[n] \in Seq(Sent) /\ last \in DOMAIN lines[n] /\ line \in Sent
  <2>1. lines[n] \in Seq(Sent) /\ lines[n] # <<>>
    BY <1>2 DEF Accounted
  <2>2. last \in DOMAIN lines[n]
    BY <2>1
  <2>3. QED
    BY <2>1, <2>2 DEF LastLine
<1>3. ASSUME NEW next \in Sent, next.audience = line.audience, sending[n] # Nothing,
             lines' = [lines EXCEPT ![n] = [lines[n] EXCEPT ![last] = next]]
      PROVE  SameAudience(m)
  <2>1. CASE m = n
    <3>1. lines'[n] = [lines[n] EXCEPT ![last] = next]
      BY <1>3
    <3>2. QED
      BY <1>2, <1>3, <2>1, <3>1 DEF SameAudience, LastLine
  <2>2. CASE m # n
    BY <1>1, <1>3, <2>2
  <2>3. QED
    BY <2>1, <2>2
<1>4. CASE Reaching(n)
  <2> DEFINE next == [line EXCEPT !.reached = line.reached \cup {sending[n].to}]
  <2>1. sending[n] # Nothing /\ sending[n].to \in Onions
    BY <1>4 DEF Reaching, FanOut
  <2>2. next \in Sent /\ next.audience = line.audience
    BY <1>2, <2>1 DEF Sent
  <2>3. lines' = [lines EXCEPT ![n] = [lines[n] EXCEPT ![last] = next]]
    BY <1>4 DEF Reaching
  <2> HIDE DEF next
  <2>4. QED
    BY <1>3, <2>1, <2>2, <2>3
<1>5. CASE Reporting(n)
  <2> DEFINE next == [line EXCEPT !.said = IF sending[n].failures = {} THEN "sent" ELSE "failed"]
  <2>1. sending[n] # Nothing
    BY <1>5 DEF Reporting
  <2>2. next \in Sent /\ next.audience = line.audience
    BY <1>2, <2>1 DEF Sent
  <2>3. lines' = [lines EXCEPT ![n] = [lines[n] EXCEPT ![last] = next]]
    BY <1>5 DEF Reporting
  <2> HIDE DEF next
  <2>4. QED
    BY <1>3, <2>1, <2>2, <2>3
<1>6. QED
  BY <1>1, <1>4, <1>5 DEF Moves, Connecting, Failing, Killing

\* Typing adds a line, for those that the fan-out has left.
LEMMA TypingLine ==
    ASSUME TypeOK, NEW n \in Onions, Typing(n)
    PROVE  NewLine(n, sending'[n].left) /\ sending'[n].left \in SUBSET Onions
<1> USE DEF TypeOK
<1> PICK g \in GroupIds, copy \in G!GroupRecord, others \in SUBSET Onions :
      /\ sending' = [sending EXCEPT ![n] =
            [group |-> g, copy |-> copy, left |-> others, to |-> NoPeer, failures |-> {}]]
      /\ lines' = [lines EXCEPT ![n] =
            Append(lines[n], [audience |-> others, reached |-> {}, said |-> "nothing"])]
  BY DEF Typing, FanOutTo
<1> DEFINE next == [audience |-> others, reached |-> {}, said |-> "nothing"]
           before == lines[n]
           after == lines'[n]
<1>1. next \in Sent /\ next.audience = others
  BY DEF Sent
<1>2. before \in Seq(Sent) /\ after = Append(before, next)
  OBVIOUS
<1>3. sending'[n].left = others
  OBVIOUS
<1> HIDE DEF next, before, after
<1>4. /\ Len(after) = Len(before) + 1
      /\ DOMAIN after = 1 .. Len(before) + 1
      /\ \A i \in DOMAIN before : after[i] = before[i]
      /\ after[Len(before) + 1] = next
  BY <1>1, <1>2
<1>5. \A u \in Onions \ {n} : lines'[u] = lines[u]
  OBVIOUS
<1>6. QED
  BY <1>1, <1>3, <1>4, <1>5 DEF NewLine, before, after
-------------------------------------------------------------------------------
(* Mail: what is shown is what was typed, in the order it was typed. *)

\* The lines of m on n's screen and on the connections to n come before line b.
Below(n, m, b) ==
    /\ \A k \in DOMAIN queue[n] : queue[n][k].env.from = m => queue[n][k].env.line < b
    /\ \A i \in DOMAIN shown[n] : shown[n][i].from = m => shown[n][i].line < b

\* m's last line has not come to those that its fan-out has left.
LeftLack(m) ==
    sending[m] # Nothing => \A n \in sending[m].left : Below(n, m, Len(lines[m]))

AllLeftLack == \A m \in Onions : LeftLack(m)

\* Line i of m was typed, for n among others.
TypedFor(m, i, n) == i \in DOMAIN lines[m] /\ n \in lines[m][i].audience

\* What comes to n was typed for n by someone who has n's key, and what n has
\* read was typed for n.
LinesTyped ==
    \A n \in Onions :
        /\ \A k \in DOMAIN queue[n] :
            /\ TypedFor(queue[n][k].env.from, queue[n][k].env.line, n)
            /\ EncryptionKey(Contacts[queue[n][k].env.from], n) # None
        /\ \A i \in DOMAIN shown[n] :
            TypedFor(shown[n][i].from, shown[n][i].line, n)

\* The lines of one sender are read in the order they wait in, and wait in the
\* order they were typed in.
QueuesInOrder ==
    \A n \in Onions : \A k \in DOMAIN queue[n] :
        /\ \A j \in DOMAIN queue[n] :
                j < k /\ queue[n][j].env.from = queue[n][k].env.from =>
                    queue[n][j].env.line < queue[n][k].env.line
        /\ \A i \in DOMAIN shown[n] :
                shown[n][i].from = queue[n][k].env.from =>
                    shown[n][i].line < queue[n][k].env.line

MailInv == ReportInv /\ AllLeftLack /\ LinesTyped /\ QueuesInOrder

\* What becomes of the lines of m in a step.
LEMMA LinesStep ==
    ASSUME ReportInv, [Next]_vars, NEW m \in Onions
    PROVE  SameAudience(m) \/ (sending[m] = Nothing /\ NewLine(m, sending'[m].left))
<1>1. CASE UNCHANGED lines
  BY <1>1 DEF SameAudience
<1>2. ASSUME NEW u \in Onions, Moves(u), ~Typing(u)
      PROVE  SameAudience(m)
  BY <1>2, MovesAudience DEF ReportInv
<1>3. ASSUME NEW u \in Onions, Typing(u)
      PROVE  SameAudience(m) \/ (sending[m] = Nothing /\ NewLine(m, sending'[m].left))
  <2>1. NewLine(u, sending'[u].left) /\ sending[u] = Nothing
    BY <1>3, TypingLine DEF ReportInv, Typing
  <2>2. CASE u # m
    BY <2>1, <2>2 DEF NewLine, SameAudience
  <2>3. QED
    BY <2>1, <2>2
<1>4. QED
  BY <1>1, <1>2, <1>3, MovesStep DEF ReportInv

\* A line stays typed for whom it was.
LEMMA TypedForKept ==
    ASSUME ReportInv, [Next]_vars, NEW m \in Onions, NEW i, NEW n, TypedFor(m, i, n)
    PROVE  TypedFor(m, i, n)'
<1>1. lines[m] \in Seq(Sent)
  BY DEF ReportInv, TypeOK
<1>2. CASE SameAudience(m)
  BY <1>2 DEF SameAudience, TypedFor
<1>3. ASSUME NEW others, NewLine(m, others)
      PROVE  TypedFor(m, i, n)'
  <2>1. DOMAIN lines[m] = 1 .. Len(lines[m]) /\ Len(lines[m]) \in Nat
    BY <1>1
  <2>2. i \in DOMAIN lines'[m] /\ lines'[m][i] = lines[m][i]
    BY <1>3, <2>1 DEF NewLine, TypedFor
  <2>3. QED
    BY <2>2 DEF TypedFor
<1>4. QED
  BY <1>2, <1>3, LinesStep

\* Nothing of m comes to n later than line b, unless m's fan-out gets to n.
LEMMA BelowStep ==
    ASSUME MailInv, [Next]_vars, NEW n \in Onions, NEW m \in Onions, NEW b,
           Below(n, m, b), ~Arrive(n, m)
    PROVE  Below(n, m, b)'
<1>0. TypeOK
  BY DEF MailInv, ReportInv
<1>1. ASSUME NEW k \in DOMAIN queue'[n], queue'[n][k].env.from = m
      PROVE  queue'[n][k].env.line < b
  <2>1. CASE Leave(n)
    BY <1>1, <2>1 DEF Leave, Below
  <2>2. ASSUME NEW u \in Onions, Arrive(n, u)
        PROVE  queue'[n][k].env.line < b
    <3>1. u # m /\ Frame(u, n).from = u
      BY <2>2 DEF Frame
    <3>2. k \in DOMAIN queue[n] /\ queue'[n][k].env = queue[n][k].env
      BY <1>1, <2>2, <3>1 DEF Arrive
    <3>3. QED
      BY <1>1, <3>2 DEF Below
  <2>3. QED
    BY <1>0, <2>1, <2>2, QueueMoves
<1>2. ASSUME NEW i \in DOMAIN shown'[n], shown'[n][i].from = m
      PROVE  shown'[n][i].line < b
  <2>1. CASE i \in DOMAIN shown[n] /\ shown'[n][i] = shown[n][i]
    BY <1>2, <2>1 DEF Below
  <2>2. CASE /\ queue[n] # <<>>
             /\ shown'[n][i].from = Head(queue[n]).env.from
             /\ shown'[n][i].line = Head(queue[n]).env.line
    <3>1. Head(queue[n]) = queue[n][1] /\ 1 \in DOMAIN queue[n]
      BY <1>0, <2>2 DEF TypeOK
    <3>2. QED
      BY <1>2, <2>2, <3>1 DEF Below
  <2>3. QED
    BY <1>0, <2>1, <2>2, ShownStep
<1>3. QED
  BY <1>1, <1>2 DEF Below

\* A new line comes after all that were typed.
LEMMA NewLineLast ==
    ASSUME MailInv, NEW n \in Onions, NEW m \in Onions
    PROVE  Below(n, m, Len(lines[m]) + 1)
<1>1. lines[m] \in Seq(Sent)
  BY DEF MailInv, ReportInv, TypeOK
<1>2. \A i \in DOMAIN lines[m] : i < Len(lines[m]) + 1
  BY <1>1
<1>3. QED
  BY <1>2 DEF MailInv, LinesTyped, TypedFor, Below

\* A fan-out that goes on is for the members it has left, with the copy it took.
LEMMA GoesOn ==
    ASSUME TypeOK, NEW m \in Onions, Connecting(m) \/ Failing(m) \/ Reaching(m)
    PROVE  /\ sending[m] # Nothing
           /\ sending'[m].left \subseteq sending[m].left
           /\ sending'[m].group = sending[m].group
           /\ sending'[m].copy = sending[m].copy
<1> DEFINE out == sending[m]
           next == sending'[m]
           SameCopy == next.left \subseteq out.left /\ next.group = out.group /\ next.copy = out.copy
<1>1. out # Nothing
  BY DEF Connecting, Failing, Reaching
<1>2. out \in FanOut
  BY <1>1 DEF TypeOK
<1>3. ASSUME NEW into, FanOutTo(m, into)
      PROVE  next = into
  BY <1>3 DEF FanOutTo, TypeOK
<1>4. CASE Connecting(m)
  <2> PICK o \in out.left : FanOutTo(m, [out EXCEPT !.left = out.left \ {o}, !.to = o])
    BY <1>4 DEF Connecting
  <2>1. next = [out EXCEPT !.left = out.left \ {o}, !.to = o]
    BY <1>3
  <2> HIDE DEF out, next
  <2>2. SameCopy
    BY <1>2, <2>1 DEF FanOut
  <2>3. QED
    BY <1>1, <2>2 DEF out, next
<1>5. CASE Failing(m)
  <2> PICK o \in Onions :
        FanOutTo(m, [out EXCEPT !.left = out.left \ {o}, !.to = NoPeer,
                                !.failures = out.failures \cup {o}])
    BY <1>5 DEF Failing
  <2>1. next = [out EXCEPT !.left = out.left \ {o}, !.to = NoPeer,
                           !.failures = out.failures \cup {o}]
    BY <1>3
  <2> HIDE DEF out, next
  <2>2. SameCopy
    BY <1>2, <2>1 DEF FanOut
  <2>3. QED
    BY <1>1, <2>2 DEF out, next
<1>6. CASE Reaching(m)
  <2>1. next = [out EXCEPT !.to = NoPeer]
    BY <1>3, <1>6 DEF Reaching
  <2> HIDE DEF out, next
  <2>2. SameCopy
    BY <1>2, <2>1 DEF FanOut
  <2>3. QED
    BY <1>1, <2>2 DEF out, next
<1>7. QED
  BY <1>4, <1>5, <1>6

\* Whom a fan-out has left: those of before, or those of a new line.
LEMMA LeftStep ==
    ASSUME ReportInv, [Next]_vars, NEW m \in Onions, sending'[m] # Nothing,
           NEW n \in sending'[m].left
    PROVE  /\ n \in Onions
           /\ \/ /\ sending[m] # Nothing /\ n \in sending[m].left
                 /\ Len(lines'[m]) = Len(lines[m])
              \/ sending[m] = Nothing /\ Len(lines'[m]) = Len(lines[m]) + 1
<1> USE DEF ReportInv
<1>0. ASSUME sending[m] # Nothing
      PROVE  sending[m] \in FanOut /\ sending[m].left \subseteq Onions /\ SameAudience(m)
  <2>1. sending[m] \in FanOut
    BY <1>0 DEF TypeOK
  <2>2. QED
    BY <1>0, <2>1, LinesStep DEF FanOut
<1>1. CASE sending'[m] = sending[m]
  BY <1>0, <1>1 DEF SameAudience
<1>2. ASSUME NEW u \in Onions, Moves(u), u # m
      PROVE  sending'[m] = sending[m]
  BY <1>2 DEF TypeOK, Moves, Typing, Connecting, Failing, Reaching, Reporting, Killing, FanOutTo
<1>3. CASE Typing(m)
  BY <1>3, TypingLine DEF Typing, NewLine
<1>4. CASE Connecting(m) \/ Failing(m) \/ Reaching(m)
  BY <1>0, <1>4, GoesOn DEF SameAudience
<1>5. CASE Reporting(m) \/ Killing(m)
  BY <1>5 DEF Reporting, Killing, FanOutTo, TypeOK
<1>6. QED
  BY <1>1, <1>2, <1>3, <1>4, <1>5, MovesStep DEF Moves

\* A fan-out goes on, or begins, with a line that those it has left do not have.
LEMMA LeftLackStep ==
    ASSUME MailInv, [Next]_vars, NEW m \in Onions
    PROVE  LeftLack(m)'
<1> SUFFICES ASSUME sending'[m] # Nothing, NEW n \in sending'[m].left
             PROVE  Below(n, m, Len(lines[m]))'
  BY DEF LeftLack
<1>1. n \in Onions
  BY LeftStep DEF MailInv
<1>2. CASE /\ sending[m] # Nothing /\ n \in sending[m].left
           /\ Len(lines'[m]) = Len(lines[m])
  <2> PICK b : b = Len(lines[m])
    OBVIOUS
  <2>1. Below(n, m, b)
    BY <1>2 DEF MailInv, AllLeftLack, LeftLack
  <2>2. Below(n, m, b)'
    BY <1>1, <2>1, BelowStep DEF Arrive
  <2>3. QED
    BY <1>2, <2>2
<1>3. CASE sending[m] = Nothing /\ Len(lines'[m]) = Len(lines[m]) + 1
  <2> PICK b : b = Len(lines[m]) + 1
    OBVIOUS
  <2>1. Below(n, m, b)
    BY <1>1, NewLineLast
  <2>2. Below(n, m, b)'
    BY <1>1, <1>3, <2>1, BelowStep DEF Arrive
  <2>3. QED
    BY <1>3, <2>2
<1>4. QED
  BY <1>2, <1>3, LeftStep DEF MailInv

\* A frame that joins a queue is a line that was typed for its receiver, by one
\* who has the receiver's key, and the last of its sender there.
LEMMA ArriveLast ==
    ASSUME MailInv, NEW n \in Onions, NEW m \in Onions, Arrive(n, m)
    PROVE  /\ Frame(m, n).from = m /\ Frame(m, n).line = Len(lines[m])
           /\ Below(n, m, Frame(m, n).line)
           /\ TypedFor(m, Frame(m, n).line, n)
<1>1. Frame(m, n).from = m /\ Frame(m, n).line = Len(lines[m])
  BY DEF Frame
<1>2. Below(n, m, Len(lines[m]))
  BY DEF MailInv, AllLeftLack, LeftLack, Arrive
<1>3. TypedFor(m, Len(lines[m]), n)
  <2>1. Accounted(m) /\ lines[m] \in Seq(Sent)
    BY DEF MailInv, ReportInv, TypeOK
  <2>2. lines[m] # <<>> /\ n \in lines[m][Len(lines[m])].audience
    BY <2>1 DEF Accounted, Arrive
  <2>3. Len(lines[m]) \in DOMAIN lines[m]
    BY <2>1, <2>2
  <2>4. QED
    BY <2>2, <2>3 DEF TypedFor
<1>4. QED
  BY <1>1, <1>2, <1>3

\* What was typed stays typed, and only typed lines are on their way or shown.
LEMMA LinesTypedStep ==
    ASSUME MailInv, [Next]_vars
    PROVE  LinesTyped'
<1>0. TypeOK /\ ReportInv
  BY DEF MailInv, ReportInv
<1>1. ASSUME NEW n \in Onions, NEW k \in DOMAIN queue[n],
             NEW env, env = queue[n][k].env
      PROVE  /\ TypedFor(env.from, env.line, n) /\ env.from \in Onions
             /\ EncryptionKey(Contacts[env.from], n) # None
  <2>1. queue[n][k] \in Connection
    BY <1>0 DEF TypeOK
  <2>2. QED
    BY <1>1, <2>1 DEF MailInv, LinesTyped, Connection, Envelope
<1>2. ASSUME NEW n \in Onions, NEW k \in DOMAIN queue'[n]
      PROVE  /\ TypedFor(queue[n][k].env.from, queue[n][k].env.line, n)'
             /\ EncryptionKey(Contacts[queue'[n][k].env.from], n) # None
  <2> PICK env : env = queue'[n][k].env
    OBVIOUS
  <2>1. /\ TypedFor(env.from, env.line, n) /\ env.from \in Onions
        /\ EncryptionKey(Contacts[env.from], n) # None
    <3>1. CASE \E j \in DOMAIN queue[n] : env = queue[n][j].env
      BY <1>1, <3>1
    <3>2. ASSUME NEW m \in Onions, Arrive(n, m), env = Frame(m, n)
          PROVE  /\ TypedFor(env.from, env.line, n) /\ env.from \in Onions
                 /\ EncryptionKey(Contacts[env.from], n) # None
      BY <3>2, ArriveLast DEF Arrive
    <3>3. Leave(n) => \E j \in DOMAIN queue[n] : env = queue[n][j].env
      BY DEF Leave
    <3>4. ASSUME NEW m \in Onions, Arrive(n, m)
          PROVE  (\E j \in DOMAIN queue[n] : env = queue[n][j].env) \/ env = Frame(m, n)
      BY <3>4 DEF Arrive
    <3>5. QED
      BY <1>0, <3>1, <3>2, <3>3, <3>4, QueueMoves
  <2> PICK m \in Onions, b \in {env.line} : m = env.from /\ b = env.line
    BY <2>1
  <2>2. TypedFor(m, b, n)'
    BY <1>0, <2>1, TypedForKept
  <2>3. QED
    BY <2>1, <2>2 DEF TypedFor
<1>3. ASSUME NEW n \in Onions, NEW i \in DOMAIN shown'[n]
      PROVE  TypedFor(shown[n][i].from, shown[n][i].line, n)'
  <2> PICK line : line = shown'[n][i]
    OBVIOUS
  <2>1. TypedFor(line.from, line.line, n) /\ line.from \in Onions
    <3>1. CASE i \in DOMAIN shown[n] /\ line = shown[n][i]
      <4>1. shown[n] \in Seq(Shown)
        BY <1>0 DEF TypeOK, Shown
      <4>2. shown[n][i] \in Shown
        BY <3>1, <4>1
      <4>3. QED
        BY <3>1, <4>2 DEF MailInv, LinesTyped, Shown
    <3>2. CASE /\ queue[n] # <<>>
               /\ line.from = Head(queue[n]).env.from
               /\ line.line = Head(queue[n]).env.line
      <4>1. Head(queue[n]) = queue[n][1] /\ 1 \in DOMAIN queue[n]
        BY <1>0, <3>2 DEF TypeOK
      <4>2. QED
        BY <1>1, <3>2, <4>1
    <3>3. QED
      BY <1>0, <3>1, <3>2, ShownStep
  <2> PICK m \in Onions, b \in {line.line} : m = line.from /\ b = line.line
    BY <2>1
  <2>2. TypedFor(m, b, n)'
    BY <1>0, <2>1, TypedForKept
  <2>3. QED
    BY <2>2 DEF TypedFor
<1>4. QED
  BY <1>2, <1>3 DEF LinesTyped

\* Connections are read in the order they were made in.
LEMMA QueuesInOrderStep ==
    ASSUME MailInv, [Next]_vars
    PROVE  QueuesInOrder'
<1>0. TypeOK /\ TypeOK' /\ QueuesInOrder
  BY TypeStep DEF MailInv, ReportInv
<1> SUFFICES ASSUME NEW n \in Onions, NEW k \in DOMAIN queue'[n]
             PROVE  /\ \A j \in DOMAIN queue'[n] :
                        j < k /\ queue'[n][j].env.from = queue'[n][k].env.from =>
                            queue'[n][j].env.line < queue'[n][k].env.line
                    /\ \A i \in DOMAIN shown'[n] :
                        shown'[n][i].from = queue'[n][k].env.from =>
                            shown'[n][i].line < queue'[n][k].env.line
  BY DEF QueuesInOrder
<1>1. DOMAIN queue[n] = 1 .. Len(queue[n]) /\ DOMAIN queue'[n] = 1 .. Len(queue'[n])
      /\ Len(queue[n]) \in Nat /\ Len(queue'[n]) \in Nat
  BY <1>0 DEF TypeOK
<1>2. ASSUME NEW j \in DOMAIN queue'[n], j < k,
             queue'[n][j].env.from = queue'[n][k].env.from
      PROVE  queue'[n][j].env.line < queue'[n][k].env.line
  <2>1. CASE Leave(n)
    <3> PICK s \in {0, 1} : \A h \in DOMAIN queue'[n] :
            h + s \in DOMAIN queue[n] /\ queue'[n][h].env = queue[n][h + s].env
      BY <2>1 DEF Leave
    <3>1. j + s < k + s
      BY <1>1, <1>2
    <3>2. QED
      BY <1>0, <1>2, <3>1 DEF QueuesInOrder
  <2>2. ASSUME NEW m \in Onions, Arrive(n, m)
        PROVE  queue'[n][j].env.line < queue'[n][k].env.line
    <3>1. j \in DOMAIN queue[n] /\ queue'[n][j].env = queue[n][j].env
      BY <1>1, <1>2, <2>2 DEF Arrive
    <3>2. CASE k \in DOMAIN queue[n] /\ queue'[n][k].env = queue[n][k].env
      BY <1>0, <1>2, <3>1, <3>2 DEF QueuesInOrder
    <3>3. CASE queue'[n][k].env = Frame(m, n)
      BY <1>2, <2>2, <3>1, <3>3, ArriveLast DEF Below
    <3>4. QED
      BY <2>2, <3>2, <3>3 DEF Arrive
  <2>3. QED
    BY <1>0, <2>1, <2>2, QueueMoves
<1>3. ASSUME NEW i \in DOMAIN shown'[n], shown'[n][i].from = queue'[n][k].env.from
      PROVE  shown'[n][i].line < queue'[n][k].env.line
  <2>1. CASE i \in DOMAIN shown[n] /\ shown'[n][i] = shown[n][i]
    <3>1. CASE Leave(n)
      BY <1>0, <1>3, <2>1, <3>1 DEF Leave, QueuesInOrder
    <3>2. ASSUME NEW m \in Onions, Arrive(n, m)
          PROVE  shown'[n][i].line < queue'[n][k].env.line
      <4>1. CASE k \in DOMAIN queue[n] /\ queue'[n][k].env = queue[n][k].env
        BY <1>0, <1>3, <2>1, <4>1 DEF QueuesInOrder
      <4>2. CASE queue'[n][k].env = Frame(m, n)
        BY <1>3, <2>1, <3>2, <4>2, ArriveLast DEF Below
      <4>3. QED
        BY <3>2, <4>1, <4>2 DEF Arrive
    <3>3. QED
      BY <1>0, <3>1, <3>2, QueueMoves
  <2>2. CASE /\ queue[n] # <<>>
             /\ queue' = [queue EXCEPT ![n] = Tail(@)]
             /\ shown'[n][i].from = Head(queue[n]).env.from
             /\ shown'[n][i].line = Head(queue[n]).env.line
    <3>1. Head(queue[n]) = queue[n][1] /\ 1 \in DOMAIN queue[n]
      BY <1>0, <2>2 DEF TypeOK
    <3>2. k + 1 \in DOMAIN queue[n] /\ queue'[n][k] = queue[n][k + 1] /\ 1 < k + 1
      <4> DEFINE before == queue[n]
                 after == queue'[n]
      <4>1. /\ before \in Seq(Connection) /\ before # <<>>
            /\ after = Tail(before) /\ k \in DOMAIN after
        BY <1>0, <2>2 DEF TypeOK
      <4> HIDE DEF before, after
      <4>2. k + 1 \in DOMAIN before /\ after[k] = before[k + 1] /\ 1 < k + 1
        BY <4>1
      <4>3. QED
        BY <4>2 DEF before, after
    <3>3. QED
      BY <1>0, <1>3, <2>2, <3>1, <3>2 DEF QueuesInOrder
  <2>3. QED
    BY <1>0, <2>1, <2>2, ShownStep
<1>4. QED
  BY <1>2, <1>3

\* MailInv is inductive.
LEMMA MailStep ==
    ASSUME MailInv, [Next]_vars
    PROVE  MailInv'
<1>1. AllLeftLack'
  BY LeftLackStep DEF AllLeftLack
<1>2. QED
  BY <1>1, ReportInductive, LinesTypedStep, QueuesInOrderStep DEF MailInv
-------------------------------------------------------------------------------
(* The refinement mapping of Promise, step by step. *)

Audience == [n \in Onions |-> [i \in DOMAIN lines[n] |-> lines[n][i].audience]]

\* A step of Mail, or none.
Mails == [Promise!Next]_<<Audience, shown, Known>>

\* Typing a line for the other members.
LEMMA TypingTypes ==
    ASSUME TypeOK, NEW m \in Onions, Typing(m), UNCHANGED shown
    PROVE  Mails
<1> DEFINE before == lines[m]
           after == lines'[m]
           old == [i \in DOMAIN before |-> before[i].audience]
           new == [i \in DOMAIN after |-> after[i].audience]
<1> PICK others \in SUBSET Onions : NewLine(m, others)
  BY TypingLine
<1>1. before \in Seq(Sent)
  BY DEF TypeOK
<1>2. /\ DOMAIN after = 1 .. Len(before) + 1
      /\ \A i \in DOMAIN before : after[i] = before[i]
      /\ after[Len(before) + 1].audience = others
  BY DEF NewLine
<1> HIDE DEF before, after
<1>3. DOMAIN before = 1 .. Len(before) /\ Len(before) \in Nat
  BY <1>1
<1>4. old \in Seq(SUBSET Onions) /\ Len(old) = Len(before)
  <2>1. ASSUME NEW i \in DOMAIN before
        PROVE  before[i].audience \in SUBSET Onions
    <3>1. before[i] \in Sent
      BY <1>1
    <3>2. QED
      BY <3>1 DEF Sent
  <2>2. QED
    BY <1>3, <2>1
<1>5. new = Append(old, others)
  <2>1. Append(old, others) = [i \in 1 .. Len(old) + 1 |-> IF i = Len(old) + 1 THEN others ELSE old[i]]
    BY <1>4
  <2>2. QED
    BY <1>2, <1>3, <1>4, <2>1
<1>6. Audience' = [Audience EXCEPT ![m] = Append(@, others)]
  <2>1. Audience[m] = old /\ Audience'[m] = new
    BY DEF Audience, before, after
  <2>2. ASSUME NEW n \in Onions \ {m}
        PROVE  Audience'[n] = Audience[n]
    <3>1. lines'[n] = lines[n]
      BY DEF NewLine
    <3>2. QED
      BY <3>1 DEF Audience
  <2> HIDE DEF old, new
  <2>3. QED
    BY <1>5, <2>1, <2>2 DEF Audience
<1>7. Promise!Type(m, others)
  BY <1>6 DEF Promise!Type, Known, Audience
<1>8. QED
  BY <1>7 DEF Promise!Next, Mails

\* Reading a line of a member of one's own copy.
LEMMA ShowsShows ==
    ASSUME MailInv, NEW n \in Onions, Shows(n, Head(queue[n]).env)
    PROVE  Mails
<1>1. /\ Head(queue[n]) = queue[n][1] /\ 1 \in DOMAIN queue[n]
      /\ queue[n][1] \in Connection
  BY DEF MailInv, ReportInv, TypeOK, Shows
<1> PICK env \in Envelope : env = queue[n][1].env
  BY <1>1 DEF Connection
<1> PICK m \in Onions, i \in Nat \ {0} : m = env.from /\ i = env.line
  BY DEF Envelope
<1>2. Known' = Known /\ Audience' = Audience
  BY DEF Audience, Known, Shows
<1>3. EncryptionKey(Contacts[m], n) # None
  BY <1>1 DEF MailInv, LinesTyped
<1>4. EncryptionKey(Contacts[n], m) # None
  BY <1>1 DEF Shows, Verifies
<1>5. {<<n, m>>, <<m, n>>} \subseteq Known
  BY <1>3, <1>4 DEF Known
<1>6. i \in DOMAIN Audience[m] /\ n \in Audience[m][i]
  BY <1>1 DEF MailInv, LinesTyped, TypedFor, Audience
<1>7. Promise!Later(shown[n], m, i)
  BY <1>1 DEF MailInv, QueuesInOrder, Promise!Later
<1>8. shown' = [shown EXCEPT ![n] = Append(@, [from |-> m, line |-> i])]
  BY <1>1 DEF Shows
<1>9. Promise!Show(n, m)
  BY <1>2, <1>5, <1>6, <1>7, <1>8 DEF Promise!Show, Known, Audience
<1>10. QED
  BY <1>9 DEF Promise!Next, Mails

\* Every step of the system is one of the mail, or none.
LEMMA MailsStep ==
    ASSUME MailInv, [Next]_vars
    PROVE  Mails
<1>0. TypeOK /\ ReportInv
  BY DEF MailInv, ReportInv
<1>1. ASSUME NEW n \in Onions, Shows(n, Head(queue[n]).env)
      PROVE  Mails
  BY <1>1, ShowsShows
<1>2. ASSUME UNCHANGED shown, \A m \in Onions : SameAudience(m)
      PROVE  Mails
  <2>1. Audience' = Audience
    BY <1>2 DEF Audience, SameAudience
  <2>2. QED
    BY <1>2, <2>1 DEF Mails, Known
<1>3. CASE UNCHANGED shown
  <2>1. CASE UNCHANGED lines
    BY <1>2, <1>3, <2>1 DEF SameAudience
  <2>2. ASSUME NEW m \in Onions, Typing(m)
        PROVE  Mails
    BY <1>0, <1>3, <2>2, TypingTypes
  <2>3. ASSUME NEW m \in Onions, Moves(m), ~Typing(m)
        PROVE  Mails
    BY <1>0, <1>2, <1>3, <2>3, MovesAudience DEF ReportInv
  <2>4. QED
    BY <1>0, <2>1, <2>2, <2>3, MovesStep
<1>4. QED
  BY <1>1, <1>3, ScreenStep

\* MailInv holds at the start, which is one of Mail's.
LEMMA MailInit ==
    ASSUME Init
    PROVE  MailInv /\ Promise!Init
<1>1. AllLeftLack /\ LinesTyped /\ QueuesInOrder
  BY DEF Init, AllLeftLack, LeftLack, LinesTyped, QueuesInOrder
<1>2. Audience = [n \in Onions |-> <<>>]
  BY DEF Init, Audience
<1>3. Promise!Init
  BY <1>2 DEF Init, Promise!Init, Audience, Known
<1>4. QED
  BY <1>1, <1>3, ReportInductive DEF MailInv

\* Fan-outs, listeners and group copies implement the mail of Mail: a line
\* appears only on the screens of the members it was typed for, at most once on
\* each, in the order its sender typed, and only between mutual contacts, for any
\* users, groups and copies, and whatever the network delays or cuts
\* (fan_out_group, print_incoming).
THEOREM DeliversMailHolds == Spec => DeliversMail
<1>1. Init => MailInv /\ Promise!Init
  BY MailInit
<1>2. MailInv /\ [Next]_vars => MailInv' /\ Mails
  BY MailStep, MailsStep
<1>3. QED
  BY <1>1, <1>2, PTL DEF Spec, DeliversMail, Promise!Spec, Mails, Audience
-------------------------------------------------------------------------------
(* What a step does to the copies of a group: in books, in files, in fan-outs *)
(* and in frames.                                                             *)

\* A record of g that n writes as its owner: of a new group, of one that had no
\* owner, or a higher revision of n's own.
Fresh(n, g, r) ==
    /\ r.owner = n /\ n \in r.members
    /\ \/ \A m \in Onions : groups[m][g] = NoGroup
       \/ /\ groups[n][g] # NoGroup
          /\ \/ groups[n][g].owner = None
             \/ groups[n][g].owner = n /\ r.revision > groups[n][g].revision

\* A record of g that n takes from a file.
Taken(n, g, r) ==
    /\ \E f \in files : f.group = g /\ f.record = r
    /\ G!Newer(groups[n][g], r)

\* n's command saves r for g, and exports nothing but that.
Commits(n) ==
    \E g \in GroupIds, r \in G!GroupRecord :
        /\ G!Save(n, groups[n], g, r)
        /\ r = groups[n][g] \/ Fresh(n, g, r) \/ Taken(n, g, r)
        /\ \A f \in files' : f \in files \/ (f.group = g /\ f.record = r /\ r.owner = n)

\* A command loses the book or commits one record.
LEMMA CommandStep ==
    ASSUME TypeOK, NEW n \in Onions, GroupCommand(n)
    PROVE  G!Lose(n) \/ Commits(n)
<1> USE DEF TypeOK
<1>0. Identity[n].signing \in Keys
  BY IdentityAssumption DEF ContactCard
<1>1. CASE G!Creates(n, groups[n])
  <2> PICK g \in GroupIds, ms \in (SUBSET G!Peers(n)) \ {{}} :
        /\ G!Unused(g)
        /\ G!Save(n, groups[n], g,
            [members |-> ms \cup {n}, owner |-> n, key |-> Identity[n].signing, revision |-> 1])
    BY <1>1 DEF G!Creates
  <2> DEFINE r == [members |-> ms \cup {n}, owner |-> n, key |-> Identity[n].signing, revision |-> 1]
  <2>1. ms \subseteq Onions
    BY DEF G!Peers
  <2>2. r \in G!GroupRecord
    BY <1>0, <2>1 DEF G!GroupRecord
  <2>3. \A m \in Onions : groups[m][g] = NoGroup
    BY DEF G!Unused
  <2>4. Fresh(n, g, r)
    BY <2>3 DEF Fresh
  <2>5. files' = files /\ G!Save(n, groups[n], g, r)
    BY <1>1 DEF G!Creates
  <2> HIDE DEF r
  <2>6. QED
    BY <2>2, <2>4, <2>5 DEF Commits
<1>2. ASSUME NEW g \in GroupIds, groups[n][g] # NoGroup
      PROVE  groups[n][g] \in G!GroupRecord
  BY <1>2 DEF G!GroupBooks
<1>3. ASSUME NEW old \in G!GroupRecord, old.owner = None
      PROVE  G!Adopted(n, old) \in G!GroupRecord /\ n \in G!Adopted(n, old).members
  <2>1. G!Adopted(n, old) = [old EXCEPT !.owner = n, !.key = Identity[n].signing,
            !.members = old.members \cup {n}, !.revision = IF old.revision = 0 THEN 1 ELSE old.revision]
    BY <1>3 DEF G!Adopted
  <2>2. QED
    BY <2>1, AdoptedType DEF G!GroupRecord
<1>4. CASE G!Updates(n, groups[n])
  <2> PICK g \in GroupIds, ms \in SUBSET G!Peers(n) :
        /\ groups[n][g] # NoGroup
        /\ G!Adopted(n, groups[n][g]).owner = n
        /\ G!Save(n, groups[n], g,
            [G!Adopted(n, groups[n][g]) EXCEPT !.members = ms \cup {n}, !.revision = @ + 1])
    BY <1>4 DEF G!Updates
  <2> DEFINE old == groups[n][g]
             a == G!Adopted(n, old)
             r == [a EXCEPT !.members = ms \cup {n}, !.revision = @ + 1]
  <2>1. ms \cup {n} \in SUBSET Onions /\ old \in G!GroupRecord
    BY <1>2 DEF G!Peers
  <2>2. a \in G!GroupRecord /\ a.owner = n
    BY <2>1, AdoptedType
  <2>3. old.owner # None => a = old
    BY DEF G!Adopted
  <2>4. files' = files /\ G!Save(n, groups[n], g, r) /\ old # NoGroup
    BY <1>4 DEF G!Updates
  <2> HIDE DEF a
  <2>5. a.revision \in Nat
    BY <2>2 DEF G!GroupRecord
  <2>6. /\ r \in G!GroupRecord
        /\ r.owner = n /\ n \in r.members /\ r.revision > a.revision
    <3> DEFINE next == [a EXCEPT !.members = ms \cup {n}, !.revision = a.revision + 1]
    <3>1. a.revision + 1 \in Nat /\ a.revision + 1 > a.revision
      BY <2>5
    <3>2. /\ next \in G!GroupRecord
          /\ next.owner = n /\ next.members = ms \cup {n} /\ next.revision = a.revision + 1
      BY <2>1, <2>2, <3>1 DEF G!GroupRecord
    <3>3. QED
      BY <3>1, <3>2
  <2>7. Fresh(n, g, r)
    BY <2>2, <2>3, <2>4, <2>6 DEF Fresh
  <2> HIDE DEF r
  <2>8. QED
    BY <2>4, <2>6, <2>7 DEF Commits
<1>5. CASE G!Exports(n, groups[n])
  <2> PICK g \in GroupIds :
        /\ groups[n][g] # NoGroup
        /\ G!Adopted(n, groups[n][g]).owner = n
        /\ G!Save(n, groups[n], g, G!Adopted(n, groups[n][g]))
        /\ \/ files' = files \cup {[group |-> g, record |-> G!Adopted(n, groups[n][g]),
                                    signer |-> Identity[n].signing]}
           \/ UNCHANGED files
    BY <1>5 DEF G!Exports
  <2> DEFINE old == groups[n][g]
             r == G!Adopted(n, old)
  <2>1. old \in G!GroupRecord /\ old # NoGroup
    BY <1>2
  <2>2. r \in G!GroupRecord /\ r.owner = n
    BY <2>1, AdoptedType
  <2>3. old.owner # None => r = old
    BY DEF G!Adopted
  <2>4. old.owner = None => n \in r.members
    BY <1>3, <2>1
  <2>5. r = old \/ Fresh(n, g, r)
    BY <2>1, <2>2, <2>3, <2>4 DEF Fresh
  <2>6. G!Save(n, groups[n], g, r)
    OBVIOUS
  <2> HIDE DEF r
  <2>7. \A f \in files' : f \in files \/ (f.group = g /\ f.record = r /\ r.owner = n)
    BY <2>2 DEF r
  <2>8. QED
    BY <2>2, <2>5, <2>6, <2>7 DEF Commits
<1>6. CASE G!Imports(n, groups[n])
  <2> PICK f \in files : G!Importable(n, groups[n], f) /\ G!Save(n, groups[n], f.group, f.record)
    BY <1>6 DEF G!Imports
  <2>1. f.group \in GroupIds /\ f.record \in G!GroupRecord
    BY DEF G!GroupInviteFile
  <2>2. Taken(n, f.group, f.record)
    BY DEF Taken, G!Importable
  <2>3. files' = files
    BY <1>6 DEF G!Imports
  <2>4. QED
    BY <2>1, <2>2, <2>3 DEF Commits
<1>7. QED
  BY <1>1, <1>4, <1>5, <1>6 DEF GroupCommand

\* What becomes of n's copy of g.
LEMMA BookStep ==
    ASSUME TypeOK, [Next]_vars, NEW n \in Onions, NEW g \in GroupIds
    PROVE  \/ groups'[n][g] \in {groups[n][g], NoGroup}
           \/ Fresh(n, g, groups'[n][g])
           \/ Taken(n, g, groups'[n][g])
<1>1. ASSUME NEW u \in Onions, G!Lose(u)
      PROVE  groups'[n][g] \in {groups[n][g], NoGroup}
  BY <1>1 DEF G!Lose, G!EmptyGroups, TypeOK
<1>2. ASSUME NEW u \in Onions, NEW h \in GroupIds, NEW r, G!Save(u, groups[u], h, r)
      PROVE  groups'[n][g] = IF n = u /\ g = h THEN r ELSE groups[n][g]
  BY <1>2 DEF G!Save, TypeOK, G!GroupBooks
<1>3. ASSUME NEW u \in Onions, Commits(u)
      PROVE  \/ groups'[n][g] = groups[n][g]
             \/ Fresh(n, g, groups'[n][g])
             \/ Taken(n, g, groups'[n][g])
  BY <1>2, <1>3 DEF Commits
<1>4. ASSUME NEW u \in Onions, Session(u)
      PROVE  groups' = groups
  BY <1>4 DEF Session, Listen, InteractiveGroupChat, Quit, Kill, SendGroupMessage, Sender,
     NextMember, WriteFrame, Report, DiscardFrame, PrintIncoming, ListenerFails,
     Network
<1>5. QED
  BY <1>1, <1>3, <1>4, CommandStep DEF Next, vars

\* One book changes at a time.
LEMMA OneBook ==
    ASSUME TypeOK, [Next]_vars, NEW n \in Onions, NEW m \in Onions,
           groups'[n] # groups[n], groups'[m] # groups[m]
    PROVE  n = m
<1>1. ASSUME NEW u \in Onions, G!Lose(u) \/ Commits(u)
      PROVE  n = u /\ m = u
  BY <1>1 DEF G!Lose, Commits, G!Save, TypeOK
<1>2. ASSUME NEW u \in Onions, Session(u)
      PROVE  groups' = groups
  BY <1>2 DEF Session, Listen, InteractiveGroupChat, Quit, Kill, SendGroupMessage, Sender,
     NextMember, WriteFrame, Report, DiscardFrame, PrintIncoming, ListenerFails,
     Network
<1>3. QED
  BY <1>1, <1>2, CommandStep DEF Next, vars

\* A new file has what its exporter's book has now.
LEMMA FileStep ==
    ASSUME TypeOK, [Next]_vars, NEW f \in files', f \notin files
    PROVE  \E n \in Onions : f.record = groups'[n][f.group] /\ f.record.owner = n
                             /\ f.group \in GroupIds /\ f.record # NoGroup
<1>1. ASSUME NEW u \in Onions, Commits(u)
      PROVE  f.record = groups'[u][f.group] /\ f.record.owner = u
             /\ f.group \in GroupIds /\ f.record # NoGroup
  <2> PICK g \in GroupIds, r \in G!GroupRecord :
        /\ G!Save(u, groups[u], g, r)
        /\ f.group = g /\ f.record = r /\ r.owner = u
    BY <1>1 DEF Commits
  <2>1. groups'[u][g] = r
    BY DEF G!Save, TypeOK, G!GroupBooks
  <2>2. QED
    BY <2>1, GroupsAssumption
<1>2. ASSUME NEW u \in Onions, G!Lose(u)
      PROVE  files' = files
  BY <1>2 DEF G!Lose
<1>3. ASSUME NEW u \in Onions, Session(u)
      PROVE  files' = files
  BY <1>3 DEF Session, Listen, InteractiveGroupChat, Quit, Kill, SendGroupMessage, Sender,
     NextMember, WriteFrame, Report, DiscardFrame, PrintIncoming, ListenerFails,
     Network
<1>4. QED
  BY <1>1, <1>2, <1>3, CommandStep DEF Next, vars

\* n has r as a copy of g, in the book, in the fan-out, or in a frame under way.
Copy(n, g, r) ==
    /\ r # NoGroup
    /\ \/ r = groups[n][g]
       \/ sending[n] # Nothing /\ sending[n].group = g /\ sending[n].copy = r
       \/ \E m \in Onions : \E k \in DOMAIN queue[m] :
            LET env == queue[m][k].env
            IN  env.from = n /\ env.group = g /\ env.copy = r

\* A copy comes out of a book.
LEMMA CopyStep ==
    ASSUME ReportInv, [Next]_vars, NEW n \in Onions, NEW g \in GroupIds, NEW r,
           Copy(n, g, r)'
    PROVE  Copy(n, g, r) \/ r = groups'[n][g]
<1>0. TypeOK
  BY DEF ReportInv
<1>1. r # NoGroup
  BY DEF Copy
<1>2. ASSUME sending'[n] # Nothing, sending'[n].group = g, sending'[n].copy = r
      PROVE  Copy(n, g, r)
  <2>1. CASE sending'[n] = sending[n]
    BY <1>1, <1>2, <2>1 DEF Copy
  <2>2. ASSUME NEW u \in Onions, Moves(u), u # n
        PROVE  sending'[n] = sending[n]
    BY <1>0, <2>2 DEF TypeOK, Moves, Typing, Connecting, Failing, Reaching, Reporting, Killing,
       FanOutTo
  <2>3. CASE Typing(n)
    <3> PICK h \in GroupIds, copy \in G!GroupRecord, others \in SUBSET Onions :
          /\ copy = groups[n][h]
          /\ FanOutTo(n, [group |-> h, copy |-> copy, left |-> others, to |-> NoPeer,
                          failures |-> {}])
      BY <2>3 DEF Typing
    <3>1. sending'[n].group = h /\ sending'[n].copy = copy
      BY <1>0 DEF FanOutTo, TypeOK
    <3>2. QED
      BY <1>1, <1>2, <3>1 DEF Copy
  <2>4. CASE Connecting(n) \/ Failing(n) \/ Reaching(n)
    BY <1>0, <1>1, <1>2, <2>4, GoesOn DEF Copy
  <2>5. CASE Reporting(n) \/ Killing(n)
    BY <1>0, <1>2, <2>5 DEF Reporting, Killing, FanOutTo, TypeOK
  <2>6. QED
    BY <1>0, <2>1, <2>2, <2>3, <2>4, <2>5, MovesStep DEF Moves
<1>3. ASSUME NEW m \in Onions, NEW k \in DOMAIN queue'[m], NEW env, env = queue'[m][k].env,
             env.from = n, env.group = g, env.copy = r
      PROVE  Copy(n, g, r)
  <2>1. CASE \E j \in DOMAIN queue[m] : env = queue[m][j].env
    BY <1>1, <1>3, <2>1 DEF Copy
  <2>2. ASSUME NEW u \in Onions, Arrive(m, u), env = Frame(u, m)
        PROVE  Copy(n, g, r)
    BY <1>1, <1>3, <2>2 DEF Arrive, Frame, Copy
  <2>3. Leave(m) => \E j \in DOMAIN queue[m] : env = queue[m][j].env
    BY <1>3 DEF Leave
  <2>4. ASSUME NEW u \in Onions, Arrive(m, u)
        PROVE  (\E j \in DOMAIN queue[m] : env = queue[m][j].env) \/ env = Frame(u, m)
    BY <1>3, <2>4 DEF Arrive
  <2>5. QED
    BY <1>0, <2>1, <2>2, <2>3, <2>4, QueueMoves
<1>4. QED
  BY <1>2, <1>3 DEF Copy

\* A copy is a record.
LEMMA CopyType ==
    ASSUME TypeOK, NEW n \in Onions, NEW g \in GroupIds, NEW r, Copy(n, g, r)
    PROVE  r \in G!GroupRecord
<1>1. CASE r = groups[n][g]
  BY <1>1 DEF TypeOK, G!GroupBooks, Copy
<1>2. CASE sending[n] # Nothing /\ sending[n].copy = r
  BY <1>2 DEF TypeOK, FanOut
<1>3. ASSUME NEW m \in Onions, NEW k \in DOMAIN queue[m], queue[m][k].env.copy = r
      PROVE  r \in G!GroupRecord
  <2>1. queue[m][k] \in Connection
    BY DEF TypeOK
  <2>2. QED
    BY <1>3, <2>1 DEF Connection, Envelope
<1>4. QED
  BY <1>1, <1>2, <1>3 DEF Copy
-------------------------------------------------------------------------------
(* The owner's revisions order all copies of a group. *)

\* Somebody has r as a copy of g with an owner, or it is in a file.
Owned(g, r) ==
    /\ r.owner # None
    /\ \/ \E n \in Onions : Copy(n, g, r)
       \/ \E f \in files : f.group = g /\ f.record = r

\* n has a copy of g of an older version.
Orphaned(n, g) == \E r : Copy(n, g, r) /\ r.owner = None

\* c owns g, or would if c exported or updated it.
Claim(g, c) == Orphaned(c, g) \/ \E r : Owned(g, r) /\ r.owner = c

FilesOwned == \A f \in files : f.record.owner # None

OrphansOld ==
    \A n \in Onions, g \in GroupIds : \A r :
        Copy(n, g, r) /\ r.owner = None => r = Old[n][g]

OwnersAreMembers == \A g \in GroupIds : \A r : Owned(g, r) => r.owner \in r.members

OneClaim == \A g \in GroupIds : \A c, d \in Onions : Claim(g, c) /\ Claim(g, d) => c = d

\* Whose group it is has it.
OwnersHave == \A g \in GroupIds : \A c \in Onions : Claim(g, c) => groups[c][g] # NoGroup

\* The owner's book has the highest revision.
OwnerFirst ==
    \A g \in GroupIds : \A r :
        Owned(g, r) =>
            /\ groups[r.owner][g] # NoGroup
            /\ groups[r.owner][g].owner = r.owner
            /\ r.revision <= groups[r.owner][g].revision

AllAgree ==
    \A g \in GroupIds : \A r, s :
        Owned(g, r) /\ Owned(g, s) /\ r.revision = s.revision => r = s

CopiesInv ==
    /\ ReportInv
    /\ FilesOwned /\ OrphansOld /\ OwnersAreMembers
    /\ OneClaim /\ OwnersHave /\ OwnerFirst /\ AllAgree

\* What is passed on with an owner is a record.
LEMMA OwnedType ==
    ASSUME TypeOK, NEW g \in GroupIds, NEW r, Owned(g, r)
    PROVE  r \in G!GroupRecord /\ r.owner \in Onions
<1>1. ASSUME NEW f \in files
      PROVE  f.record \in G!GroupRecord
  BY DEF TypeOK, G!GroupInviteFile
<1>2. r \in G!GroupRecord
  BY <1>1, CopyType DEF Owned
<1>3. QED
  BY <1>2 DEF G!GroupRecord, Owned

\* So is what an owner writes.
LEMMA FreshFacts ==
    ASSUME CopiesInv, NEW n \in Onions, NEW g \in GroupIds, NEW r, Fresh(n, g, r)
    PROVE  /\ r.owner = n /\ r.owner # None /\ n \in r.members
           /\ \/ \A c \in Onions : ~Claim(g, c)
              \/ /\ Claim(g, n)
                 /\ groups[n][g] # NoGroup
                 /\ groups[n][g].owner = None \/ r.revision > groups[n][g].revision
<1>1. ASSUME \A m \in Onions : groups[m][g] = NoGroup
      PROVE  \A c \in Onions : ~Claim(g, c)
  BY <1>1 DEF CopiesInv, OwnersHave
<1>2. ASSUME groups[n][g] # NoGroup, groups[n][g].owner \in {None, n}
      PROVE  Claim(g, n)
  <2>1. Copy(n, g, groups[n][g])
    BY <1>2 DEF Copy
  <2>2. QED
    BY <1>2, <2>1, GroupsAssumption DEF Claim, Orphaned, Owned
<1>3. QED
  BY <1>1, <1>2, GroupsAssumption DEF Fresh

\* A new record with an owner comes out of the owner's book.
LEMMA OwnedStep ==
    ASSUME CopiesInv, [Next]_vars, NEW g \in GroupIds, NEW r, Owned(g, r)'
    PROVE  \/ Owned(g, r)
           \/ \E n \in Onions : Fresh(n, g, r) /\ groups'[n][g] = r /\ groups[n][g] # r
<1>0. TypeOK /\ ReportInv /\ r.owner # None
  BY DEF CopiesInv, ReportInv, Owned
<1>1. ASSUME NEW n \in Onions, r = groups'[n][g], r # NoGroup
      PROVE  \/ Owned(g, r)
             \/ Fresh(n, g, r) /\ groups'[n][g] = r /\ groups[n][g] # r
  <2>1. CASE groups[n][g] = r
    BY <1>0, <1>1, <2>1 DEF Owned, Copy
  <2>2. CASE Taken(n, g, r)
    BY <1>0, <2>2 DEF Taken, Owned
  <2>3. QED
    BY <1>0, <1>1, <2>1, <2>2, BookStep
<1>2. ASSUME NEW n \in Onions, Copy(n, g, r)'
      PROVE  Owned(g, r) \/ (r = groups'[n][g] /\ r # NoGroup)
  <2>1. r # NoGroup
    BY <1>2 DEF Copy
  <2>2. QED
    BY <1>0, <1>2, <2>1, CopyStep DEF Owned
<1>3. ASSUME NEW f \in files', f.group = g, f.record = r
      PROVE  Owned(g, r) \/ \E n \in Onions : r = groups'[n][g] /\ r # NoGroup
  BY <1>0, <1>3, FileStep DEF Owned
<1>4. QED
  BY <1>1, <1>2, <1>3 DEF Owned

\* No copy loses its owner.
LEMMA OrphanStep ==
    ASSUME CopiesInv, [Next]_vars, NEW n \in Onions, NEW g \in GroupIds, NEW r,
           Copy(n, g, r)', r.owner = None
    PROVE  Copy(n, g, r)
<1>0. TypeOK /\ ReportInv
  BY DEF CopiesInv, ReportInv
<1>1. r # NoGroup
  BY DEF Copy
<1>2. ~Fresh(n, g, r)
  BY GroupsAssumption DEF Fresh
<1>3. ~Taken(n, g, r)
  BY DEF Taken, CopiesInv, FilesOwned
<1>4. CASE r = groups'[n][g]
  BY <1>0, <1>1, <1>2, <1>3, <1>4, BookStep DEF Copy
<1>5. QED
  BY <1>0, <1>4, CopyStep

\* A claim is an old one, or the group is new.
LEMMA ClaimStep ==
    ASSUME CopiesInv, [Next]_vars, NEW g \in GroupIds, NEW c \in Onions, Claim(g, c)'
    PROVE  \/ Claim(g, c)
           \/ /\ \A d \in Onions : ~Claim(g, d)
              /\ \E r : Fresh(c, g, r) /\ groups'[c][g] = r /\ groups[c][g] # r
<1>1. CASE Orphaned(c, g)'
  BY <1>1, OrphanStep DEF Orphaned, Claim
<1>2. ASSUME NEW r, Owned(g, r)', r.owner = c
      PROVE  \/ Claim(g, c)
             \/ /\ \A d \in Onions : ~Claim(g, d)
                /\ Fresh(c, g, r) /\ groups'[c][g] = r /\ groups[c][g] # r
  <2>1. CASE Owned(g, r)
    BY <1>2, <2>1 DEF Claim
  <2>2. ASSUME NEW n \in Onions, Fresh(n, g, r), groups'[n][g] = r, groups[n][g] # r
        PROVE  \/ Claim(g, c)
               \/ /\ \A d \in Onions : ~Claim(g, d)
                  /\ Fresh(c, g, r) /\ groups'[c][g] = r /\ groups[c][g] # r
    BY <1>2, <2>2, FreshFacts
  <2>3. QED
    BY <1>2, <2>1, <2>2, OwnedStep
<1>3. QED
  BY <1>1, <1>2 DEF Claim

\* What an owner writes is higher than all that others have.
LEMMA FreshFirst ==
    ASSUME CopiesInv, NEW n \in Onions, NEW g \in GroupIds, NEW r \in G!GroupRecord,
           Fresh(n, g, r), NEW s, Owned(g, s)
    PROVE  s.revision < r.revision
<1>1. s \in G!GroupRecord /\ s.owner \in Onions /\ Claim(g, s.owner)
  BY OwnedType DEF CopiesInv, ReportInv, Claim
<1>2. /\ Claim(g, n)
      /\ groups[n][g] # NoGroup
      /\ groups[n][g].owner = None \/ r.revision > groups[n][g].revision
  BY <1>1, FreshFacts
<1>3. s.owner = n
  BY <1>1, <1>2 DEF CopiesInv, OneClaim
<1>4. groups[n][g].owner = n /\ s.revision <= groups[n][g].revision
  BY <1>3 DEF CopiesInv, OwnerFirst
<1>5. groups[n][g] \in G!GroupRecord
  BY <1>2 DEF CopiesInv, ReportInv, TypeOK, G!GroupBooks
<1>6. r.revision \in Nat /\ s.revision \in Nat /\ groups[n][g].revision \in Nat
  BY <1>1, <1>5 DEF G!GroupRecord
<1>7. QED
  BY <1>2, <1>4, <1>6, GroupsAssumption

\* No step loses the book of an owner.
OwnerKeeps ==
    \A n \in Onions, g \in GroupIds :
        groups[n][g] # NoGroup /\ groups[n][g].owner \in {None, n} => groups'[n][g] # NoGroup

\* A claim is on the book of the one who has it.
LEMMA ClaimKept ==
    ASSUME CopiesInv, OwnerKeeps, NEW g \in GroupIds, NEW c \in Onions, Claim(g, c)
    PROVE  groups[c][g] # NoGroup /\ groups'[c][g] # NoGroup
<1> DEFINE mine == groups[c][g]
<1>1. mine # NoGroup
  BY DEF CopiesInv, OwnersHave
<1>2. Copy(c, g, mine)
  BY <1>1 DEF Copy
<1>3. ASSUME mine.owner # None
      PROVE  mine.owner = c
  <2>1. Owned(g, mine)
    BY <1>2, <1>3 DEF Owned
  <2>2. mine.owner \in Onions /\ Claim(g, mine.owner)
    BY <2>1, OwnedType DEF CopiesInv, ReportInv, Claim
  <2>3. QED
    BY <2>2 DEF CopiesInv, OneClaim
<1>4. QED
  BY <1>1, <1>3 DEF OwnerKeeps

\* The owner's book stays first.
LEMMA OwnerFirstStep ==
    ASSUME CopiesInv, TypeOK', [Next]_vars, OwnerKeeps
    PROVE  OwnerFirst'
<1> SUFFICES ASSUME NEW g \in GroupIds, NEW r, Owned(g, r)'
             PROVE  /\ groups'[r.owner][g] # NoGroup
                    /\ groups'[r.owner][g].owner = r.owner
                    /\ r.revision <= groups'[r.owner][g].revision
  BY DEF OwnerFirst
<1>0. TypeOK
  BY DEF CopiesInv, ReportInv
<1>1. CASE Owned(g, r)
  <2> DEFINE c == r.owner
             old == groups[c][g]
             new == groups'[c][g]
  <2>1. c \in Onions /\ r \in G!GroupRecord /\ Claim(g, c)
    BY <1>0, <1>1, OwnedType DEF Claim
  <2>2. old # NoGroup /\ new # NoGroup
    BY <2>1, ClaimKept
  <2>3. old.owner = c /\ r.revision <= old.revision
    BY <1>1 DEF CopiesInv, OwnerFirst
  <2>4. old \in G!GroupRecord /\ new \in G!GroupRecord
    BY <1>0, <2>1, <2>2 DEF TypeOK, G!GroupBooks
  <2>5. r.revision \in Nat /\ old.revision \in Nat /\ new.revision \in Nat
    BY <2>1, <2>4 DEF G!GroupRecord
  <2>6. CASE new = old
    BY <2>2, <2>3, <2>6
  <2>7. CASE Fresh(c, g, new)
    <3>1. r.revision < new.revision
      BY <1>1, <2>1, <2>4, <2>7, FreshFirst
    <3>2. QED
      BY <2>2, <2>5, <2>7, <3>1 DEF Fresh
  <2>8. ASSUME Taken(c, g, new)
        PROVE  FALSE
    <3>1. Owned(g, new)
      BY <2>8 DEF Taken, Owned, CopiesInv, FilesOwned
    <3>2. new.owner \in Onions /\ Claim(g, new.owner)
      BY <1>0, <3>1, OwnedType DEF Claim
    <3>3. new.owner = c
      BY <2>1, <3>2 DEF CopiesInv, OneClaim
    <3>4. new.revision <= old.revision
      BY <3>1, <3>3 DEF CopiesInv, OwnerFirst
    <3>5. new.revision > old.revision
      BY <2>2, <2>8 DEF Taken, G!Newer
    <3>6. QED
      BY <2>5, <3>4, <3>5
  <2>9. QED
    BY <1>0, <2>1, <2>2, <2>6, <2>7, <2>8, BookStep
<1>2. ASSUME NEW n \in Onions, Fresh(n, g, r), groups'[n][g] = r
      PROVE  /\ groups'[r.owner][g] # NoGroup
             /\ groups'[r.owner][g].owner = r.owner
             /\ r.revision <= groups'[r.owner][g].revision
  <2>1. r.owner = n
    BY <1>2 DEF Fresh
  <2>2. r # NoGroup
    BY GroupsAssumption DEF Owned, Copy, TypeOK, G!GroupInviteFile
  <2>3. r \in G!GroupRecord
    BY <1>0, <1>2, <2>2 DEF TypeOK, G!GroupBooks
  <2>4. QED
    BY <1>2, <2>1, <2>2, <2>3 DEF G!GroupRecord
<1>3. QED
  BY <1>1, <1>2, OwnedStep

\* Owner and members, and files, are as they should be in what is new, too.
LEMMA OwnersStep ==
    ASSUME CopiesInv, [Next]_vars
    PROVE  FilesOwned' /\ OrphansOld' /\ OwnersAreMembers'
<1>0. TypeOK
  BY DEF CopiesInv, ReportInv
<1>1. FilesOwned'
  BY <1>0, FileStep, GroupsAssumption DEF CopiesInv, FilesOwned
<1>2. OrphansOld'
  BY OrphanStep DEF CopiesInv, OrphansOld
<1>3. OwnersAreMembers'
  BY OwnedStep DEF CopiesInv, OwnersAreMembers, Fresh
<1>4. QED
  BY <1>1, <1>2, <1>3

\* A group stays in one hand, which keeps it.
LEMMA ClaimsStep ==
    ASSUME CopiesInv, TypeOK', [Next]_vars, OwnerKeeps
    PROVE  OneClaim' /\ OwnersHave'
<1>0. TypeOK
  BY DEF CopiesInv, ReportInv
<1>1. OneClaim'
  <2> SUFFICES ASSUME NEW g \in GroupIds, NEW c \in Onions, NEW d \in Onions,
                      Claim(g, c)', Claim(g, d)'
               PROVE  c = d
    BY DEF OneClaim
  <2>1. CASE Claim(g, c) /\ Claim(g, d)
    BY <2>1 DEF CopiesInv, OneClaim
  <2>2. ASSUME NEW r, NEW s, groups'[c][g] = r, groups[c][g] # r,
               groups'[d][g] = s, groups[d][g] # s
        PROVE  c = d
    <3>1. groups'[c] # groups[c] /\ groups'[d] # groups[d]
      BY <2>2
    <3>2. QED
      BY <1>0, <3>1, OneBook
  <2>3. QED
    BY <2>1, <2>2, ClaimStep
<1>2. OwnersHave'
  <2> SUFFICES ASSUME NEW g \in GroupIds, NEW c \in Onions, Claim(g, c)'
               PROVE  groups'[c][g] # NoGroup
    BY DEF OwnersHave
  <2>1. CASE Claim(g, c)
    BY <2>1, ClaimKept
  <2>2. ASSUME ~Claim(g, c)
        PROVE  groups'[c][g] # NoGroup
    <3>1. PICK r : Fresh(c, g, r) /\ groups'[c][g] = r /\ groups[c][g] # r
      BY <2>2, ClaimStep
    <3>2. ~Orphaned(c, g)'
      BY <2>2, OrphanStep DEF Claim, Orphaned
    <3>3. PICK s : Owned(g, s)' /\ s.owner = c
      BY <3>2 DEF Claim
    <3>4. ~Owned(g, s)
      BY <2>2, <3>3 DEF Claim
    <3>5. groups'[c][g] = s
      BY <3>3, <3>4, OwnedStep, FreshFacts
    <3>6. s # NoGroup
      BY <3>3, GroupsAssumption DEF Owned, Copy, TypeOK, G!GroupInviteFile
    <3>7. QED
      BY <3>5, <3>6
  <2>3. QED
    BY <2>1, <2>2
<1>3. QED
  BY <1>1, <1>2

\* Equal revisions stay equal copies.
LEMMA AllAgreeStep ==
    ASSUME CopiesInv, TypeOK', [Next]_vars
    PROVE  AllAgree'
<1> SUFFICES ASSUME NEW g \in GroupIds, NEW r, NEW s, Owned(g, r)', Owned(g, s)',
                    r.revision = s.revision
             PROVE  r = s
  BY DEF AllAgree
<1>0. TypeOK
  BY DEF CopiesInv, ReportInv
<1>1. ASSUME NEW x, Owned(g, x)'
      PROVE  x \in G!GroupRecord
  <2>1. x # NoGroup
    BY <1>1, GroupsAssumption DEF Owned, Copy, TypeOK, G!GroupInviteFile
  <2>2. CASE Owned(g, x)
    BY <1>0, <2>2, OwnedType
  <2>3. ASSUME NEW n \in Onions, groups'[n][g] = x
        PROVE  x \in G!GroupRecord
    BY <2>1, <2>3 DEF TypeOK, G!GroupBooks
  <2>4. QED
    BY <1>1, <2>2, <2>3, OwnedStep
<1>2. CASE Owned(g, r) /\ Owned(g, s)
  BY <1>2 DEF CopiesInv, AllAgree
<1>3. ASSUME NEW x \in G!GroupRecord, NEW y \in G!GroupRecord, x.revision = y.revision,
             Owned(g, x), NEW n \in Onions, Fresh(n, g, y)
      PROVE  FALSE
  <2>1. x.revision < y.revision
    BY <1>3, FreshFirst
  <2>2. x.revision \in Nat /\ y.revision \in Nat
    BY <1>3 DEF G!GroupRecord
  <2>3. QED
    BY <1>3, <2>1, <2>2
<1>4. ASSUME NEW n \in Onions, groups'[n][g] = r, groups[n][g] # r,
             NEW m \in Onions, groups'[m][g] = s, groups[m][g] # s
      PROVE  r = s
  <2>1. groups'[n] # groups[n] /\ groups'[m] # groups[m]
    BY <1>4
  <2>2. n = m
    BY <1>0, <2>1, OneBook
  <2>3. QED
    BY <1>4, <2>2
<1>5. r \in G!GroupRecord /\ s \in G!GroupRecord
  BY <1>1
<1>6. QED
  BY <1>2, <1>3, <1>4, <1>5, OwnedStep

\* CopiesInv is inductive as long as owners keep their books.
LEMMA CopiesStep ==
    ASSUME CopiesInv, [Next]_vars, OwnerKeeps
    PROVE  CopiesInv'
<1>1. ReportInv'
  BY ReportInductive DEF CopiesInv
<1>2. TypeOK'
  BY <1>1 DEF ReportInv
<1>3. QED
  BY <1>1, <1>2, OwnersStep, ClaimsStep, OwnerFirstStep, AllAgreeStep DEF CopiesInv

\* A group of an older version is in one hand.
OneOldCopy ==
    \A n, m \in Onions, g \in GroupIds : Old[n][g] # NoGroup /\ Old[m][g] # NoGroup => n = m

\* It holds at the start, when no copy has an owner.
LEMMA CopiesInit ==
    ASSUME OneOldCopy, Init
    PROVE  CopiesInv
<1>1. ASSUME NEW n \in Onions, NEW g \in GroupIds, NEW r, Copy(n, g, r)
      PROVE  r = Old[n][g] /\ r # NoGroup /\ r.owner = None
  <2>1. r = Old[n][g] /\ r # NoGroup
    BY <1>1 DEF Init, Copy
  <2>2. QED
    BY <2>1, GroupsAssumption
<1>2. files = {}
  BY DEF Init
<1>3. \A g \in GroupIds : \A r : ~Owned(g, r)
  BY <1>1, <1>2 DEF Owned
<1>4. \A g \in GroupIds, c \in Onions : Claim(g, c) => Old[c][g] # NoGroup
  BY <1>1, <1>3 DEF Claim, Orphaned
<1>5. FilesOwned /\ OrphansOld /\ OwnersAreMembers /\ OwnerFirst /\ AllAgree
  BY <1>1, <1>2, <1>3 DEF FilesOwned, OrphansOld, OwnersAreMembers, OwnerFirst, AllAgree
<1>6. OneClaim /\ OwnersHave
  BY <1>4 DEF OneOldCopy, OneClaim, OwnersHave, Init
<1>7. QED
  BY <1>5, <1>6, ReportInductive DEF CopiesInv

\* Two copies of one revision have the same members, but for their owner's.
LEMMA SameRevision ==
    ASSUME CopiesInv, NEW g \in GroupIds, NEW n \in Onions, NEW m \in Onions,
           NEW mine, NEW sent, mine = groups[n][g], mine # NoGroup, Copy(m, g, sent),
           mine.revision = sent.revision, m \in sent.members
    PROVE  m \in mine.members
<1>0. TypeOK /\ Copy(n, g, mine)
  BY DEF CopiesInv, ReportInv, Copy
<1>1. ASSUME NEW c \in Onions, NEW r, Copy(c, g, r), r.owner # None
      PROVE  Owned(g, r) /\ r.owner \in Onions /\ Claim(g, r.owner)
  <2>1. Owned(g, r)
    BY <1>1 DEF Owned
  <2>2. QED
    BY <1>0, <2>1, OwnedType DEF Claim
<1>2. ASSUME NEW c \in Onions, NEW r, Copy(c, g, r), r.owner = None
      PROVE  Claim(g, c) /\ r = Old[c][g]
  BY <1>2 DEF CopiesInv, OrphansOld, Claim, Orphaned
<1>3. CASE mine.owner # None /\ sent.owner # None
  BY <1>0, <1>1, <1>3 DEF CopiesInv, AllAgree
<1>4. CASE mine.owner # None /\ sent.owner = None
  <2>1. mine.owner = m
    BY <1>0, <1>1, <1>2, <1>4 DEF CopiesInv, OneClaim
  <2>2. QED
    BY <1>0, <1>1, <1>4, <2>1 DEF CopiesInv, OwnersAreMembers
<1>5. ASSUME mine.owner = None, sent.owner # None
      PROVE  FALSE
  <2>1. sent.owner = n
    BY <1>0, <1>1, <1>2, <1>5 DEF CopiesInv, OneClaim
  <2>2. QED
    BY <1>1, <1>5, <2>1 DEF CopiesInv, OwnerFirst
<1>6. CASE mine.owner = None /\ sent.owner = None
  <2>1. n = m
    BY <1>0, <1>2, <1>6 DEF CopiesInv, OneClaim
  <2>2. QED
    BY <1>0, <1>2, <1>6, <2>1
<1>7. QED
  BY <1>3, <1>4, <1>5, <1>6

\* In no step is a book of a group's owner lost.
OwnersKeepBooks == [][OwnerKeeps]_vars

\* A line typed by a member never ends a listener whose user knows the writer and
\* has the same revision of the group, for any users and groups, however old the
\* frame and whatever the owner did since, when each group of an older version
\* is in one hand and no owner's book is lost (print_incoming, import_group).
THEOREM SameRevisionIsSafeHolds ==
    ASSUME OneOldCopy
    PROVE  Spec /\ OwnersKeepBooks => SameRevisionIsSafe
<1> DEFINE Safe == \A n \in Onions :
        LET env == Head(queue[n]).env
            mine == groups[n][env.group]
        IN  /\ listening[n] /\ ~listening'[n]
            /\ PrintIncoming(n)
            /\ env.from \in env.copy.members
            /\ mine # NoGroup
            => mine.revision # env.copy.revision \/ ~Verifies(n, env)
<1>1. CopiesInv => Safe
  <2> SUFFICES ASSUME CopiesInv, NEW n \in Onions, NEW env, env = Head(queue[n]).env,
                      listening[n], ~listening'[n], PrintIncoming(n),
                      env.from \in env.copy.members,
                      groups[n][env.group] # NoGroup,
                      groups[n][env.group].revision = env.copy.revision,
                      Verifies(n, env)
               PROVE  FALSE
    OBVIOUS
  <2>1. Head(queue[n]) = queue[n][1] /\ 1 \in DOMAIN queue[n] /\ queue[n][1] \in Connection
    BY DEF CopiesInv, ReportInv, TypeOK, PrintIncoming
  <2>2. env \in Envelope
    BY <2>1 DEF Connection
  <2> PICK g \in GroupIds, m \in Onions, sent \in G!GroupRecord :
        g = env.group /\ m = env.from /\ sent = env.copy
    BY <2>2 DEF Envelope
  <2>3. Copy(m, g, sent)
    BY <2>1, GroupsAssumption DEF Copy
  <2> PICK mine : mine = groups[n][g]
    OBVIOUS
  <2>4. m \in mine.members
    BY <2>3, SameRevision
  <2>5. Authorized(n, env)
    BY <2>4 DEF Authorized
  <2>6. QED
    BY <2>5 DEF PrintIncoming
<1>2. Init => CopiesInv
  BY CopiesInit
<1>3. CopiesInv /\ [Next]_vars /\ [OwnerKeeps]_vars => CopiesInv'
  <2>1. UNCHANGED vars => OwnerKeeps
    BY DEF vars, OwnerKeeps
  <2>2. QED
    BY <2>1, CopiesStep
<1>4. CopiesInv => [Safe]_vars
  BY <1>1
<1>5. QED
  BY <1>2, <1>3, <1>4, PTL DEF Spec, OwnersKeepBooks, SameRevisionIsSafe
-------------------------------------------------------------------------------
(* A fan-out gets nearer to its end with each of its steps. *)

\* n's fan-out ends, or has fewer members left, or is done with the one it wrote to.
Advances(n) ==
    \/ sending'[n] = Nothing
    \/ /\ sending'[n].left \subseteq sending[n].left
       /\ \/ sending'[n].left # sending[n].left
          \/ sending[n].to # NoPeer /\ sending'[n].to = NoPeer

\* A step of the fan-out advances it.
LEMMA SenderAdvances ==
    ASSUME TypeOK, NEW n \in Onions, Sender(n)
    PROVE  Advances(n)
<1> USE DEF TypeOK
<1>1. ASSUME NEW m \in Onions, sending[n] # Nothing, Failed(n, m),
             m \in sending[n].left \/ sending[n].to # NoPeer
      PROVE  Advances(n)
  <2> DEFINE out == sending[n]
             next == [out EXCEPT !.left = out.left \ {m}, !.to = NoPeer,
                                 !.failures = out.failures \cup {m}]
  <2>1. out \in FanOut /\ sending'[n] = next
    BY <1>1 DEF Failed
  <2>2. m \in out.left \/ out.to # NoPeer
    BY <1>1
  <2> HIDE DEF out
  <2>3. next.left = out.left \ {m} /\ next.to = NoPeer
    BY <2>1 DEF FanOut
  <2> HIDE DEF next
  <2>4. QED
    BY <2>1, <2>2, <2>3 DEF Advances, out
<1>2. CASE NextMember(n)
  <2> PICK m \in sending[n].left :
        \/ sending' = [sending EXCEPT ![n].left = @ \ {m}, ![n].to = m]
        \/ Failed(n, m)
    BY <1>2 DEF NextMember
  <2>1. sending[n] # Nothing /\ sending[n] \in FanOut
    BY <1>2 DEF NextMember, BetweenMembers
  <2>2. m \in Onions
    BY <2>1 DEF FanOut
  <2>3. CASE sending' = [sending EXCEPT ![n].left = @ \ {m}, ![n].to = m]
    <3>1. sending'[n].left = sending[n].left \ {m}
      BY <2>1, <2>3 DEF FanOut
    <3>2. QED
      BY <3>1 DEF Advances
  <2>4. QED
    BY <1>1, <2>1, <2>2, <2>3
<1>3. CASE WriteFrame(n)
  <2>1. /\ sending[n] # Nothing /\ sending[n] \in FanOut
        /\ sending[n].to # NoPeer /\ sending[n].to \in Onions
        /\ Reached(n) \/ Failed(n, sending[n].to)
    BY <1>3 DEF WriteFrame, FanOut
  <2>2. CASE Reached(n)
    <3>1. sending'[n].left = sending[n].left /\ sending'[n].to = NoPeer
      BY <2>1, <2>2 DEF Reached, FanOut
    <3>2. QED
      BY <2>1, <3>1 DEF Advances
  <2>3. QED
    BY <1>1, <2>1, <2>2
<1>4. CASE Report(n)
  BY <1>4 DEF Report, Advances
<1>5. QED
  BY <1>2, <1>3, <1>4 DEF Sender

\* Each step of a fan-out leaves less of it, and no other step changes it but by
\* ending it: whatever else happens, it takes two steps for each member and one
\* to report, if it is let run (fan_out_group; FanOutEnds adds that it is).
THEOREM FanOutAdvances ==
    Spec => [][\A n \in Onions : sending[n] # Nothing =>
                    /\ Sender(n) => Advances(n)
                    /\ ~Sender(n) => sending'[n] \in {sending[n], Nothing}]_vars
<1> DEFINE Step == \A n \in Onions : sending[n] # Nothing =>
                    /\ Sender(n) => Advances(n)
                    /\ ~Sender(n) => sending'[n] \in {sending[n], Nothing}
<1>1. ReportInv /\ [Next]_vars => [Step]_vars
  <2> SUFFICES ASSUME TypeOK, Next, NEW n \in Onions, sending[n] # Nothing, ~Sender(n)
               PROVE  sending'[n] \in {sending[n], Nothing}
    BY SenderAdvances DEF ReportInv
  <2>1. ASSUME NEW u \in Onions, u # n, SendGroupMessage(u) \/ Sender(u) \/ Kill(u)
        PROVE  sending'[n] = sending[n]
    BY <2>1 DEF TypeOK, SendGroupMessage, Sender, NextMember, WriteFrame, Report, Reached,
       Failed, Kill
  <2>2. CASE SendGroupMessage(n) \/ Kill(n)
    BY <2>2 DEF TypeOK, SendGroupMessage, Kill
  <2>3. ASSUME NEW u \in Onions,
               \/ GroupCommand(u) \/ Listen(u) \/ InteractiveGroupChat(u) \/ Quit(u)
               \/ DiscardFrame(u) \/ PrintIncoming(u) \/ ListenerFails(u)
               \/ \E k \in DOMAIN queue[u] : Network(u, k)
        PROVE  sending' = sending
    BY <2>3 DEF GroupCommand, Listen, InteractiveGroupChat, Quit, DiscardFrame, PrintIncoming,
       ListenerFails, Network
  <2>4. QED
    BY <2>1, <2>2, <2>3 DEF Next, Session
<1>2. QED
  BY <1>1, ReportInductive, PTL DEF Spec
===============================================================================
