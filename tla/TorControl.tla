------------------------------ MODULE TorControl ------------------------------
(***************************************************************************)
(* The control connection to Tor, as tor.rs uses it for the processes of   *)
(* one user: `listen` and the two kinds of `chat` authenticate, publish    *)
(* the user's onion, serve, and delete it; `init` has Tor make an onion,   *)
(* saves it and deletes it again.  A command is written, then its reply is *)
(* read line by line, before anything else is written.  While a process    *)
(* serves, nobody reads the connection.                                    *)
(*                                                                         *)
(* Tor answers, refuses or closes the connection at any point.  What a     *)
(* connection published ends with it.                                      *)
(***************************************************************************)
EXTENDS Naturals, Sequences

CONSTANTS
    Procs,        \* processes of the user
    DataBlocks    \* whether Tor may answer with a `250+` data block

ASSUME DataBlocksAssumption == DataBlocks \in BOOLEAN

VARIABLES
    does,       \* does[p]: "listen", "chat" or "init"
    step,       \* step[p]: the command whose reply p reads, or what p does else
    link,       \* link[p]: p's connection; closed by Tor, or by p, unnoticed yet
    tor,        \* tor[p]: who answers at the control port
    pending,    \* pending[p]: the command that Tor has not answered
    wire,       \* wire[p]: the reply lines that p has not read
    got,        \* got[p]: what the lines of the reply said so far
    inBlock,    \* inBlock[p]: p reads a data block
    services,   \* the onions that are up, [owner, onion]
    leaving,    \* leaving[p]: the signal or the end of the lines that p will see
    clean       \* clean[p]: p's last command has ended, and well

vars == <<does, step, link, tor, pending, wire, got, inBlock, services, leaving, clean>>

TorCommands == {"PROTOCOLINFO", "AUTHCHALLENGE", "AUTHENTICATE", "ADD_ONION", "DEL_ONION"}

Steps == TorCommands \cup {"idle", "serving", "sending"}

Commands == {"listen", "chat", "init"}

\* The method Tor offers, and whether it knows the cookie in the file it names.
TorPeer ==
    {t \in [method : {"SAFECOOKIE", "NULL", "other"}, knows : BOOLEAN] :
        t.knows => t.method = "SAFECOOKIE"}

Nobody == [method |-> "other", knows |-> FALSE]

Service == [owner : Procs, onion : {"mine", "new"}]

\* What a reply line may say, as far as a caller looks at it.
Words ==
    {"SAFECOOKIE", "NULL", "other", "proof", "guess", "ServiceID", "PrivateKey", "OK", ""}

\* "250-" is mid, "250 " is end, "250+" opens a data block, which a line "."
\* closes; a line with another status, or cut short, is bad.
Line == [kind : {"mid", "end", "block", "dot", "bad"}, says : Words]

Mid(says) == [kind |-> "mid", says |-> says]
End(says) == [kind |-> "end", says |-> says]
Ok == End("OK")
Bad == [kind |-> "bad", says |-> ""]

Init ==
    /\ does = [p \in Procs |-> "listen"]
    /\ step = [p \in Procs |-> "idle"]
    /\ link = [p \in Procs |-> "none"]
    /\ tor = [p \in Procs |-> Nobody]
    /\ pending = [p \in Procs |-> "none"]
    /\ wire = [p \in Procs |-> <<>>]
    /\ got = [p \in Procs |-> {}]
    /\ inBlock = [p \in Procs |-> FALSE]
    /\ services = {}
    /\ leaving = [p \in Procs |-> "no"]
    /\ clean = [p \in Procs |-> FALSE]
-------------------------------------------------------------------------------
(* Tor. *)

Onion(p) == IF does[p] = "init" THEN "new" ELSE "mine"

Up(o) == \E s \in services : s.onion = o

ServicesOf(p) == {s \in services : s.owner = p}

\* The replies of Tor to a command that it grants.
Granted(p, c) ==
    CASE c = "PROTOCOLINFO"  -> <<Mid(tor[p].method), Ok>>
      [] c = "AUTHCHALLENGE" -> <<End(IF tor[p].knows THEN "proof" ELSE "guess")>>
      [] c = "ADD_ONION" /\ does[p] = "init" -> <<Mid("ServiceID"), Mid("PrivateKey"), Ok>>
      [] c = "ADD_ONION"     -> <<Mid("ServiceID"), Ok>>
      [] OTHER               -> <<Ok>>

\* An onion that is up is not published a second time.
MayGrant(p, c) == c = "ADD_ONION" => Onion(p) = "new" \/ ~Up("mine")

InBlock(reply) == <<[kind |-> "block", says |-> ""], [kind |-> "dot", says |-> ""]>> \o reply

\* Whatever it does not grant it may refuse, for reasons of its own.
Replies(p, c) ==
    (IF c = "DEL_ONION" /\ ServicesOf(p) # {} THEN {} ELSE {<<Bad>>})
    \cup (IF MayGrant(p, c) THEN {Granted(p, c)} ELSE {})
    \cup (IF MayGrant(p, c) /\ DataBlocks THEN {InBlock(Granted(p, c))} ELSE {})

Effect(p, c) ==
    CASE c = "ADD_ONION" -> services \cup {[owner |-> p, onion |-> Onion(p)]}
      [] c = "DEL_ONION" -> services \ ServicesOf(p)
      [] OTHER -> services

Answer(p) ==
    /\ pending[p] # "none"
    /\ \E reply \in Replies(p, pending[p]) :
        /\ wire' = [wire EXCEPT ![p] = IF link[p] = "up" THEN reply ELSE <<>>]
        /\ services' = IF reply = <<Bad>> THEN services ELSE Effect(p, pending[p])
    /\ pending' = [pending EXCEPT ![p] = "none"]
    /\ UNCHANGED <<does, step, link, tor, got, inBlock, leaving, clean>>

\* Tor stops or drops the connection, maybe in the middle of a reply.
Close(p) ==
    /\ link[p] = "up"
    /\ link' = [link EXCEPT ![p] = "closed"]
    /\ \/ UNCHANGED wire
       \/ /\ pending[p] # "none"
          /\ \E reply \in Replies(p, pending[p]) : \E k \in 1..Len(reply) :
                wire' = [wire EXCEPT ![p] = SubSeq(reply, 1, k)]
    /\ pending' = [pending EXCEPT ![p] = "none"]
    /\ services' = services \ ServicesOf(p)
    /\ UNCHANGED <<does, step, tor, got, inBlock, leaving, clean>>

\* Tor finds that p has closed the connection.
Notice(p) ==
    /\ link[p] = "half"
    /\ link' = [link EXCEPT ![p] = "none"]
    /\ pending' = [pending EXCEPT ![p] = "none"]
    /\ services' = services \ ServicesOf(p)
    /\ UNCHANGED <<does, step, tor, wire, got, inBlock, leaving, clean>>
-------------------------------------------------------------------------------
(* command and read_reply. *)

\* The command is written; on a connection that Tor has closed it is lost.
Write(p, c) ==
    /\ step' = [step EXCEPT ![p] = c]
    /\ pending' = [pending EXCEPT ![p] = IF link[p] = "up" THEN c ELSE "none"]
    /\ got' = [got EXCEPT ![p] = {}]
    /\ UNCHANGED <<does, link, tor, inBlock, services, leaving, clean>>

\* The process ends, and its connection with it.
Exit(p, well) ==
    /\ step' = [step EXCEPT ![p] = "idle"]
    /\ link' = [link EXCEPT ![p] = IF @ = "up" THEN "half" ELSE "none"]
    /\ tor' = [tor EXCEPT ![p] = Nobody]
    /\ wire' = [wire EXCEPT ![p] = <<>>]
    /\ got' = [got EXCEPT ![p] = {}]
    /\ inBlock' = [inBlock EXCEPT ![p] = FALSE]
    /\ leaving' = [leaving EXCEPT ![p] = "no"]
    /\ clean' = [clean EXCEPT ![p] = well]
    /\ UNCHANGED <<does, pending, services>>

\* A command fails; only the result of delete_onion is ignored.
Fail(p) == Exit(p, step[p] = "DEL_ONION")

Reads(p, kinds) ==
    /\ step[p] \in TorCommands
    /\ wire[p] # <<>>
    /\ Head(wire[p]).kind \in kinds

Consume(p) == wire' = [wire EXCEPT ![p] = Tail(@)]

\* Mutant of ReadLine: the line is kept with its status.
ReadLineRaw(p) ==
    /\ Reads(p, {"mid", "block", "dot"})
    /\ Consume(p)
    /\ got' = [got EXCEPT ![p] = @ \cup {"250-" \o Head(wire[p]).says}]
    /\ UNCHANGED <<does, step, link, tor, pending, inBlock, services, leaving, clean>>

\* A line that is not the last one of the reply.
ReadLine(p) ==
    /\ Reads(p, {"mid", "block", "dot"})
    /\ Consume(p)
    /\ LET line == Head(wire[p])
       IN  /\ inBlock' = [inBlock EXCEPT ![p] = line.kind = "block"]
           /\ got' = [got EXCEPT ![p] = IF line.kind = "mid" THEN @ \cup {line.says} ELSE @]
    /\ UNCHANGED <<does, step, link, tor, pending, services, leaving, clean>>

\* Mutant of ReadBad: the status is not looked at.
ReadBadAsOk(p) ==
    /\ Reads(p, {"bad"})
    /\ step[p] = "ADD_ONION" /\ does[p] # "init"
    /\ Consume(p)
    /\ step' = [step EXCEPT ![p] = "serving"]
    /\ got' = [got EXCEPT ![p] = {}]
    /\ UNCHANGED <<does, link, tor, pending, inBlock, services, leaving, clean>>

ReadBad(p) == Reads(p, {"bad"}) /\ Fail(p)

\* Mutant of Eof: read_line's 0 is not noticed.
EofIgnored(p) ==
    /\ step[p] \in TorCommands
    /\ wire[p] = <<>> /\ link[p] = "closed"
    /\ UNCHANGED vars

\* "Tor control port closed unexpectedly", except in a data block: there
\* read_line returns 0 again and again.
Eof(p) ==
    /\ step[p] \in TorCommands
    /\ wire[p] = <<>> /\ link[p] = "closed"
    /\ ~inBlock[p]
    /\ Fail(p)

\* Mutant of Reply: read_reply returns with the first line.
ReplyFirstLine(p, c) ==
    /\ step[p] = c
    /\ Reads(p, {"mid", "end"})
    /\ Consume(p)

\* The last line of the reply to c is read.
Reply(p, c) ==
    /\ step[p] = c
    /\ Reads(p, {"end"})
    /\ Consume(p)

\* All that the reply has said.
Said(p) == got[p] \cup {Head(wire[p]).says}
-------------------------------------------------------------------------------
(* The commands of onionchat. *)

\* The control port may be anybody's, and may offer any method.
Connect(p) ==
    /\ step[p] = "idle" /\ link[p] = "none"
    /\ \E d \in Commands : does' = [does EXCEPT ![p] = d]
    /\ \E t \in TorPeer : tor' = [tor EXCEPT ![p] = t]
    /\ step' = [step EXCEPT ![p] = "PROTOCOLINFO"]
    /\ link' = [link EXCEPT ![p] = "up"]
    /\ pending' = [pending EXCEPT ![p] = "PROTOCOLINFO"]
    /\ clean' = [clean EXCEPT ![p] = FALSE]
    /\ UNCHANGED <<wire, got, inBlock, services, leaving>>

\* SAFECOOKIE before NULL; the cookie file may be missing or too short.
ChooseMethod(p) ==
    \/ /\ Reply(p, "PROTOCOLINFO")
       /\ \/ "SAFECOOKIE" \in Said(p) /\ Write(p, "AUTHCHALLENGE")
          \/ "SAFECOOKIE" \notin Said(p) /\ "NULL" \in Said(p) /\ Write(p, "AUTHENTICATE")
    \/ /\ step[p] = "PROTOCOLINFO"
       /\ Reads(p, {"end"})
       /\ "NULL" \notin Said(p)
       /\ Fail(p)

\* Mutant of CheckProof: SERVERHASH is not compared.
CheckNothing(p) == Reply(p, "AUTHCHALLENGE") /\ Write(p, "AUTHENTICATE")

CheckProof(p) ==
    \/ /\ Reply(p, "AUTHCHALLENGE")
       /\ "proof" \in Said(p)
       /\ Write(p, "AUTHENTICATE")
    \/ /\ step[p] = "AUTHCHALLENGE"
       /\ Reads(p, {"end"})
       /\ "proof" \notin Said(p)
       /\ Fail(p)

AddOnion(p) == Reply(p, "AUTHENTICATE") /\ Write(p, "ADD_ONION")

\* publish_onion returns, and the listener is started.
Publish(p) ==
    /\ does[p] # "init"
    /\ Reply(p, "ADD_ONION")
    /\ "ServiceID" \in Said(p)
    /\ step' = [step EXCEPT ![p] = "serving"]
    /\ got' = [got EXCEPT ![p] = {}]
    /\ UNCHANGED <<does, link, tor, pending, inBlock, services, leaving, clean>>

\* create_persistent_identity returns; save may fail.
SaveIdentity(p) ==
    /\ does[p] = "init"
    /\ \/ /\ Reply(p, "ADD_ONION")
          /\ {"ServiceID", "PrivateKey"} \subseteq Said(p)
          /\ Write(p, "DEL_ONION")
       \/ step[p] = "ADD_ONION" /\ Reads(p, {"end"}) /\ Fail(p)

Deleted(p) == step[p] = "DEL_ONION" /\ Reads(p, {"end"}) /\ Exit(p, TRUE)

\* A line of stdin is ready at the prompt and wins the select, maybe over a
\* Ctrl+C, which is lost then: the next ctrl_c() sees later signals only.
SendLine(p) ==
    /\ does[p] = "chat" /\ step[p] = "serving" /\ leaving[p] # "quit"
    /\ step' = [step EXCEPT ![p] = "sending"]
    /\ leaving' = [leaving EXCEPT ![p] = "no"]
    /\ UNCHANGED <<does, link, tor, pending, wire, got, inBlock, services, clean>>

Sent(p) ==
    /\ step[p] = "sending"
    /\ step' = [step EXCEPT ![p] = "serving"]
    /\ UNCHANGED <<does, link, tor, pending, wire, got, inBlock, services, leaving, clean>>

\* Ctrl+C while the select waits.  While a line is sent nobody waits for it, and
\* nothing happens.
Interrupt(p) ==
    /\ step[p] = "serving" /\ leaving[p] = "no"
    /\ leaving' = [leaving EXCEPT ![p] = "signal"]
    /\ UNCHANGED <<does, step, link, tor, pending, wire, got, inBlock, services, clean>>

\* /quit, or the end of stdin, is the next that the prompt will read.
TypeQuit(p) ==
    /\ does[p] = "chat" /\ step[p] \in {"serving", "sending"}
    /\ leaving' = [leaving EXCEPT ![p] = "quit"]
    /\ UNCHANGED <<does, step, link, tor, pending, wire, got, inBlock, services, clean>>

\* Mutant of Stop: the reply to DEL_ONION is not awaited.
StopAtOnce(p) == step[p] = "serving" /\ leaving[p] # "no" /\ Exit(p, TRUE)

\* The select returns with the signal, or the end of the lines.
Stop(p) ==
    /\ step[p] = "serving" /\ leaving[p] # "no"
    /\ Write(p, "DEL_ONION")
    /\ UNCHANGED wire

\* run_listener fails: `listen` returns the error and deletes nothing.
ListenerFails(p) == does[p] = "listen" /\ step[p] = "serving" /\ Exit(p, FALSE)

\* SIGKILL, or Ctrl+C before the process has ever waited for it.
Kill(p) == step[p] # "idle" /\ Exit(p, FALSE)

Client(p) ==
    \/ ReadLine(p) \/ ReadBad(p) \/ Eof(p)
    \/ ChooseMethod(p) \/ CheckProof(p) \/ AddOnion(p)
    \/ Publish(p) \/ SaveIdentity(p) \/ Deleted(p) \/ Sent(p) \/ Stop(p)

User(p) ==
    \/ Connect(p) \/ SendLine(p) \/ Interrupt(p) \/ TypeQuit(p)
    \/ ListenerFails(p) \/ Kill(p)

Next == \E p \in Procs : Client(p) \/ User(p) \/ Answer(p) \/ Close(p) \/ Notice(p)

Spec == Init /\ [][Next]_vars

\* The runtime polls a task that is ready, a send comes to an end, and Tor
\* answers every command or closes the connection.
Fairness == \A p \in Procs : WF_vars(Client(p)) /\ WF_vars(Answer(p))

FairSpec == Spec /\ Fairness
-------------------------------------------------------------------------------
\* Every variable has its type.
TypeOK ==
    /\ does \in [Procs -> Commands]
    /\ step \in [Procs -> Steps]
    /\ link \in [Procs -> {"none", "up", "half", "closed"}]
    /\ tor \in [Procs -> TorPeer]
    /\ pending \in [Procs -> TorCommands \cup {"none"}]
    /\ wire \in [Procs -> Seq(Line)]
    /\ got \in [Procs -> SUBSET Words]
    /\ inBlock \in [Procs -> BOOLEAN]
    /\ services \subseteq Service
    /\ leaving \in [Procs -> {"no", "signal", "quit"}]
    /\ clean \in [Procs -> BOOLEAN]

\* Commands and replies stay in step: while Tor has a command to answer, no line
\* of an earlier reply is left that read_reply would take for the answer.
InStep == \A p \in Procs : pending[p] # "none" => wire[p] = <<>>

Serving(p) == step[p] \in {"serving", "sending"}

\* A process that says "listening on" is reachable: its onion is up and leads to
\* its port, unless Tor has closed the control connection since.  Two processes
\* of one user cannot both be.
ServingIsPublished ==
    \A p \in Procs : Serving(p) =>
        [owner |-> p, onion |-> "mine"] \in services \/ link[p] = "closed"

\* The private key of the onion is sent to nobody who offers SAFECOOKIE and does
\* not know the cookie (authenticate_safecookie, publish_onion).
KeyOnlyToTor ==
    \A p \in Procs :
        pending[p] = "ADD_ONION" /\ tor[p].method = "SAFECOOKIE" => tor[p].knows

\* After a command that ended well its onion is down, so that the next `listen`
\* or `chat` is not refused: the reply to DEL_ONION has been awaited.
CleanExit ==
    \A p \in Procs : clean[p] => ServicesOf(p) = {}

\* "press Ctrl+C to stop", "/quit to exit": a `listen` that is told to stop, and
\* a chat whose user has typed /quit, maybe while a line was being sent, get out,
\* whether Tor is still there, refuses or cuts its reply.
LeavesWhenTold ==
    \A p \in Procs :
        /\ leaving[p] = "quit" ~> step[p] = "idle"
        /\ does[p] = "listen" /\ leaving[p] = "signal" ~> step[p] = "idle"

\* "Tor control port closed unexpectedly": a process that waits for a reply on a
\* connection that Tor has closed finds out.
ClosedIsNoticed ==
    \A p \in Procs :
        step[p] \in TorCommands /\ link[p] = "closed" ~> step[p] \notin TorCommands
===============================================================================
