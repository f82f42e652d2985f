----------------------------- MODULE IdentityFile -----------------------------
(***************************************************************************)
(* identity.json: `init` draws an onion and two keys and saves them over   *)
(* whatever is there; every other command, and the listener for each frame *)
(* it reads, loads the identity first.  An identity of an older version    *)
(* lacks keys: load draws the missing ones and saves the file before it    *)
(* returns.  `invite export` gives away the keys it has in memory.         *)
(*                                                                         *)
(* The file is read and written by the system calls of JsonFile, with any  *)
(* number of threads.  A random key pair is the draw it comes from.        *)
(***************************************************************************)
CONSTANTS
    Procs,       \* threads that load or create the identity
    Draws,       \* outcomes of the random generator and of ADD_ONION NEW
    Commands,    \* which of "create" and "load" are run
    Stored,      \* what the file may start as: identities, or Missing
    None,        \* an empty key field
    NoIdentity,  \* nothing in memory, or no file
    Refused, Missing, Empty, Torn, MayAbandon

Identity ==
    [onion : Draws, signing : Draws \cup {None}, encryption : Draws \cup {None}]

\* What an invite says of an identity.
Card == [onion : Draws, signing : Draws, encryption : Draws]

\* Mutant of Complete: only the signing key is looked at.
CompleteIfSigned(v) == v.signing # None

Complete(v) == v.signing # None /\ v.encryption # None

\* Create an identity with the keys of one draw, or fill in the missing ones.
Requests == [command : Commands, draw : Draws]

ASSUME IdentityAssumption ==
    /\ None \notin Draws
    /\ Stored \subseteq Identity \cup {Missing}
    /\ Identity \cap {NoIdentity, Refused, Missing, Empty, Torn} = {}
    /\ NoIdentity \notin {Refused, Missing, Empty, Torn}
    /\ Missing # Empty /\ Missing # Torn /\ Empty # Torn
    /\ MayAbandon \in BOOLEAN
    /\ Commands \subseteq {"create", "load"}

VARIABLES
    path, tmp, pc, req, buf, fd,    \* the file and its threads, as in JsonFile
    memory,      \* memory[p]: the identity p works with, once it is loaded
    invites,     \* the keys that were given away in invites
    overlapped   \* history: two threads have been at the file at the same time

file == <<path, tmp, pc, req, buf, fd>>

vars == <<path, tmp, pc, req, buf, fd, memory, invites, overlapped>>
-------------------------------------------------------------------------------
New(g) == [onion |-> g, signing |-> g, encryption |-> g]

\* Mutant of Filled: one empty field makes both key pairs new.
FilledBoth(v, g) == [v EXCEPT !.signing = g, !.encryption = g]

Filled(v, g) ==
    [v EXCEPT !.signing = IF @ = None THEN g ELSE @,
              !.encryption = IF @ = None THEN g ELSE @]

\* What the request saves.  Without a file, and with a complete identity, load
\* saves nothing.
Apply(r, v) ==
    IF r.command = "create" THEN New(r.draw)
    ELSE IF v = NoIdentity THEN Refused
    ELSE IF Complete(v) THEN Refused
    ELSE Filled(v, r.draw)

File == INSTANCE JsonFile WITH Values <- Identity \cup {NoIdentity}, Default <- NoIdentity

Identities(S) == S \cap Identity

\* Every identity on disk, about to be saved, in use, or given away.
Copies ==
    Identities({path, tmp} \cup {buf[p] : p \in Procs} \cup {memory[p] : p \in Procs} \cup invites)

Active(p) == pc[p] # "idle"

\* A draw is new: nobody has seen it.
Unused(g) ==
    /\ \A v \in Copies : g \notin {v.onion, v.signing, v.encryption}
    /\ \A p \in Procs : Active(p) => req[p].draw # g

Init ==
    /\ File!Init
    /\ \A p, q \in Procs : req[p] = req[q]
    /\ memory = [p \in Procs |-> NoIdentity]
    /\ invites = {}
    /\ overlapped = FALSE

\* A thread that has no identity yet starts to load or create it.
Start(p) ==
    /\ memory[p] = NoIdentity
    /\ overlapped' = (overlapped \/ \E q \in Procs \ {p} : Active(q))
    /\ UNCHANGED <<memory, invites>>

\* Identity::load, up to the first look at the file.
Load(p) ==
    /\ Start(p)
    /\ File!Begin(p)
    /\ req'[p].command = "load"
    /\ Unused(req'[p].draw)

\* Identity::create, up to save: Tor has made an onion, the keys are drawn.
\* Nothing looks at the identity that is there.
Create(p) ==
    /\ Start(p)
    /\ pc[p] = "idle"
    /\ \E r \in Requests :
        /\ r.command = "create"
        /\ Unused(r.draw)
        /\ req' = [req EXCEPT ![p] = r]
        /\ buf' = [buf EXCEPT ![p] = New(r.draw)]
    /\ pc' = [pc EXCEPT ![p] = "open"]
    /\ UNCHANGED <<path, tmp, fd>>

Returns(p, v) == memory' = [memory EXCEPT ![p] = v]

\* Mutant of Read: load returns the new keys, and leaves it to others to save.
ReadUnsaved(p) ==
    /\ File!Read(p)
    /\ IF path \in Identity /\ pc'[p] = "open"
       THEN Returns(p, Filled(path, req[p].draw))
       ELSE IF path \in Identity THEN Returns(p, path) ELSE UNCHANGED memory
    /\ UNCHANGED <<invites, overlapped>>

\* load has read the file; it returns if no key is missing.
Read(p) ==
    /\ File!Read(p)
    /\ IF path \in Identity /\ pc'[p] = "idle" THEN Returns(p, path) ELSE UNCHANGED memory
    /\ UNCHANGED <<invites, overlapped>>

\* save succeeds if rename does, and load or create returns what it has saved.
Rename(p) ==
    /\ File!Rename(p)
    /\ IF tmp # Missing THEN Returns(p, buf[p]) ELSE UNCHANGED memory
    /\ UNCHANGED <<invites, overlapped>>

\* The other system calls of load and save, and calls that fail or are killed.
Continue(p) ==
    /\ \/ File!Exists(p) \/ File!Open(p) \/ File!Write(p)
       \/ File!CheckPath(p) \/ File!Remove(p) \/ File!Abandon(p)
    /\ UNCHANGED <<memory, invites, overlapped>>

\* export_invite
ExportInvite(p) ==
    /\ memory[p] # NoIdentity
    /\ req[p].command = "load"
    /\ invites' = invites \cup {memory[p]}
    /\ Returns(p, NoIdentity)
    /\ UNCHANGED <<path, tmp, pc, req, buf, fd, overlapped>>

\* Nobody keeps the invite file any more.
ForgetInvite ==
    /\ \E v \in invites : invites' = invites \ {v}
    /\ UNCHANGED <<path, tmp, pc, req, buf, fd, memory, overlapped>>

\* Any other command ends, or the process is killed.
End(p) ==
    /\ memory[p] # NoIdentity
    /\ Returns(p, NoIdentity)
    /\ UNCHANGED <<path, tmp, pc, req, buf, fd, invites, overlapped>>

Command(p) ==
    \/ Load(p) \/ Create(p) \/ Read(p) \/ Rename(p) \/ Continue(p)
    \/ ExportInvite(p) \/ End(p)

Next == ForgetInvite \/ \E p \in Procs : Command(p)

Spec == Init /\ [][Next]_vars
-------------------------------------------------------------------------------
\* Every variable has its type; only complete identities leave load and create.
TypeOK ==
    /\ File!TypeOK
    /\ memory \in [Procs -> Card \cup {NoIdentity}]
    /\ invites \subseteq Card
    /\ overlapped \in BOOLEAN

\* v has the onion and the keys of s, and keys of one draw where s has none.
CompletionOf(s, v) ==
    /\ v.onion = s.onion
    /\ s.signing \in {None, v.signing}
    /\ s.encryption \in {None, v.encryption}
    /\ s.signing = s.encryption => v.signing = v.encryption

Genuine(v) ==
    \/ \E g \in Draws : v = New(g)
    \/ \E s \in Identities(Stored) : CompletionOf(s, v)

\* In every interleaving of threads, failed calls and kills, an identity on disk,
\* in memory or in an invite is one that `init` made or the one that was there at
\* the start, at most completed: a key it had is never replaced (Identity::load).
NeverMixed == \A v \in Copies : Genuine(v)

\* Unless two threads have been at the file at the same time, whoever has loaded
\* or exported the identity of some onion has the keys that the file has for it,
\* for as long as the file has it: what an invite promises, the listener can
\* decrypt.  That includes calls that were killed and onions made by `init`.
KeysAgree ==
    ~overlapped =>
        \A v \in Identities(invites \cup {memory[p] : p \in Procs}) :
            File!Visible \in Identity /\ File!Visible.onion = v.onion => v = File!Visible

\* "Persistent local identity": a command that is not told to remove the
\* identity leaves one.
IdentityPersists == [][File!Visible # NoIdentity => File!Visible' # NoIdentity]_vars
===============================================================================
