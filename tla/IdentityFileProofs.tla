-------------------------- MODULE IdentityFileProofs --------------------------
(***************************************************************************)
(* identity.json for any threads, draws and starting identities: types,    *)
(* and that no key that was there is ever replaced.                        *)
(***************************************************************************)
EXTENDS IdentityFile, TLAPS

FileFacts == INSTANCE JsonFileProofs WITH
    Values <- Identity \cup {NoIdentity}, Default <- NoIdentity

\* What the file may hold, and what leaves load and create.
Good == {v \in Identity : Genuine(v)} \cup {NoIdentity}

Whole == {v \in Card : Genuine(v)}

\* A thread saves a whole identity or none.
SavesWhole ==
    \A p \in Procs :
        pc[p] \in {"open", "write", "check", "remove", "rename"} => buf[p] \in Whole

IdentityInv ==
    /\ FileFacts!Contents(Good)
    /\ FileFacts!Control
    /\ SavesWhole
    /\ memory \in [Procs -> Whole \cup {NoIdentity}]
    /\ invites \subseteq Whole
    /\ overlapped \in BOOLEAN
-------------------------------------------------------------------------------
(* What create and load make of an identity. *)

\* A new identity is whole.
LEMMA NewWhole == \A g \in Draws : New(g) \in Whole
BY DEF New, Whole, Card, Genuine

\* A whole identity is one that the file may hold.
LEMMA WholeGood ==
    /\ Whole \subseteq Good
    /\ \A v \in Good : v # NoIdentity /\ Complete(v) => v \in Whole
<1>1. Card \subseteq Identity
  BY DEF Card, Identity
<1>2. ASSUME NEW v \in Identity, Complete(v)
      PROVE  v \in Card
  BY <1>2 DEF Card, Identity, Complete
<1>3. QED
  BY <1>1, <1>2 DEF Whole, Good

\* What load completes is an identity.
LEMMA FilledType ==
    ASSUME NEW v \in Identity, NEW g \in Draws
    PROVE  Filled(v, g) \in Identity
BY DEF Filled, Identity

\* Filling in the missing keys keeps those that are there, and the onion.
LEMMA FilledWhole ==
    ASSUME NEW v \in Identity, Genuine(v), ~Complete(v), NEW g \in Draws
    PROVE  Filled(v, g) \in Whole
<1> DEFINE w == Filled(v, g)
<1>1. /\ w.onion = v.onion
      /\ w.signing = IF v.signing = None THEN g ELSE v.signing
      /\ w.encryption = IF v.encryption = None THEN g ELSE v.encryption
  BY DEF Filled, Identity
<1> w \in Identity
  BY FilledType
<1> HIDE DEF w
<1>2. w \in Card
  BY <1>1 DEF Card, Identity
<1>3. PICK s \in Identities(Stored) : CompletionOf(s, v)
  <2>1. \A h \in Draws : v # New(h)
    BY IdentityAssumption DEF New, Complete
  <2>2. QED
    BY <2>1 DEF Genuine
<1>4. CompletionOf(s, w)
  BY <1>1, <1>3 DEF CompletionOf
<1>5. QED
  BY <1>2, <1>4 DEF Whole, Genuine, w

\* What a request saves is whole, or the request is refused.
LEMMA ApplyWhole ==
    ASSUME NEW r \in Requests, NEW v \in Good
    PROVE  Apply(r, v) \in Whole \cup {Refused}
<1>1. r.draw \in Draws
  BY DEF Requests
<1>2. CASE r.command = "create"
  BY <1>1, <1>2, NewWhole DEF Apply
<1>3. CASE r.command # "create"
  <2>1. CASE v = NoIdentity \/ Complete(v)
    BY <1>3, <2>1 DEF Apply
  <2>2. CASE v # NoIdentity /\ ~Complete(v)
    BY <1>1, <1>3, <2>2, FilledWhole DEF Apply, Good
  <2>3. QED
    BY <2>1, <2>2
<1>4. QED
  BY <1>2, <1>3
-------------------------------------------------------------------------------
(* The file. *)

\* Any identity leads to an identity.
LEMMA ApplyType ==
    ASSUME NEW r \in Requests, NEW v \in Identity \cup {NoIdentity}
    PROVE  Apply(r, v) \in Identity \cup {NoIdentity, Refused}
<1>1. r.draw \in Draws
  BY DEF Requests
<1>2. New(r.draw) \in Identity
  BY <1>1 DEF New, Identity
<1>3. QED
  BY <1>1, <1>2, FilledType DEF Apply

\* What JsonFile assumes of its constants holds of the identity.
LEMMA FileAssumptions ==
    /\ NoIdentity \in Identity \cup {NoIdentity}
    /\ Stored \subseteq Identity \cup {NoIdentity} \cup {Missing}
    /\ Refused \notin Identity \cup {NoIdentity}
    /\ \A c \in FileFacts!Broken : c \notin Identity \cup {NoIdentity}
    /\ Missing # Empty /\ Missing # Torn /\ Empty # Torn
    /\ \A r \in Requests : \A v \in Identity \cup {NoIdentity} :
            Apply(r, v) \in (Identity \cup {NoIdentity}) \cup {Refused}
    /\ MayAbandon \in BOOLEAN
<1>1. \A c \in FileFacts!Broken : c \notin Identity \cup {NoIdentity}
  BY IdentityAssumption DEF FileFacts!Broken
<1>2. Refused \notin Identity \cup {NoIdentity}
  BY IdentityAssumption
<1>3. \A r \in Requests : \A v \in Identity \cup {NoIdentity} :
            Apply(r, v) \in (Identity \cup {NoIdentity}) \cup {Refused}
  BY ApplyType
<1>4. QED
  BY <1>1, <1>2, <1>3, IdentityAssumption

\* Good can be taken for G in the lemmas of JsonFileProofs.
LEMMA GoodClosed == FileFacts!Closed(Good)
<1>1. Stored \subseteq Good \cup {Missing}
  BY IdentityAssumption DEF Good, Genuine, CompletionOf, Identities
<1>2. \A r \in Requests : \A v \in Good : Apply(r, v) \in Good \cup {Refused}
  BY ApplyWhole, WholeGood
<1>3. QED
  BY <1>1, <1>2 DEF FileFacts!Closed, Good

\* A step of the file is one of JsonFileProofs' file.
LEMMA SameStep ==
    ASSUME NEW p \in Procs,
           \/ File!Begin(p) \/ File!Exists(p) \/ File!Read(p) \/ File!Open(p)
           \/ File!Write(p) \/ File!CheckPath(p) \/ File!Remove(p)
           \/ File!Rename(p) \/ File!Abandon(p)
    PROVE  FileFacts!Step(p) /\ FileFacts!Next
BY DEF FileFacts!Next,
   FileFacts!Step, File!Begin, FileFacts!Begin, File!Exists,
   FileFacts!Exists, File!Read, FileFacts!Read, File!Open, FileFacts!Open,
   File!Write, FileFacts!Write, File!CheckPath, FileFacts!CheckPath, File!Remove,
   FileFacts!Remove, File!Rename, FileFacts!Rename, File!Abandon, FileFacts!Abandon,
   File!At, FileFacts!At, File!Goto, FileFacts!Goto, File!Return, FileFacts!Return,
   File!Modify, FileFacts!Modify, File!Broken, FileFacts!Broken, File!Store,
   FileFacts!Store, File!Over, FileFacts!Over, File!Moved, FileFacts!Moved,
   File!MovedUp, FileFacts!MovedUp

\* A step of the file keeps its contents.
LEMMA FileStep ==
    ASSUME IdentityInv, FileFacts!Next
    PROVE  FileFacts!Contents(Good)' /\ FileFacts!Control'
BY FileAssumptions, GoodClosed, FileFacts!StepKeeps DEF IdentityInv

\* The steps of a file, by the threads that take them.
FileAction(p) ==
    \/ File!Begin(p) \/ File!Exists(p) \/ File!Read(p) \/ File!Open(p)
    \/ File!Write(p) \/ File!CheckPath(p) \/ File!Remove(p)
    \/ File!Rename(p) \/ File!Abandon(p)

SaveSteps == {"open", "write", "check", "remove", "rename"}

\* A request that is not refused is about to save a whole identity.
LEMMA ModifyWhole ==
    ASSUME IdentityInv, NEW p \in Procs, NEW v \in Good, File!Modify(p, v)
    PROVE  /\ pc'[p] = "idle" \/ buf'[p] \in Whole
           /\ \A q \in Procs \ {p} : pc'[q] = pc[q] /\ buf'[q] = buf[q]
<1>1. req[p] \in Requests /\ pc \in [Procs -> FileFacts!Steps] /\ buf \in [Procs -> Good]
  BY DEF IdentityInv, FileFacts!Control, FileFacts!Contents
<1>2. Apply(req[p], v) \in Whole \cup {Refused}
  BY <1>1, ApplyWhole
<1>3. CASE Apply(req[p], v) = Refused
  BY <1>1, <1>3 DEF File!Modify, File!Return, File!Goto
<1>4. CASE Apply(req[p], v) # Refused
  BY <1>1, <1>2, <1>4 DEF File!Modify, File!Goto
<1>5. QED
  BY <1>3, <1>4

\* What a thread saves stays whole until it has been saved.
LEMMA SavesStep ==
    ASSUME IdentityInv, NEW p \in Procs, FileAction(p)
    PROVE  SavesWhole'
<1> SUFFICES /\ pc'[p] \in SaveSteps => buf'[p] \in Whole
             /\ \A q \in Procs \ {p} : pc'[q] = pc[q] /\ buf'[q] = buf[q]
  BY DEF IdentityInv, SavesWhole, SaveSteps
<1>1. pc \in [Procs -> FileFacts!Steps] /\ buf \in [Procs -> Good] /\ path \in Good \cup File!Broken
  BY DEF IdentityInv, FileFacts!Control, FileFacts!Contents, FileFacts!Broken, File!Broken
<1>2. pc[p] \in SaveSteps => buf[p] \in Whole
  BY DEF IdentityInv, SavesWhole, SaveSteps
<1> USE <1>1 DEF File!Goto, File!At, SaveSteps
<1>3. CASE File!Begin(p)
  BY <1>3 DEF File!Begin
<1>4. CASE File!Exists(p)
  <2>1. CASE path = Missing
    <3>1. NoIdentity \in Good /\ File!Modify(p, NoIdentity)
      BY <1>4, <2>1 DEF File!Exists, Good
    <3>2. QED
      BY <3>1, ModifyWhole
  <2>2. CASE path # Missing
    BY <1>4, <2>2 DEF File!Exists
  <2>3. QED
    BY <2>1, <2>2
<1>5. CASE File!Read(p)
  <2>1. CASE path \in File!Broken
    BY <1>5, <2>1 DEF File!Read, File!Return
  <2>2. CASE path \notin File!Broken
    <3>1. path \in Good /\ File!Modify(p, path)
      BY <1>5, <2>2 DEF File!Read
    <3>2. QED
      BY <3>1, ModifyWhole
  <2>3. QED
    BY <2>1, <2>2
<1>6. CASE File!Open(p) \/ File!Write(p) \/ File!CheckPath(p)
  BY <1>2, <1>6 DEF File!Open, File!Write, File!CheckPath
<1>7. CASE File!Remove(p) \/ File!Rename(p) \/ File!Abandon(p)
  BY <1>2, <1>7 DEF File!Remove, File!Rename, File!Abandon, File!Return
<1>8. QED
  BY <1>3, <1>4, <1>5, <1>6, <1>7 DEF FileAction
-------------------------------------------------------------------------------
(* Every step. *)

\* `init` may start to save at any time.
LEMMA CreateStep ==
    ASSUME IdentityInv, NEW p \in Procs, Create(p)
    PROVE  IdentityInv'
<1> PICK r \in Requests :
      /\ req' = [req EXCEPT ![p] = r]
      /\ buf' = [buf EXCEPT ![p] = New(r.draw)]
  BY DEF Create
<1>1. New(r.draw) \in Whole /\ New(r.draw) \in Good
  BY NewWhole, WholeGood DEF Requests
<1>2. /\ pc' = [pc EXCEPT ![p] = "open"]
      /\ UNCHANGED <<path, tmp, fd, memory, invites>>
      /\ overlapped' \in BOOLEAN
  BY DEF Create, Start, IdentityInv
<1>3. FileFacts!Contents(Good)'
  BY <1>1, <1>2 DEF IdentityInv, FileFacts!Contents
<1>4. FileFacts!Control'
  BY <1>2 DEF IdentityInv, FileFacts!Control, FileFacts!Steps
<1>5. SavesWhole'
  BY <1>1, <1>2 DEF IdentityInv, SavesWhole, FileFacts!Contents, FileFacts!Control
<1>6. QED
  BY <1>2, <1>3, <1>4, <1>5 DEF IdentityInv

\* The invariant is inductive.
LEMMA IdentityStep ==
    ASSUME IdentityInv, [Next]_vars
    PROVE  IdentityInv'
<1>1. ASSUME NEW p \in Procs, FileAction(p),
             memory' \in [Procs -> Whole \cup {NoIdentity}],
             invites' \subseteq Whole, overlapped' \in BOOLEAN
      PROVE  IdentityInv'
  <2>1. FileFacts!Contents(Good)' /\ FileFacts!Control'
    BY <1>1, SameStep, FileStep DEF FileAction
  <2>2. SavesWhole'
    BY <1>1, SavesStep
  <2>3. QED
    BY <1>1, <2>1, <2>2 DEF IdentityInv
<1>2. ASSUME NEW p \in Procs, Load(p)
      PROVE  IdentityInv'
  BY <1>1, <1>2 DEF Load, Start, FileAction, IdentityInv
<1>3. ASSUME NEW p \in Procs, Read(p)
      PROVE  IdentityInv'
  <2>1. ASSUME path \in Identity, pc'[p] = "idle"
        PROVE  path \in Whole
    <3>1. path \in Good
      BY <2>1, IdentityAssumption DEF IdentityInv, FileFacts!Contents, FileFacts!Broken
    <3>2. path \notin File!Broken /\ path # NoIdentity
      BY <2>1, IdentityAssumption DEF File!Broken
    <3>3. req[p] \in Requests /\ pc \in [Procs -> FileFacts!Steps]
      BY DEF IdentityInv, FileFacts!Control
    <3>4. Apply(req[p], path) = Refused
      BY <1>3, <2>1, <3>2, <3>3 DEF Read, File!Read, File!Modify, File!Goto
    <3>5. New(req[p].draw) # Refused
      <4>1. New(req[p].draw) \in Identity
        BY <3>3 DEF Requests, New, Identity
      <4>2. QED
        BY <4>1, IdentityAssumption
    <3>6. Complete(path)
      <4>1. Filled(path, req[p].draw) \in Identity
        BY <2>1, <3>3, FilledType DEF Requests
      <4>2. QED
        BY <3>2, <3>4, <3>5, <4>1, IdentityAssumption DEF Apply
    <3>7. QED
      BY <3>1, <3>2, <3>6, WholeGood
  <2>2. memory' \in [Procs -> Whole \cup {NoIdentity}]
    BY <1>3, <2>1 DEF Read, Returns, IdentityInv
  <2>3. QED
    BY <1>1, <1>3, <2>2 DEF Read, FileAction, IdentityInv
<1>4. ASSUME NEW p \in Procs, Rename(p)
      PROVE  IdentityInv'
  <2>1. buf[p] \in Whole
    BY <1>4 DEF Rename, File!Rename, File!At, IdentityInv, SavesWhole
  <2>2. memory' \in [Procs -> Whole \cup {NoIdentity}]
    BY <1>4, <2>1 DEF Rename, Returns, IdentityInv
  <2>3. QED
    BY <1>1, <1>4, <2>2 DEF Rename, FileAction, IdentityInv
<1>5. ASSUME NEW p \in Procs, Continue(p)
      PROVE  IdentityInv'
  BY <1>1, <1>5 DEF Continue, FileAction, IdentityInv
<1>6. ASSUME UNCHANGED <<path, tmp, pc, req, buf, fd, overlapped>>,
             memory' \in [Procs -> Whole \cup {NoIdentity}], invites' \subseteq Whole
      PROVE  IdentityInv'
  BY <1>6 DEF IdentityInv, FileFacts!Contents, FileFacts!Control, SavesWhole
<1>7. ASSUME NEW p \in Procs, ExportInvite(p) \/ End(p)
      PROVE  IdentityInv'
  <2>1. memory' \in [Procs -> Whole \cup {NoIdentity}]
    BY <1>7 DEF ExportInvite, End, Returns, IdentityInv
  <2>2. invites' \subseteq Whole
    BY <1>7 DEF ExportInvite, End, IdentityInv
  <2>3. QED
    BY <1>6, <1>7, <2>1, <2>2 DEF ExportInvite, End
<1>8. CASE ForgetInvite \/ UNCHANGED vars
  BY <1>6, <1>8 DEF ForgetInvite, vars, IdentityInv
<1>9. QED
  BY <1>2, <1>3, <1>4, <1>5, <1>7, <1>8, CreateStep DEF Next, Command

\* It holds at the start.
LEMMA IdentityInit ==
    ASSUME Init
    PROVE  IdentityInv
<1>1. FileFacts!Init
  BY DEF Init, File!Init, FileFacts!Init
<1>2. FileFacts!Contents(Good) /\ FileFacts!Control
  BY <1>1, FileAssumptions, GoodClosed, FileFacts!InitKeeps
<1>3. SavesWhole
  BY DEF Init, File!Init, SavesWhole
<1>4. QED
  BY <1>2, <1>3 DEF Init, IdentityInv

\* Every variable keeps its type, and what load and create return is complete,
\* for any number of threads in any interleaving, failed and killed calls too.
THEOREM TypeCorrect == Spec => []TypeOK
<1>1. IdentityInv => TypeOK
  <2> SUFFICES ASSUME IdentityInv PROVE TypeOK
    OBVIOUS
  <2>1. Good \subseteq Identity \cup {NoIdentity} /\ Whole \subseteq Card
    BY DEF Good, Whole
  <2>2. File!TypeOK
    BY <2>1 DEF IdentityInv, FileFacts!Contents, FileFacts!Control, File!TypeOK,
       FileFacts!Broken, File!Broken, FileFacts!Steps, File!Steps
  <2>3. QED
    BY <2>1, <2>2 DEF IdentityInv, TypeOK
<1>2. QED
  BY <1>1, IdentityInit, IdentityStep, PTL DEF Spec

\* Every identity on disk, in memory or in an invite is one that `init` made or
\* the one there was at the start, at most completed: for any number of threads,
\* failed calls and kills, load replaces no key that is there.
THEOREM NeverMixedHolds == Spec => []NeverMixed
<1>1. IdentityInv => NeverMixed
  <2> SUFFICES ASSUME IdentityInv, NEW v \in Copies PROVE Genuine(v)
    BY DEF NeverMixed
  <2>1. v \in Identity /\ v # NoIdentity /\ v \notin FileFacts!Broken
    BY IdentityAssumption DEF Copies, Identities, FileFacts!Broken
  <2>2. v \in Good \cup Whole
    BY <2>1 DEF Copies, Identities, IdentityInv, FileFacts!Contents
  <2>3. QED
    BY <2>1, <2>2 DEF Good, Whole
<1>2. QED
  BY <1>1, IdentityInit, IdentityStep, PTL DEF Spec
-------------------------------------------------------------------------------
(* One thread at a time. *)

\* v is what w is, if w is an identity of v's onion.
Agrees(v, w) == w \in Identity /\ w.onion = v.onion => w = v

\* The identities that somebody works with or that were given away.
InUse == Identities(invites \cup {memory[p] : p \in Procs})

\* While no two threads have met at the file, one at most is at it, and it finds
\* its names as JsonFileProofs says of a single writer.
InTurn ==
    ~overlapped =>
        /\ \A p, q \in Procs : Active(p) /\ Active(q) => p = q
        /\ \A p \in Procs : FileFacts!Alone(p)

\* What is in use agrees with the file, and with what is about to be the file.
Agreement ==
    ~overlapped =>
        \A v \in InUse :
            /\ Agrees(v, path)
            /\ \A p \in Procs : pc[p] \in SaveSteps => Agrees(v, buf[p])

\* A thread that looks at the file is about to load it.
Loading == \A p \in Procs : pc[p] \in {"exists", "read"} => req[p].command = "load"

TurnInv == IdentityInv /\ Loading /\ InTurn /\ Agreement

\* The invariant of the file, for the values an identity file holds.
LEMMA FileValues ==
    ASSUME IdentityInv
    PROVE  FileFacts!Contents(Identity \cup {NoIdentity}) /\ FileFacts!Control
<1>1. Good \subseteq Identity \cup {NoIdentity}
  BY DEF Good
<1>2. QED
  BY <1>1 DEF IdentityInv, FileFacts!Contents

\* A thread that is alone at the file stays alone there.
LEMMA InTurnStep ==
    ASSUME IdentityInv, InTurn, NEW p \in Procs, FileAction(p), ~overlapped,
           \A q \in Procs \ {p} : ~Active(q)
    PROVE  /\ \A q \in Procs : FileFacts!Alone(q)'
           /\ \A q \in Procs \ {p} : ~Active(q)' /\ pc'[q] = pc[q]
<1> USE DEF Active
<1>1. FileFacts!Step(p)
  BY SameStep DEF FileAction
<1>2. FileFacts!Alone(p)'
  BY <1>1, FileValues, FileAssumptions, FileFacts!AloneStep DEF InTurn
<1>3. \A q \in Procs \ {p} : pc'[q] = pc[q]
  BY DEF IdentityInv, FileFacts!Control, FileAction, File!Goto, File!Return, File!Modify,
     File!Begin, File!Exists, File!Read, File!Open, File!Write, File!CheckPath,
     File!Remove, File!Rename, File!Abandon
<1>4. ASSUME NEW q \in Procs \ {p}
      PROVE  fd'[q] = "closed"
  <2>1. fd[q] = "closed" /\ fd \in [Procs -> {"closed", "tmp", "path", "unlinked"}]
    BY DEF InTurn, FileFacts!Alone, FileFacts!At, IdentityInv, FileFacts!Control
  <2>2. QED
    BY <2>1 DEF FileAction,
       File!Begin, File!Exists, File!Read, File!Open, File!Write, File!CheckPath,
       File!Remove, File!Rename, File!Abandon, File!Moved, File!MovedUp
<1>5. ASSUME NEW q \in Procs \ {p}
      PROVE  FileFacts!Alone(q)'
  BY <1>2, <1>3, <1>4 DEF FileFacts!Alone, FileFacts!At
<1>6. QED
  BY <1>2, <1>3, <1>5

\* What is in use is complete.
LEMMA InUseWhole ==
    ASSUME IdentityInv
    PROVE  \A v \in InUse : v \in Whole /\ Complete(v)
<1>1. \A v \in InUse : v \in Whole
  BY IdentityAssumption DEF InUse, Identities, IdentityInv
<1>2. \A v \in Whole : Complete(v)
  BY IdentityAssumption DEF Whole, Card, Complete
<1>3. QED
  BY <1>1, <1>2

\* What was in use agrees with what a step makes of the file and of the buffer:
\* only an identity that lacks keys, and that nobody uses therefore, is filled.
LEMMA AgreementKept ==
    ASSUME IdentityInv, InTurn, Agreement, Loading, ~overlapped,
           NEW p \in Procs, FileAction(p), NEW v \in InUse
    PROVE  /\ Agrees(v, path')
           /\ pc'[p] \in SaveSteps => Agrees(v, buf'[p])
<1> USE DEF File!Goto, File!At
<1>1. /\ pc \in [Procs -> FileFacts!Steps] /\ buf \in [Procs -> Good]
      /\ path \in Good \cup File!Broken /\ req[p] \in Requests
  BY DEF IdentityInv, FileFacts!Control, FileFacts!Contents, FileFacts!Broken, File!Broken
<1>2. /\ Agrees(v, path)
      /\ pc[p] \in SaveSteps => Agrees(v, buf[p])
  BY DEF Agreement
<1>3. fd[p] # "path"
  BY DEF InTurn, FileFacts!Alone
<1>4. /\ Missing \notin Identity /\ NoIdentity \notin Identity /\ Refused \notin Identity
      /\ \A w \in File!Broken : w \notin Identity
  BY IdentityAssumption DEF File!Broken
<1>5. CASE File!Begin(p)
  BY <1>1, <1>2, <1>5 DEF File!Begin, SaveSteps
<1>6. CASE File!Exists(p)
  <2>1. req[p].command = "load"
    BY <1>6 DEF Loading, File!Exists
  <2>2. Apply(req[p], NoIdentity) = Refused
    BY <2>1 DEF Apply
  <2>3. pc'[p] \notin SaveSteps /\ path' = path
    BY <1>1, <1>6, <2>2 DEF File!Exists, File!Modify, File!Return, SaveSteps
  <2>4. QED
    BY <1>2, <2>3
<1>7. CASE File!Read(p)
  <2>1. req[p].command = "load" /\ path' = path
    BY <1>7 DEF Loading, File!Read
  <2>2. CASE path \notin Identity \/ Complete(path)
    <3>1. path \in File!Broken \/ Apply(req[p], path) = Refused
      BY <1>1, <2>1, <2>2 DEF Apply, Good
    <3>2. pc'[p] \notin SaveSteps
      BY <1>1, <1>7, <3>1 DEF File!Read, File!Modify, File!Return, SaveSteps
    <3>3. QED
      BY <1>2, <2>1, <3>2
  <2>3. CASE path \in Identity /\ ~Complete(path)
    <3>1. Apply(req[p], path) = Filled(path, req[p].draw) /\ path \notin File!Broken
      BY <1>4, <2>1, <2>3 DEF Apply
    <3>2. Filled(path, req[p].draw) \in Identity
      BY <1>1, <2>3, FilledType DEF Requests
    <3>3. buf'[p] = Filled(path, req[p].draw)
      BY <1>1, <1>4, <1>7, <3>1, <3>2 DEF File!Read, File!Modify
    <3>4. Filled(path, req[p].draw).onion = path.onion
      BY <2>3 DEF Filled, Identity
    <3>5. v.onion # path.onion
      BY <1>2, <2>3, InUseWhole DEF Agrees
    <3>6. QED
      BY <1>2, <2>1, <3>3, <3>4, <3>5 DEF Agrees
  <2>4. QED
    BY <2>2, <2>3
<1>8. CASE File!Open(p) \/ File!CheckPath(p)
  BY <1>1, <1>2, <1>8 DEF File!Open, File!CheckPath, SaveSteps
<1>9. CASE File!Write(p)
  BY <1>1, <1>2, <1>3, <1>9 DEF File!Write, File!Store, SaveSteps
<1>10. CASE File!Remove(p)
  <2>1. path' = Missing /\ (pc'[p] = "idle" \/ buf' = buf)
    BY <1>1, <1>10 DEF File!Remove, File!Return
  <2>2. QED
    BY <1>2, <1>4, <1>10, <2>1 DEF File!Remove, SaveSteps, Agrees
<1>11. CASE File!Rename(p)
  <2>1. tmp = buf[p]
    BY <1>11 DEF InTurn, FileFacts!Alone, File!Rename
  <2>2. pc'[p] = "idle" /\ (path' = path \/ path' = buf[p])
    BY <1>1, <1>11, <2>1 DEF File!Rename, File!Return
  <2>3. QED
    BY <1>2, <1>11, <2>2 DEF File!Rename, SaveSteps
<1>12. CASE File!Abandon(p)
  BY <1>1, <1>2, <1>3, <1>12 DEF File!Abandon, File!Store, File!Return, SaveSteps
<1>13. QED
  BY <1>5, <1>6, <1>7, <1>8, <1>9, <1>10, <1>11, <1>12 DEF FileAction

\* If what comes into use by the step is what the file holds then, and nobody is
\* about to save, the agreement goes on.
LEMMA AgreementStep ==
    ASSUME IdentityInv, InTurn, Agreement, Loading, ~overlapped,
           NEW p \in Procs, FileAction(p),
           \A q \in Procs \ {p} : ~Active(q),
           \A v \in InUse' : v \in InUse \/ (v = path' /\ pc'[p] = "idle")
    PROVE  InTurn' /\ Agreement'
<1>1. /\ \A q \in Procs : FileFacts!Alone(q)'
      /\ \A q \in Procs \ {p} : ~Active(q)' /\ pc'[q] = pc[q]
  BY InTurnStep
<1>2. InTurn'
  BY <1>1 DEF InTurn
<1>3. \A q \in Procs : pc'[q] \in SaveSteps => q = p
  BY <1>1 DEF Active, SaveSteps
<1>4. ASSUME NEW v \in InUse'
      PROVE  /\ Agrees(v, path')
             /\ pc'[p] \in SaveSteps => Agrees(v, buf'[p])
  BY AgreementKept DEF Agrees, SaveSteps
<1>5. Agreement'
  BY <1>3, <1>4 DEF Agreement, Agrees
<1>6. QED
  BY <1>2, <1>5

\* Only load looks at the file.
LEMMA LoadingStep ==
    ASSUME IdentityInv, Loading, NEW p \in Procs, FileAction(p),
           File!Begin(p) => req'[p].command = "load"
    PROVE  Loading'
<1> USE DEF File!Goto, File!At
<1>1. pc \in [Procs -> FileFacts!Steps] /\ req \in [Procs -> Requests]
  BY DEF IdentityInv, FileFacts!Control
<1>2. \A q \in Procs \ {p} : pc'[q] = pc[q] /\ req'[q] = req[q]
  BY <1>1 DEF FileAction, File!Return, File!Modify, File!Begin, File!Exists, File!Read,
     File!Open, File!Write, File!CheckPath, File!Remove, File!Rename, File!Abandon
<1>3. CASE File!Begin(p)
  BY <1>2, <1>3 DEF Loading
<1>4. CASE File!Exists(p)
  BY <1>1, <1>2, <1>4 DEF Loading, File!Exists, File!Modify, File!Return
<1>5. CASE ~File!Begin(p) /\ ~File!Exists(p)
  <2>1. pc'[p] \notin {"exists", "read"}
    BY <1>1, <1>5 DEF FileAction, File!Return, File!Modify, File!Read,
       File!Open, File!Write, File!CheckPath, File!Remove, File!Rename, File!Abandon
  <2>2. QED
    BY <1>2, <2>1 DEF Loading
<1>6. QED
  BY <1>3, <1>4, <1>5

\* A step of a thread at the file: either two threads have met there by now, or
\* the agreement goes on.
LEMMA TurnFileStep ==
    ASSUME TurnInv, NEW p \in Procs, FileAction(p),
           ~overlapped' => ~overlapped /\ \A q \in Procs \ {p} : ~Active(q),
           File!Begin(p) => req'[p].command = "load",
           ~overlapped => \A v \in InUse' : v \in InUse \/ (v = path' /\ pc'[p] = "idle")
    PROVE  Loading' /\ InTurn' /\ Agreement'
<1>1. Loading'
  BY LoadingStep DEF TurnInv
<1>2. CASE overlapped'
  BY <1>1, <1>2 DEF InTurn, Agreement
<1>3. CASE ~overlapped'
  BY <1>1, <1>3, AgreementStep DEF TurnInv
<1>4. QED
  BY <1>2, <1>3

\* A thread that is at the file is the only one there.
LEMMA OnlyOne ==
    ASSUME TurnInv, NEW p \in Procs, Active(p), ~overlapped
    PROVE  \A q \in Procs \ {p} : ~Active(q)
BY DEF TurnInv, InTurn

\* `init` starts alone, and its draw is nobody's onion.
LEMMA TurnCreate ==
    ASSUME TurnInv, NEW p \in Procs, Create(p)
    PROVE  Loading' /\ InTurn' /\ Agreement'
<1> PICK r \in Requests :
      /\ Unused(r.draw)
      /\ req' = [req EXCEPT ![p] = r]
      /\ buf' = [buf EXCEPT ![p] = New(r.draw)]
  BY DEF Create
<1>1. /\ pc' = [pc EXCEPT ![p] = "open"]
      /\ pc[p] = "idle"
      /\ UNCHANGED <<path, tmp, fd, memory, invites>>
      /\ ~overlapped' => ~overlapped /\ \A q \in Procs \ {p} : ~Active(q)
  BY DEF Create, Start
<1>2. pc \in [Procs -> FileFacts!Steps] /\ buf \in [Procs -> Good] /\ req \in [Procs -> Requests]
  BY DEF TurnInv, IdentityInv, FileFacts!Control, FileFacts!Contents
<1>3. Loading'
  BY <1>1, <1>2 DEF TurnInv, Loading
<1>4. InTurn'
  <2> SUFFICES ASSUME ~overlapped' PROVE InTurn'
    BY DEF InTurn
  <2>1. \A q \in Procs : FileFacts!Alone(q)
    BY <1>1 DEF TurnInv, InTurn
  <2>2. ASSUME NEW q \in Procs PROVE FileFacts!Alone(q)'
    <3>1. CASE q = p
      BY <1>1, <1>2, <2>1, <3>1 DEF FileFacts!Alone, FileFacts!At
    <3>2. CASE q # p
      BY <1>1, <1>2, <2>1, <3>2 DEF FileFacts!Alone, FileFacts!At
    <3>3. QED
      BY <3>1, <3>2
  <2>3. \A q \in Procs \ {p} : ~Active(q)'
    BY <1>1, <1>2 DEF Active
  <2>4. QED
    BY <2>2, <2>3 DEF InTurn
<1>5. Agreement'
  <2> SUFFICES ASSUME ~overlapped', NEW v \in InUse
               PROVE  /\ Agrees(v, path)
                      /\ \A q \in Procs : pc'[q] \in SaveSteps => Agrees(v, buf'[q])
    BY <1>1 DEF Agreement, InUse, Agrees
  <2>1. Agrees(v, path)
    BY <1>1 DEF TurnInv, Agreement
  <2>2. \A q \in Procs \ {p} : pc'[q] \notin SaveSteps
    BY <1>1, <1>2 DEF Active, SaveSteps
  <2>3. v \in Copies
    BY DEF InUse, Copies, Identities
  <2>4. v.onion # New(r.draw).onion
    BY <2>3 DEF Unused, New
  <2>5. QED
    BY <1>2, <2>1, <2>2, <2>4 DEF Agrees
<1>6. QED
  BY <1>3, <1>4, <1>5

\* What was in use before and what a thread returns: all that is in use after.
LEMMA InUseReturns ==
    ASSUME NEW p \in Procs, NEW v, Returns(p, v), invites' = invites, memory \in [Procs -> Card \cup {NoIdentity}]
    PROVE  InUse' \subseteq InUse \cup {v}
BY DEF Returns, InUse, Identities

\* The invariant is inductive.
LEMMA TurnStep ==
    ASSUME TurnInv, [Next]_vars
    PROVE  TurnInv'
<1> USE DEF FileAction, Active
<1>1. IdentityInv'
  BY IdentityStep DEF TurnInv
<1>2. memory \in [Procs -> Card \cup {NoIdentity}]
  BY DEF TurnInv, IdentityInv, Whole
<1>3. ASSUME NEW p \in Procs, Load(p)
      PROVE  Loading' /\ InTurn' /\ Agreement'
  <2>1. InUse' = InUse
    BY <1>3 DEF Load, Start, InUse
  <2>2. ~overlapped' => ~overlapped /\ \A q \in Procs \ {p} : ~Active(q)
    BY <1>3 DEF Load, Start
  <2>3. QED
    BY <1>3, <2>1, <2>2, TurnFileStep DEF Load
<1>4. ASSUME NEW p \in Procs, Read(p)
      PROVE  Loading' /\ InTurn' /\ Agreement'
  <2>1. \A v \in InUse' : v \in InUse \/ (v = path' /\ pc'[p] = "idle")
    <3>1. CASE path \in Identity /\ pc'[p] = "idle"
      BY <1>2, <1>4, <3>1, InUseReturns DEF Read, File!Read
    <3>2. CASE ~(path \in Identity /\ pc'[p] = "idle")
      BY <1>4, <3>2 DEF Read, InUse
    <3>3. QED
      BY <3>1, <3>2
  <2>2. ~overlapped' => ~overlapped /\ \A q \in Procs \ {p} : ~Active(q)
    BY <1>4, OnlyOne DEF Read, File!Read, File!At
  <2>3. ~File!Begin(p)
    BY <1>4 DEF Read, File!Read, File!Begin, File!At
  <2>4. QED
    BY <1>4, <2>1, <2>2, <2>3, TurnFileStep DEF Read
<1>5. ASSUME NEW p \in Procs, Rename(p)
      PROVE  Loading' /\ InTurn' /\ Agreement'
  <2>1. ASSUME ~overlapped
        PROVE  \A v \in InUse' : v \in InUse \/ (v = path' /\ pc'[p] = "idle")
    <3>1. tmp = buf[p] /\ pc \in [Procs -> FileFacts!Steps]
      BY <1>5, <2>1 DEF Rename, File!Rename, File!At, TurnInv, InTurn, FileFacts!Alone,
         IdentityInv, FileFacts!Control
    <3>2. CASE tmp = Missing
      BY <1>5, <3>2 DEF Rename, InUse
    <3>3. CASE tmp # Missing
      <4>1. path' = buf[p] /\ pc'[p] = "idle"
        BY <1>5, <3>1, <3>3 DEF Rename, File!Rename, File!Return, File!Goto
      <4>2. QED
        BY <1>2, <1>5, <3>3, <4>1, InUseReturns DEF Rename
    <3>4. QED
      BY <3>2, <3>3
  <2>2. ~overlapped' => ~overlapped /\ \A q \in Procs \ {p} : ~Active(q)
    BY <1>5, OnlyOne DEF Rename, File!Rename, File!At
  <2>3. ~File!Begin(p)
    BY <1>5 DEF Rename, File!Rename, File!Begin, File!At
  <2>4. QED
    BY <1>5, <2>1, <2>2, <2>3, TurnFileStep DEF Rename
<1>6. ASSUME NEW p \in Procs, Continue(p)
      PROVE  Loading' /\ InTurn' /\ Agreement'
  <2>1. pc[p] # "idle" /\ InUse' = InUse
    BY <1>6 DEF Continue, InUse, File!Exists, File!Open, File!Write, File!CheckPath,
       File!Remove, File!Abandon, File!At
  <2>2. ~overlapped' => ~overlapped /\ \A q \in Procs \ {p} : ~Active(q)
    BY <1>6, <2>1, OnlyOne DEF Continue
  <2>3. ~File!Begin(p)
    BY <2>1 DEF File!Begin, File!At
  <2>4. QED
    BY <1>6, <2>1, <2>2, <2>3, TurnFileStep DEF Continue
<1>7. ASSUME UNCHANGED <<path, tmp, pc, req, buf, fd, overlapped>>, InUse' \subseteq InUse
      PROVE  Loading' /\ InTurn' /\ Agreement'
  <2>1. Loading'
    BY <1>7 DEF TurnInv, Loading
  <2>2. InTurn'
    BY <1>7 DEF TurnInv, InTurn, FileFacts!Alone, FileFacts!At
  <2>3. Agreement'
    BY <1>7 DEF TurnInv, Agreement, Agrees
  <2>4. QED
    BY <2>1, <2>2, <2>3
<1>8. ASSUME NEW p \in Procs, ExportInvite(p) \/ End(p)
      PROVE  Loading' /\ InTurn' /\ Agreement'
  <2>1. InUse' \subseteq InUse
    BY <1>2, <1>8, IdentityAssumption DEF ExportInvite, End, Returns, InUse, Identities
  <2>2. QED
    BY <1>7, <1>8, <2>1 DEF ExportInvite, End
<1>9. ASSUME ForgetInvite \/ UNCHANGED vars
      PROVE  Loading' /\ InTurn' /\ Agreement'
  BY <1>7, <1>9 DEF ForgetInvite, vars, InUse, Identities
<1>10. ASSUME NEW p \in Procs, Create(p)
       PROVE  Loading' /\ InTurn' /\ Agreement'
  BY <1>10, TurnCreate
<1>11. ASSUME NEW p \in Procs, Command(p)
       PROVE  Loading' /\ InTurn' /\ Agreement'
  BY <1>3, <1>4, <1>5, <1>6, <1>8, <1>10, <1>11 DEF Command
<1>12. Loading' /\ InTurn' /\ Agreement'
  BY <1>9, <1>11 DEF Next
<1>13. QED
  BY <1>1, <1>12 DEF TurnInv

\* It holds at the start, when nobody has loaded anything.
LEMMA TurnInit ==
    ASSUME Init
    PROVE  TurnInv
<1>1. IdentityInv
  BY IdentityInit
<1>2. InUse = {}
  BY IdentityAssumption DEF Init, InUse, Identities
<1>3. path \notin {Empty, Torn}
  BY IdentityAssumption DEF Init, File!Init
<1>4. InTurn
  BY <1>3 DEF Init, File!Init, InTurn, Active, FileFacts!Alone, FileFacts!At
<1>5. QED
  BY <1>1, <1>2, <1>4 DEF Init, File!Init, Loading, Agreement, TurnInv

\* The file that a reader would see: what it holds, or what is about to be it.
LEMMA VisibleAgrees ==
    ASSUME TurnInv, ~overlapped, NEW v \in InUse
    PROVE  Agrees(v, File!Visible)
<1>1. NoIdentity \notin Identity
  BY IdentityAssumption
<1>2. ASSUME NEW p \in Procs, pc[p] = "rename"
      PROVE  Agrees(v, tmp)
  <2>1. tmp = buf[p]
    BY <1>2 DEF TurnInv, InTurn, FileFacts!Alone
  <2>2. QED
    BY <1>2, <2>1 DEF TurnInv, Agreement, SaveSteps
<1>3. Agrees(v, path)
  BY DEF TurnInv, Agreement
<1>4. CASE path \notin File!Broken
  BY <1>3, <1>4 DEF File!Visible
<1>5. CASE path \in File!Broken
  <2>1. CASE (\E p \in Procs : File!At(p, "rename")) /\ tmp \notin File!Broken
    <3>1. Agrees(v, tmp)
      BY <1>2, <2>1 DEF File!At
    <3>2. File!Visible = tmp
      BY <1>5, <2>1 DEF File!Visible
    <3>3. QED
      BY <3>1, <3>2
  <2>2. CASE ~((\E p \in Procs : File!At(p, "rename")) /\ tmp \notin File!Broken)
    <3>1. File!Visible = NoIdentity
      BY <1>5, <2>2 DEF File!Visible
    <3>2. QED
      BY <1>1, <3>1 DEF Agrees
  <2>3. QED
    BY <2>1, <2>2
<1>6. QED
  BY <1>4, <1>5

\* Unless two threads have met at the file, the identity of an onion that anybody
\* works with or has given away is the one the file has for that onion, for any
\* number of threads that take turns, of new identities, failed calls and kills.
THEOREM KeysAgreeHolds == Spec => []KeysAgree
<1>1. TurnInv => KeysAgree
  BY VisibleAgrees DEF KeysAgree, InUse, Agrees
<1>2. QED
  BY <1>1, TurnInit, TurnStep, PTL DEF Spec
===============================================================================
