---------------------------- MODULE JsonFileProofs ----------------------------
(***************************************************************************)
(* Facts about a file of storage.rs, for any threads, requests and values. *)
(***************************************************************************)
EXTENDS JsonFile, TLAPS

\* Contents(G): every complete file, and every value about to be saved, is in
\* G.  With G = Values it is the part of TypeOK that needs an argument.
Contents(G) ==
    /\ path \in G \cup Broken
    /\ tmp \in G \cup Broken
    /\ buf \in [Procs -> G]

\* The variables whose values the threads only choose from a fixed set.
Control ==
    /\ pc \in [Procs -> Steps]
    /\ req \in [Procs -> Requests]
    /\ fd \in [Procs -> {"closed", "tmp", "path", "unlinked"}]

\* Requests lead from a value of G to another of G.
Closed(G) ==
    /\ G \subseteq Values
    /\ Default \in G
    /\ Stored \subseteq G \cup {Missing}
    /\ \A r \in Requests : \A v \in G : Apply(r, v) \in G \cup {Refused}

\* Every value is reached by requests only from values.
LEMMA ValuesClosed == Closed(Values)
BY ValuesAssumption, ApplyAssumption DEF Closed

\* The caller's modification keeps what it is about to save in G.
LEMMA ModifyKeeps ==
    ASSUME NEW G, Closed(G), buf \in [Procs -> G], Control,
           NEW p \in Procs, NEW v \in G, Modify(p, v)
    PROVE  buf' \in [Procs -> G] /\ pc' \in [Procs -> Steps]
<1>1. req[p] \in Requests
  BY DEF Control
<1>2. Apply(req[p], v) \in G \cup {Refused}
  BY <1>1 DEF Closed
<1>3. CASE Apply(req[p], v) = Refused
  BY <1>3 DEF Modify, Return, Goto, Closed, Control, Steps
<1>4. CASE Apply(req[p], v) # Refused
  BY <1>2, <1>4 DEF Modify, Goto, Control, Steps
<1>5. QED
  BY <1>3, <1>4

\* A step of any thread keeps the contents in G, also one that writes over
\* another's file, stops half-way, or renames a file another is writing to.
LEMMA StepKeeps ==
    ASSUME NEW G, Closed(G), Contents(G), Control, Next
    PROVE  Contents(G)' /\ Control'
<1> USE DEF Contents, Control, Goto, At, Steps
<1> PICK p \in Procs : Step(p)
  BY DEF Next
<1>1. CASE Begin(p)
  BY <1>1 DEF Begin
<1>2. CASE Exists(p)
  <2>1. CASE path = Missing
    <3>1. Default \in G
      BY DEF Closed
    <3>2. buf' \in [Procs -> G] /\ pc' \in [Procs -> Steps]
      BY <1>2, <2>1, <3>1, ModifyKeeps DEF Exists
    <3>3. QED
      BY <1>2, <3>2 DEF Exists
  <2>2. CASE path # Missing
    BY <1>2, <2>2 DEF Exists
  <2>3. QED
    BY <2>1, <2>2
<1>3. CASE Read(p)
  <2>1. CASE path \in Broken
    <3>1. buf' \in [Procs -> G] /\ pc' \in [Procs -> Steps]
      BY <1>3, <2>1 DEF Read, Return, Closed
    <3>2. QED
      BY <1>3, <3>1 DEF Read
  <2>2. CASE path \notin Broken
    <3>1. buf' \in [Procs -> G] /\ pc' \in [Procs -> Steps]
      BY <1>3, <2>2, ModifyKeeps DEF Read
    <3>2. QED
      BY <1>3, <3>1 DEF Read
  <2>3. QED
    BY <2>1, <2>2
<1>4. CASE Open(p)
  BY <1>4 DEF Open, Broken
<1>5. CASE Write(p)
  <2>1. Over(tmp, buf[p]) \subseteq G \cup Broken /\ Over(path, buf[p]) \subseteq G \cup Broken
    BY DEF Over, Broken
  <2>2. tmp' \in G \cup Broken /\ path' \in G \cup Broken
    BY <1>5, <2>1 DEF Write, Store
  <2>3. QED
    BY <1>5, <2>2 DEF Write
<1>6. CASE CheckPath(p)
  BY <1>6 DEF CheckPath
<1>7. CASE Remove(p)
  <2>1. fd' \in [Procs -> {"closed", "tmp", "path", "unlinked"}]
    BY <1>7 DEF Remove, Moved
  <2>2. buf' \in [Procs -> G] /\ pc' \in [Procs -> Steps]
    BY <1>7 DEF Remove, Return, Closed
  <2>3. QED
    BY <1>7, <2>1, <2>2 DEF Remove, Broken
<1>8. CASE Rename(p)
  <2>1. fd' \in [Procs -> {"closed", "tmp", "path", "unlinked"}]
    BY <1>8 DEF Rename, Moved, MovedUp
  <2>2. buf' \in [Procs -> G] /\ pc' \in [Procs -> Steps]
    BY <1>8 DEF Rename, Return, Closed
  <2>3. QED
    BY <1>8, <2>1, <2>2 DEF Rename, Broken
<1>9. CASE Abandon(p)
  <2>1. tmp' \in G \cup Broken /\ path' \in G \cup Broken
    BY <1>9 DEF Abandon, Store, Broken
  <2>2. buf' \in [Procs -> G] /\ pc' \in [Procs -> Steps]
    BY <1>9 DEF Abandon, Return, Closed
  <2>3. QED
    BY <1>9, <2>1, <2>2 DEF Abandon
<1>10. QED
  BY <1>1, <1>2, <1>3, <1>4, <1>5, <1>6, <1>7, <1>8, <1>9 DEF Step

\* At the start nothing but the default is about to be saved.
LEMMA InitKeeps ==
    ASSUME NEW G, Closed(G), Init
    PROVE  Contents(G) /\ Control
BY DEF Init, Contents, Control, Closed, Broken, Steps

\* Contents(G) /\ Control is inductive: whatever the threads do to each other's
\* files, a file that parses holds a value that requests lead to, since whole
\* values only are written and mixed ones do not parse.
LEMMA ContentsInductive ==
    ASSUME NEW G, Closed(G), Contents(G), Control, [Next]_vars
    PROVE  Contents(G)' /\ Control'
<1>1. CASE Next
  BY <1>1, StepKeeps
<1>2. CASE UNCHANGED vars
  BY <1>2 DEF vars, Contents, Control
<1>3. QED
  BY <1>1, <1>2

\* Every variable keeps its type, and a file that parses holds a value, with
\* any number of threads and calls that stop half-way (write_atomic).
THEOREM TypeCorrect == Spec => []TypeOK
<1>1. Init => Contents(Values) /\ Control
  BY InitKeeps, ValuesClosed
<1>2. Contents(Values) /\ Control /\ [Next]_vars => (Contents(Values) /\ Control)'
  BY ContentsInductive, ValuesClosed
<1>3. Contents(Values) /\ Control => TypeOK
  BY DEF Contents, Control, TypeOK
<1>4. QED
  BY <1>1, <1>2, <1>3, PTL DEF Spec
-------------------------------------------------------------------------------
(* One writer at a time. *)

\* Where a single writer p is, and what the two names hold then.  Its .tmp file
\* is complete from the write on, and the old file is gone only before rename.
Alone(p) ==
    /\ path \notin {Empty, Torn}
    /\ At(p, "read") => path # Missing
    /\ At(p, "write") => tmp = Empty
    /\ fd[p] = IF At(p, "write") THEN "tmp" ELSE "closed"
    /\ pc[p] \in {"check", "remove", "rename"} => tmp = buf[p]
    /\ At(p, "remove") => path # Missing
    /\ At(p, "rename") => path = Missing

SingleInv(p) == Contents(Values) /\ Control /\ Alone(p)

\* One thread starts alone, with complete texts only.
LEMMA SingleInit ==
    ASSUME NEW p \in Procs, Init
    PROVE  SingleInv(p)
<1>1. Contents(Values) /\ Control
  BY InitKeeps, ValuesClosed
<1>2. Alone(p)
  BY ValuesAssumption DEF Init, Alone, At, Broken
<1>3. QED
  BY <1>1, <1>2 DEF SingleInv

\* A step of a writer that finds the names like this leaves them like this.
LEMMA AloneStep ==
    ASSUME NEW p \in Procs, Contents(Values), Control, Alone(p), Step(p)
    PROVE  Alone(p)'
<1> USE DEF Goto, At, Steps
<1>1. Contents(Values)' /\ Control'
  BY ContentsInductive, ValuesClosed DEF Next
<1> USE <1>1 DEF Alone, Control, Contents
<1>2. Values \cap Broken = {} /\ Default \in Values
  BY ValuesAssumption
<1>3. CASE Begin(p)
  BY <1>3 DEF Begin
<1>4. CASE Exists(p)
  BY <1>4 DEF Exists, Modify, Return
<1>5. CASE Read(p)
  BY <1>5 DEF Read, Modify, Return
<1>6. CASE Open(p)
  BY <1>6 DEF Open
<1>7. CASE Write(p)
  BY <1>7 DEF Write, Store, Over
<1>8. CASE CheckPath(p)
  BY <1>8 DEF CheckPath
<1>9. CASE Remove(p)
  BY <1>2, <1>9, ValuesAssumption DEF Remove, Moved, Return
<1>10. CASE Rename(p)
  BY <1>2, <1>10 DEF Rename, Moved, MovedUp, Return, Broken
<1>11. CASE Abandon(p)
  BY <1>11 DEF Abandon, Store, Return
<1>12. QED
  BY <1>3, <1>4, <1>5, <1>6, <1>7, <1>8, <1>9, <1>10, <1>11 DEF Step

\* Alone is kept when the writer is the only one.
LEMMA SingleStep ==
    ASSUME NEW p, Procs = {p}, SingleInv(p), [Next]_vars
    PROVE  SingleInv(p)'
<1>1. Contents(Values)' /\ Control'
  BY ContentsInductive, ValuesClosed DEF SingleInv
<1>2. CASE UNCHANGED vars
  BY <1>2 DEF vars, SingleInv, Alone, Contents, Control, At
<1>3. CASE Next
  BY <1>1, <1>3, AloneStep DEF Next, SingleInv
<1>4. QED
  BY <1>2, <1>3

\* With one writer the file never holds bytes that do not parse, also when calls
\* fail half-way or the process is killed (write_atomic).
THEOREM SingleNeverTorn ==
    ASSUME NEW p, Procs = {p}
    PROVE  Spec => []NeverTorn
<1>1. Init => SingleInv(p)
  BY SingleInit
<1>2. SingleInv(p) /\ [Next]_vars => SingleInv(p)'
  BY SingleStep
<1>3. SingleInv(p) => NeverTorn
  BY DEF SingleInv, Alone, NeverTorn
<1>4. QED
  BY <1>1, <1>2, <1>3, PTL DEF Spec

\* With one writer a complete copy survives every system call, the failed ones
\* and a kill included, but for a save that starts from no file at all.
THEOREM SingleCopySurvives ==
    ASSUME NEW p, Procs = {p}
    PROVE  Spec => CopySurvives
<1>1. Init => SingleInv(p)
  BY SingleInit
<1>2. SingleInv(p) /\ [Next]_vars => SingleInv(p)'
  BY SingleStep
<1>3. SingleInv(p) /\ Next => CopyKept
  <2> SUFFICES ASSUME SingleInv(p), Step(p), HasCopy PROVE CopyKept
    BY DEF Next, CopyKept
  <2> USE DEF SingleInv, Alone, Control, Contents, HasCopy, CopyKept, Goto, At, Steps
  <2>0. Values \cap Broken = {} /\ Default \in Values
    BY ValuesAssumption
  <2>1. CASE Begin(p)
    BY <2>1 DEF Begin
  <2>2. CASE Exists(p)
    BY <2>2 DEF Exists
  <2>3. CASE Read(p)
    BY <2>3 DEF Read
  <2>4. CASE Open(p)
    BY <2>4 DEF Open, Broken
  <2>5. CASE Write(p)
    BY <2>5, <2>0 DEF Write, Store, Over, Broken
  <2>6. CASE CheckPath(p)
    BY <2>6 DEF CheckPath
  <2>7. CASE Remove(p)
    BY <2>7, <2>0 DEF Remove
  <2>8. CASE Rename(p)
    BY <2>8, <2>0 DEF Rename, Broken
  <2>9. CASE Abandon(p)
    <3>1. path' = path
      BY <2>9 DEF Abandon, Store
    <3>2. path = Missing => tmp' = tmp \/ tmp \in Broken
      BY <2>9 DEF Abandon, Store, Broken
    <3>3. QED
      BY <3>1, <3>2 DEF Broken
  <2>10. QED
    BY <2>1, <2>2, <2>3, <2>4, <2>5, <2>6, <2>7, <2>8, <2>9 DEF Step
<1>4. SingleInv(p) /\ [Next]_vars => [CopyKept]_vars
  BY <1>3
<1>5. QED
  BY <1>1, <1>2, <1>4, PTL DEF Spec, CopySurvives

\* What p is about to save is what its request makes of the visible file.
Pending(p) ==
    pc[p] \in {"open", "write", "check", "remove"} =>
        /\ buf[p] = Apply(req[p], Visible)
        /\ Apply(req[p], Visible) # Refused

\* With one writer, Visible is what the file holds, or what it will hold.
LEMMA VisibleAlone ==
    ASSUME NEW p, Procs = {p}, SingleInv(p)
    PROVE  /\ Visible \in Values
           /\ path # Missing => Visible = path
           /\ path = Missing /\ At(p, "rename") => Visible = buf[p]
           /\ path = Missing /\ ~At(p, "rename") => Visible = Default
BY ValuesAssumption DEF SingleInv, Alone, Contents, Control, Visible, Broken, At

\* The same in the next state.
LEMMA VisibleAloneNext ==
    ASSUME NEW p, Procs = {p}, SingleInv(p)'
    PROVE  /\ Visible' \in Values
           /\ path' # Missing => Visible' = path'
           /\ path' = Missing /\ At(p, "rename")' => Visible' = buf'[p]
           /\ path' = Missing /\ ~At(p, "rename")' => Visible' = Default
BY ValuesAssumption DEF SingleInv, Alone, Contents, Control, Visible, Broken, At

\* Each step of a single writer leaves the visible file alone, or updates it as
\* a request asks, or, by stopping before rename, loses it.
LEMMA VisibleStep ==
    ASSUME NEW p, Procs = {p}, SingleInv(p), Pending(p), Step(p)
    PROVE  /\ Pending(p)'
           /\ \/ Visible' = Visible
              \/ Atomic!Update
              \/ MayAbandon /\ Atomic!Lose /\ Abandon(p)
<1> USE VisibleAlone, VisibleAloneNext DEF Goto, At
<1>1. SingleInv(p)'
  BY SingleStep DEF Next
<1>2. pc \in [Procs -> Steps] /\ req \in [Procs -> Requests] /\ buf \in [Procs -> Values]
  BY DEF SingleInv, Control, Contents
<1>3. Alone(p) /\ Alone(p)'
  BY <1>1 DEF SingleInv
<1>a. CASE Begin(p)
  BY <1>1, <1>2, <1>3, <1>a DEF Begin, Pending, Alone
<1>b. CASE Exists(p)
  BY <1>1, <1>2, <1>3, <1>b DEF Exists, Modify, Return, Pending, Alone
<1>c. CASE Read(p)
  BY <1>1, <1>2, <1>3, <1>c DEF Read, Modify, Return, Pending, Alone, Broken
<1>d. CASE Open(p)
  BY <1>1, <1>2, <1>3, <1>d DEF Open, Pending, Alone
<1>e. CASE Write(p)
  <2>1. path' = path
    BY <1>3, <1>e DEF Write, Store, Alone
  <2>2. QED
    BY <1>1, <1>2, <1>3, <1>e, <2>1 DEF Write, Pending, Alone
<1>f. CASE CheckPath(p)
  <2>1. CASE path # Missing
    BY <1>1, <1>2, <1>3, <1>f, <2>1 DEF CheckPath, Pending
  <2>2. CASE path = Missing
    <3>1. Visible' = Apply(req[p], Visible) /\ Visible' # Refused
      BY <1>1, <1>2, <1>f, <2>2 DEF CheckPath, Pending
    <3>2. Atomic!Update
      BY <1>2, <3>1 DEF Atomic!Update
    <3>3. Pending(p)'
      BY <1>2, <1>f, <2>2 DEF CheckPath, Pending
    <3>4. QED
      BY <3>2, <3>3
  <2>3. QED
    BY <2>1, <2>2
<1>g. CASE Remove(p)
  <2>1. path # Missing /\ path' = Missing /\ pc'[p] = "rename" /\ buf' = buf /\ req' = req
    BY <1>2, <1>3, <1>g DEF Remove, Alone
  <2>2. Visible' = Apply(req[p], Visible) /\ Visible' # Refused
    BY <1>1, <1>g, <2>1 DEF Remove, Pending
  <2>3. Atomic!Update
    BY <1>2, <2>2 DEF Atomic!Update
  <2>4. Pending(p)'
    BY <2>1 DEF Pending
  <2>5. QED
    BY <2>3, <2>4
<1>h. CASE Rename(p)
  <2>1. path = Missing /\ tmp = buf[p] /\ buf[p] # Missing
    BY <1>2, <1>3, <1>h, ValuesAssumption DEF Rename, Alone, Broken
  <2>2. path' = buf[p] /\ pc'[p] = "idle"
    BY <1>2, <1>h, <2>1 DEF Rename, Return
  <2>3. Visible' = Visible
    BY <1>1, <1>h, <2>1, <2>2 DEF Rename
  <2>4. Pending(p)'
    BY <2>2 DEF Pending
  <2>5. QED
    BY <2>3, <2>4
<1>i. CASE Abandon(p)
  <2>1. path' = path /\ pc'[p] = "idle" /\ MayAbandon
    BY <1>2, <1>3, <1>i DEF Abandon, Store, Alone, Return
  <2>2. Pending(p)'
    BY <2>1 DEF Pending
  <2>3. Visible' = Visible \/ Visible' = Default
    BY <1>1, <2>1
  <2>4. QED
    BY <1>i, <2>1, <2>2, <2>3 DEF Atomic!Lose
<1>j. QED
  BY <1>a, <1>b, <1>c, <1>d, <1>e, <1>f, <1>g, <1>h, <1>i DEF Step

\* The refinement mapping at the start ...
LEMMA RefineInit ==
    ASSUME NEW p, Procs = {p}, Init
    PROVE  SingleInv(p) /\ Pending(p) /\ Atomic!Init
<1>1. SingleInv(p)
  BY SingleInit
<1>2. Pending(p)
  BY DEF Init, Pending
<1>3. Visible = IF path = Missing THEN Default ELSE path
  BY <1>1, VisibleAlone DEF Init, At
<1>4. QED
  BY <1>1, <1>2, <1>3 DEF Init, Atomic!Init

\* ... and over a step, or a stutter.
LEMMA RefineStep ==
    ASSUME NEW p, Procs = {p}, SingleInv(p), Pending(p), [Next]_vars
    PROVE  /\ (SingleInv(p) /\ Pending(p))'
           /\ [Atomic!Update \/ (MayAbandon /\ Atomic!Lose /\ Abandon(p))]_Visible
<1>1. SingleInv(p)'
  BY SingleStep
<1>2. CASE Step(p)
  BY <1>1, <1>2, VisibleStep
<1>3. CASE UNCHANGED vars
  BY <1>1, <1>3 DEF vars, Pending, Visible, At
<1>4. QED
  BY <1>2, <1>3 DEF Next

\* With one writer whose calls run to their end, load, modify, write_atomic is
\* one indivisible update of the file.
THEOREM SingleImplementsAtomic ==
    ASSUME NEW p, Procs = {p}, ~MayAbandon
    PROVE  Spec => ImplementsAtomicFile
<1>1. Init => SingleInv(p) /\ Pending(p) /\ Atomic!Init
  BY RefineInit
<1>2. SingleInv(p) /\ Pending(p) /\ [Next]_vars
        => (SingleInv(p) /\ Pending(p))' /\ [Atomic!Update]_Visible
  BY RefineStep
<1>3. QED
  BY <1>1, <1>2, PTL DEF Spec, ImplementsAtomicFile, Atomic!Spec

\* With one writer the file is lost by a call that stops half-way, never by one
\* that runs to its end.
THEOREM SingleOnlyAbandonLoses ==
    ASSUME NEW p, Procs = {p}
    PROVE  Spec => OnlyAbandonLoses
<1>1. Init => SingleInv(p) /\ Pending(p)
  BY RefineInit
<1>2. SingleInv(p) /\ Pending(p) /\ [Next]_vars
        => /\ (SingleInv(p) /\ Pending(p))'
           /\ [Atomic!Update \/ LostByAbandon]_Visible
  BY RefineStep DEF LostByAbandon
<1>3. QED
  BY <1>1, <1>2, PTL DEF Spec, OnlyAbandonLoses
===============================================================================
