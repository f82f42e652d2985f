------------------------------- MODULE JsonFile -------------------------------
(***************************************************************************)
(* One JSON file of the configuration directory, as storage.rs reads and   *)
(* writes it.  Nothing locks the file: every thread of every onionchat     *)
(* process that uses the directory runs load, modify, write_atomic as the  *)
(* separate system calls below, and any two may interleave.                *)
(*                                                                         *)
(* A name (the file itself, or its .tmp sibling) holds Missing, Empty (just *)
(* truncated), Torn (bytes that do not parse) or a complete value.         *)
(* fs::write keeps its file open between truncating and writing it;        *)
(* fd[p] is the name that open file has by now, since a rename or a        *)
(* removal by another thread moves it (POSIX: the inode stays).            *)
(***************************************************************************)
CONSTANTS
    Procs,         \* threads of control that update the file
    Values,        \* what a complete file parses to
    Default,       \* the value of a file that does not exist
    Requests,      \* what a caller may ask
    Apply(_, _),   \* Apply(r, v): the value r saves when it loads v, or Refused
    Stored,        \* what the file may start as: values, or Missing
    Refused, Missing, Empty, Torn,
    MayAbandon     \* whether a call can stop half-way (I/O error, kill)

Broken == {Missing, Empty, Torn}

ASSUME ValuesAssumption ==
    /\ Default \in Values
    /\ Stored \subseteq Values \cup {Missing}
    /\ Refused \notin Values
    /\ \A c \in Broken : c \notin Values
    /\ Missing # Empty /\ Missing # Torn /\ Empty # Torn

ASSUME ApplyAssumption ==
    \A r \in Requests : \A v \in Values : Apply(r, v) \in Values \cup {Refused}

ASSUME MayAbandonAssumption == MayAbandon \in BOOLEAN

VARIABLES
    path,   \* content of the file
    tmp,    \* content of its .tmp sibling
    pc,     \* pc[p]: the next system call of p, or "idle"
    req,    \* req[p]: what p was last asked
    buf,    \* buf[p]: the value p is about to save
    fd      \* fd[p]: the name of the file p has open for writing, if any

vars == <<path, tmp, pc, req, buf, fd>>

Steps == {"idle", "exists", "read", "open", "write", "check", "remove", "rename"}
-------------------------------------------------------------------------------
Init ==
    /\ path \in Stored
    /\ tmp = Missing
    /\ pc = [p \in Procs |-> "idle"]
    /\ req \in [Procs -> Requests]
    /\ buf = [p \in Procs |-> Default]
    /\ fd = [p \in Procs |-> "closed"]

At(p, step) == pc[p] = step
Goto(p, step) == pc' = [pc EXCEPT ![p] = step]

\* The call returns, with Ok or with an error; what it had loaded is dropped.
Return(p) == Goto(p, "idle") /\ buf' = [buf EXCEPT ![p] = Default]

Begin(p) ==
    /\ At(p, "idle")
    /\ \E r \in Requests : req' = [req EXCEPT ![p] = r]
    /\ Goto(p, "exists")
    /\ UNCHANGED <<path, tmp, buf, fd>>

\* Mutant of Modify: what a refused request left behind is saved all the same.
ModifyUnchecked(p, v) == Goto(p, "open") /\ buf' = [buf EXCEPT ![p] = Apply(req[p], v)]

\* The caller has loaded v and modifies it in memory.
Modify(p, v) ==
    IF Apply(req[p], v) = Refused
    THEN Return(p)
    ELSE Goto(p, "open") /\ buf' = [buf EXCEPT ![p] = Apply(req[p], v)]

\* load_peer_book, load_group_book: a file that does not exist is the default.
Exists(p) ==
    /\ At(p, "exists")
    /\ IF path = Missing THEN Modify(p, Default)
                         ELSE Goto(p, "read") /\ UNCHANGED buf
    /\ UNCHANGED <<path, tmp, req, fd>>

\* read_json: fails when the file has gone by now, or does not parse.
Read(p) ==
    /\ At(p, "read")
    /\ IF path \in Broken THEN Return(p) ELSE Modify(p, path)
    /\ UNCHANGED <<path, tmp, req, fd>>

\* Mutant of Open: the file itself is truncated and written in place.
OpenInPlace(p) ==
    /\ At(p, "open")
    /\ path' = Empty
    /\ fd' = [fd EXCEPT ![p] = "path"]
    /\ Goto(p, "write")
    /\ UNCHANGED <<tmp, req, buf>>

\* Mutant of Open: the old file is removed before the new one is written.
OpenAfterRemove(p) ==
    /\ At(p, "open")
    /\ path' = Missing
    /\ tmp' = Empty
    /\ fd' = [fd EXCEPT ![p] = "tmp"]
    /\ Goto(p, "write")
    /\ UNCHANGED <<req, buf>>

\* fs::write opens the .tmp sibling, creating or truncating it.
Open(p) ==
    /\ At(p, "open")
    /\ tmp' = Empty
    /\ fd' = [fd EXCEPT ![p] = "tmp"]
    /\ Goto(p, "write")
    /\ UNCHANGED <<path, req, buf>>

\* Bytes written over what another thread wrote to the same file after the
\* truncation may leave a tail of the longer text.
Over(old, new) == IF old \in {Empty, new} THEN {new} ELSE {new, Torn}

\* The file p has open gets one of the contents in the sets, wherever it is now.
Store(p, inTmp, inPath) ==
    /\ tmp' \in IF fd[p] = "tmp" THEN inTmp ELSE {tmp}
    /\ path' \in IF fd[p] = "path" THEN inPath ELSE {path}

Write(p) ==
    /\ At(p, "write")
    /\ Store(p, Over(tmp, buf[p]), Over(path, buf[p]))
    /\ fd' = [fd EXCEPT ![p] = "closed"]
    /\ Goto(p, "check")
    /\ UNCHANGED <<req, buf>>

\* write_atomic: if path.exists()
CheckPath(p) ==
    /\ At(p, "check")
    /\ Goto(p, IF path = Missing THEN "rename" ELSE "remove")
    /\ UNCHANGED <<path, tmp, req, buf, fd>>

\* Open files follow their inode: what had the name path has no name any more.
Moved(old) == IF old = "path" THEN "unlinked" ELSE old
MovedUp(old) == IF old = "tmp" THEN "path" ELSE Moved(old)

\* Mutant of Remove: the call returns without the rename.
RemoveOnly(p) ==
    /\ At(p, "remove")
    /\ path' = Missing
    /\ fd' = [q \in Procs |-> Moved(fd[q])]
    /\ Return(p)
    /\ UNCHANGED <<tmp, req>>

Remove(p) ==
    /\ At(p, "remove")
    /\ path' = Missing
    /\ fd' = [q \in Procs |-> Moved(fd[q])]
    /\ IF path = Missing THEN Return(p)
                         ELSE Goto(p, "rename") /\ UNCHANGED buf
    /\ UNCHANGED <<tmp, req>>

Rename(p) ==
    /\ At(p, "rename")
    /\ IF tmp = Missing
       THEN UNCHANGED <<path, tmp, fd>>
       ELSE /\ path' = tmp
            /\ tmp' = Missing
            /\ fd' = [q \in Procs |-> MovedUp(fd[q])]
    /\ Return(p)
    /\ UNCHANGED req

\* A system call fails, or the process is killed: the call ends here.  A write
\* may have put part of its bytes into the file.
Abandon(p) ==
    /\ MayAbandon
    /\ ~At(p, "idle")
    /\ Store(p, {tmp, Torn}, {path, Torn})
    /\ fd' = [fd EXCEPT ![p] = "closed"]
    /\ Return(p)
    /\ UNCHANGED req

Step(p) ==
    \/ Begin(p) \/ Exists(p) \/ Read(p) \/ Open(p) \/ Write(p)
    \/ CheckPath(p) \/ Remove(p) \/ Rename(p) \/ Abandon(p)

Next == \E p \in Procs : Step(p)

Spec == Init /\ [][Next]_vars
-------------------------------------------------------------------------------
\* Every variable has its type; a complete file holds a value of Values.
TypeOK ==
    /\ path \in Values \cup Broken
    /\ tmp \in Values \cup Broken
    /\ pc \in [Procs -> Steps]
    /\ req \in [Procs -> Requests]
    /\ buf \in [Procs -> Values]
    /\ fd \in [Procs -> {"closed", "tmp", "path", "unlinked"}]

\* A file never holds bytes that do not parse, on which every later command
\* would fail in read_json.
NeverTorn == path \notin {Empty, Torn}

HasCopy == path \notin Broken \/ tmp \notin Broken

CopyKept == HasCopy => HasCopy' \/ (path = Missing /\ \E p \in Procs : Open(p))

\* A complete copy survives each system call of write_atomic, as the file or as
\* its .tmp sibling, also when the call fails or the process is killed; only a
\* save that found no file to start from truncates the last one.
CopySurvives == [][CopyKept]_vars

\* What the next load of an idle file returns, counting a save that has removed
\* the old file and will rename the new one as done.
Visible ==
    IF path \notin Broken THEN path
    ELSE IF (\E p \in Procs : At(p, "rename")) /\ tmp \notin Broken THEN tmp
    ELSE Default

Atomic == INSTANCE AtomicFile WITH
    value <- Visible,
    Initial <- {IF v = Missing THEN Default ELSE v : v \in Stored}

\* With one writer at a time load, modify, write_atomic is one indivisible
\* update of the file, as AtomicFile says.
ImplementsAtomicFile == Atomic!Spec

LostByAbandon == Atomic!Lose /\ \E p \in Procs : Abandon(p)

\* The file is lost by a call that stops half-way and by no other: a load,
\* modify, write_atomic that runs to its end is an update of what the file held.
OnlyAbandonLoses == [][Atomic!Update \/ LostByAbandon]_Visible
===============================================================================
