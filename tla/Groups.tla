-------------------------------- MODULE Groups --------------------------------
(***************************************************************************)
(* Private groups.  Each user keeps a book of groups, groups.json; the     *)
(* owner of a group changes its members and exports it as a signed file,   *)
(* which the members import.  There is no server: a copy moves on only     *)
(* when its user imports a file with a higher revision.                    *)
(*                                                                         *)
(* A command loads the book and saves a changed one; two commands of one   *)
(* user may overlap.  The save itself is one step here: JsonFile says when *)
(* that is true, and Lose is what it says can go wrong with one writer.    *)
(***************************************************************************)
EXTENDS PeerBook, Naturals

CONSTANTS
    GroupIds,      \* random ids: a new group takes one that nobody uses
    Procs,         \* command processes each user runs at the same time
    Signing,       \* Signing[n]: the signing key of n's identity
    Contacts,      \* Contacts[n]: n's peer book
    Old,           \* Old[n]: n's groups of a version without owners
    NoGroup,       \* the book has no group of that id
    Closed,        \* the process has no book loaded
    Losers,        \* users whose save may be stopped half-way
    MaxRevision    \* bound: updates

\* GroupRecord; the name, which decides nothing, is left out.
GroupRecord ==
    [members : SUBSET Onions, owner : Onions \cup {None},
     key : Keys \cup {None}, revision : Nat]

\* GroupBook.groups is a vector with one record for each id.
GroupBooks == [GroupIds -> GroupRecord \cup {NoGroup}]

EmptyGroups == [g \in GroupIds |-> NoGroup]

\* GroupInviteFile: the group as it was exported, and who signed it.
GroupInviteFile == [group : GroupIds, record : GroupRecord, signer : Keys]

ASSUME SigningAssumption == Signing \in [Onions -> Keys]

ASSUME GroupContactsAssumption == Contacts \in [Onions -> Books]

ASSUME OldAssumption ==
    /\ Old \in [Onions -> GroupBooks]
    /\ \A n \in Onions, g \in GroupIds :
        Old[n][g] # NoGroup => Old[n][g].owner = None /\ Old[n][g].key = None

ASSUME AbsentAssumption ==
    /\ None \notin Onions
    /\ NoGroup \notin GroupRecord
    /\ Closed \notin GroupBooks

ASSUME BoundsAssumption == Losers \subseteq Onions /\ MaxRevision \in Nat

VARIABLES
    groups,    \* groups[n]: n's groups.json
    loaded,    \* loaded[n][p]: the book a command of n has loaded, if any
    files      \* the group files in circulation

vars == <<groups, loaded, files>>

Init ==
    /\ groups = Old
    /\ loaded = [n \in Onions |-> [p \in Procs |-> Closed]]
    /\ files = {}
-------------------------------------------------------------------------------
Load(n, p) ==
    /\ loaded[n][p] = Closed
    /\ loaded' = [loaded EXCEPT ![n][p] = groups[n]]
    /\ UNCHANGED <<groups, files>>

Running(n, p) == loaded[n][p] # Closed

Finish(n, p) == loaded' = [loaded EXCEPT ![n][p] = Closed]

\* A book that was loaded is saved with record r for group g.
Save(n, book, g, r) == groups' = [groups EXCEPT ![n] = [book EXCEPT ![g] = r]]

\* list_groups, show_group, send_group_message; any error; or a kill.
SaveNothing(n, p) ==
    /\ Running(n, p)
    /\ Finish(n, p)
    /\ UNCHANGED <<groups, files>>

\* A save that was killed half-way: the next load finds no file.
Lose(n) ==
    /\ n \in Losers
    /\ groups' = [groups EXCEPT ![n] = EmptyGroups]
    /\ UNCHANGED <<loaded, files>>

\* Whom a command of n accepts as members.
Peers(n) == {m \in Onions : Contacts[n][m] # NoPeer}

Unused(g) ==
    /\ \A n \in Onions : groups[n][g] = NoGroup
    /\ \A n \in Onions, p \in Procs : Running(n, p) => loaded[n][p][g] = NoGroup
    /\ \A f \in files : f.group # g

\* Mutant of Creates: the owner and the key, both strings, change places.
CreatesSwapped(n, book) ==
    /\ \E g \in GroupIds, ms \in (SUBSET Peers(n)) \ {{}} :
        /\ Unused(g)
        /\ Save(n, book, g,
            [members |-> ms \cup {n}, owner |-> Signing[n], key |-> n, revision |-> 1])
    /\ UNCHANGED files

\* create_group, with the book it has loaded.
Creates(n, book) ==
    /\ \E g \in GroupIds, ms \in (SUBSET Peers(n)) \ {{}} :
        /\ Unused(g)
        /\ Save(n, book, g,
            [members |-> ms \cup {n}, owner |-> n, key |-> Signing[n], revision |-> 1])
    /\ UNCHANGED files

\* Mutant of Adopted: who exports or updates a group becomes its owner.
AdoptedAlways(n, r) ==
    [r EXCEPT !.owner = n, !.key = Signing[n], !.members = @ \cup {n}]

\* Mutant of Adopted: the owner is not added to the members.
AdoptedAbsent(n, r) ==
    IF r.owner # None THEN r
    ELSE [r EXCEPT !.owner = n, !.key = Signing[n], !.revision = IF @ = 0 THEN 1 ELSE @]

\* A group of an older version, which has no owner, becomes that of who exports
\* or updates it.
Adopted(n, r) ==
    IF r.owner # None THEN r
    ELSE [r EXCEPT !.owner = n, !.key = Signing[n], !.members = @ \cup {n},
                   !.revision = IF @ = 0 THEN 1 ELSE @]

\* Mutant of Updates: the revision stays.
UpdatesSameRevision(n, book) ==
    /\ \E g \in GroupIds, ms \in SUBSET Peers(n) :
        /\ book[g] # NoGroup
        /\ LET r == Adopted(n, book[g])
           IN  /\ r.owner = n
               /\ Save(n, book, g, [r EXCEPT !.members = ms \cup {n}])
    /\ UNCHANGED files

\* update_group_members: the list, which may be empty here, is replaced.
Updates(n, book) ==
    /\ \E g \in GroupIds, ms \in SUBSET Peers(n) :
        /\ book[g] # NoGroup
        /\ LET r == Adopted(n, book[g])
           IN  /\ r.owner = n
               /\ r.revision < MaxRevision
               /\ Save(n, book, g, [r EXCEPT !.members = ms \cup {n}, !.revision = @ + 1])
    /\ UNCHANGED files

\* Mutant of Exports: whoever has the group may export it.
ExportsUnchecked(n, book) ==
    \E g \in GroupIds :
        /\ book[g] # NoGroup
        /\ LET r == Adopted(n, book[g])
           IN  /\ Save(n, book, g, r)
               /\ files' = files \cup {[group |-> g, record |-> r, signer |-> Signing[n]]}

\* export_group: the book is saved, then the file written, unless the process
\* stops between.
Exports(n, book) ==
    \E g \in GroupIds :
        /\ book[g] # NoGroup
        /\ LET r == Adopted(n, book[g])
           IN  /\ r.owner = n
               /\ Save(n, book, g, r)
               /\ \/ files' = files \cup {[group |-> g, record |-> r, signer |-> Signing[n]]}
                  \/ UNCHANGED files

\* verify_group_invite
Valid(f) ==
    /\ f.record.revision # 0
    /\ f.record.owner \in f.record.members
    /\ f.record.key = f.signer

\* The owner's key is the one n knows for them, if any.
OwnerKnown(n, f) == SigningKey(Contacts[n], f.record.owner) \in {None, f.record.key}

\* Mutant of Newer: the revision is not compared.
NewerAlways(old, new) == TRUE

Newer(old, new) == old # NoGroup => new.revision > old.revision

SameOwner(old, new) ==
    old # NoGroup => old.owner \in {None, new.owner} /\ old.key \in {None, new.key}

\* What import_group checks before it saves the file's record.
Importable(n, book, f) ==
    /\ Valid(f)
    /\ OwnerKnown(n, f)
    /\ SameOwner(book[f.group], f.record)
    /\ Newer(book[f.group], f.record)

Imports(n, book) ==
    /\ \E f \in files : Importable(n, book, f) /\ Save(n, book, f.group, f.record)
    /\ UNCHANGED files

\* A command that changes the book does so to what it has loaded.
CreateGroup(n, p) == Running(n, p) /\ Creates(n, loaded[n][p]) /\ Finish(n, p)

UpdateGroupMembers(n, p) == Running(n, p) /\ Updates(n, loaded[n][p]) /\ Finish(n, p)

ExportGroup(n, p) == Running(n, p) /\ Exports(n, loaded[n][p]) /\ Finish(n, p)

ImportGroup(n, p) == Running(n, p) /\ Imports(n, loaded[n][p]) /\ Finish(n, p)

Command(n, p) ==
    \/ Load(n, p) \/ SaveNothing(n, p) \/ CreateGroup(n, p)
    \/ UpdateGroupMembers(n, p) \/ ExportGroup(n, p) \/ ImportGroup(n, p)

Next == \E n \in Onions : Lose(n) \/ \E p \in Procs : Command(n, p)

Spec == Init /\ [][Next]_vars
-------------------------------------------------------------------------------
\* Every variable has its type.
TypeOK ==
    /\ groups \in [Onions -> GroupBooks]
    /\ loaded \in [Onions -> [Procs -> GroupBooks \cup {Closed}]]
    /\ files \subseteq GroupInviteFile

\* What the users hold or pass on of group g, with an owner.
Records(g) ==
    {r \in {groups[n][g] : n \in Onions} \cup {f.record : f \in {h \in files : h.group = g}} :
        r # NoGroup /\ r.owner # None}

\* A group has one owner for everybody, with one key, whatever commands overlap
\* and whatever books are lost (export_group, update_group_members and
\* import_group guard the owner in different ways).
OneOwner ==
    \A g \in GroupIds : \A r, s \in Records(g) : r.owner = s.owner /\ r.key = s.key

\* Whatever is exported passes verify_group_invite at those who import it, also
\* when the group is one of an older version.
ExportsVerify == \A f \in files : Valid(f)

\* Who agree on the revision of a group agree on its members.
Agreement ==
    \A g \in GroupIds : \A r, s \in Records(g) : r.revision = s.revision => r = s

\* A copy changes only to a higher revision, except that it gets an owner, or is
\* lost with the whole book.
NeverBack ==
    [][\A n \in Onions, g \in GroupIds :
        LET old == groups[n][g]
            new == groups'[n][g]
        IN  \/ new = old
            \/ old = NoGroup
            \/ groups'[n] = EmptyGroups
            \/ /\ new # NoGroup
               /\ \/ new.revision > old.revision
                  \/ old.owner = None /\ new.revision = old.revision]_vars

\* "The owner can export a signed group definition and members can import it":
\* what the owner has exported and not changed since, every member has or can
\* import now.
LatestIsImportable ==
    \A f \in files : \A m \in f.record.members \ {f.record.owner} :
        groups[f.record.owner][f.group] = f.record =>
            groups[m][f.group] = f.record \/ Importable(m, groups[m], f)

\* "group requires at least one peer"
RequiresPeer ==
    \A n \in Onions, g \in GroupIds :
        groups[n][g] # NoGroup /\ groups[n][g].owner = n => groups[n][g].members # {n}
===============================================================================
