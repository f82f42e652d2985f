----------------------------- MODULE GroupsProofs -----------------------------
(***************************************************************************)
(* Groups for any users, commands that overlap in any way, and books that  *)
(* are lost: types, what is exported verifies, and a group has one owner.  *)
(***************************************************************************)
EXTENDS Groups, TLAPS

\* What a command of n writes as its record of g.
Created(n, r) ==
    /\ n \in r.members /\ r.members \subseteq Onions
    /\ r = [members |-> r.members, owner |-> n, key |-> Signing[n], revision |-> 1]

Changed(n, old, r) ==
    /\ old # NoGroup
    /\ Adopted(n, old).owner = n
    /\ \/ r = Adopted(n, old)
       \/ \E ms \in SUBSET Onions :
            r = [Adopted(n, old) EXCEPT !.members = ms \cup {n}, !.revision = @ + 1]

Taken(g, r) == \E f \in files : f.group = g /\ f.record = r /\ Valid(f)

Saved(n, p, g, r) ==
    /\ Running(n, p)
    /\ \/ Created(n, r) /\ Unused(g) /\ Peers(n) # {}
       \/ Changed(n, loaded[n][p][g], r)
       \/ Taken(g, r) /\ Newer(loaded[n][p][g], r)

\* A group that gets an owner keeps the type of a record.
LEMMA AdoptedType ==
    ASSUME NEW n \in Onions, NEW r \in GroupRecord
    PROVE  Adopted(n, r) \in GroupRecord
BY SigningAssumption DEF Adopted, GroupRecord

\* An update keeps the type of a record.
LEMMA RaisedType ==
    ASSUME NEW a \in GroupRecord, NEW ms \in SUBSET Onions, NEW n \in Onions
    PROVE  [a EXCEPT !.members = ms \cup {n}, !.revision = @ + 1] \in GroupRecord
<1>1. ms \cup {n} \in SUBSET Onions /\ a.revision + 1 \in Nat
  BY DEF GroupRecord
<1>2. QED
  BY <1>1 DEF GroupRecord

\* Every way in which a step changes a book on disk: not at all, it is lost, or
\* a command saves what it had loaded, with a new record.
LEMMA BookStep ==
    ASSUME TypeOK, [Next]_vars, NEW n \in Onions
    PROVE  \/ groups'[n] = groups[n]
           \/ n \in Losers /\ groups'[n] = EmptyGroups
           \/ \E p \in Procs, g \in GroupIds, r \in GroupRecord :
                Saved(n, p, g, r) /\ groups'[n] = [loaded[n][p] EXCEPT ![g] = r]
<1> USE DEF TypeOK
<1>1. ASSUME NEW u \in Onions, NEW p \in Procs, CreateGroup(u, p), u = n
      PROVE  \E g \in GroupIds, r \in GroupRecord :
                Saved(n, p, g, r) /\ groups'[n] = [loaded[n][p] EXCEPT ![g] = r]
  <2> PICK g \in GroupIds, ms \in (SUBSET Peers(n)) \ {{}} :
        /\ Unused(g)
        /\ Save(n, loaded[n][p], g,
            [members |-> ms \cup {n}, owner |-> n, key |-> Signing[n], revision |-> 1])
    BY <1>1 DEF CreateGroup, Creates
  <2> DEFINE r == [members |-> ms \cup {n}, owner |-> n, key |-> Signing[n], revision |-> 1]
  <2>1. r \in GroupRecord /\ Created(n, r)
    BY SigningAssumption DEF Peers, GroupRecord, Created
  <2>2. Running(n, p) /\ Peers(n) # {}
    <3>1. ms # {} /\ ms \subseteq Peers(n)
      OBVIOUS
    <3>2. Peers(n) # {}
      BY <3>1
    <3>3. QED
      BY <1>1, <3>2 DEF CreateGroup
  <2>3. groups'[n] = [loaded[n][p] EXCEPT ![g] = r]
    BY DEF Save
  <2> HIDE DEF r
  <2>4. QED
    BY <2>1, <2>2, <2>3 DEF Saved
<1>2. ASSUME NEW u \in Onions, NEW p \in Procs, NEW g \in GroupIds, u = n, Running(n, p),
             loaded[n][p][g] # NoGroup
      PROVE  Adopted(n, loaded[n][p][g]) \in GroupRecord
  BY <1>2, AdoptedType DEF Running, GroupBooks
<1>3. ASSUME NEW u \in Onions, NEW p \in Procs, UpdateGroupMembers(u, p), u = n
      PROVE  \E g \in GroupIds, r \in GroupRecord :
                Saved(n, p, g, r) /\ groups'[n] = [loaded[n][p] EXCEPT ![g] = r]
  <2> PICK g \in GroupIds, ms \in SUBSET Peers(n) :
        /\ loaded[n][p][g] # NoGroup
        /\ Adopted(n, loaded[n][p][g]).owner = n
        /\ Save(n, loaded[n][p], g, [Adopted(n, loaded[n][p][g]) EXCEPT
                            !.members = ms \cup {n}, !.revision = @ + 1])
    BY <1>3 DEF UpdateGroupMembers, Updates
  <2> DEFINE a == Adopted(n, loaded[n][p][g])
             r == [a EXCEPT !.members = ms \cup {n}, !.revision = @ + 1]
  <2>1. Running(n, p)
    BY <1>3 DEF UpdateGroupMembers
  <2>2. a \in GroupRecord /\ ms \in SUBSET Onions
    BY <1>2, <1>3, <2>1 DEF Peers
  <2>3. Changed(n, loaded[n][p][g], r)
    BY <2>2 DEF Changed
  <2>4. groups'[n] = [loaded[n][p] EXCEPT ![g] = r]
    BY DEF Save
  <2>5. r \in GroupRecord
    BY <2>2, RaisedType
  <2> HIDE DEF r
  <2>6. QED
    BY <2>1, <2>3, <2>4, <2>5 DEF Saved
<1>4. ASSUME NEW u \in Onions, NEW p \in Procs, ExportGroup(u, p), u = n
      PROVE  \E g \in GroupIds, r \in GroupRecord :
                Saved(n, p, g, r) /\ groups'[n] = [loaded[n][p] EXCEPT ![g] = r]
  <2> PICK g \in GroupIds :
        /\ loaded[n][p][g] # NoGroup
        /\ Adopted(n, loaded[n][p][g]).owner = n
        /\ Save(n, loaded[n][p], g, Adopted(n, loaded[n][p][g]))
    BY <1>4 DEF ExportGroup, Exports
  <2> DEFINE r == Adopted(n, loaded[n][p][g])
  <2>1. Running(n, p)
    BY <1>4 DEF ExportGroup
  <2>2. r \in GroupRecord
    BY <1>2, <1>4, <2>1
  <2>3. Changed(n, loaded[n][p][g], r)
    BY DEF Changed
  <2>4. groups'[n] = [loaded[n][p] EXCEPT ![g] = r]
    BY DEF Save
  <2> HIDE DEF r
  <2>5. QED
    BY <2>1, <2>2, <2>3, <2>4 DEF Saved
<1>5. ASSUME NEW u \in Onions, NEW p \in Procs, ImportGroup(u, p), u = n
      PROVE  \E g \in GroupIds, r \in GroupRecord :
                Saved(n, p, g, r) /\ groups'[n] = [loaded[n][p] EXCEPT ![g] = r]
  <2> PICK f \in files : Importable(n, loaded[n][p], f) /\ Save(n, loaded[n][p], f.group, f.record)
    BY <1>5 DEF ImportGroup, Imports
  <2>1. Running(n, p)
    BY <1>5 DEF ImportGroup
  <2>2. f.group \in GroupIds /\ f.record \in GroupRecord
    BY DEF GroupInviteFile
  <2>3. Saved(n, p, f.group, f.record)
    BY <2>1 DEF Saved, Taken, Importable
  <2>4. groups'[n] = [loaded[n][p] EXCEPT ![f.group] = f.record]
    BY DEF Save
  <2>5. QED
    BY <2>2, <2>3, <2>4
<1>6. ASSUME NEW u \in Onions, NEW p \in Procs,
             \/ CreateGroup(u, p) \/ UpdateGroupMembers(u, p)
             \/ ExportGroup(u, p) \/ ImportGroup(u, p),
             u # n
      PROVE  groups'[n] = groups[n]
  BY <1>6 DEF CreateGroup, Creates, UpdateGroupMembers, Updates, ExportGroup, Exports,
     ImportGroup, Imports, Save
<1>7. ASSUME NEW u \in Onions, NEW p \in Procs, Load(u, p) \/ SaveNothing(u, p)
      PROVE  groups'[n] = groups[n]
  BY <1>7 DEF Load, SaveNothing
<1>8. ASSUME NEW u \in Onions, Lose(u)
      PROVE  groups'[n] = groups[n] \/ (n \in Losers /\ groups'[n] = EmptyGroups)
  BY <1>8 DEF Lose
<1>9. CASE UNCHANGED vars
  BY <1>9 DEF vars
<1>10. QED
  BY <1>1, <1>3, <1>4, <1>5, <1>6, <1>7, <1>8, <1>9 DEF Next, Command

\* A command has loaded what the file holds, or what it had loaded before.
LEMMA LoadedStep ==
    ASSUME TypeOK, [Next]_vars, NEW n \in Onions, NEW p \in Procs
    PROVE  loaded'[n][p] \in {loaded[n][p], groups[n], Closed}
<1> USE DEF TypeOK
<1>1. ASSUME NEW u \in Onions, NEW q \in Procs, Finish(u, q)
      PROVE  loaded'[n][p] \in {loaded[n][p], Closed}
  BY <1>1 DEF Finish
<1>2. ASSUME NEW u \in Onions, NEW q \in Procs, Load(u, q)
      PROVE  loaded'[n][p] \in {loaded[n][p], groups[n]}
  BY <1>2 DEF Load
<1>3. ASSUME NEW u \in Onions, NEW q \in Procs, Command(u, q), ~Load(u, q)
      PROVE  Finish(u, q)
  BY <1>3 DEF Command, SaveNothing, CreateGroup, UpdateGroupMembers, ExportGroup, ImportGroup
<1>4. ASSUME (\E u \in Onions : Lose(u)) \/ UNCHANGED vars
      PROVE  loaded'[n][p] \in {loaded[n][p], groups[n], Closed}
  <2>1. loaded' = loaded
    BY <1>4 DEF Lose, vars
  <2>2. QED
    BY <2>1
<1>5. ASSUME NEW u \in Onions, NEW q \in Procs, Command(u, q)
      PROVE  loaded'[n][p] \in {loaded[n][p], groups[n], Closed}
  BY <1>1, <1>2, <1>3, <1>5
<1>6. QED
  BY <1>4, <1>5 DEF Next

\* A new file holds what its exporter has saved as the owner.
LEMMA FileStep ==
    ASSUME TypeOK, [Next]_vars, NEW f \in files', f \notin files
    PROVE  \E n \in Onions, p \in Procs, g \in GroupIds :
            /\ Running(n, p)
            /\ loaded[n][p][g] # NoGroup
            /\ Adopted(n, loaded[n][p][g]).owner = n
            /\ f = [group |-> g, record |-> Adopted(n, loaded[n][p][g]), signer |-> Signing[n]]
            /\ groups' = [groups EXCEPT ![n] =
                    [loaded[n][p] EXCEPT ![g] = Adopted(n, loaded[n][p][g])]]
<1>1. ASSUME NEW n \in Onions, NEW p \in Procs, Command(n, p), ~ExportGroup(n, p)
      PROVE  files' = files
  BY <1>1 DEF Command, Load, SaveNothing, CreateGroup, Creates, UpdateGroupMembers, Updates,
     ImportGroup, Imports
<1>2. ASSUME (\E n \in Onions : Lose(n)) \/ UNCHANGED vars
      PROVE  files' = files
  BY <1>2 DEF Lose, vars
<1>3. PICK n \in Onions, p \in Procs : ExportGroup(n, p)
  BY <1>1, <1>2 DEF Next
<1>4. QED
  BY <1>3 DEF ExportGroup, Exports, Save
-------------------------------------------------------------------------------
(* Types. *)

\* A step changes the book of one user at most, and what one command has loaded.
LEMMA ShapeStep ==
    ASSUME TypeOK, [Next]_vars
    PROVE  /\ \/ groups' = groups
              \/ \E n \in Onions : groups' = [groups EXCEPT ![n] = groups'[n]]
           /\ \/ loaded' = loaded
              \/ \E n \in Onions, p \in Procs :
                    loaded' = [loaded EXCEPT ![n][p] = loaded'[n][p]]
<1> USE DEF TypeOK
<1>1. ASSUME NEW n \in Onions, NEW p \in Procs, NEW g, NEW r, Save(n, loaded[n][p], g, r)
      PROVE  groups' = [groups EXCEPT ![n] = groups'[n]]
  BY <1>1 DEF Save
<1>2. ASSUME NEW n \in Onions, NEW p \in Procs, Finish(n, p)
      PROVE  loaded' = [loaded EXCEPT ![n][p] = loaded'[n][p]]
  BY <1>2 DEF Finish
<1>3. ASSUME NEW n \in Onions, NEW p \in Procs, Load(n, p)
      PROVE  /\ groups' = groups
             /\ loaded' = [loaded EXCEPT ![n][p] = loaded'[n][p]]
  BY <1>3 DEF Load
<1>4. ASSUME NEW n \in Onions, NEW p \in Procs, Command(n, p), ~Load(n, p)
      PROVE  /\ groups' = groups \/ groups' = [groups EXCEPT ![n] = groups'[n]]
             /\ Finish(n, p)
  <2>1. CASE SaveNothing(n, p)
    BY <2>1 DEF SaveNothing
  <2>2. CASE \/ CreateGroup(n, p) \/ UpdateGroupMembers(n, p)
             \/ ExportGroup(n, p) \/ ImportGroup(n, p)
    <3>1. /\ \E g, r : Save(n, loaded[n][p], g, r)
          /\ Finish(n, p)
      BY <2>2 DEF CreateGroup, Creates, UpdateGroupMembers, Updates, ExportGroup, Exports,
         ImportGroup, Imports
    <3>2. QED
      BY <1>1, <3>1
  <2>3. QED
    BY <1>4, <2>1, <2>2 DEF Command
<1>5. ASSUME NEW n \in Onions, Lose(n)
      PROVE  groups' = [groups EXCEPT ![n] = groups'[n]] /\ loaded' = loaded
  BY <1>5 DEF Lose
<1>6. CASE UNCHANGED vars
  BY <1>6 DEF vars
<1>7. CASE \E n \in Onions, p \in Procs : Command(n, p)
  BY <1>2, <1>3, <1>4, <1>7
<1>8. QED
  BY <1>5, <1>6, <1>7 DEF Next

\* Every step keeps the types.
LEMMA TypeStep ==
    ASSUME TypeOK, [Next]_vars
    PROVE  TypeOK'
<1>1. groups' \in [Onions -> GroupBooks]
  <2>1. ASSUME NEW n \in Onions
        PROVE  groups'[n] \in GroupBooks
    <3>1. ASSUME NEW p \in Procs, NEW g \in GroupIds, NEW r \in GroupRecord, Running(n, p)
          PROVE  [loaded[n][p] EXCEPT ![g] = r] \in GroupBooks
      BY <3>1 DEF TypeOK, Running, GroupBooks
    <3>2. EmptyGroups \in GroupBooks
      BY DEF EmptyGroups, GroupBooks
    <3>3. groups[n] \in GroupBooks
      BY DEF TypeOK
    <3>4. CASE \E p \in Procs, g \in GroupIds, r \in GroupRecord :
                Saved(n, p, g, r) /\ groups'[n] = [loaded[n][p] EXCEPT ![g] = r]
      <4> PICK p \in Procs, g \in GroupIds, r \in GroupRecord :
            Saved(n, p, g, r) /\ groups'[n] = [loaded[n][p] EXCEPT ![g] = r]
        BY <3>4
      <4>1. Running(n, p)
        BY DEF Saved
      <4>2. QED
        BY <3>1, <4>1
    <3>5. QED
      BY <3>2, <3>3, <3>4, BookStep
  <2>2. QED
    BY <2>1, ShapeStep DEF TypeOK
<1>2. loaded' \in [Onions -> [Procs -> GroupBooks \cup {Closed}]]
  <2>1. ASSUME NEW n \in Onions, NEW p \in Procs
        PROVE  loaded'[n][p] \in GroupBooks \cup {Closed}
    BY LoadedStep DEF TypeOK
  <2>2. QED
    BY <2>1, ShapeStep DEF TypeOK
<1>3. files' \subseteq GroupInviteFile
  <2> SUFFICES ASSUME NEW f \in files', f \notin files
               PROVE  f \in GroupInviteFile
    BY DEF TypeOK
  <2> PICK n \in Onions, p \in Procs, g \in GroupIds :
        /\ Running(n, p)
        /\ loaded[n][p][g] # NoGroup
        /\ f = [group |-> g, record |-> Adopted(n, loaded[n][p][g]), signer |-> Signing[n]]
    BY FileStep
  <2>1. Adopted(n, loaded[n][p][g]) \in GroupRecord
    BY AdoptedType DEF TypeOK, Running, GroupBooks
  <2>2. QED
    BY <2>1, SigningAssumption DEF GroupInviteFile
<1>4. QED
  BY <1>1, <1>2, <1>3 DEF TypeOK

\* Books, loaded books and files keep their types, whatever commands overlap.
THEOREM TypeCorrect == Spec => []TypeOK
<1>1. Init => TypeOK
  BY OldAssumption DEF Init, TypeOK
<1>2. TypeOK /\ [Next]_vars => TypeOK'
  BY TypeStep
<1>3. QED
  BY <1>1, <1>2, PTL DEF Spec
-------------------------------------------------------------------------------
(* What is exported verifies, and a group has one owner. *)

\* A group with an owner has them among its members and carries their key.
WellFormed(r) ==
    r # NoGroup /\ r.owner # None =>
        r.owner \in r.members /\ r.revision # 0 /\ r.key = Signing[r.owner]

\* The books of n, on disk and loaded.
Held(n) == {groups[n]} \cup {loaded[n][p] : p \in {q \in Procs : Running(n, q)}}

BooksWellFormed ==
    \A n \in Onions : \A b \in Held(n) : \A g \in GroupIds : WellFormed(b[g])

FilesWellFormed ==
    \A f \in files :
        f.record.owner \in Onions /\ WellFormed(f.record) /\ f.signer = f.record.key

ExportInv == TypeOK /\ BooksWellFormed /\ FilesWellFormed

\* What a command saves for a group is well-formed.
LEMMA SavedWellFormed ==
    ASSUME ExportInv, NEW n \in Onions, NEW p \in Procs, NEW g \in GroupIds,
           NEW r \in GroupRecord, Saved(n, p, g, r)
    PROVE  WellFormed(r) /\ r.owner \in Onions
<1> DEFINE old == loaded[n][p][g]
<1>1. CASE Created(n, r)
  BY <1>1 DEF Created, WellFormed
<1>2. CASE Changed(n, old, r)
  <2>1. old \in GroupRecord /\ WellFormed(old)
    <3>1. loaded[n][p] \in GroupBooks /\ loaded[n][p] \in Held(n)
      BY DEF Saved, ExportInv, TypeOK, Running, Held
    <3>2. WellFormed(old)
      BY <3>1 DEF ExportInv, BooksWellFormed
    <3>3. QED
      BY <1>2, <3>1, <3>2 DEF Changed, GroupBooks
  <2> HIDE DEF old
  <2>2. Adopted(n, old) \in GroupRecord /\ Adopted(n, old).owner = n
    BY <1>2, <2>1, AdoptedType DEF Changed
  <2>3. WellFormed(Adopted(n, old))
    <3>1. CASE old.owner # None
      BY <2>1, <3>1 DEF Adopted
    <3>2. CASE old.owner = None
      <4>1. /\ Adopted(n, old).members = old.members \cup {n}
            /\ Adopted(n, old).key = Signing[n]
            /\ Adopted(n, old).revision = IF old.revision = 0 THEN 1 ELSE old.revision
        BY <2>1, <3>2 DEF Adopted, GroupRecord
      <4>2. QED
        BY <2>2, <4>1 DEF WellFormed
    <3>3. QED
      BY <3>1, <3>2
  <2> DEFINE a == Adopted(n, old)
  <2> HIDE DEF a
  <2>4. a \in GroupRecord /\ a.owner = n /\ WellFormed(a)
    BY <2>2, <2>3 DEF a
  <2>5. r = a \/ \E ms \in SUBSET Onions :
                    r = [a EXCEPT !.members = ms \cup {n}, !.revision = @ + 1]
    BY <1>2 DEF Changed, a
  <2>6. CASE r = a
    BY <2>4, <2>6
  <2>7. ASSUME NEW ms \in SUBSET Onions,
               r = [a EXCEPT !.members = ms \cup {n}, !.revision = @ + 1]
        PROVE  WellFormed(r) /\ r.owner = n
    <3>1. /\ r.owner = n /\ r.key = a.key
          /\ r.members = ms \cup {n}
          /\ r.revision = a.revision + 1 /\ a.revision \in Nat
      BY <2>4, <2>7 DEF GroupRecord
    <3>2. a.key = Signing[n]
      BY <2>4, AbsentAssumption DEF WellFormed
    <3>3. QED
      BY <3>1, <3>2 DEF WellFormed
  <2>8. QED
    BY <2>4, <2>5, <2>6, <2>7
<1>3. CASE Taken(g, r)
  BY <1>3 DEF Taken, ExportInv, FilesWellFormed
<1>4. QED
  BY <1>1, <1>2, <1>3 DEF Saved

\* Books stay well-formed, on disk and in memory.
LEMMA BooksStep ==
    ASSUME ExportInv, [Next]_vars
    PROVE  BooksWellFormed'
<1> USE DEF ExportInv
<1>1. ASSUME NEW n \in Onions, NEW g \in GroupIds
      PROVE  WellFormed(groups[n][g])'
  <2>1. CASE groups'[n] = groups[n]
    BY <2>1 DEF BooksWellFormed, Held, WellFormed
  <2>2. CASE groups'[n] = EmptyGroups
    BY <2>2 DEF EmptyGroups, WellFormed
  <2>3. CASE \E p \in Procs, h \in GroupIds, r \in GroupRecord :
                Saved(n, p, h, r) /\ groups'[n] = [loaded[n][p] EXCEPT ![h] = r]
    <3> PICK p \in Procs, h \in GroupIds, r \in GroupRecord :
          Saved(n, p, h, r) /\ groups'[n] = [loaded[n][p] EXCEPT ![h] = r]
      BY <2>3
    <3>1. WellFormed(r)
      BY SavedWellFormed
    <3>2. WellFormed(loaded[n][p][g])
      BY DEF Saved, BooksWellFormed, Held
    <3>3. loaded[n][p] \in GroupBooks
      BY DEF Saved, Running, TypeOK
    <3>4. groups'[n][g] = IF g = h THEN r ELSE loaded[n][p][g]
      BY <3>3 DEF GroupBooks
    <3>5. QED
      BY <3>1, <3>2, <3>4 DEF WellFormed
  <2>4. QED
    BY <2>1, <2>2, <2>3, BookStep
<1>2. ASSUME NEW n \in Onions, NEW p \in Procs, Running(n, p)', NEW g \in GroupIds
      PROVE  WellFormed(loaded[n][p][g])'
  <2>1. loaded'[n][p] = groups[n] \/ (loaded'[n][p] = loaded[n][p] /\ Running(n, p))
    BY <1>2, LoadedStep DEF Running
  <2>2. QED
    BY <2>1 DEF BooksWellFormed, Held, WellFormed
<1>3. QED
  BY <1>1, <1>2 DEF BooksWellFormed, Held

\* Files stay well-formed.
LEMMA FilesStep ==
    ASSUME ExportInv, [Next]_vars
    PROVE  FilesWellFormed'
<1> SUFFICES ASSUME NEW f \in files', f \notin files
             PROVE  f.record.owner \in Onions /\ WellFormed(f.record) /\ f.signer = f.record.key
  BY DEF ExportInv, FilesWellFormed, WellFormed
<1> PICK n \in Onions, p \in Procs, g \in GroupIds :
      /\ Running(n, p)
      /\ loaded[n][p][g] # NoGroup
      /\ Adopted(n, loaded[n][p][g]).owner = n
      /\ f = [group |-> g, record |-> Adopted(n, loaded[n][p][g]), signer |-> Signing[n]]
  BY FileStep DEF ExportInv
<1> DEFINE r == Adopted(n, loaded[n][p][g])
<1>1. r \in GroupRecord
  BY AdoptedType DEF ExportInv, TypeOK, Running, GroupBooks
<1>2. Saved(n, p, g, r)
  BY DEF Saved, Changed
<1>3. f.record = r /\ f.signer = Signing[n] /\ r.owner = n
  OBVIOUS
<1> HIDE DEF r
<1>4. WellFormed(r)
  BY <1>1, <1>2, SavedWellFormed
<1>5. QED
  BY <1>1, <1>3, <1>4, AbsentAssumption DEF WellFormed

\* The invariant holds at the start: there are only groups without owners.
LEMMA ExportInit ==
    ASSUME Init
    PROVE  ExportInv
<1>1. TypeOK
  BY OldAssumption DEF Init, TypeOK
<1>2. BooksWellFormed /\ FilesWellFormed
  BY OldAssumption DEF Init, BooksWellFormed, FilesWellFormed, Held, Running, WellFormed
<1>3. QED
  BY <1>1, <1>2 DEF ExportInv

\* Whatever is exported passes verify_group_invite, for any users, overlapping
\* commands, lost books and groups of an older version (export_group adds the
\* owner to the members and starts the revision at 1 when it adopts a group).
THEOREM ExportsVerifyHolds == Spec => []ExportsVerify
<1>1. Init => ExportInv
  BY ExportInit
<1>2. ExportInv /\ [Next]_vars => ExportInv'
  BY TypeStep, BooksStep, FilesStep DEF ExportInv
<1>3. ExportInv => ExportsVerify
  BY AbsentAssumption DEF ExportInv, TypeOK, FilesWellFormed, WellFormed, ExportsVerify, Valid,
     GroupInviteFile
<1>4. QED
  BY <1>1, <1>2, <1>3, PTL DEF Spec

\* Who owns a group by a record that n has of it, or may adopt it.
Claimant(n, r) == IF r.owner = None THEN n ELSE r.owner

Claim(g, c) ==
    \/ \E n \in Onions : \E b \in Held(n) : b[g] # NoGroup /\ c = Claimant(n, b[g])
    \/ \E f \in files : f.group = g /\ c = f.record.owner

OneClaim == \A g \in GroupIds : \A c, d \in Onions : Claim(g, c) /\ Claim(g, d) => c = d

\* An export or an update is by the one who had the claim.
LEMMA ChangedClaim ==
    ASSUME TypeOK, NEW n \in Onions, NEW p \in Procs, NEW g \in GroupIds,
           Running(n, p), loaded[n][p][g] # NoGroup,
           Adopted(n, loaded[n][p][g]).owner = n
    PROVE  Claim(g, n)
<1>1. Claimant(n, loaded[n][p][g]) = n
  BY DEF Adopted, Claimant
<1>2. loaded[n][p] \in Held(n)
  BY DEF Held
<1>3. QED
  BY <1>1, <1>2 DEF Claim

\* No step makes a claim to a group but by creating it.
LEMMA ClaimStep ==
    ASSUME ExportInv, [Next]_vars, NEW g \in GroupIds, NEW c \in Onions, Claim(g, c)'
    PROVE  Claim(g, c) \/ (Unused(g) /\ groups'[c] # groups[c])
<1> USE DEF ExportInv
<1>1. ASSUME NEW n \in Onions, NEW b \in Held(n), b[g] # NoGroup, c = Claimant(n, b[g])
      PROVE  Claim(g, c)
  BY <1>1 DEF Claim
<1>2. ASSUME NEW n \in Onions, NEW p \in Procs, Running(n, p)',
             loaded'[n][p][g] # NoGroup, c = Claimant(n, loaded'[n][p][g])
      PROVE  Claim(g, c)
  <2>1. loaded'[n][p] = groups[n] \/ (loaded'[n][p] = loaded[n][p] /\ Running(n, p))
    BY <1>2, LoadedStep DEF Running
  <2>2. loaded'[n][p] \in Held(n)
    BY <2>1 DEF Held
  <2>3. QED
    BY <1>1, <1>2, <2>2
<1>3. ASSUME NEW n \in Onions, groups'[n][g] # NoGroup, c = Claimant(n, groups'[n][g])
      PROVE  Claim(g, c) \/ (Unused(g) /\ groups'[c] # groups[c])
  <2>1. CASE groups'[n] = groups[n]
    BY <1>1, <1>3, <2>1 DEF Held
  <2>2. CASE groups'[n] = EmptyGroups
    BY <1>3, <2>2 DEF EmptyGroups
  <2>3. CASE \E p \in Procs, h \in GroupIds, r \in GroupRecord :
                Saved(n, p, h, r) /\ groups'[n] = [loaded[n][p] EXCEPT ![h] = r]
    <3> PICK p \in Procs, h \in GroupIds, r \in GroupRecord :
          Saved(n, p, h, r) /\ groups'[n] = [loaded[n][p] EXCEPT ![h] = r]
      BY <2>3
    <3>1. loaded[n][p] \in GroupBooks /\ loaded[n][p] \in Held(n) /\ Running(n, p)
      BY DEF Saved, Running, TypeOK, Held
    <3>2. groups'[n][g] = IF g = h THEN r ELSE loaded[n][p][g]
      BY <3>1 DEF GroupBooks
    <3>3. CASE g # h
      BY <1>1, <1>3, <3>1, <3>2, <3>3
    <3>4. CASE g = h /\ Created(n, r) /\ Unused(g)
      <4>1. r.owner = n
        BY <3>4 DEF Created
      <4>2. c = n
        BY <1>3, <3>2, <3>4, <4>1, AbsentAssumption DEF Claimant
      <4>3. groups[n][g] = NoGroup /\ r # NoGroup
        BY <3>4, AbsentAssumption DEF Unused
      <4>4. QED
        BY <3>2, <3>4, <4>2, <4>3
    <3>5. CASE g = h /\ Changed(n, loaded[n][p][g], r)
      <4>1. r.owner = n
        <5>1. loaded[n][p][g] \in GroupRecord
          BY <3>1, <3>5 DEF Changed, GroupBooks
        <5>2. Adopted(n, loaded[n][p][g]) \in GroupRecord
          BY <5>1, AdoptedType
        <5>3. QED
          BY <3>5, <5>2 DEF Changed, GroupRecord
      <4>2. c = n
        BY <1>3, <3>2, <3>5, <4>1, AbsentAssumption DEF Claimant
      <4>3. QED
        BY <3>1, <3>5, <4>2, ChangedClaim DEF Changed
    <3>6. CASE g = h /\ Taken(g, r)
      <4> PICK f \in files : f.group = g /\ f.record = r
        BY <3>6 DEF Taken
      <4>1. r.owner \in Onions
        BY DEF FilesWellFormed
      <4>2. c = f.record.owner
        BY <1>3, <3>2, <3>6, <4>1, AbsentAssumption DEF Claimant
      <4>3. QED
        BY <4>2 DEF Claim
    <3>7. QED
      BY <3>3, <3>4, <3>5, <3>6 DEF Saved
  <2>4. QED
    BY <2>1, <2>2, <2>3, BookStep
<1>4. ASSUME NEW f \in files', f.group = g, c = f.record.owner
      PROVE  Claim(g, c)
  <2>1. CASE f \in files
    BY <1>4, <2>1 DEF Claim
  <2>2. CASE f \notin files
    <3> PICK n \in Onions, p \in Procs, h \in GroupIds :
          /\ Running(n, p)
          /\ loaded[n][p][h] # NoGroup
          /\ Adopted(n, loaded[n][p][h]).owner = n
          /\ f = [group |-> h, record |-> Adopted(n, loaded[n][p][h]), signer |-> Signing[n]]
      BY <2>2, FileStep
    <3>1. h = g /\ c = n
      BY <1>4
    <3>2. QED
      BY <3>1, ChangedClaim
  <2>3. QED
    BY <2>1, <2>2
<1>5. QED
  BY <1>2, <1>3, <1>4 DEF Claim, Held

\* Two claims to a group are by the same user.
LEMMA OneClaimStep ==
    ASSUME ExportInv, OneClaim, [Next]_vars
    PROVE  OneClaim'
<1> SUFFICES ASSUME NEW g \in GroupIds, NEW c \in Onions, NEW d \in Onions,
                    Claim(g, c)', Claim(g, d)'
             PROVE  c = d
  BY DEF OneClaim
<1>1. CASE Unused(g)
  <2>1. \A e \in Onions : ~Claim(g, e)
    BY <1>1 DEF Claim, Held, Unused
  <2>2. groups'[c] # groups[c] /\ groups'[d] # groups[d]
    BY <2>1, ClaimStep
  <2>3. QED
    BY <2>2, ShapeStep DEF ExportInv, TypeOK
<1>2. CASE ~Unused(g)
  BY <1>2, ClaimStep DEF OneClaim
<1>3. QED
  BY <1>1, <1>2

\* When a group of an older version is in one hand, there is one claim to it.
LEMMA OneClaimInit ==
    ASSUME Init,
           \A n, m \in Onions, g \in GroupIds :
                Old[n][g] # NoGroup /\ Old[m][g] # NoGroup => n = m
    PROVE  OneClaim
<1>1. \A n \in Onions : Held(n) = {Old[n]}
  BY DEF Init, Held, Running
<1>2. \A g \in GroupIds, c \in Onions : Claim(g, c) => Old[c][g] # NoGroup
  BY <1>1, OldAssumption DEF Init, Claim, Claimant
<1>3. QED
  BY <1>2 DEF OneClaim

\* A group has one owner and one key for everybody, for any users, overlapping
\* commands and lost books, when no two users start with the same group of an
\* older version (the tests for NotGroupOwner and GroupOwnerMismatch).
THEOREM OneOwnerHolds ==
    ASSUME \A n, m \in Onions, g \in GroupIds :
                Old[n][g] # NoGroup /\ Old[m][g] # NoGroup => n = m
    PROVE  Spec => []OneOwner
<1>1. Init => ExportInv /\ OneClaim
  BY ExportInit, OneClaimInit
<1>2. ExportInv /\ OneClaim /\ [Next]_vars => ExportInv' /\ OneClaim'
  BY TypeStep, BooksStep, FilesStep, OneClaimStep DEF ExportInv
<1>3. ExportInv /\ OneClaim => OneOwner
  <2> SUFFICES ASSUME ExportInv, OneClaim, NEW g \in GroupIds
               PROVE  \A r, s \in Records(g) : r.owner = s.owner /\ r.key = s.key
    BY DEF OneOwner
  <2>1. ASSUME NEW r \in Records(g)
        PROVE  r.owner \in Onions /\ Claim(g, r.owner) /\ r.key = Signing[r.owner]
    <3>1. ASSUME NEW n \in Onions, r = groups[n][g]
          PROVE  r.owner \in Onions /\ Claim(g, r.owner) /\ r.key = Signing[r.owner]
      <4>1. r \in GroupRecord /\ r.owner # None
        BY <3>1 DEF Records, ExportInv, TypeOK, GroupBooks
      <4>2. groups[n] \in Held(n)
        BY DEF Held
      <4>3. WellFormed(r)
        BY <3>1, <4>2 DEF ExportInv, BooksWellFormed
      <4>4. r # NoGroup /\ Claimant(n, r) = r.owner
        BY <4>1 DEF Records, Claimant
      <4>5. Claim(g, r.owner)
        BY <3>1, <4>2, <4>4 DEF Claim
      <4>6. r.key = Signing[r.owner]
        BY <4>1, <4>3, <4>4 DEF WellFormed
      <4>7. QED
        BY <4>1, <4>5, <4>6 DEF GroupRecord
    <3>2. ASSUME NEW f \in files, f.group = g, r = f.record
          PROVE  r.owner \in Onions /\ Claim(g, r.owner) /\ r.key = Signing[r.owner]
      BY <3>2 DEF Records, Claim, ExportInv, FilesWellFormed, WellFormed
    <3>3. QED
      BY <3>1, <3>2 DEF Records
  <2>2. QED
    BY <2>1 DEF OneClaim
<1>4. QED
  BY <1>1, <1>2, <1>3, PTL DEF Spec
-------------------------------------------------------------------------------
(* Who agree on the revision agree on the group, when a user runs one command *)
(* at a time and no book of an owner is lost.                                  *)

\* r is the record of g, with an owner, in some book or file.
Record(g, r) ==
    /\ r # NoGroup /\ r.owner # None
    /\ \/ \E n \in Onions : \E b \in Held(n) : r = b[g]
       \/ \E f \in files : f.group = g /\ r = f.record

\* A command has loaded what the book still is, unless the book was lost since.
Current ==
    \A n \in Onions, p \in Procs : Running(n, p) =>
        groups[n] = loaded[n][p] \/ (n \in Losers /\ groups[n] = EmptyGroups)

\* Whose book may be lost owns no group and can adopt none.
LosersOwnNothing ==
    /\ \A g \in GroupIds : \A r : Record(g, r) => r.owner \notin Losers
    /\ \A n \in Losers : \A b \in Held(n) : \A g \in GroupIds :
            b[g] # NoGroup => b[g].owner # None

\* The owner has the latest revision.
OwnerFirst ==
    \A g \in GroupIds : \A r : Record(g, r) =>
        /\ groups[r.owner][g] # NoGroup
        /\ groups[r.owner][g].owner = r.owner
        /\ r.revision <= groups[r.owner][g].revision

AllAgree ==
    \A g \in GroupIds : \A r, s : Record(g, r) /\ Record(g, s) /\ r.revision = s.revision => r = s

OrderInv == Current /\ LosersOwnNothing /\ OwnerFirst /\ AllAgree

\* n saves r, which no one else can have yet: it is created, adopted, updated, or
\* what it was before.
Fresh(n, p, g, r) ==
    /\ Running(n, p) /\ r \in GroupRecord /\ r.owner = n
    /\ groups'[n] = [loaded[n][p] EXCEPT ![g] = r]
    /\ \/ Unused(g) /\ Peers(n) # {}
       \/ Changed(n, loaded[n][p][g], r)

\* What is known of a record with an owner.
LEMMA RecordFacts ==
    ASSUME ExportInv, NEW g \in GroupIds, NEW r, Record(g, r)
    PROVE  r \in GroupRecord /\ r.owner \in Onions /\ Claim(g, r.owner)
           /\ r.key = Signing[r.owner]
<1>1. ASSUME NEW n \in Onions, NEW b \in Held(n), r = b[g]
      PROVE  r \in GroupRecord /\ Claim(g, r.owner) /\ WellFormed(r)
  <2>1. b \in GroupBooks
    BY <1>1 DEF Held, ExportInv, TypeOK, Running
  <2>2. r \in GroupRecord
    BY <1>1, <2>1 DEF GroupBooks, Record
  <2>3. Claim(g, r.owner)
    BY <1>1 DEF Claim, Claimant, Record
  <2>4. WellFormed(r)
    BY <1>1 DEF ExportInv, BooksWellFormed
  <2>5. QED
    BY <2>2, <2>3, <2>4
<1>2. ASSUME NEW f \in files, f.group = g, r = f.record
      PROVE  r \in GroupRecord /\ Claim(g, r.owner) /\ WellFormed(r)
  <2>1. f \in GroupInviteFile /\ WellFormed(r)
    BY <1>2 DEF ExportInv, TypeOK, FilesWellFormed
  <2>2. QED
    BY <1>2, <2>1 DEF GroupInviteFile, Claim
<1>3. r \in GroupRecord /\ Claim(g, r.owner) /\ WellFormed(r)
  BY <1>1, <1>2 DEF Record
<1>4. QED
  BY <1>3 DEF Record, WellFormed, GroupRecord

\* A change by an owner gives the owner a record of their own.
LEMMA ChangedOwner ==
    ASSUME NEW n \in Onions, NEW old \in GroupRecord, NEW r, Changed(n, old, r)
    PROVE  /\ r \in GroupRecord /\ r.owner = n
           /\ old.owner # None => old.owner = n /\ (r = old \/ r.revision = old.revision + 1)
           /\ r.revision >= old.revision
           /\ old.owner # None => r = old \/ r.revision > old.revision
<1> DEFINE a == Adopted(n, old)
<1>1. a \in GroupRecord /\ a.owner = n
  BY AdoptedType DEF Changed
<1>2. (old.owner # None => a = old) /\ a.revision >= old.revision
  BY DEF Adopted, GroupRecord
<1>3. r = a \/ \E ms \in SUBSET Onions : r = [a EXCEPT !.members = ms \cup {n}, !.revision = @ + 1]
  BY DEF Changed
<1> HIDE DEF a
<1>4. ASSUME NEW ms \in SUBSET Onions, r = [a EXCEPT !.members = ms \cup {n}, !.revision = @ + 1]
      PROVE  r \in GroupRecord /\ r.owner = n /\ r.revision = a.revision + 1
  <2>1. r \in GroupRecord
    BY <1>1, <1>4, RaisedType
  <2>2. r.owner = n /\ r.revision = a.revision + 1
    BY <1>1, <1>4 DEF GroupRecord
  <2>3. QED
    BY <2>1, <2>2
<1>5. r \in GroupRecord /\ r.owner = n /\ (r = a \/ r.revision = a.revision + 1)
  BY <1>1, <1>3, <1>4
<1>6. a.revision \in Nat /\ old.revision \in Nat
  BY <1>1 DEF GroupRecord
<1>7. QED
  BY <1>1, <1>2, <1>5, <1>6

\* A record is known already, or is fresh.
LEMMA RecordStep ==
    ASSUME ExportInv, [Next]_vars, NEW g \in GroupIds, NEW r, Record(g, r)'
    PROVE  Record(g, r) \/ \E n \in Onions, p \in Procs : Fresh(n, p, g, r)
<1> USE DEF ExportInv
<1>0. r # NoGroup /\ r.owner # None
  BY DEF Record
<1>1. ASSUME NEW n \in Onions, NEW b \in Held(n), r = b[g]
      PROVE  Record(g, r)
  BY <1>0, <1>1 DEF Record
<1>2. ASSUME NEW n \in Onions, NEW p \in Procs, Running(n, p)', r = loaded'[n][p][g]
      PROVE  Record(g, r)
  <2>1. loaded'[n][p] = groups[n] \/ (loaded'[n][p] = loaded[n][p] /\ Running(n, p))
    BY <1>2, LoadedStep DEF Running
  <2>2. loaded'[n][p] \in Held(n)
    BY <2>1 DEF Held
  <2>3. QED
    BY <1>1, <1>2, <2>2
<1>3. ASSUME NEW n \in Onions, r = groups'[n][g]
      PROVE  Record(g, r) \/ \E m \in Onions, p \in Procs : Fresh(m, p, g, r)
  <2>1. CASE groups'[n] = groups[n]
    BY <1>1, <1>3, <2>1 DEF Held
  <2>2. CASE groups'[n] = EmptyGroups
    BY <1>0, <1>3, <2>2 DEF EmptyGroups
  <2>3. CASE \E p \in Procs, h \in GroupIds, s \in GroupRecord :
                Saved(n, p, h, s) /\ groups'[n] = [loaded[n][p] EXCEPT ![h] = s]
    <3> PICK p \in Procs, h \in GroupIds, s \in GroupRecord :
          Saved(n, p, h, s) /\ groups'[n] = [loaded[n][p] EXCEPT ![h] = s]
      BY <2>3
    <3>1. loaded[n][p] \in GroupBooks /\ loaded[n][p] \in Held(n) /\ Running(n, p)
      BY DEF Saved, Running, TypeOK, Held
    <3>2. r = IF g = h THEN s ELSE loaded[n][p][g]
      BY <1>3, <3>1 DEF GroupBooks
    <3>3. CASE g # h
      BY <1>1, <3>1, <3>2, <3>3
    <3>4. CASE g = h /\ Created(n, s) /\ Unused(g) /\ Peers(n) # {}
      <4>1. r = s /\ s.owner = n
        BY <3>2, <3>4 DEF Created
      <4>2. Fresh(n, p, g, r)
        BY <3>1, <3>4, <4>1 DEF Fresh
      <4>3. QED
        BY <4>2
    <3>5. CASE g = h /\ Changed(n, loaded[n][p][g], s)
      <4>1. loaded[n][p][g] \in GroupRecord
        BY <3>1, <3>5 DEF Changed, GroupBooks
      <4>2. r = s /\ s.owner = n
        BY <3>2, <3>5, <4>1, ChangedOwner
      <4>3. Fresh(n, p, g, r)
        BY <3>1, <3>5, <4>2 DEF Fresh
      <4>4. QED
        BY <4>3
    <3>6. CASE g = h /\ Taken(g, s)
      BY <1>0, <3>2, <3>6 DEF Taken, Record
    <3>7. QED
      BY <3>3, <3>4, <3>5, <3>6 DEF Saved
  <2>4. QED
    BY <2>1, <2>2, <2>3, BookStep
<1>4. ASSUME NEW f \in files', f.group = g, r = f.record
      PROVE  Record(g, r) \/ \E m \in Onions, p \in Procs : Fresh(m, p, g, r)
  <2>1. CASE f \in files
    BY <1>0, <1>4, <2>1 DEF Record
  <2>2. CASE f \notin files
    <3> PICK n \in Onions, p \in Procs, h \in GroupIds :
          /\ Running(n, p)
          /\ loaded[n][p][h] # NoGroup
          /\ Adopted(n, loaded[n][p][h]).owner = n
          /\ f = [group |-> h, record |-> Adopted(n, loaded[n][p][h]), signer |-> Signing[n]]
          /\ groups' = [groups EXCEPT ![n] =
                [loaded[n][p] EXCEPT ![h] = Adopted(n, loaded[n][p][h])]]
      BY <2>2, FileStep
    <3>1. h = g /\ r = Adopted(n, loaded[n][p][g])
      BY <1>4
    <3>2. r \in GroupRecord /\ r.owner = n
      BY <3>1, AdoptedType DEF TypeOK, Running, GroupBooks
    <3>3. groups'[n] = [loaded[n][p] EXCEPT ![g] = r]
      BY <3>1 DEF TypeOK
    <3>4. Changed(n, loaded[n][p][g], r)
      BY <3>1 DEF Changed
    <3>5. Fresh(n, p, g, r)
      BY <3>2, <3>3, <3>4 DEF Fresh
    <3>6. QED
      BY <3>5
  <2>3. QED
    BY <2>1, <2>2
<1>5. QED
  BY <1>2, <1>3, <1>4 DEF Record, Held

\* A record that is fresh and not known is newer than any that is known.
LEMMA FreshFirst ==
    ASSUME ExportInv, OneClaim, OrderInv,
           \A n \in Losers : Peers(n) = {},
           NEW n \in Onions, NEW p \in Procs, NEW g \in GroupIds, NEW r, Fresh(n, p, g, r)
    PROVE  /\ n \notin Losers
           /\ \/ Record(g, r)
              \/ \A s : Record(g, s) => s.owner = n /\ s.revision < r.revision
<1> DEFINE old == loaded[n][p][g]
<1>1. r \in GroupRecord /\ r.owner = n /\ Running(n, p) /\ loaded[n][p] \in Held(n)
  BY DEF Fresh, Held
<1>2. CASE Unused(g) /\ Peers(n) # {}
  <2>1. \A s : ~Record(g, s)
    BY <1>2 DEF Record, Held, Unused
  <2>2. QED
    BY <1>2, <2>1
<1>3. CASE Changed(n, old, r)
  <2>1. old \in GroupRecord /\ old # NoGroup
    <3>1. loaded[n][p] \in GroupBooks
      BY <1>1 DEF ExportInv, TypeOK, Running
    <3>2. old # NoGroup
      BY <1>3 DEF Changed
    <3>3. QED
      BY <3>1, <3>2 DEF GroupBooks
  <2>2. old.owner # None => Record(g, old) /\ old.owner = n
    <3>1. old.owner # None => old.owner = n
      BY <1>3, <2>1, ChangedOwner
    <3>2. \E b \in Held(n) : old = b[g]
      BY <1>1
    <3> HIDE DEF old
    <3>3. QED
      BY <2>1, <3>1, <3>2 DEF Record
  <2>3. n \notin Losers
    <3>1. CASE old.owner = None
      BY <1>1, <2>1, <3>1 DEF OrderInv, LosersOwnNothing
    <3>2. CASE old.owner # None
      BY <2>2, <3>2 DEF OrderInv, LosersOwnNothing
    <3>3. QED
      BY <3>1, <3>2
  <2>4. groups[n][g] = old
    BY <1>1, <2>3 DEF OrderInv, Current
  <2>5. Claim(g, n)
    <3>1. Adopted(n, old).owner = n
      BY <1>3 DEF Changed
    <3>2. QED
      BY <1>1, <2>1, <3>1, ChangedClaim DEF ExportInv
  <2>6. ASSUME NEW s, Record(g, s)
        PROVE  /\ s.owner = n /\ old.owner # None
               /\ s.revision <= old.revision /\ s.revision \in Nat
    <3>1. s \in GroupRecord /\ s.owner \in Onions /\ Claim(g, s.owner)
      BY <2>6, RecordFacts
    <3>2. s.owner = n
      BY <2>5, <3>1 DEF OneClaim
    <3>3. groups[n][g].owner = n /\ s.revision <= groups[n][g].revision
      BY <2>6, <3>2 DEF OrderInv, OwnerFirst
    <3>4. QED
      BY <2>4, <3>1, <3>2, <3>3, AbsentAssumption DEF GroupRecord
  <2>7. old.owner # None => r = old \/ r.revision > old.revision
    BY <1>3, <2>1, ChangedOwner
  <2>8. r.revision \in Nat /\ old.revision \in Nat
    BY <1>1, <2>1 DEF GroupRecord
  <2> HIDE DEF old
  <2>9. QED
    BY <2>2, <2>3, <2>6, <2>7, <2>8
<1>4. QED
  BY <1>2, <1>3 DEF Fresh

\* One command at a time has loaded what is on disk.
LEMMA CurrentStep ==
    ASSUME TypeOK, Current, [Next]_vars, \A p, q \in Procs : p = q
    PROVE  Current'
<1> SUFFICES ASSUME NEW n \in Onions, NEW p \in Procs, Running(n, p)'
             PROVE  groups'[n] = loaded'[n][p] \/ (n \in Losers /\ groups'[n] = EmptyGroups)
  BY DEF Current
<1> USE DEF TypeOK
<1>1. ASSUME groups'[n] = groups[n] \/ (n \in Losers /\ groups'[n] = EmptyGroups),
             loaded'[n][p] = loaded[n][p]
      PROVE  groups'[n] = loaded'[n][p] \/ (n \in Losers /\ groups'[n] = EmptyGroups)
  BY <1>1 DEF Current, Running
<1>2. CASE \E u \in Onions : Lose(u)
  BY <1>1, <1>2 DEF Lose
<1>3. CASE UNCHANGED vars
  BY <1>1, <1>3 DEF vars
<1>4. ASSUME NEW u \in Onions, NEW q \in Procs, Load(u, q)
      PROVE  groups'[n] = loaded'[n][p] \/ (n \in Losers /\ groups'[n] = EmptyGroups)
  <2>1. CASE u = n
    BY <1>4, <2>1 DEF Load
  <2>2. CASE u # n
    BY <1>1, <1>4, <2>2 DEF Load
  <2>3. QED
    BY <2>1, <2>2
<1>5. ASSUME NEW u \in Onions, NEW q \in Procs, Command(u, q), ~Load(u, q)
      PROVE  groups'[n] = loaded'[n][p] \/ (n \in Losers /\ groups'[n] = EmptyGroups)
  <2>1. Finish(u, q)
    BY <1>5 DEF Command, SaveNothing, CreateGroup, UpdateGroupMembers, ExportGroup, ImportGroup
  <2>2. u # n
    BY <2>1 DEF Finish, Running
  <2>3. groups'[n] = groups[n]
    BY <1>5, <2>2 DEF Command, SaveNothing, CreateGroup, Creates, UpdateGroupMembers, Updates,
       ExportGroup, Exports, ImportGroup, Imports, Save
  <2>4. loaded'[n][p] = loaded[n][p]
    BY <2>1, <2>2 DEF Finish
  <2>5. QED
    BY <1>1, <2>3, <2>4
<1>6. QED
  BY <1>2, <1>3, <1>4, <1>5 DEF Next

\* The invariant is inductive.
LEMMA OrderStep ==
    ASSUME ExportInv, ExportInv', OneClaim, OneClaim', OrderInv, [Next]_vars,
           \A n \in Losers : Peers(n) = {}, \A p, q \in Procs : p = q
    PROVE  OrderInv'
<1>1. Current'
  BY CurrentStep DEF ExportInv, OrderInv
<1>2. LosersOwnNothing'
  <2>1. ASSUME NEW g \in GroupIds, NEW r, Record(g, r)'
        PROVE  r.owner \notin Losers
    <3>1. ASSUME NEW n \in Onions, NEW p \in Procs, Fresh(n, p, g, r)
          PROVE  r.owner \notin Losers
      <4>1. n \notin Losers /\ r.owner = n
        BY <3>1, FreshFirst DEF Fresh
      <4>2. QED
        BY <4>1
    <3>2. QED
      BY <2>1, <3>1, RecordStep DEF OrderInv, LosersOwnNothing
  <2>2. ASSUME NEW n \in Losers, NEW g \in GroupIds, groups'[n][g] # NoGroup
        PROVE  groups'[n][g].owner # None
    <3>1. n \in Onions
      BY BoundsAssumption
    <3>2. ASSUME NEW b \in Held(n), b[g] # NoGroup
          PROVE  b[g].owner # None
      BY <3>2 DEF OrderInv, LosersOwnNothing
    <3>3. CASE groups'[n] = groups[n]
      BY <2>2, <3>2, <3>3 DEF Held
    <3>4. CASE groups'[n] = EmptyGroups
      BY <2>2, <3>4 DEF EmptyGroups
    <3>5. CASE \E p \in Procs, h \in GroupIds, s \in GroupRecord :
                Saved(n, p, h, s) /\ groups'[n] = [loaded[n][p] EXCEPT ![h] = s]
      <4> PICK p \in Procs, h \in GroupIds, s \in GroupRecord :
            Saved(n, p, h, s) /\ groups'[n] = [loaded[n][p] EXCEPT ![h] = s]
        BY <3>5
      <4>1. s.owner \in Onions
        BY <3>1, SavedWellFormed
      <4>2. loaded[n][p] \in GroupBooks /\ loaded[n][p] \in Held(n)
        BY <3>1 DEF Saved, ExportInv, TypeOK, Running, Held
      <4>3. groups'[n][g] = IF g = h THEN s ELSE loaded[n][p][g]
        BY <4>2 DEF GroupBooks
      <4>4. QED
        BY <2>2, <3>2, <4>1, <4>2, <4>3, AbsentAssumption
    <3>6. QED
      BY <3>1, <3>3, <3>4, <3>5, BookStep DEF ExportInv
  <2>3. ASSUME NEW n \in Losers, NEW p \in Procs, Running(n, p)', NEW g \in GroupIds,
               loaded'[n][p][g] # NoGroup
        PROVE  loaded'[n][p][g].owner # None
    <3>1. n \in Onions
      BY BoundsAssumption
    <3>2. loaded'[n][p] = groups[n] \/ (loaded'[n][p] = loaded[n][p] /\ Running(n, p))
      BY <2>3, <3>1, LoadedStep DEF Running, ExportInv
    <3>3. loaded'[n][p] \in Held(n)
      BY <3>2 DEF Held
    <3>4. QED
      BY <2>3, <3>3 DEF OrderInv, LosersOwnNothing
  <2>4. QED
    BY <2>1, <2>2, <2>3 DEF LosersOwnNothing, Held
<1>3. ASSUME NEW g \in GroupIds, NEW n \in Onions, NEW p \in Procs, NEW r, Fresh(n, p, g, r)
      PROVE  groups'[n][g] = r
  <2>1. loaded[n][p] \in GroupBooks
    BY <1>3 DEF Fresh, ExportInv, TypeOK, Running
  <2>2. QED
    BY <1>3, <2>1 DEF Fresh, GroupBooks
<1>4. ASSUME NEW g \in GroupIds, NEW r, Record(g, r)
      PROVE  /\ groups'[r.owner][g] # NoGroup
             /\ groups'[r.owner][g].owner = r.owner
             /\ r.revision <= groups'[r.owner][g].revision
  <2> DEFINE c == r.owner
             top == groups[c][g]
  <2>1. r \in GroupRecord /\ c \in Onions /\ Claim(g, c) /\ c \notin Losers
    BY <1>4, RecordFacts DEF OrderInv, LosersOwnNothing
  <2>2. top # NoGroup /\ top.owner = c /\ r.revision <= top.revision
    BY <1>4 DEF OrderInv, OwnerFirst
  <2>3. top \in GroupRecord /\ groups[c] \in GroupBooks /\ c # None
    BY <2>1, <2>2, AbsentAssumption DEF ExportInv, TypeOK, GroupBooks
  <2>4. groups[c] \in Held(c)
    BY DEF Held
  <2> HIDE DEF c
  <2>5. CASE groups'[c] = groups[c]
    BY <2>2, <2>5 DEF c
  <2>6. CASE \E p \in Procs, h \in GroupIds, s \in GroupRecord :
                Saved(c, p, h, s) /\ groups'[c] = [loaded[c][p] EXCEPT ![h] = s]
    <3> PICK p \in Procs, h \in GroupIds, s \in GroupRecord :
          Saved(c, p, h, s) /\ groups'[c] = [loaded[c][p] EXCEPT ![h] = s]
      BY <2>6
    <3>1. loaded[c][p] = groups[c]
      BY <2>1 DEF Saved, OrderInv, Current
    <3>2. groups'[c][g] = IF g = h THEN s ELSE top
      BY <2>3, <3>1 DEF GroupBooks
    <3>3. CASE g # h
      BY <2>2, <3>2, <3>3 DEF c
    <3>4. CASE g = h /\ Unused(g)
      BY <2>1, <2>2, <3>4 DEF Unused
    <3>5. CASE g = h /\ Changed(c, top, s)
      <4>1. s \in GroupRecord /\ s.owner = c /\ s.revision >= top.revision
        BY <2>1, <2>3, <3>5, ChangedOwner
      <4>2. r.revision <= s.revision
        BY <2>1, <2>2, <2>3, <4>1 DEF GroupRecord
      <4>3. QED
        BY <3>2, <3>5, <4>1, <4>2, AbsentAssumption DEF c
    <3>6. CASE g = h /\ Taken(g, s) /\ Newer(top, s)
      <4>1. PICK f \in files : f.group = g /\ f.record = s
        BY <3>6 DEF Taken
      <4>2. s.owner \in Onions
        BY <4>1 DEF ExportInv, FilesWellFormed
      <4>3. Record(g, s)
        BY <4>1, <4>2, AbsentAssumption DEF Record
      <4>4. s.owner = c
        BY <2>1, <4>2, <4>3, RecordFacts DEF OneClaim
      <4>5. s.revision <= top.revision
        BY <4>3, <4>4 DEF OrderInv, OwnerFirst
      <4>6. s.revision > top.revision
        BY <2>2, <3>6 DEF Newer
      <4>7. s.revision \in Nat /\ top.revision \in Nat
        BY <2>3 DEF GroupRecord
      <4>8. QED
        BY <4>5, <4>6, <4>7
    <3>7. QED
      BY <3>1, <3>3, <3>4, <3>5, <3>6 DEF Saved
  <2>7. QED
    BY <2>1, <2>5, <2>6, BookStep DEF ExportInv
<1>5. OwnerFirst'
  <2> SUFFICES ASSUME NEW g \in GroupIds, NEW r, Record(g, r)'
               PROVE  /\ groups'[r.owner][g] # NoGroup
                      /\ groups'[r.owner][g].owner = r.owner
                      /\ r.revision <= groups'[r.owner][g].revision
    BY DEF OwnerFirst
  <2>1. CASE Record(g, r)
    BY <1>4, <2>1
  <2>2. ASSUME NEW n \in Onions, NEW p \in Procs, Fresh(n, p, g, r)
        PROVE  /\ groups'[r.owner][g] # NoGroup
               /\ groups'[r.owner][g].owner = r.owner
               /\ r.revision <= groups'[r.owner][g].revision
    <3>1. groups'[n][g] = r /\ r.owner = n /\ r \in GroupRecord
      BY <1>3, <2>2 DEF Fresh
    <3>2. r.revision \in Nat
      BY <3>1 DEF GroupRecord
    <3>3. QED
      BY <3>1, <3>2, AbsentAssumption
  <2>3. QED
    BY <2>1, <2>2, RecordStep
<1>6. AllAgree'
  <2> SUFFICES ASSUME NEW g \in GroupIds, NEW r, NEW s, Record(g, r)', Record(g, s)',
                      r.revision = s.revision
               PROVE  r = s
    BY DEF AllAgree
  <2>1. r \in GroupRecord /\ s \in GroupRecord /\ r.owner = s.owner
    <3>1. ASSUME NEW x, Record(g, x)'
          PROVE  x \in GroupRecord /\ x.owner \in Onions /\ Claim(g, x.owner)'
      <4>1. x \in GroupRecord /\ x.owner \in Onions
        <5>1. CASE Record(g, x)
          BY <5>1, RecordFacts
        <5>2. CASE \E n \in Onions, p \in Procs : Fresh(n, p, g, x)
          BY <5>2 DEF Fresh
        <5>3. QED
          BY <3>1, <5>1, <5>2, RecordStep
      <4>2. Claim(g, x.owner)'
        BY <3>1 DEF Record, Claim, Claimant
      <4>3. QED
        BY <4>1, <4>2
    <3>2. QED
      BY <3>1 DEF OneClaim
  <2>2. CASE Record(g, r) /\ Record(g, s)
    BY <2>2 DEF OrderInv, AllAgree
  <2>3. ASSUME NEW x, NEW y, x \in GroupRecord, y \in GroupRecord, x.revision = y.revision,
               Record(g, x), ~Record(g, y),
               NEW n \in Onions, NEW p \in Procs, Fresh(n, p, g, y)
        PROVE  FALSE
    <3>1. x.revision < y.revision
      BY <2>3, FreshFirst
    <3>2. QED
      BY <2>3, <3>1 DEF GroupRecord
  <2>4. CASE ~Record(g, r) /\ ~Record(g, s)
    <3>1. PICK n \in Onions, p \in Procs : Fresh(n, p, g, r)
      BY <2>4, RecordStep
    <3>2. PICK m \in Onions, q \in Procs : Fresh(m, q, g, s)
      BY <2>4, RecordStep
    <3>3. groups'[n][g] = r /\ groups'[m][g] = s
      BY <1>3, <3>1, <3>2
    <3>4. n = m
      BY <2>1, <3>1, <3>2 DEF Fresh
    <3>5. QED
      BY <3>3, <3>4
  <2>5. QED
    BY <2>1, <2>2, <2>3, <2>4, RecordStep
<1>7. QED
  BY <1>1, <1>2, <1>5, <1>6 DEF OrderInv

\* It holds at the start, when a group of an older version is in one hand, and
\* that is not one whose book may be lost.
LEMMA OrderInit ==
    ASSUME Init, \A n \in Losers : Old[n] = EmptyGroups
    PROVE  OrderInv
<1>1. \A n \in Onions : Held(n) = {Old[n]}
  BY DEF Init, Held, Running
<1>2. \A g \in GroupIds : \A r : ~Record(g, r)
  BY <1>1, OldAssumption DEF Init, Record
<1>3. Current
  BY DEF Init, Current, Running
<1>4. LosersOwnNothing
  BY <1>1, <1>2, BoundsAssumption DEF LosersOwnNothing, EmptyGroups
<1>5. QED
  BY <1>2, <1>3, <1>4 DEF OrderInv, OwnerFirst, AllAgree

OneOldCopy ==
    \A n, m \in Onions, g \in GroupIds : Old[n][g] # NoGroup /\ Old[m][g] # NoGroup => n = m

OneCommandAtATime == \A p, q \in Procs : p = q

OwnersKeepBooks == \A n \in Losers : Old[n] = EmptyGroups /\ Peers(n) = {}

\* All of it holds at the start, and every step keeps it.
LEMMA OrderInductive ==
    ASSUME OneOldCopy, OneCommandAtATime, OwnersKeepBooks
    PROVE  /\ Init => ExportInv /\ OneClaim /\ OrderInv
           /\ ExportInv /\ OneClaim /\ OrderInv /\ [Next]_vars
                => ExportInv' /\ OneClaim' /\ OrderInv'
<1>1. Init => ExportInv /\ OneClaim /\ OrderInv
  BY ExportInit, OneClaimInit, OrderInit DEF OneOldCopy, OwnersKeepBooks
<1>2. ExportInv /\ [Next]_vars => ExportInv'
  BY TypeStep, BooksStep, FilesStep DEF ExportInv
<1>3. QED
  BY <1>1, <1>2, OneClaimStep, OrderStep DEF OneCommandAtATime, OwnersKeepBooks

\* Who agree on the revision of a group agree on its members and everything else,
\* for any users: the revision is all that import_group compares.  Each user runs
\* one command at a time, a group of an older version is in one hand, and no
\* book of an owner is lost; without any one of the three it fails.
THEOREM AgreementHolds ==
    ASSUME OneOldCopy, OneCommandAtATime, OwnersKeepBooks
    PROVE  Spec => []Agreement
<1>1. ExportInv /\ OrderInv => Agreement
  <2> SUFFICES ASSUME OrderInv, NEW g \in GroupIds, NEW r \in Records(g), NEW s \in Records(g),
                      r.revision = s.revision
               PROVE  r = s
    BY DEF Agreement
  <2>1. Record(g, r) /\ Record(g, s)
    BY DEF Records, Record, Held
  <2>2. QED
    BY <2>1 DEF OrderInv, AllAgree
<1>2. QED
  BY <1>1, OrderInductive, PTL DEF Spec

\* What the owner has exported and not changed since, every member has or can
\* import now, whatever older files they have imported and whatever they have
\* lost, when nobody holds a wrong signing key of another user.
THEOREM LatestIsImportableHolds ==
    ASSUME OneOldCopy, OneCommandAtATime, OwnersKeepBooks,
           \A n, m \in Onions : SigningKey(Contacts[n], m) \in {None, Signing[m]}
    PROVE  Spec => []LatestIsImportable
<1>1. ExportInv /\ OneClaim /\ OrderInv => LatestIsImportable
  <2> SUFFICES ASSUME ExportInv, OneClaim, OrderInv, NEW f \in files,
                      NEW m \in f.record.members \ {f.record.owner},
                      groups[f.record.owner][f.group] = f.record,
                      groups[m][f.group] # f.record
               PROVE  Importable(m, groups[m], f)
    BY DEF LatestIsImportable
  <2> DEFINE g == f.group
             r == f.record
             mine == groups[m][g]
  <2>1. g \in GroupIds /\ r \in GroupRecord /\ r.owner \in Onions /\ f.signer = r.key
        /\ WellFormed(r) /\ r # NoGroup /\ r.owner # None
    BY AbsentAssumption DEF ExportInv, TypeOK, FilesWellFormed, GroupInviteFile
  <2>2. m \in Onions
    BY <2>1 DEF GroupRecord
  <2>3. Valid(f)
    BY <2>1 DEF Valid, WellFormed
  <2>4. OwnerKnown(m, f)
    BY <2>1, <2>2 DEF OwnerKnown, WellFormed
  <2>5. Record(g, r) /\ Claim(g, r.owner)
    BY <2>1 DEF Record, Claim
  <2>6. ASSUME mine # NoGroup
        PROVE  mine.owner = r.owner /\ mine.key = r.key /\ r.revision > mine.revision
    <3>1. groups[m] \in Held(m)
      BY DEF Held
    <3>2. mine \in GroupRecord
      BY <2>1, <2>2, <2>6 DEF ExportInv, TypeOK, GroupBooks
    <3>3. Claim(g, Claimant(m, mine))
      BY <2>2, <2>6, <3>1 DEF Claim
    <3>4. Claimant(m, mine) \in Onions
      BY <2>2, <3>2 DEF Claimant, GroupRecord
    <3>5. Claimant(m, mine) = r.owner
      BY <2>1, <2>5, <3>3, <3>4 DEF OneClaim
    <3>6. mine.owner = r.owner /\ mine.owner # None
      BY <2>1, <3>5 DEF Claimant
    <3>7. Record(g, mine)
      BY <2>2, <2>6, <3>1, <3>6 DEF Record
    <3>8. mine.key = r.key
      BY <2>1, <2>5, <3>6, <3>7, RecordFacts
    <3>9. mine.revision <= r.revision
      BY <2>1, <3>6, <3>7 DEF OrderInv, OwnerFirst
    <3>10. mine.revision # r.revision
      BY <2>1, <2>5, <3>7 DEF OrderInv, AllAgree
    <3>11. mine.revision \in Nat /\ r.revision \in Nat
      BY <2>1, <3>2 DEF GroupRecord
    <3>12. QED
      BY <3>6, <3>8, <3>9, <3>10, <3>11
  <2>7. QED
    BY <2>3, <2>4, <2>6 DEF Importable, SameOwner, Newer
<1>2. QED
  BY <1>1, OrderInductive, PTL DEF Spec

\* A copy never goes back to an older revision but by losing the whole book, for
\* any users, any old files imported in any order and any books lost, when each
\* user runs one command at a time.
THEOREM NeverBackHolds ==
    ASSUME OneCommandAtATime
    PROVE  Spec => NeverBack
<1> DEFINE Keeps == \A n \in Onions, g \in GroupIds :
        LET old == groups[n][g]
            new == groups'[n][g]
        IN  \/ new = old
            \/ old = NoGroup
            \/ groups'[n] = EmptyGroups
            \/ /\ new # NoGroup
               /\ \/ new.revision > old.revision
                  \/ old.owner = None /\ new.revision = old.revision
<1>1. TypeOK /\ Current /\ [Next]_vars => Keeps
  <2> SUFFICES ASSUME TypeOK, Current, [Next]_vars, NEW n \in Onions, NEW g \in GroupIds,
                      groups'[n][g] # groups[n][g], groups[n][g] # NoGroup,
                      groups'[n] # EmptyGroups
               PROVE  /\ groups'[n][g] # NoGroup
                      /\ \/ groups'[n][g].revision > groups[n][g].revision
                         \/ /\ groups[n][g].owner = None
                            /\ groups'[n][g].revision = groups[n][g].revision
    OBVIOUS
  <2> DEFINE old == groups[n][g]
  <2>1. PICK p \in Procs, h \in GroupIds, r \in GroupRecord :
          Saved(n, p, h, r) /\ groups'[n] = [loaded[n][p] EXCEPT ![h] = r]
    BY BookStep
  <2>2. groups[n] # EmptyGroups
    BY DEF EmptyGroups
  <2>3. loaded[n][p] = groups[n] /\ groups[n] \in GroupBooks
    BY <2>1, <2>2 DEF Saved, Current, TypeOK
  <2>4. groups'[n][g] = IF g = h THEN r ELSE old
    BY <2>1, <2>3 DEF GroupBooks
  <2>5. g = h /\ groups'[n][g] = r /\ old \in GroupRecord
    BY <2>3, <2>4 DEF GroupBooks
  <2>6. old # NoGroup /\ r # NoGroup /\ r # old
    BY <2>5, AbsentAssumption
  <2> HIDE DEF old
  <2>7. CASE Created(n, r) /\ Unused(g)
    BY <2>6, <2>7 DEF Unused, old
  <2>8. CASE Changed(n, old, r)
    <3>1. /\ old.owner # None => r = old \/ r.revision > old.revision
          /\ r.revision >= old.revision /\ r \in GroupRecord
      BY <2>5, <2>8, ChangedOwner
    <3>2. r.revision \in Nat /\ old.revision \in Nat
      BY <2>5, <3>1 DEF GroupRecord
    <3>3. QED
      BY <2>5, <2>6, <3>1, <3>2 DEF old
  <2>9. CASE Newer(old, r)
    BY <2>5, <2>6, <2>9 DEF Newer, old
  <2>10. (Created(n, r) /\ Unused(g)) \/ Changed(n, old, r) \/ Newer(old, r)
    BY <2>1, <2>3, <2>5 DEF Saved, old
  <2>11. QED
    BY <2>7, <2>8, <2>9, <2>10
<1>2. Init => TypeOK /\ Current
  BY OldAssumption DEF Init, TypeOK, Current, Running
<1>3. TypeOK /\ Current /\ [Next]_vars => TypeOK' /\ Current'
  BY TypeStep, CurrentStep DEF OneCommandAtATime
<1>4. TypeOK /\ Current /\ [Next]_vars => [Keeps]_vars
  BY <1>1
<1>5. QED
  BY <1>2, <1>3, <1>4, PTL DEF Spec, NeverBack
===============================================================================
