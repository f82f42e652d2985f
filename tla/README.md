# onionchat: a TLA+ development

onionchat is a command-line chat over Tor onion services: one Rust process per
command, a Tor daemon beside it, a few JSON files, and no server. These modules
model what its processes do to the files, to each other's connections and to
the copies of groups that users pass on by hand; TLC checks them on small
instances and TLAPS proves the main results for every instance. Paths below are
relative to the repository (`src/chat.rs` and so on).

## 1. The system

| Component | State | Operations | Talks to |
|---|---|---|---|
| JSON files (`src/storage.rs`: `read_json`, `write_json`, `write_atomic`) | a file and its `.tmp` sibling | load, save | every command, the listener |
| Peer book (`PeerBook`, `remember_peer`) | `peers.json`: onion, keys, labels | add, import an invite, remember whoever is written to or writes | files, messages |
| Direct messages (`src/chat.rs`) | an onion with a listener, a prompt, connections, the message being sent | `listen`, `chat`, `send`, `run_listener`, `print_incoming` | peer book, Tor, other users |
| Groups (`GroupBook`, group commands) | `groups.json`, group files | create, update, export, import, list, show | files, peer book, other users' books |
| Group messages (`fan_out_group`, `interactive_group_chat`) | none of their own | send to each member in turn | groups, peer book, Tor |
| Tor control client (`src/tor.rs`) | one control connection | authenticate, create, publish, delete an onion; connect by SOCKS | Tor |
| Identity (`src/identity.rs`) | `identity.json` | create, load (fills in missing keys) | files, Tor |
| Frames and keys (`src/transport.rs`) | none | encode, decode, sign, verify, encrypt, decrypt | messages, invites, group files |
| Configuration, command line (`src/config.rs`, `src/cli.rs`, `src/main.rs`) | `config.toml` | read once, dispatch | all |

Two users interact in three ways: by files handed over (invites, group files),
by frames on a TCP connection through Tor, and by being reachable (the onion of
a session is published). Threads and processes of one user interact through the
files alone.

What is hard in this code:

* **Files.** Nothing locks a file, all writers share one `.tmp` name, and
  `write_atomic` removes the old file before it renames the new one. The
  listener task and the chat prompt of one process save `peers.json` from two
  threads; any two commands may.
* **Messages.** A listener reads one connection at a time, with no timeout; any
  error of `print_incoming` ends it, of the message and of the files it reads.
  Both ends change their peer books while frames are on their way. Nothing is
  acknowledged or retried.
* **Groups.** Copies are replicated by hand, in any order, with a revision
  number as the only guard; a group of an older version has no owner until
  somebody exports or updates it.
* **Group messages.** The sender's copy is read once and the members are
  awaited one after the other, while copies on all sides change; the reader
  decides by the reader's own copy.
* **Tor.** Replies carry no number, so that a client must read exactly the lines
  of its own command; an onion is up at most once and ends with the connection
  that published it; a Ctrl+C is only seen while the select loop waits, and is
  lost otherwise.
* **Identity.** `Identity::load` may write: it draws the keys that an
  `identity.json` of an older version lacks. `create` overwrites what is there.

What makes each part correct: a file is one value and an update of it is
indivisible, or at least never tears and never loses its last copy; a peer book
binds an onion to the two keys of one invite and forgets nothing; a line is
shown to whom it was typed for, once, in order, between mutual contacts, and a
listener answers until it is stopped; a group has one owner, a copy never goes
back, and the latest export can be imported by its members; a group line is
reported as sent if and only if it was handed over for everybody it was meant
for; a process that serves has its onion published, takes it down before it ends
well, and ends when it is told to; an identity is never mixed of two.

## 2. Modules

| Module | Models | Notes |
|---|---|---|
| `AtomicFile` | what the callers of `storage.rs` count on | abstract |
| `JsonFile` | `read_json`, `write_atomic` and the load/save pairs | one action per system call, any number of threads |
| `PeerBook` | `PeerRecord`, `upsert`, `find` | operators only |
| `PeerStore` | `remember_peer` on `peers.json` | `JsonFile` with peer books as values |
| `IdentityFile` | `Identity::create`, `load`, `save`, and `export_invite` | `JsonFile` with identities as values |
| `Mail` | what users are promised of messages, direct or to a group | abstract |
| `Chat` | invites, sessions, `send_message`, `run_listener`, `print_incoming` | extends `PeerBook` |
| `Groups` | `groups.json`, create, update, export, import | extends `PeerBook` |
| `GroupChat` | `send_group_message`, `fan_out_group`, group sessions, the group branch of `print_incoming` | uses the operators of `Groups` |
| `TorControl` | `tor.rs`, and the sessions around it | of its own |
| `JsonFileProofs`, `PeerBookProofs`, `PeerStoreProofs`, `IdentityFileProofs`, `ChatProofs`, `GroupsProofs`, `GroupChatProofs`, `TorControlProofs` | theorems | section 5 |
| `MCJsonFile`, `MCPeerStore`, `MCIdentityFile`, `MCChat`, `MCGroups`, `MCGroupChat`, `MCTorControl` | instances for TLC | section 4 |

### How state and actions correspond to the code

**JsonFile.** `path` and `tmp` are the contents of the file and its sibling: a
value, `Missing`, `Empty` (truncated) or `Torn` (does not parse). `pc[p]` is the
next system call of thread p: `Exists` (`load_peer_book` looks), `Read`
(`read_json`), `Open` and `Write` (the two halves of `fs::write`), `CheckPath`,
`Remove`, `Rename` (`write_atomic`). The caller's change in memory is
`Modify`, a part of the step that loads. An open file follows its inode, so `fd[p]`
is renamed or unlinked with it. `Abandon` is an I/O error or a kill at any
point. `Apply(r, v)` is what the caller makes of the value, or `Refused`.

**PeerBook, PeerStore.** A book is a function from onions to records. Names,
timestamps and the source label are left out: nothing reads them to decide. The
requests are those of the callers of `remember_peer`: an address alone, or the
card of an invite; `list_peers` loads only.

**IdentityFile.** A value is an onion and two keys, each possibly `None`; a key
pair is the random draw it comes from. `Load` begins the reading of the file; `Read`
returns a complete identity, or goes on to save a `Filled` one, which `Rename`
returns. `Create` starts at the save, after Tor has made the onion, and looks
at nothing. `memory[p]` is what the command then works with, `invites` what
`ExportInvite` gave away. `overlapped` is history.

**Chat.** A user is the onion address of their identity. `peers`,
`listening`, `prompt` (the peer of a running `chat`), `queue` (accepted or
waiting connections, the first being read), `sending` (the `send_message` in
flight, with its two awaits `connect` and `write`), `invites` (files in
circulation). `typed` and `shown` are history: the lines typed and printed; so is
`imported`, the keys of each contact that were imported last.
An envelope is what it binds: sender, line, the signing key and the two
encryption keys of the X25519 exchange; `Verifies` is `verify_message` and
`decrypt_message`. `PrintIncoming` is the whole iteration of `run_listener`:
the sender is recorded (`RecordSender`; an error of that is only logged), the
book is loaded, and the line is printed or the listener ends. `ListenerFails`
is every other way in which `run_listener` returns by `?`: `accept` fails, or
`print_incoming` cannot read `peers.json`, `groups.json` or `identity.json`.
`LoseRecords` is what other processes of the user, or a kill, can do to a book
that is read and saved in one step here: records disappear, any subset of them,
at any time. `Connect`, `WriteFrame` and `Network` are the connection, which may
break or stay silent at every point. A user has one session at a time and one
send at a time.

**Groups.** `groups[n]` is the book of user n, `loaded[n][p]` what a
command process p of n has loaded and will save, `files` the group files in
circulation; a file may be imported by anybody, late, repeatedly or in any
order. `Adopted` is the branch of `export_group` and `update_group_members` for
a group without owner. `SaveNothing` is a command that only looks, fails or is
killed; `Lose` is what `JsonFile` shows `write_atomic` can do to a book; in
`ExportGroup` the process may stop after the save and before the file.
`GroupRecord` keeps members, owner, key and revision. The peer books are
constant here. `Creates`, `Updates`, `Exports` and `Imports` say what a command does
with the book it has; `Groups` applies them to what was loaded earlier.

**GroupChat.** `sending[n]` is the state of `fan_out_group`: the snapshot of
the group, the members that are left, the one a connection is open to, and the
failures. `NextMember` looks up the key and connects, `WriteFrame` is
`write_frame` with its outcome, `Report` prints. `lines[n]` is history: for
whom each line was typed, to whom it was handed over, and what was printed.
`PrintIncoming` is the group branch: `Verifies`, then `Authorized` by the
reader's own copy; any failure ends the listener, and so does `ListenerFails`, as
in `Chat`. `Network` and `DiscardFrame` are connections that break. Everybody has a record of everybody, so that the
listener's `remember_peer` changes nothing; who has whose keys is a constant.

**TorControl.** `step[p]` is the command whose reply process p reads, or
`idle`, `serving` (the select loop) or `sending` (a line). `leaving[p]` is what
tells p to leave: a signal that its select will see, or a `/quit` or end of stdin
that the prompt will read. `Interrupt` is a Ctrl+C while the select waits;
while a line is sent no `ctrl_c()` future exists, and `SendLine` also drops a signal
that was ready together with the line. `TypeQuit` waits in stdin and is
not lost. `Write` is the writing half of `command`; `ReadLine`,
`ReadBad`, `Eof` and `Reply` are `read_reply` line by line, with data blocks. `ChooseMethod`
and `CheckProof` are `authenticate` and `authenticate_safecookie`; `Publish`,
`SaveIdentity`, `Deleted` the returns of `publish_onion`,
`create_persistent_identity` and `delete_onion`. `Answer`, `Close` and `Notice` are
Tor, which is external: it grants or refuses, closes the connection even in the middle
of a reply, takes down the onions of a connection that it finds closed, and
does not publish an onion that is up. `tor[p]` is who really answers at the
control port.

## 3. Composition

`PeerStore` and `IdentityFile` are `JsonFile` with their own values and `Apply`.
`Chat`, `Groups` and `GroupChat` read and save a file in one step.
`ImplementsAtomicFile` says when that is what the files do (one writer, no
kill); `OnlyAbandonLoses` says what one writer that may be killed adds, and
`Groups` and `GroupChat` have it as `Lose`; `PeerStoreRace` shows what more two
writers can do, and `Chat` has the losses of both as `LoseRecords` and the
file that is gone or torn while it is read as `ListenerFails`.

`GroupChat` composes the group commands (`G!Creates`, `G!Updates`, `G!Exports`,
`G!Imports`, `G!Lose` of `Groups`, each in one step, so that they interleave with the awaits
of a fan-out) with sessions and connections. `Chat` and `GroupChat` both implement `Mail`:
`DeliversMail` maps what was typed, the audience of each line and what was
shown to the abstract state, in which a line is shown to a member of its
audience at most once and in order.

`TorControl` stands beside them. What the others take from it is what it checks:
who listens has an onion that leads to them, and a user has one session at a
time, as long as Tor keeps the control connection. (After Tor has restarted a second
session of the user may be published while the first one goes on waiting for
connections that no longer come.)

## 4. Runs

| Run | Instance | Shows |
|---|---|---|
| `JsonFileAbandon` | 1 writer, failures and kills | never torn, a complete copy survives each step, a save that ends is one indivisible update, only a call that stops half-way can make the file read as its default |
| `PeerStoreThreads` | 2 threads, failures | no book mixes keys of two users or of two invites |
| `PeerStoreRace` (violation) | 2 threads | keys that were imported are lost |
| `IdentityFill` | 2 threads, failures, 3 kinds of file | identities are never mixed, keys are never replaced; without an overlap invites agree with the file |
| `IdentityKilled` (violation) | 1 process, killed | `identity.json` is lost between `remove_file` and `rename` |
| `ChatPair` | 2 strangers, an old invite of the writer, a reader who may lose records, 2 lines | mutual contacts only; the last import of a current invite makes frames readable; `Mail` is implemented; what arrives is shown, unless the listener ends or the connection it reads stays silent for ever (liveness) |
| `ChatQuickStart` (violation) | 2 users, one-sided invite | the listener ends on the first message |
| `GroupsOwner` | 3 users, 2 groups, one of them old | one owner, exports verify, copies of one revision agree and never go back, the latest export is importable |
| `GroupChat` | 3 users, 1 group, 2 revisions, one writer, 1 line | reports are true, equal revisions are safe, a fan-out ends (liveness) |
| `GroupOrder` | 2 users, 1 group, 2 revisions, one writer, 2 lines | `Mail` is implemented: each line to whom it was typed for, once at most, in order |
| `TorControl` | 2 processes of a user, no data blocks | in step, serving means published, the key goes to Tor only, a clean exit, leaving (liveness) |
| `TorDataBlock` (violation) | 1 process, data blocks | a connection closed in a data block is not noticed |

Bounds: `MaxLines` is the number of lines a user types (two are needed for an
order: `ChatPair`, `GroupOrder`), `MaxRevision` the number of updates (a file of revision 1 must be
importable before and after one of revision 2), `Talks` and `Talkers` who writes.
Two threads are enough for a race on one file: the third would repeat one of
the two. `Draws` in `IdentityFill` has one draw for each key that can be alive at once; `ForgetInvite` lets
draws be used again. Three users are used where two members may differ
(`GroupsOwner`, `GroupChat`). `GroupOrder` has two, and no user who loses a
book, so that two lines fit: `Mail` promises an order for each sender and reader only, and
`DeliversMail` is proved for any number of users and lines. In `ChatPair`
bob writes to alice, both import and export at any time, the old invite that goes
round is bob's, and alice's book may lose any record at any time; a listener reads
one connection at a time, so that several senders add backlog of the kind that
bob's two lines make already. In `GroupChat` alice owns a group of an older version that bob is a member of, and
alice and carol know each other's address and no keys, so that sealing, verifying
and authorization can each fail on their own; bob, who writes, may also lose his book.
No run turns the deadlock check off: `Quit`, `Kill`, `Close` and a new start are
always possible somewhere.

Fairness, only where a liveness property needs it:

* `ChatPair`: the runtime polls a listener whose `read_frame` has returned a
  frame or an error. Nothing is assumed of the network, the senders, or the
  connection that `read_frame` waits for: it has no timeout, and a connection
  that stays open and silent blocks all behind it, which is why `ArrivedIsShown` has
  it as an outcome.
* `GroupChat`: each step of a fan-out under way; a connection attempt ends,
  because Tor's SOCKS port answers or gives up. Nothing is assumed of the
  members.
* `TorControl`, `TorDataBlock`: the client's steps, the end of a send included,
  and Tor, which answers each command or closes the connection. Nothing is assumed of users.

### Findings

Four disagreements between code and documents, each with the run that shows it:
the address book is not persistent under two threads (`PeerStoreRace`); nor is
the identity under a kill, by a command that only shows it (`IdentityKilled`); a
listener does not run until Ctrl+C but until the first message it cannot
verify, which the quick start brings about (`ChatQuickStart`); a reply cut in a
data block is read for ever (`TorDataBlock`; today's Tor answers the commands
of onionchat without data blocks).

### Where a property stops

Conditions under which properties are stated, and what is violated without them:

* `Agreement` and `LatestIsImportable`: one command of a user at a time, an
  ownerless group in one hand, and books lost only by users who own nothing. With two
  overlapping commands of the owner, two memberships go out under one revision. With
  an ownerless group that two users have, the export keeps revision 1, so that the
  other cannot import it. An owner whose book is lost imports an old file and
  uses its next revision a second time.
* `KeysAgree`: threads that do not overlap. Two loads of one old `identity.json`
  each draw keys; the file keeps one of them, an invite may carry the other.
* `SameRevisionIsSafe`: reader and writer have the same revision, and no owner's book
  is lost (section 5). A member who
  was added in a later revision ends, with the first line, the listeners of all who
  have the earlier copy (`src/chat.rs:624`). The writer must be a member of the own copy,
  too: somebody who was removed and has imported the update can still
  send to the group, since `fan_out_group` does not look whether the sender
  is a member, and ends the listeners of those who have the update.
* `ListensUntilStopped` is what `listen` says of itself, and stands in
  `ChatQuickStart` only, which refutes it. With mutual invites a
  listener still ends when records are lost, when an old invite was imported last, when
  `print_incoming` cannot read `peers.json`, `groups.json` or `identity.json`
  (`src/chat.rs:586-588`, say because another process is between `remove_file`
  and `rename`), or when `accept` fails. So no property promises it.
* `VerifiableWhenImported` is about a reader who imported the current invite last.
  Whoever imports an older one after it (nothing compares the two) cannot read
  what the contact sends from then on, and the first frame ends the listener.
  Several lost records at once, and the loss of everything, are in the run; what is
  lost has to be imported again.
* `ArrivedIsShown`: a connection that stays open and silent, ahead of a frame that
  has arrived, keeps it from being shown for ever, and any end of the listener
  loses it.
* `LeavesWhenTold` is about `/quit` and the end of stdin at a prompt, and about
  Ctrl+C in `listen`. A Ctrl+C that is pressed while a prompt sends a
  line is lost (`src/chat.rs:133-155`: no `ctrl_c()` future is there, and the next one
  sees later signals only), as is one that is ready when the select takes a line: the
  process goes on until it is pressed again.
* `KeyOnlyToTor`: who offers SAFECOOKIE. Whoever offers NULL is given the key without
  proof of anything.
* With two writers a file may be left torn or empty; `KeysPaired` and `NeverMixed` are
  about what can be read.
* `PeersPersist` fails under a kill as well, for the reason `JsonFileAbandon`
  describes.
* `RequiresPeer` (in `Groups`, in no run): `create` refuses a group without a
  peer, `update` does not, so that a group can be emptied.
* One `max_message_bytes` for all users: a frame that is too large for its
  reader would end the listener.

## 5. Proofs

All theorems hold for every value of the constants that the modules' named
assumptions allow.

* `JsonFileProofs`: `TypeCorrect` for any number of threads, by an invariant over
  any set of values that requests cannot leave (`ContentsInductive`).
  `SingleNeverTorn`, `SingleCopySurvives`, `SingleImplementsAtomic` and
  `SingleOnlyAbandonLoses` for one writer, by `Alone`,
  which relates the program counter to both names; the refinement maps the value to
  `Visible`. `SingleImplementsAtomic` is about the specification without `Abandon`
  and is the only result of these that no run repeats.
* `PeerBookProofs`: what `upsert` does to types and keys.
* `PeerStoreProofs`: `KeysPairedHolds`, for any number of threads and failures,
  from `ContentsInductive` with the books of paired keys as the closed set. It
  assumes that the file starts with such a book or none.
* `IdentityFileProofs`: `TypeCorrect` and `NeverMixedHolds` for any threads,
  failures and kills. The invariant says of every copy (`path`, `tmp`, buffers,
  memory, invites) that it is `Genuine`, and of every buffer from which a load or
  create will return that it is complete; the set of genuine identities is closed under
  `Filled`, which is why threads may overwrite each other in any order.
  `KeysAgreeHolds` is proved by `TurnInv`: as long as `overlapped` is false, one
  thread at most is at the file and finds its names as `JsonFileProofs` says of a
  single writer (`InTurn`, with the lemma `AloneStep`), and every identity in use
  agrees with `path` and with the buffer of whoever is about to save
  (`Agreement`). The buffer is what the property alone leaves out: a thread that is
  about to save new keys for an onion would break it with its next step.
* `ChatProofs`: `TypeCorrect`; `MutualContactsHolds` for any users, invites,
  starting peer books and lost records, by `ContactInv`: whoever has a frame under
  way, in `send_message` or on a connection, has imported an invite of the one it
  is for. The invariant alone says nothing of frames in flight, and is not
  inductive without them. `VerifiableWhenImportedHolds` assumes nothing of
  invites or contacts; it needs that the book and the history of imports agree
  (`BooksAgree`: a contact imported and not lost has the keys of the card that was imported
  last, whatever was upserted since), and that frames under way bear the signing
  key of who sent them (`SendsSigned`, `QueuesSigned`). `BooksStep` reduces the actions
  to the three ways in which a record changes: it is kept, learnt or lost.
  `DeliversMailHolds` is the refinement of `Mail`:
  typing maps to `Type`, an import to `Learn`, a line that is printed to `Show`,
  every other step to a stutter. It needs `MailInv`: a send under way has its
  user's last line, and what of that user is on the receiver's screen or
  connections is older (`SendsLast`, `Below`); what is on a connection or screen was
  typed for who has it (`LinesTyped`); and the connections to a user wait in the
  order in which each sender typed (`InOrder`). Nothing in the state numbers the
  connections, so this order is what "at most once and in order" comes from.
* `GroupsProofs`: `TypeCorrect` and `ExportsVerifyHolds` for any users,
  overlapping commands and lost books, by `WellFormed`, which extends what is
  said of files to the books on disk and in memory. `OneOwnerHolds` by `OneClaim`:
  all who could still hand out a group as theirs (from the book on disk, one a
  command has loaded, or a file) are the same user. It assumes that no two users
  start with the same ownerless group; with two, both adopt it and two owners
  result. `AgreementHolds` and `LatestIsImportableHolds` add the conditions of
  section 4 as assumptions (`OneOldCopy`, `OneCommandAtATime`,
  `OwnersKeepBooks`; for the second, genuine contacts) and the invariant
  `OrderInv`: what a command has loaded is what is on disk (`Current`), users who may lose
  their book own nothing (`LosersOwnNothing`), no record of a group has a
  higher revision than its owner's own (`OwnerFirst`), and two records of one revision
  are equal (`AllAgree`). `OwnerFirst` is what makes `AllAgree` inductive: only the
  owner makes revisions, and the next one is above all there are.
  `NeverBackHolds` needs `OneCommandAtATime` only.
* `GroupChatProofs`: for any users and groups, while books and files change in
  any way. `TypeCorrect` and `ReportsTrueHolds`: the invariant adds to
  `ReportsTrue` an account of each fan-out under way (`Accounted`): the audience
  of the line is made up of the members reached, failed, left, and being
  written to, each of them once. Without it nothing is known of the failures when the
  report is printed. `MovesStep` reduces the actions to the six ways in which a
  fan-out moves.
  `DeliversMailHolds`: as in `ChatProofs`, with the members that a fan-out
  has left in place of one receiver: none of them has the line yet (`LeftLack`).
  A frame on a connection says as well that its sender knows the receiver, which
  is half of what `Mail` asks of a line that is shown; `Verifies` is the other half.
  `SameRevisionIsSafeHolds` by `CopiesInv`, about the copies of a group wherever
  they are: in books, in files, in fan-outs under way and in frames on
  connections. A group is in one hand (`OneClaim`), which has it (`OwnersHave`); no
  copy anywhere has a higher revision than the owner's book (`OwnerFirst`); and
  equal revisions are equal copies (`AllAgree`). A frame that was sent long ago is
  covered because its copy came out of a book (`CopyStep`), and nothing that is
  out is ever overtaken by a second record of its revision. It assumes `OneOldCopy`
  (a group of an older version is in one hand) and of the behaviour that no book of a
  group's owner is lost (`OwnersKeepBooks`, which every behaviour of the run
  `GroupChat` satisfies: bob, who may lose his, owns nothing). Without the second
  it fails: an owner who has lost the book imports an old file and uses its
  next revision a second time.
  `FanOutAdvances` is the part of `FanOutEnds` that needs no fairness: each step of a
  fan-out leaves strictly less of it, and other steps leave it alone or end it.
* `TorControlProofs`: `TypeCorrect`, `InStepHolds`, `ServingIsPublishedHolds`,
  `KeyOnlyToTorHolds` and `CleanExitHolds` for any number of processes and with or
  without data blocks. The invariant has five parts for each process, which
  relate what it waits for to what Tor has still to answer and what is on the
  wire (`Asked`, `Heard`), to the state of the connection (`Place`), to who is
  known to be at the other end (`Trusted`), and to what is published
  (`Published`). `ServingIsPublished` alone is not inductive: the reply that
  makes a process serve must already mean that the onion is up.

Only model-checked: the liveness properties `ArrivedIsShown`, `FanOutEnds` and
`LeavesWhenTold` (fairness and ENABLED are out of the prover's reach) and the
violations. Every other property of a passing run is a theorem.

## 6. Not modelled, and the plan

Not modelled: `config.rs` (it reads `config.toml`, or writes the defaults
once with the same `write_atomic`, and nothing changes it later), `cli.rs`,
dispatch, error texts and logging (no state), the site and packaging.
Abstracted: base64, JSON, the ciphers, the length prefix of a frame (a frame is
whole, or an error of `read_frame`), display names and `sanitize_*`, key
formats, timestamps. SOCKS (`connect_via_socks`) is one action: it
connects or fails.

What is left, in this order: for `ArrivedIsShown` and `LeavesWhenTold` the part that
needs no fairness, as `FanOutAdvances` is for `FanOutEnds`; and `Agreement`
with a condition on behaviours, as `SameRevisionIsSafeHolds` has it, in place of
the one on constants.
