# A verification of BoxDrop

BoxDrop (CS60) is a small shared folder: a **tracker** keeps a table of files and of the peers
that have them, and **peers** watch a directory, tell the tracker what changes, fetch from each
other what they miss and remove what was deleted. It is written in C with one thread per
connection, a handful of global variables and two mutexes. This directory holds TLA+ models of
it, the TLC runs that check them, and TLAPS proofs about each of them: every safety property that a
passing run checks is also a theorem, for instances of any size.

`PROJECT.json` lists the runs, the source lines each definition stands for, the hazards the
properties are aimed at, and for each property a mutation of the code that breaks it.

## 1. Inventory

### Tracker (`src/tracker/tracker.c`)

| Part | State | Operations | Interacts with |
|---|---|---|---|
| file table | `global_filetable` (`numfiles`, `nodes[MAX_FILES]`), `filetable_mutex` | `handleFileUpdate` (ADDED, DELETED, MODIFIED, MODIFIED_DONE), `broadcast_to_peer` | every handshake thread calls both; the copy in `broadcast_to_peer` takes no mutex |
| peer table | `tracker_side_peer_table[MAX_PEER_SLOTS]`, pointers to malloc'ed entries; no lock | `new_peer`, time-stamping on KEEP_ALIVE, `disconnectpeer` | written by all handshake threads and by `monitor_peers` |
| handshake thread | `sockfd`, `tableindex` | `read` loop over REGISTER, KEEP_ALIVE, FILE_UPDATE, PEER_CLOSE | one per connection, started by `main`'s accept loop |
| monitor thread | loop index | `monitor_peers`: disconnects peers silent for HEARTBEAT_TIMEOUT | the peer table |

Hard here: check-then-act without a lock on both tables, slots and descriptors that are reused,
a `tableindex` kept past the life of its slot, `close()` of a descriptor another thread reads,
and the store past the end of `nodes[]` onto the mutex.
Correct would mean: no announcement lost, deletions reach every entry, no table a peer is sent is
older than the one before, a registered peer has its slot and only its own connection is closed.

### Peer (`src/peer/peer.c`)

| Part | State | Operations | Interacts with |
|---|---|---|---|
| directory monitor | inotify buffer, `file_added`, `modifying_global` | `monitor`, `modify`, `file_created`, `file_modified`, `file_deleted` | reads kernel events, sends FILE_UPDATEs |
| upload side | `peer_sock` in `listen_to_peer`, one `uploadThread` per connection | accept, read a name, send size and bytes | other peers' downloads, the directory |
| download side | a socket and a half-written file | `downloadFromPeer` | called by the reconciliation, writes the directory and so triggers the monitor |
| reconciliation | `peer_downloads`, `files[]` | `talkto_tracker`: for every table received, download, remove, announce | tracker, download side, directory |
| heartbeat | the message pointer, `interval` | `keepAlive` | the tracker connection, under `sendtotracker_mutex` |
| start and stop | the process, against the directory that outlives it | `main`, `peer_stop` on SIGINT | the tracker, which keeps the table while peers come and go |

Hard here: one flag for all creations, threads that keep a pointer into a buffer that is refilled,
one variable for all accepted sockets, results of `recv` that are not looked at, and a feedback
loop: downloads and removals look like a user's changes to the monitor. A peer is sent a table only
when it registers and at each heartbeat; its process ends at the second heartbeat, so that all it
does must come right from two tables and a restart.
Correct would mean: what happens in the directory is announced, in order and as what it was; a
download ends and is the whole file; nothing is removed that no user deleted, nothing appears that no
user made, and the peers' directories come to agree.

### Others

`src/common/filetable.h` and `constants.h` are the shared types; of `filetable.c` only
`create_fileTable` is left outside comments. `src/tracker/trackertable.c` (hash table of peers)
and `src/directory_monitor/monitor.c` (stand-alone logger) are linked into nothing that runs;
`src/common/filetester.c` is a test driver.

## 2. Modules

| Module | Models | Checked by |
|---|---|---|
| `FileLog` | abstract: what the file table promises, an append-only log with tombstones | as a property of `FileTable` |
| `FileTable` | `handleFileUpdate`, `broadcast_to_peer`, the mutex and the overrun | `MCFileTable` |
| `FileTableProofs` | the inductive invariant and four safety theorems | tlapm |
| `FileTableHistoryProofs` | what entries owe to past updates; tables never go back | tlapm |
| `FileTableRefinement` | `FileTable` implements `FileLog` | tlapm |
| `PeerTable` | `new_peer`, `handshake`, `disconnectpeer`, `monitor_peers`, accept | `MCPeerTable` |
| `PeerTableProofs` | shapes, the exact table, no refusal too soon | tlapm |
| `DirMonitor` | `monitor`, `modify`, the three announcements | `MCDirMonitor` |
| `DirMonitorProofs` | shapes, the flag, the order of announcements | tlapm |
| `Transfer` | `listen_to_peer`, `uploadThread`, `downloadFromPeer` | `MCTransfer` |
| `TransferProofs` | shapes, whole files | tlapm |
| `Sync` | `talkto_tracker` and its helpers, `keepAlive`, start and stop, several peers around the table | `MCSync` |
| `SyncTorn` | `Sync` with the tables `broadcast_to_peer` really sends, copied without the mutex | `MCSyncTorn` |
| `SyncTornProofs` | the safety theorems of `Sync` for torn tables | tlapm |
| `SyncProofs` | the inductive invariant and five safety theorems of `Sync` | tlapm |

`Sync` composes what the others model one by one: its table is an `INSTANCE` of `FileLog`, the
specification `FileTable` is proved to implement, and in `SyncTorn` the copies of it are those that
`FileTable` shows may be sent (`SentAccountable`); its announcements come in the order that
`DirMonitor` checks; its downloads have the outcomes of `Transfer`; its messages are the ones
`PeerTable` reads.

Conventions common to all: `pc` says what a thread does next, one action is the code between two
accesses to shared memory, a `... == ...` of one line near the top of a module is one condition or
assignment of the code, and *Mistakes* are mutated forms of those, used by no action. Variables
marked *history* are read by properties only.

### FileTable

`numfiles`, `nodes`, `mutex` are the C objects; `update`, `idx` are a handler's argument and loop
index; `reply` and `todo` are the message `broadcast_to_peer` fills and the memory its `memcpy`
has still to read, in any order. A handler of ADDED is `TestRoom`, `AddLock`, `WriteNode`,
`CountNode`, `AddUnlock`, `Finish`; the other three are `Scan`, `MarkLock`, `Mark`, `MarkUnlock`,
`Finish`, as in the code, where the test for room, the loop bound and the comparison are outside
the mutex. Which names match is `PrefixOf`: `strncmp` over the update's length asks whether it is
a prefix of the entry's name. `num_peers` and the address array are the sequence `holders`
(it grows without bound in the model; ten holders is beyond the runs). `create_fileTable` leaves
the other fields uninitialised: "unset".

A store past `nodes[]` lands, in the heap the tracker builds, on the mutex that `tracker_init`
allocates next: `Store` lets it go unnoticed, wedge the mutex, or end the process.

### PeerTable

A slot holds NULL or an *address*; `entry` is what is at the address, `pool` counts how often it is
on malloc's free lists, so that use after free, double free and an address handed out twice are
what they are. `fdt` is the kernel's descriptor table: accept takes the lowest free number, close
frees it while a thread blocked in `read` keeps its connection (`file`). Time is one bit per entry,
`stale`, which `Age` may set once the peer has been silent. A table index of -1 reads as NULL: the
compiled array is preceded by zero padding. `MayBreak` is SIGPIPE on sending to a dead peer.

Messages after the first have no content here: FILE_UPDATE's effect on this state is the walk over
the slots in `broadcast_to_all_peers_except`.

### DirMonitor

External: users (other peers' downloads are users here) and inotify, which merges equal
neighbouring events, adds one nameless event when its queue overflows, and one when the directory
is removed. Sub-directories change nothing the peer tells anybody and are left out. `buffer` keeps
its old events until they are overwritten, since a modify thread has a pointer into it for a second
after it was started. The user's actions are bounded by `MaxChanges`, the modify threads by
`Modifies` (when all are at work the monitor waits; the code would start another).

### Transfer

One serving peer, any number of connections. A cell is what one fill of the stdio buffer reads.
`peer_sock` is `listen_to_peer`'s variable, whose address every `uploadThread` gets;
`ReadPeerSock` reads it. Uninitialised memory is a choice: `filename` when `recv` returns 0 (the
empty name in a fresh stack, an earlier request's in a reused one, or junk) and
`file_size_received`. `Ended` is end-of-file as TCP gives it: the descriptor is closed and no
thread still blocks in `recv` on the connection. Of the `MaxFD` descriptors
some may be taken from the start (`other`): by the peer's other threads, and by the directories
`inDirectory` leaves open. The descriptor `fopen` takes and the length of the listen queue are left
out. A file is not deleted while an upload has it open: the upload would
read on as if it had not been.

### Sync

`log` is the tracker's table and `past`, a history, what each of its entries has been. Per peer, `disk`
is what its directory holds under each name, `chan` the messages the tracker has still to read,
`inbox` the tables `talkto_tracker` has still to read, and `proc` the process: `pc`, `table`, `i` are where
`talkto_tracker` is in which table, `files` the global list, `segtosend` the pointer of `keepAlive`,
`tables` how many tables have been read (the first sets `interval`, without which no heartbeat is sent).

* `Answer` is the tracker's reply to REGISTER and KEEP_ALIVE, `Add` and `Mark` are
  `handleFileUpdate`. Peers are never refused or timed out here (`PeerTable`), and a full table takes
  no more (`FileTable` has what the last store does).
* `Receive`, `Missing`, `Keep`, `Remove`, `List`, `Extra` are the two cases of `talkto_tracker` in their
  order. The look into the directory (`Missing`) and the download (`NotConnected`, `Fetch`, `Kill`)
  are two steps, as are the two readings of the directory (`List`, `Extra`): users, and other peers,
  act in between. `Extra` sends all its messages in one step, though the monitor's thread could put one
  of its own between them.
* The comparisons are the code's: `inDirectory` asks whether some file's name starts with the
  entry's, `CheckInFileTable` whether the file's name starts with some entry's, tombstones included.
  `NoName` is what an element of `files[]` holds that no list has written; the tracker takes it as a
  name of length 0, a prefix of every other.
* `Kill`: the holder an entry names has no such file, `fseek` on NULL ends its process, and the
  asking side writes a file of junk or nothing. It may be the asking process itself. `Fetch` from
  oneself truncates the file before it is read.
* The monitor announces what happens in the directory of a running process, `talkto_tracker`'s own
  downloads and removals among it (`Noticed`, `NoticedWrite`, `Echo`), straight into `chan`.
* When a process ends (`Die`), the tracker still reads some prefix of `chan`, none of it perhaps:
  events the monitor had not read are lost, and a reset drops what was sent. `Start` comes after the
  tracker has read the end of the old connection.

Left out: `isInCurrentDownloads`, since `peer_downloads` stays empty (an element is written only where
there is one already); the memory after its five elements; directories with more than `MAX_FILES`
files; the bytes of a message's name beyond its length. `Prompt` states that the 30 seconds of
`interval` suffice for all other work, so that the second heartbeat finds the process idle; the runs
of safety properties, and the proofs, do not need it.

### SyncTorn

`Answer` of `Sync` sends the table as it is at one moment. `broadcast_to_peer` need not: its `memcpy` reads
cells while other handlers write. `SyncTorn` adds `AnswerTorn`, which may send any table of
`TornTables`: any length the log has had, and in each place anything that was ever there (the history
variable `past`) or `Blank`, memory no update was written to, which is sent when `numfiles` is read after
an entry that was not yet published. That is more than `FileTable` allows, where copies lie between two
moments and hold all that was published at the first; what is shown here holds all the more there. A
blank entry is zero, because `tracker_init` allocates the table before anything has been freed: its name
has length 0. Entries are copied whole, here as in `FileTable`: a name of which half was written is not
modelled. `Torn` says which peers' answers may be torn; it is a bound for TLC, and any set in the proofs. A
behaviour of `Sync` is one of `SyncTorn` in which nobody's are, so that the run `sync` and its
properties are about both.

## 3. Runs

Runs that pass:

| Run | Instance | Shows |
|---|---|---|
| `filetable` | 2 threads, names `a`, `ab`, 2 entries, 2 messages each | `TypeOK`, `DeleteReachesAll`, `Accountable`, `SentAccountable`, `TablesMoveForward`, `ImplementsLog` |
| `filetable_full` | 2 threads, 1 entry, 2 messages from one and 3 from the other, fair | `OvershootBounded`, `PublishesItsOwn`, `TablesMoveForward`, `HandlersReturn` |
| `peertable` | 3 connections, 2 slots, 2 descriptors, no time-outs | `TableExact`, `RefusedBeyondSlots` |
| `peertable_live` | 2 connections, 1 slot, 1 descriptor, one peer may fall silent, fair | `TypeOK`, `RefusedBeyondSlots`, `SilentPeerReclaimed` |
| `dirmonitor` | 2 files and a hidden one, queue and buffer of 2, 4 changes, fair | `TypeOK`, `AnnouncedInOrder`, `FlagComesBack`, `EveryChangeAnnounced` |
| `transfer_live` | 2 downloads, 1 or 2 descriptors, files of up to 2 cells, one peer may die, 1 rewrite, fair | `TypeOK`, `WholeFile`, `DownloadsEnd` |
| `sync` | 2 peers, one with `a` and `ab`, 2 entries, 3 starts, 1 deed of a user, torn tables to one | `TypeOK`, `TwoTablesAtMost`, `RemovedForAReason`, `NothingFromNowhere`, `HolderHeldIt`, `OnlyHeldIsFetched` |
| `sync_live` | 2 peers started for ever, 1 file found and 1 created, 3 entries, fair | `EveryFileAnnounced`, `Converges` |

Why the bounds are enough to be interesting: two names suffice because names only matter through
the prefix relation, and one is a proper prefix of the other; two entries let a scan be overtaken
by an announcement, one entry lets both threads be past the room test at once, and three messages
of one thread lie between the two tables the other is sent (a file announced, deleted and modified
again); three connections for two slots and two descriptors let registrations race with each other
and with a departure, and let descriptor, heap address and slot be reused; a queue of two events
overflows within the changes allowed; two downloads are enough for one `peer_sock` to be overwritten,
and with one descriptor for accept() to fail and for a failed upload to leave nothing to the other; one
peer of `sync` is started twice, so that it comes back to the directory and the entries of its first
process, and one deed is enough for downloads, removals and their echoes to follow in both peers; the
other is sent torn tables. The theorems of section 5 cover the safety properties for all bounds.

Constraints. `NoTimeouts` of `MCPeerTable` allows registrations to race and excludes time-outs and
PEER_CLOSE; `TableExact` is about the executions without any of the three. `RefusedBeyondSlots`
is checked here while registrations race, and with time-outs and PEER_CLOSE in `peertable_live`.
`MaxStarts` of `Sync` bounds how often a peer is started; -1, in the runs of liveness properties, is no
bound. Symmetry is used for invariants, action properties and the refinement, never with fairness.
Deadlock is not checked: everything may have been sent, everybody gone, or the process dead.

Runs that show where the program departs from what it says (`findings` in `PROJECT.json`):

| Run | What happens |
|---|---|
| `peertable_race` | two registrations in the same slot |
| `dirmonitor_rewrite` | a modification swallowed by `file_added` |
| `transfer_lost` | a connection no upload thread ever serves |
| `sync_heartbeat` | the second heartbeat goes through a null pointer: there is no third |

Other departures are part of the models without a run of their own: names are compared by prefix
(`Matches`), `numfiles <= MAX_FILES` admits one announcement too many even without a race
(`HasRoom`), the broadcast sends nothing (`Finish`), a peer can be refused although there always was
a free slot (`Scan`), a timed-out peer's thread disconnects its successor in the slot (`Leaving`),
closing the descriptor of a silent peer leaves the connection up and its thread blocked
(`CloseSocket`), a slot can become NULL between the comparison and the use (`Peek`,
`Refresh`, `CloseSocket`), MODIFIED can be sent for a file that was only created (`Written`,
`Wake`), a modification is never fetched by a peer that has the file (`Keep` does not compare
versions), every peer that downloads a file announces it once more (`Echo`), a deleted file that is
missing is asked for all the same, which ends the process of the peer that removed it (`Missing`,
`Kill`), and a file whose name starts with a tombstone's is never announced (`Unlisted`).

### Fairness

Threads that can run are scheduled by the operating system: weak fairness per thread for its own
steps. A mutex wanted again and again is obtained in the end: strong fairness of `Lock`, which
glibc's mutex gives in practice though POSIX does not promise it. Peers and users owe nothing:
sending, connecting, falling silent, changing files carry no fairness. In `Transfer` a
downloading peer's thread runs on (weak fairness) unless its process dies.
In `Sync` each thread of a peer that runs, and the tracker's thread for it, are weakly fair. So is
`Start`, which is an assumption about users and no property of the code: since no process outlives its
second heartbeat, nothing would ever be reconciled if nobody started it again.

`HandlersReturn` excepts a wedged mutex and a dead process, `EveryChangeAnnounced` the endless loop
on a nameless event, `DownloadsEnd` an overwritten `peer_sock` and a descriptor table that failed
uploads have used up: in each the code stops.
`EveryFileAnnounced` excepts a full table, a process a user has stopped and one that was ended by a
request for a file it lacks; `Converges` excepts deletions, since a tombstone and its resurrection can
chase each other through the peers, and a holder that was down when asked (`missed`), since the code
does not ask again before the next table and may find it down every time.

## 4. What the properties say

* `DeleteReachesAll`: the scan reads its bound and the names without the mutex while the table
  grows; still, everything published before the handler began is marked when it ends.
* `TablesMoveForward`: successive copies sent on one connection, each torn across other threads'
  writes, never lose an entry or a tombstone and never count backwards.
* `Accountable`: an entry, a tombstone and every holder can be traced to an update that was sent.
* `SentAccountable`: so can every entry of every copy that was sent, unless it is memory not yet written
  to; and no copy lacks an entry that was published when its request was read.
* `PublishesItsOwn`, `OvershootBounded`: what the mutex protects, and how far the unprotected test
  can go wrong.
* `TableExact`: slots, descriptors and connections agree as long as nothing of the kind
  overlapping registrations, time-out, PEER_CLOSE has happened; `peertable_race` shows that the first
  exception is needed.
* `RefusedBeyondSlots`: the scan of `new_peer` takes no lock, and the table need not have been full at any
  one moment of it; still the first `MAX_PEER_SLOTS` peers that register are never refused, whoever
  leaves, is timed out or is mistaken for somebody else meanwhile.
* `AnnouncedInOrder`: announcements are a prefix of what happened; `EveryChangeAnnounced`: and all
  of it in the end.
* `WholeFile`, `DownloadsEnd`: what a finished download holds, and that it finishes.
* `TwoTablesAtMost`: the tracker answers two kinds of message, broadcasts nothing, and the process
  ends at its second heartbeat; whatever is in flight, no third table is ever read.
* `RemovedForAReason`: removals are announced like a user's deletions and mark other entries, by
  prefix; still every removal, in any peer, goes back to a deletion by a user.
* `NothingFromNowhere`: stale elements of `files[]` are announced, nameless ones among them; no peer
  ever makes a file for one.
* `HolderHeldIt`: the address everybody downloads from belongs to a peer that has had such a file,
  though MODIFIED replaces holders by prefix and processes die before their announcements are read.
* `OnlyHeldIsFetched`: torn tables have entries with no name and the address 0.0.0.0, on Linux the peer
  itself; nobody ever connects to it, though nothing in `talkto_tracker` looks at `num_peers`.
* `EveryFileAnnounced`, `Converges`: what restarts, downloads and two short tables per process achieve.

## 5. Proofs

`FileTableProofs`, for every finite set of threads, every set of names and prefix relation, every
`MAX_FILES > 0` and any number of messages (the named assumptions of `FileTable`, nothing else):

    TypeCorrect, OvershootIsBounded, EachPublishesItsOwn, DeletionReachesAll

None of the last three is inductive. `IInv` adds

* `MutexInv`: at most one thread is in a locked section and it holds the mutex, unless the mutex is
  wedged (and then nobody enters any more);
* `PhaseInv`: a thread that is adding handles an ADDED update, a thread at an entry has
  `idx < numfiles`, and `known`, the count when a scan began, is at most `numfiles`;
* `OvershootInv`: `numfiles` plus the threads past the room test is at most `MAX_FILES` plus the
  number of threads; it is what each of `TestRoom` (a thread joins only when there was room) and
  `CountNode` (one leaves, the count grows) keeps;
* `ScanInv`: the entries a DELETED scan has passed are tombstones or do not match, which other
  threads cannot undo because names of published entries stay and no update revives one
  (`EntriesStay`).

`TableImplementsLog` in `FileTableRefinement`: under the mapping of `log` to the first
`Min(numfiles, MAX_FILES)` entries, `CountNode` is `Announce` (by `PublishesItsOwn` the entry it
makes visible is the counter's own), `Mark` is `Bury`, `Replace` or `Join`, and everything else is
a stutter, stores past the array included.

`SyncProofs`, for every set of peers, every finite set of names no larger than the table, every
reflexive and transitive prefix relation, any directories found, deeds and starts (the named
assumptions of `Sync`):

    TypeCorrect, NoThirdTable, RemovalsHaveReasons, FilesComeFromUsers, HoldersHeld

Entries travel: from a directory into `chan`, into `log`, with `Answer` into `inbox` and `table`, and
through a download back into a directory, and a copy may be arbitrarily old when it is used. So the
invariant says of each message and each entry, wherever it is, something about the histories only
(`MessageOK`, `EntryOK`: its name was created, a tombstone has a user's deletion for a reason, its
first holder has held such a name); histories grow, and what was true of a copy stays true
(`TableGrown`, `ChanGrown`). A DELETED update marks entries its name is a prefix of, and the removal of
those is announced again: the reasons compose because being a prefix is transitive
(`PrefixTransitive`). `ProcOK` adds that what is fetched has a name (`inDirectory` takes the empty name
for that of any file) and `RequestsOK` accounts for tables: REGISTER comes first and before any table,
a second KEEP_ALIVE would need the pointer the first has lost, and each leads to one table.

`FileTableHistoryProofs`, from the same assumptions:

    TableIsAccountable, TablesNeverGoBack, SentTablesAreAccountable

The first says of every entry what caused it. It needs `AtWork`: the update a thread handles was
received, and between `Scan` and `Mark` the entry still has the name that was compared, outside the
mutex as that was (`EntriesStay` again). For the second, `ForwardInv` puts three tables in the order of
time, cell by cell: the last one sent to a connection, the part of the next that is copied, the table
now. It holds in spite of the torn copy because each cell on its own only moves forward. The counter is a
cell like the others, and `NamedInv` says which entries it lags behind: the published ones have a name,
and one more may, which a thread is about to count. The third joins the two: an entry is `Justified` when it
is stored, before it is counted, and stays so wherever it is copied to; `Whole` says that what was
published when the size was read has a name in the copy.

`SyncTornProofs`, from the assumptions of `Sync`:

    TornTypeCorrect, TornNoThirdTable, TornRemovalsHaveReasons, TornFilesComeFromUsers,
    TornHoldersHeld, BlanksAreNotFetched

Since `EntryOK` speaks of histories, it holds of all an entry has ever been (`PastOK`), hence of every
entry of a torn table (`TornTableOK`); and `AnswerStep` of `SyncProofs` asks no more of an answer than
that. Blank entries are harmless because the empty name is taken for that of any file. Together with
`SentTablesAreAccountable` this closes the gap between the two modules: that the tracker does not lock
the table it sends costs `Sync` none of its safety properties. It may cost liveness: one blank entry
hides every extra file from `CheckInFileTable`, and `EveryFileAnnounced` and `Converges` are claimed for
whole tables only.

`PeerTableProofs`, for any finite sets of connections and heap addresses, any number of descriptors and
slots, any messages and silent peers:

    TypeCorrect, TableIsExact, NobodyRefusedTooSoon

`TypeCorrect` and `NobodyRefusedTooSoon` hold whatever happens. For the latter `UsedInv` counts: the
REGISTERs that were read account for every slot that was ever in use, for every thread that is asking
and for every one that has refused; a thread that refuses has passed all slots (`Covers`). Nothing is
said of *which* connection has a slot, since after a time-out one thread may read another's REGISTER.
`TableIsExact` is about `Calm` executions (no overlap, time-out or PEER_CLOSE yet); its invariant `CalmInv` says
when a connection has a slot (`OwnerInv`: from its claim to its clearing, one each), that a connection's
address is on no free list and in no other used slot until it has freed it (`HeapInv`: malloc may hand
it out again while the old slot still points to it), and that its descriptor is its own (`CourseInv`).

`DirMonitorProofs`, for any finite set of names, any lengths of buffer and queue, any number of modify threads
and changes:

    TypeCorrect, FlagAlwaysComesBack, AlwaysInOrder

`AlwaysInOrder` needs to know that events that are still on their way will go on where the announcements
stop. `PendingInv` numbers the events from the one the loop is at, through the buffer and the queue, and
asks for a function that counts the changes announced when the loop comes to each of them; a nameless
event, behind which the loop never gets, ends the obligation. `LastEventInv` relates the last event to
the directory, so that inotify never merges two events that tell of different changes.

`TransferProofs`, for any number of downloads, files, descriptors, cells and rewrites:

    TypeCorrect, WholeFileArrives

Even the types need an argument (`HeldInv`): a thread that works has a descriptor of a socket and not one
of the peer's others, and a file that is being sent exists. The invariant of `WholeFileArrives`: each
connection waits in the backlog once (`BacklogInv`), each thread works on its own connection although
all are started with the address of `peer_sock` (`OwnInv`, as long as each has read it before the next
is accepted), requests ask for what is wanted (`AskInv`), and at every moment the cells a client has
got, those on their way and those the thread has still to send are the file, in this order
(`StreamInv`).

Only model-checked: the liveness properties `HandlersReturn`, `SilentPeerReclaimed`,
`EveryChangeAnnounced`, `DownloadsEnd`, `EveryFileAnnounced` and `Converges`, which TLAPS cannot prove
(it has no rule for ENABLED, which weak and strong fairness are made of).

## 6. Not modelled

* Framing. Both sides `read()` whole structures from a byte stream without a loop. All modules take a
  structure as one message; when TCP delivers one in pieces, every later message is bytes of two
  structures, and no property of the code survives that.
* `trackertable.c`, the hash table of peers: not compiled and called by nothing. It could not be
  compiled (its header includes itself without a guard, and its constructor of nodes assigns to an
  array, `node->ip = ip`); the same function reads a member it has not set, so that there is no
  defined outcome to compare with.
* The failures of the peer's `main` before it is connected and `tracker_stop`, which ends the system.

Left out for good as well: process set-up (straight-line), logging, the stand-alone
directory logger, the test driver for code that is commented out.
