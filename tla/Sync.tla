-------------------------------- MODULE Sync --------------------------------
(***************************************************************************)
(* BoxDrop as a whole: the peers' directories and the tracker's table.     *)
(* A peer (peer/peer.c) is three threads here: talkto_tracker works        *)
(* through every table the tracker sends, keepAlive sends heartbeats, and  *)
(* monitor announces what happens in the directory, the downloads and      *)
(* removals of talkto_tracker among it.  The process may die and be        *)
(* started again; its directory stays.                                     *)
(*                                                                         *)
(* What the other modules look into is one step here: the table is the log *)
(* of FileLog, which FileTable implements; the monitor announces every     *)
(* change in order, as DirMonitor shows; a download is its outcome, as in  *)
(* Transfer.  A modification may go unannounced (DirMonitor).              *)
(***************************************************************************)
EXTENDS Integers, FiniteSets, Sequences

CONSTANTS Peers,       \* peers, each on a host of its own
          Names,       \* file names; hidden ones are never announced
          PrefixOf,    \* <<m, n>> \in PrefixOf: m is a prefix of n
          NoName,      \* the name of no characters, a prefix of all
          MAX_FILES,   \* length of the table's nodes[]
          Deeds,       \* what users do: "create", "write", "delete", "stop"
          MaxDeeds,    \* bound: how often they do it
          Found,       \* the names in each directory at first
          MaxStarts,   \* bound: how often each peer is started; -1 is no bound
          Prompt       \* TRUE: 30 seconds are enough for all other work

ASSUME NamesAssumption ==
  /\ NoName \notin Names
  /\ PrefixOf \subseteq Names \X Names
  /\ \A n \in Names : <<n, n>> \in PrefixOf
  /\ \A l, m, n \in Names :
       <<l, m>> \in PrefixOf /\ <<m, n>> \in PrefixOf => <<l, n>> \in PrefixOf
(* files[] holds as many names as the table and is filled without a test:  *)
(* directories with more files are left out.                               *)
ASSUME SizesAssumption ==
  /\ IsFiniteSet(Names) /\ MAX_FILES \in Nat /\ Cardinality(Names) <= MAX_FILES
  /\ MaxDeeds \in Nat /\ Prompt \in BOOLEAN
  /\ Deeds \subseteq {"create", "write", "delete", "stop"}
ASSUME FoundAssumption == Found \in [Peers -> SUBSET Names]

VARIABLES
  log,      \* the tracker's file table
  past,     \* history: past[k] is all that its k-th entry has been so far
  disk,     \* what each peer's directory holds under each name
  chan,     \* messages to the tracker that it has not read
  inbox,    \* tables the tracker has sent and talkto_tracker not read
  proc,     \* the memory of each peer's process
  starts,   \* how often each peer may still be started, or -1
  deeds,    \* what users may still do
  created,  \* history: names users have created, or found, somewhere
  deleted,  \* history: names users have deleted somewhere
  removed,  \* history: names remove_locally has removed somewhere
  held,     \* history: names each directory has held
  missed    \* history: a download found its peer not running

vars == <<log, past, disk, chan, inbox, proc, starts, deeds, created, deleted,
          removed, held, missed>>
history == <<created, deleted, removed, held, missed>>

AllNames == Names \cup {NoName}
Absent == "absent"
Contents == {Absent, "old", "new", "junk"}   \* "new": a user has written it

Table == INSTANCE FileLog WITH Names <- AllNames, Capacity <- MAX_FILES

(* the globals and the stacks of the peer's threads, when main starts them *)
Fresh == [life      |-> "up",         \* or what has ended the process
          pc        |-> "read",       \* what talkto_tracker does next
          table     |-> << >>,        \* receivedseg->file_table
          i         |-> 1,            \* its loop index
          files     |-> [k \in 1..MAX_FILES |-> NoName],
          segtosend |-> "allocated",  \* keepAlive's message, or "NULL"
          tables    |-> 0]            \* tables read: the first sets interval

Dead(cause) == [Fresh EXCEPT !.life = cause]

Init ==
  /\ log = << >>
  /\ past = [k \in 1..MAX_FILES |-> {}]
  /\ disk = [p \in Peers |->
               [n \in AllNames |-> IF n \in Found[p] THEN "old" ELSE Absent]]
  /\ chan = [p \in Peers |-> << >>]
  /\ inbox = [p \in Peers |-> << >>]
  /\ proc = [p \in Peers |-> Dead("stopped")]
  /\ deeds = MaxDeeds
  /\ starts = MaxStarts
  /\ created = {n \in Names : \E p \in Peers : disk[p][n] # Absent}
  /\ deleted = {}
  /\ removed = {}
  /\ held = [p \in Peers |-> {n \in Names : disk[p][n] # Absent}]
  /\ missed = FALSE
-----------------------------------------------------------------------------
Up(p) == proc[p].life = "up"

Present(p) == {n \in AllNames : disk[p][n] # Absent}

Prefix(m, n) == m = NoName \/ <<m, n>> \in PrefixOf
-----------------------------------------------------------------------------
(***************************************************************************)
(* Mistakes this code invites; each breaks a property when it takes the    *)
(* place of the operator it is named after.                                *)
(***************************************************************************)

InDirectoryExact(p, n) == n \in Present(p)        \* strcmp for strncmp

MatchesReversed(n, entry) == Prefix(entry.name, n) \* the entry's length

ZeroedNot == "allocated"                          \* memset of *segtosend

BeginLater(q, table) ==                           \* i = 1 in the first loop
  [q EXCEPT !.table = table, !.pc = "entry", !.i = 2, !.tables = @ + 1]

MarkedByKind(entry, kind, p) ==                   \* MODIFIED sets the status
  IF kind = "DELETED" THEN [entry EXCEPT !.status = "DELETED"]
  ELSE [entry EXCEPT !.holders = <<p>>, !.status = kind]

CountedLess(p) == Cardinality(Present(p)) - 1     \* i < num_of_files - 1
-----------------------------------------------------------------------------
(* inDirectory: some file's name starts with the entry's *)
InDirectory(p, n) == n = NoName \/ \E m \in Present(p) : Prefix(n, m)

(* CheckInFileTable: the name starts with some entry's, tombstones included *)
CheckInFileTable(n, table) == \E k \in DOMAIN table : Prefix(table[k].name, n)

IsDeleted(entry) == entry.status = "DELETED"

(* the strncmp of handleFileUpdate: the entry's name starts with the update's *)
Matches(n, entry) == Prefix(n, entry.name)

(* keepAlive zeroes segtosend, the pointer, and not the message *)
Zeroed == "NULL"

(* What the monitor of a running process makes of a change: an announcement. *)
Noticed(p, kind, n) ==
  IF Up(p) THEN Append(chan[p], <<kind, n>>) ELSE chan[p]

(* CLOSE_WRITE may be taken for the end of a creation *)
NoticedWrite(p, n) == {chan[p], Noticed(p, "MODIFIED", n)}

NextEntry(q) == [q EXCEPT !.i = @ + 1, !.pc = "entry"]

(* What a process that ends has sent, or noticed, and the tracker has not  *)
(* read: events the monitor has not read are lost, and the reset that      *)
(* answers for unread tables takes messages with it.                       *)
Delivered(p) == {SubSeq(chan[p], 1, k) : k \in 0..Len(chan[p])}

Die(p, cause) ==
  /\ proc' = [proc EXCEPT ![p] = Dead(cause)]
  /\ inbox' = [inbox EXCEPT ![p] = << >>]
  /\ \E rest \in Delivered(p) : chan' = [chan EXCEPT ![p] = rest]
-----------------------------------------------------------------------------
(***************************************************************************)
(* Users                                                                   *)
(***************************************************************************)

Do(deed) == deed \in Deeds /\ deeds > 0 /\ deeds' = deeds - 1

Create(p, n) ==
  /\ Do("create") /\ disk[p][n] = Absent
  /\ disk' = [disk EXCEPT ![p][n] = "old"]
  /\ chan' = [chan EXCEPT ![p] = Noticed(p, "ADDED", n)]
  /\ created' = created \cup {n}
  /\ held' = [held EXCEPT ![p] = @ \cup {n}]
  /\ UNCHANGED <<log, past, inbox, proc, starts, deleted, removed, missed>>

Write(p, n) ==
  /\ Do("write") /\ disk[p][n] # Absent
  /\ disk' = [disk EXCEPT ![p][n] = "new"]
  /\ \E told \in NoticedWrite(p, n) : chan' = [chan EXCEPT ![p] = told]
  /\ UNCHANGED <<log, past, inbox, proc, starts, history>>

Delete(p, n) ==
  /\ Do("delete") /\ disk[p][n] # Absent
  /\ disk' = [disk EXCEPT ![p][n] = Absent]
  /\ chan' = [chan EXCEPT ![p] = Noticed(p, "DELETED", n)]
  /\ deleted' = deleted \cup {n}
  /\ UNCHANGED <<log, past, inbox, proc, starts, created, removed, held,
                 missed>>

(* peer_stop, the handler of SIGINT *)
Stop(p) ==
  /\ Do("stop") /\ Up(p)
  /\ Die(p, "stopped")
  /\ UNCHANGED <<log, past, disk, starts, history>>

(* main: connect, start the threads, and the REGISTER of talkto_tracker.   *)
(* By then the tracker has read what the last process left behind.         *)
Start(p) ==
  /\ ~Up(p) /\ chan[p] = << >>
  /\ starts[p] # 0
  /\ starts' = [starts EXCEPT ![p] = IF @ > 0 THEN @ - 1 ELSE @]
  /\ proc' = [proc EXCEPT ![p] = Fresh]
  /\ chan' = [chan EXCEPT ![p] = <<<<"REGISTER", NoName>>>>]
  /\ UNCHANGED <<log, past, disk, inbox, deeds, history>>

(***************************************************************************)
(* keepAlive: until an answer has set interval it sleeps for 5 seconds.    *)
(***************************************************************************)

Beat(p) ==
  /\ Up(p) /\ proc[p].tables > 0 /\ proc[p].segtosend = "allocated"
  /\ chan' = [chan EXCEPT ![p] = Append(@, <<"KEEP_ALIVE", NoName>>)]
  /\ proc' = [proc EXCEPT ![p].segtosend = Zeroed]
  /\ UNCHANGED <<log, past, disk, inbox, deeds, starts, history>>

Idle(p) == proc[p].pc = "read" /\ inbox[p] = << >> /\ chan[p] = << >>

(* After sleep(interval): segtosend->type = KEEP_ALIVE, through NULL. *)
BeatNull(p) ==
  /\ Up(p) /\ proc[p].segtosend = "NULL"
  /\ Prompt => Idle(p)
  /\ Die(p, "heartbeat")
  /\ UNCHANGED <<log, past, disk, deeds, starts, history>>

(***************************************************************************)
(* The tracker                                                             *)
(***************************************************************************)

Hears(p, kinds) == chan[p] # << >> /\ Head(chan[p])[1] \in kinds

(* talkto_tracker has read a table; the first sets interval. *)
Begin(q, table) ==
  [q EXCEPT !.table = table, !.pc = "entry", !.i = 1, !.tables = @ + 1]

(* A talkto_tracker that waits in read() has the answer at once.  SyncTorn *)
(* says what may be sent for the table when it changes meanwhile.          *)
AnswerWith(p, table) ==
  /\ Hears(p, {"REGISTER", "KEEP_ALIVE"})
  /\ \/ /\ Up(p) /\ proc[p].pc = "read" /\ inbox[p] = << >>
        /\ proc' = [proc EXCEPT ![p] = Begin(@, table)]
        /\ UNCHANGED inbox
     \/ /\ Up(p) /\ (proc[p].pc # "read" \/ inbox[p] # << >>)
        /\ inbox' = [inbox EXCEPT ![p] = Append(@, table)]
        /\ UNCHANGED proc
     \/ ~Up(p) /\ UNCHANGED <<inbox, proc>>
  /\ chan' = [chan EXCEPT ![p] = Tail(@)]
  /\ UNCHANGED <<log, past, disk, starts, deeds, history>>

Answer(p) == AnswerWith(p, log)

Remembered ==
  [k \in 1..MAX_FILES |->
     IF k <= Len(log') THEN past[k] \cup {log'[k]} ELSE past[k]]

(* handleFileUpdate.  Nobody is sent the new table.  A full one takes no   *)
(* more: what FileTable's last store does to it is left out.               *)
Add(p) ==
  /\ Hears(p, {"ADDED"})
  /\ \/ Table!Announce(Head(chan[p])[2], p)
     \/ Len(log) = MAX_FILES /\ UNCHANGED log
  /\ past' = Remembered
  /\ chan' = [chan EXCEPT ![p] = Tail(@)]
  /\ UNCHANGED <<disk, inbox, proc, deeds, starts, history>>

Marked(entry, kind, p) ==
  IF kind = "DELETED" THEN [entry EXCEPT !.status = "DELETED"]
  ELSE [entry EXCEPT !.holders = <<p>>]

Mark(p) ==
  /\ Hears(p, {"MODIFIED", "DELETED"})
  /\ log' = [k \in DOMAIN log |->
               IF Matches(Head(chan[p])[2], log[k])
               THEN Marked(log[k], Head(chan[p])[1], p) ELSE log[k]]
  /\ past' = Remembered
  /\ chan' = [chan EXCEPT ![p] = Tail(@)]
  /\ UNCHANGED <<disk, inbox, proc, deeds, starts, history>>

(***************************************************************************)
(* talkto_tracker.  The list of current downloads stays empty: an element  *)
(* is written only where there is one already.  (Beyond its five elements, *)
(* which the entry's index leads to, it is whatever memory follows: tables *)
(* are shorter here.)                                                      *)
(***************************************************************************)

At(p, label) == Up(p) /\ proc[p].pc = label

Receive(p) ==
  /\ At(p, "read") /\ inbox[p] # << >>
  /\ proc' = [proc EXCEPT ![p] = Begin(@, Head(inbox[p]))]
  /\ inbox' = [inbox EXCEPT ![p] = Tail(@)]
  /\ UNCHANGED <<log, past, disk, chan, starts, deeds, history>>

More(p) == At(p, "entry") /\ proc[p].i <= Len(proc[p].table)
Entry(p) == proc[p].table[proc[p].i]

(* The entry is missing, whatever its status: it will be downloaded. *)
Missing(p) ==
  /\ More(p) /\ ~InDirectory(p, Entry(p).name)
  /\ proc' = [proc EXCEPT ![p].pc = "fetch"]
  /\ UNCHANGED <<log, past, disk, chan, inbox, deeds, starts, history>>

Keep(p) ==
  /\ More(p) /\ InDirectory(p, Entry(p).name) /\ ~IsDeleted(Entry(p))
  /\ proc' = [proc EXCEPT ![p] = NextEntry(@)]
  /\ UNCHANGED <<log, past, disk, chan, inbox, deeds, starts, history>>

(* remove_locally fails when it is another file that starts with the name, *)
(* or when the entry's announcer, talkto_tracker, has copied the name into *)
(* a message that went on after it: the copy is not terminated.            *)
Remove(p) ==
  /\ More(p) /\ InDirectory(p, Entry(p).name) /\ IsDeleted(Entry(p))
  /\ \/ /\ Entry(p).name \in Present(p)
        /\ disk' = [disk EXCEPT ![p][Entry(p).name] = Absent]
        /\ chan' = [chan EXCEPT ![p] = Noticed(p, "DELETED", Entry(p).name)]
        /\ removed' = removed \cup {Entry(p).name}
     \/ UNCHANGED <<disk, chan, removed>>
  /\ proc' = [proc EXCEPT ![p] = NextEntry(@)]
  /\ UNCHANGED <<log, past, inbox, deeds, starts, created, deleted, held,
                 missed>>

(* downloadFromPeer, from the first holder; an address of zeros, as memory *)
(* has it that no update was written to, is the host's own                 *)
Source(p) ==
  IF Entry(p).holders = << >> THEN p ELSE Entry(p).holders[1]

NotConnected(p) ==
  /\ At(p, "fetch") /\ ~Up(Source(p))
  /\ proc' = [proc EXCEPT ![p] = NextEntry(@)]
  /\ missed' = TRUE
  /\ UNCHANGED <<log, past, disk, chan, inbox, deeds, starts, created, deleted,
                 removed, held>>

(* fopen(.., "w") makes the file, or overwrites one made meanwhile *)
Stored(p, n, contents) ==
  /\ disk' = [disk EXCEPT ![p][n] = contents]
  /\ held' = [held EXCEPT ![p] = @ \cup {n}]

Echo(p, n) ==
  IF disk[p][n] = Absent THEN {Noticed(p, "ADDED", n)} ELSE NoticedWrite(p, n)

(* A file fetched from oneself is truncated before it is read. *)
Fetch(p) ==
  /\ At(p, "fetch")
  /\ LET q == Source(p)
         n == Entry(p).name
     IN /\ Up(q) /\ n \in Present(q)
        /\ Stored(p, n, IF p = q THEN "junk" ELSE disk[q][n])
        /\ \E told \in Echo(p, n) : chan' = [chan EXCEPT ![p] = told]
  /\ proc' = [proc EXCEPT ![p] = NextEntry(@)]
  /\ UNCHANGED <<log, past, inbox, deeds, starts, created, deleted, removed,
                 missed>>

(* The uploadThread of a peer without the file ends its process: fseek on  *)
(* NULL.  The other side's recv returns -1, or 0 and a file of junk.       *)
Kill(p) ==
  /\ At(p, "fetch")
  /\ LET q == Source(p)
         n == Entry(p).name
     IN /\ Up(q) /\ n \notin Present(q)
        /\ inbox' = [inbox EXCEPT ![q] = << >>]
        /\ \E rest \in Delivered(q) :
             \/ /\ chan' = [chan EXCEPT ![q] = rest]
                /\ UNCHANGED <<disk, held>>
             \/ /\ p # q
                /\ Stored(p, n, "junk")
                /\ \E told \in Echo(p, n) :
                     chan' = [chan EXCEPT ![q] = rest, ![p] = told]
        /\ proc' = [proc EXCEPT ![p] = NextEntry(@), ![q] = Dead("served")]
  /\ UNCHANGED <<log, past, deeds, starts, created, deleted, removed, missed>>

(* get_all_files_locally, in the order of the directory's; what files[]    *)
(* holds beyond them stays                                                 *)
Orders(S) ==
  {s \in [1..Cardinality(S) -> S] : \A n \in S : \E k \in DOMAIN s : s[k] = n}

List(p) ==
  /\ At(p, "entry") /\ ~More(p)
  /\ \E s \in Orders(Present(p)) :
       proc' = [proc EXCEPT ![p].pc = "extra", ![p].i = 1,
                  ![p].files = [k \in 1..MAX_FILES |->
                                  IF k \in DOMAIN s THEN s[k] ELSE @[k]]]
  /\ UNCHANGED <<log, past, disk, chan, inbox, deeds, starts, history>>

(* get_number_of_files_locally reads the directory again, and that many of *)
(* files[] are compared with the table.  Beyond the list that is an older  *)
(* list's name, or none: what the message's filename then holds is not     *)
(* modelled, its length is 0.                                              *)
Counted(p) == Cardinality(Present(p))

Unlisted(p) ==
  {k \in 1..Counted(p) : ~CheckInFileTable(proc[p].files[k], proc[p].table)}

Extra(p) ==
  /\ At(p, "extra")
  /\ \E s \in Orders(Unlisted(p)) :
       /\ \A j, k \in DOMAIN s : j < k => s[j] < s[k]
       /\ chan' = [chan EXCEPT ![p] = @ \o [k \in DOMAIN s |->
                                            <<"ADDED", proc[p].files[s[k]]>>]]
  /\ proc' = [proc EXCEPT ![p].pc = "read", ![p].table = << >>]
  /\ UNCHANGED <<log, past, disk, inbox, deeds, starts, history>>

-----------------------------------------------------------------------------
Users(p) ==
  Stop(p) \/ \E n \in Names : Create(p, n) \/ Write(p, n) \/ Delete(p, n)

KeepAlive(p) == Beat(p) \/ BeatNull(p)

Tracker(p) == Answer(p) \/ Add(p) \/ Mark(p)

TalkToTracker(p) ==
  \/ Receive(p) \/ Missing(p) \/ Keep(p) \/ Remove(p) \/ NotConnected(p)
  \/ Fetch(p) \/ Kill(p) \/ List(p) \/ Extra(p)

Next ==
  \E p \in Peers :
    Users(p) \/ Start(p) \/ KeepAlive(p) \/ Tracker(p) \/ TalkToTracker(p)

Spec == Init /\ [][Next]_vars

(* Threads run on, and a user starts a peer that has ended again.          *)
FairSpec ==
  /\ Spec
  /\ \A p \in Peers : WF_vars(Start(p))
  /\ \A p \in Peers : WF_vars(KeepAlive(p))
  /\ \A p \in Peers : WF_vars(Tracker(p)) /\ WF_vars(TalkToTracker(p))

-----------------------------------------------------------------------------
(***************************************************************************)
(* Properties.                                                             *)
(***************************************************************************)

Kinds == {"REGISTER", "KEEP_ALIVE", "ADDED", "MODIFIED", "DELETED"}

Processes ==
  [life : {"up", "heartbeat", "served", "stopped"},
   pc : {"read", "entry", "fetch", "extra"}, table : Seq(Table!Entry),
   i : 1..MAX_FILES + 1, files : [1..MAX_FILES -> AllNames],
   segtosend : {"allocated", "NULL"}, tables : Nat]

(* Every variable has the shape of the C object it stands for.             *)
TypeOK ==
  /\ Table!TypeOK /\ Len(log) <= MAX_FILES
  /\ disk \in [Peers -> [AllNames -> Contents]]
  /\ chan \in [Peers -> Seq(Kinds \X AllNames)]
  /\ inbox \in [Peers -> Seq(Seq(Table!Entry))]
  /\ proc \in [Peers -> Processes]
  /\ deeds \in 0..MaxDeeds
  /\ created \subseteq Names /\ deleted \subseteq Names /\ removed \subseteq Names
  /\ held \in [Peers -> SUBSET Names]
  /\ missed \in BOOLEAN

(* A process does not live to read a third table: nothing is broadcast, so *)
(* that a table only comes for REGISTER and for the first heartbeat.       *)
TwoTablesAtMost ==
  \A p \in Peers : proc[p].tables + Len(inbox[p]) <= 2

(* A file that talkto_tracker removes was deleted by a user somewhere,     *)
(* under its own name or one it starts with, however removals, downloads   *)
(* and the announcements they cause go on through the peers.               *)
RemovedForAReason ==
  \A n \in removed : \E m \in deleted : Prefix(m, n)

(* No directory holds a file that no user made: nothing is downloaded for  *)
(* the nameless entries that a list of the directory gone stale announces. *)
NothingFromNowhere ==
  \A p \in Peers : Present(p) \subseteq created

(* The peer whose address heads an entry, from which everybody downloads,  *)
(* has at some time held a file of the entry's name or of a shorter one it *)
(* modified, unless the entry is nameless.                                 *)
HolderHeldIt ==
  \A k \in DOMAIN log :
    log[k].name # NoName =>
      \E m \in held[log[k].holders[1]] : Prefix(m, log[k].name)

(* Files found by a peer when it is started, or made while it runs, come   *)
(* to be in the table, or hidden by an entry they start with, as long as   *)
(* there is room, whatever becomes of list and number of the directory's   *)
(* files and of the process's short life.                                  *)
EveryFileAnnounced ==
  \A p \in Peers, n \in Names :
    n \in Present(p) ~>
      \/ CheckInFileTable(n, log) \/ Len(log) = MAX_FILES
      \/ n \notin Present(p) \/ proc[p].life \in {"served", "stopped"}

(* Where nobody deletes, a file the tracker lists comes to be in every     *)
(* directory, or one that starts with its name is there, unless a peer was *)
(* not running when it was asked.                                          *)
Converges ==
  \A p \in Peers, n \in Names :
    (\E k \in DOMAIN log : log[k].name = n)
      ~> (InDirectory(p, n) \/ missed \/ deleted # {})

(***************************************************************************)
(* What the documentation says, and the code does not do.                  *)
(***************************************************************************)

(* "another thread "keepAlive" periodically sends heartbeat to the         *)
(* tracker": after each heartbeat there is another.                        *)
KeepsBeating ==
  \A p \in Peers :
    (Up(p) /\ proc[p].tables = 1)
      ~> (proc[p].tables > 2 \/ proc[p].life \in {"served", "stopped"})
=============================================================================
