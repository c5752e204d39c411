----------------------------- MODULE DirMonitor -----------------------------
(***************************************************************************)
(* The peer's directory watch (peer/peer.c): the monitor thread that reads *)
(* inotify events of DROPBOX into a buffer and works through them, and the *)
(* modify threads it starts, each of which sleeps for a second and only    *)
(* then reads the name of its file, in the buffer the monitor thread has   *)
(* gone on filling.  file_added and modifying_global are plain globals.    *)
(*                                                                         *)
(* The kernel's side is external: the events the watch asks for, merged    *)
(* when the last unread one is the same, and one nameless event when the   *)
(* queue overflows or the directory is removed.                            *)
(***************************************************************************)
EXTENDS Naturals, FiniteSets, Sequences

CONSTANTS Names,       \* files of the directory
          Hidden,      \* those whose names begin with '.' or ':'
          Modifies,    \* bound: modify threads there can be at once
          BufferLen,   \* events that fit in buffer[BUF_LEN]
          QueueLen,    \* events the kernel queues
          MaxChanges   \* bound: what users do to the directory

ASSUME NamesAssumption == Hidden \subseteq Names /\ "none" \notin Names
ASSUME LengthsAssumption ==
  BufferLen \in Nat \ {0} /\ QueueLen \in Nat \ {0} /\ MaxChanges \in Nat

VARIABLES
  disk,              \* each file: "absent", "new" or "edited" while a user
                     \* writes it, "closed"
  exists,            \* there is a DROPBOX directory
  queue,             \* the events nobody has read
  buffer,            \* the buffer, one event in each place
  length,            \* what the last read returned
  i,                 \* the event the loop is at
  pc,                \* what the monitor thread is about to do
  file_added,        \* a creation whose CLOSE_WRITE is still to come
  modifying_global,  \* FALSE while a modify thread is at work
  mod,               \* the modify threads and the places they point to
  sent,              \* the FILE_UPDATEs sent to the tracker
  steps,             \* what users may still do
  changes,           \* history: creations and deletions the watch covered
  rewritten          \* history: files modified while watched

vars == <<disk, exists, queue, buffer, length, i, pc, file_added,
          modifying_global, mod, sent, steps, changes, rewritten>>
user == <<disk, exists, steps, changes, rewritten>>
flags == <<file_added, modifying_global>>
loop == <<buffer, length, i>>

Kinds == {"CREATE", "CLOSE_WRITE", "DELETE"}
Nameless == [kind |-> "NONE", name |-> "none"]   \* event->len is 0
Events == [kind : Kinds, name : Names] \cup {Nameless}
Idle == [pc |-> "idle", event |-> 1]
Visible(n) == n \notin Hidden

Init ==
  /\ disk \in [Names -> {"absent", "closed"}]
  /\ exists \in {TRUE, \A n \in Names : disk[n] = "closed"}
  /\ queue = << >>
  /\ buffer = [k \in 1..BufferLen |-> Nameless]
  /\ length = 0
  /\ i = 1
  /\ pc = "open"
  /\ file_added = TRUE
  /\ modifying_global = TRUE
  /\ mod = [m \in Modifies |-> Idle]
  /\ sent = << >>
  /\ steps = MaxChanges
  /\ changes = << >>
  /\ rewritten = {}
-----------------------------------------------------------------------------
(***************************************************************************)
(* Mistakes the loop invites; each breaks a property when it takes the     *)
(* place of the operator it is named after.                                *)
(***************************************************************************)

TakenWhole == Len(queue)     \* read() not limited to BUF_LEN

AdvanceVisible ==            \* i += ... inside the test of the first letter
  /\ i' = IF Visible(buffer[i].name) THEN i + 1 ELSE i
  /\ UNCHANGED <<buffer, length>>

FirstEventForgotten == i     \* no i = 0 before read()

RestoredNot == FALSE         \* modify leaves modifying_global false
-----------------------------------------------------------------------------
(***************************************************************************)
(* The kernel's queue.                                                     *)
(***************************************************************************)

Watching == pc \notin {"open", "watch", "ended"}

Arriving(e) == IF Len(queue) < QueueLen THEN e ELSE Nameless

Queued(e) ==
  IF ~Watching \/ (queue # << >> /\ queue[Len(queue)] \in {e, Arriving(e)})
  THEN queue ELSE Append(queue, Arriving(e))

(***************************************************************************)
(* Users and their programs.                                               *)
(***************************************************************************)

Change(n, from, to) ==
  /\ exists /\ steps > 0 /\ disk[n] \in from
  /\ disk' = [disk EXCEPT ![n] = to]
  /\ steps' = steps - 1
  /\ UNCHANGED <<exists, loop, pc, flags, mod, sent>>

Noted(status, n) ==
  IF Watching /\ Visible(n) THEN Append(changes, <<status, n>>) ELSE changes

Create(n) ==
  /\ Change(n, {"absent"}, "new")
  /\ queue' = Queued([kind |-> "CREATE", name |-> n])
  /\ changes' = Noted("ADDED", n)
  /\ UNCHANGED rewritten

Rewrite(n) ==
  /\ Change(n, {"closed"}, "edited")
  /\ UNCHANGED <<queue, changes, rewritten>>

Close(n) ==
  /\ Change(n, {"new", "edited"}, "closed")
  /\ queue' = Queued([kind |-> "CLOSE_WRITE", name |-> n])
  /\ rewritten' = IF Watching /\ disk[n] = "edited" THEN rewritten \cup {n}
                  ELSE rewritten
  /\ UNCHANGED changes

Delete(n) ==
  /\ Change(n, {"closed"}, "absent")
  /\ queue' = Queued([kind |-> "DELETE", name |-> n])
  /\ changes' = Noted("DELETED", n)
  /\ UNCHANGED rewritten

RemoveDirectory ==
  /\ exists /\ steps > 0 /\ \A n \in Names : disk[n] = "absent"
  /\ exists' = FALSE
  /\ steps' = steps - 1
  /\ queue' = Queued(Nameless)
  /\ UNCHANGED <<disk, loop, pc, flags, mod, sent, changes, rewritten>>

Users ==
  \/ \E n \in Names : Create(n) \/ Rewrite(n) \/ Close(n) \/ Delete(n)
  \/ RemoveDirectory

(***************************************************************************)
(* monitor: the directory is opened, or made, in which case the thread has *)
(* come to its end; then the watch is added; what happens in between is    *)
(* not seen.                                                               *)
(***************************************************************************)

OpenDirectory ==
  /\ pc = "open"
  /\ pc' = IF exists THEN "watch" ELSE "ended"
  /\ exists' = TRUE
  /\ UNCHANGED <<disk, queue, loop, flags, mod, sent, steps, changes, rewritten>>

(* add_watches calls exit(0) when it cannot open the directory. *)
AddWatches ==
  /\ pc = "watch"
  /\ pc' = IF exists THEN "read" ELSE "ended"
  /\ UNCHANGED <<user, queue, loop, flags, mod, sent>>

(* read() copies the events that fit over the old ones. *)
Taken == IF Len(queue) < BufferLen THEN Len(queue) ELSE BufferLen

FirstEvent == 1      \* i = 0

ReadEvents ==
  /\ pc = "read" /\ queue # << >>
  /\ length' = Taken
  /\ buffer' = [k \in 1..BufferLen |-> IF k <= Taken THEN queue[k] ELSE buffer[k]]
  /\ queue' = SubSeq(queue, Taken + 1, Len(queue))
  /\ i' = FirstEvent
  /\ pc' = "event"
  /\ UNCHANGED <<user, flags, mod, sent>>

EndOfBuffer ==
  /\ pc = "event" /\ i > length
  /\ pc' = "read"
  /\ UNCHANGED <<user, queue, loop, flags, mod, sent>>

At(kind) == pc = "event" /\ i <= length /\ buffer[i].kind = kind

Advance == i' = i + 1 /\ UNCHANGED <<buffer, length>>

Told(status, n) == Append(sent, <<status, n>>)

Created ==
  /\ At("CREATE")
  /\ IF Visible(buffer[i].name)
     THEN file_added' = TRUE /\ sent' = Told("ADDED", buffer[i].name)
     ELSE UNCHANGED <<file_added, sent>>
  /\ Advance
  /\ UNCHANGED <<user, queue, pc, modifying_global, mod>>

(* The first CLOSE_WRITE after a creation is taken to belong to it; any    *)
(* other starts a modify thread, unless one is already at work.            *)
Spawn ==
  \E m \in Modifies :
    /\ mod[m].pc = "idle"
    /\ mod' = [mod EXCEPT ![m] = [pc |-> "begin", event |-> i]]

Written ==
  /\ At("CLOSE_WRITE")
  /\ \/ file_added /\ file_added' = FALSE /\ UNCHANGED mod
     \/ /\ ~file_added /\ modifying_global /\ Visible(buffer[i].name)
        /\ Spawn
        /\ UNCHANGED file_added
     \/ /\ ~file_added /\ ~(modifying_global /\ Visible(buffer[i].name))
        /\ UNCHANGED <<file_added, mod>>
  /\ Advance
  /\ UNCHANGED <<user, queue, pc, modifying_global, sent>>

Deleted ==
  /\ At("DELETE")
  /\ sent' = IF Visible(buffer[i].name) THEN Told("DELETED", buffer[i].name)
             ELSE sent
  /\ Advance
  /\ UNCHANGED <<user, queue, pc, flags, mod>>

(* if (event->len) fails and i is never advanced: the loop does not end. *)
Spin ==
  /\ At("NONE")
  /\ pc' = "spinning"
  /\ UNCHANGED <<user, queue, loop, flags, mod, sent>>

(***************************************************************************)
(* modify                                                                  *)
(***************************************************************************)

Restored == TRUE      \* modifying_global = true, at the end of modify

Begin(m) ==
  /\ mod[m].pc = "begin"
  /\ modifying_global' = FALSE
  /\ mod' = [mod EXCEPT ![m].pc = "sleeping"]
  /\ UNCHANGED <<user, queue, loop, pc, file_added, sent>>

Wake(m) ==
  /\ mod[m].pc = "sleeping"
  /\ sent' = Told("MODIFIED", buffer[mod[m].event].name)
  /\ mod' = [mod EXCEPT ![m].pc = "restore"]
  /\ UNCHANGED <<user, queue, loop, pc, flags>>

Restore(m) ==
  /\ mod[m].pc = "restore"
  /\ modifying_global' = Restored
  /\ mod' = [mod EXCEPT ![m] = Idle]
  /\ UNCHANGED <<user, queue, loop, pc, file_added, sent>>

-----------------------------------------------------------------------------
Monitor ==
  OpenDirectory \/ AddWatches \/ ReadEvents \/ EndOfBuffer \/ Created
    \/ Written \/ Deleted \/ Spin

Modify(m) == Begin(m) \/ Wake(m) \/ Restore(m)

Next == Users \/ Monitor \/ \E m \in Modifies : Modify(m)

Spec == Init /\ [][Next]_vars

(* The peer's threads run on; users need not do anything. *)
FairSpec ==
  Spec /\ WF_vars(Monitor) /\ \A m \in Modifies : WF_vars(Modify(m))

-----------------------------------------------------------------------------
(***************************************************************************)
(* Properties.                                                             *)
(***************************************************************************)

Updates == {"ADDED", "MODIFIED", "DELETED"} \X (Names \cup {"none"})

(* Every variable has the shape of the C object it stands for. *)
TypeOK ==
  /\ disk \in [Names -> {"absent", "new", "edited", "closed"}]
  /\ exists \in BOOLEAN
  /\ queue \in Seq(Events) /\ Len(queue) <= QueueLen + 1
  /\ buffer \in [1..BufferLen -> Events]
  /\ length \in 0..BufferLen
  /\ i \in 1..BufferLen + 1
  /\ pc \in {"open", "watch", "read", "event", "spinning", "ended"}
  /\ file_added \in BOOLEAN /\ modifying_global \in BOOLEAN
  /\ mod \in [Modifies -> [pc : {"idle", "begin", "sleeping", "restore"},
                           event : 1..BufferLen]]
  /\ sent \in Seq(Updates)
  /\ steps \in 0..MaxChanges
  /\ changes \in Seq(Updates)
  /\ rewritten \subseteq Names

(* The creations and deletions among the first k messages to the tracker.  *)
Announced(k) == {j \in 1..k : sent[j][1] # "MODIFIED"}

(* The tracker is told of creations and deletions in the order in which    *)
(* they happened, none twice and none left out, through merged events,     *)
(* batches, an overflowing queue and modify threads sending in between:    *)
(* the k-th of them is the k-th change.                                    *)
AnnouncedInOrder ==
  \A j \in Announced(Len(sent)) :
    LET k == Cardinality(Announced(j)) IN
      k <= Len(changes) /\ sent[j] = changes[k]

(* However modify threads overlap, modifying_global is not left false:     *)
(* while it is, some thread has yet to set it again.                       *)
FlagComesBack ==
  modifying_global \/ \E m \in Modifies : mod[m].pc \in {"sleeping", "restore"}

(* Every creation and deletion the watch covered is announced, unless a    *)
(* nameless event has sent the monitor thread into its endless loop.       *)
EveryChangeAnnounced ==
  \A k \in 1..MaxChanges :
    Len(changes) >= k ~>
      (Cardinality(Announced(Len(sent))) >= k \/ pc = "spinning")

(***************************************************************************)
(* What the design says, and the code does not do.                         *)
(***************************************************************************)

(* "when file changes in the local file directory, send out updated file   *)
(* table to the tracker"                                                   *)
EveryRewriteReported ==
  \A n \in Names :
    (n \in rewritten /\ Visible(n))
      ~> (<<"MODIFIED", n>> \in {sent[k] : k \in 1..Len(sent)}
            \/ pc = "spinning")
=============================================================================
