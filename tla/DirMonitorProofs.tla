-------------------------- MODULE DirMonitorProofs --------------------------
(***************************************************************************)
(* Proofs about DirMonitor, for any number of files, modify threads and    *)
(* changes and any lengths of the buffer and the kernel's queue.           *)
(***************************************************************************)
EXTENDS DirMonitor, FiniteSetTheorems, SequenceTheorems, TLAPS

(* The bounds the loop and the queue keep: the loop has come to the end of *)
(* the buffer when it reads, and the one event more than the queue is long *)
(* is the nameless one.                                                    *)
BoundsInv ==
  /\ i <= length + 1
  /\ pc \in {"open", "watch", "read", "ended"} => i = length + 1
  /\ Len(queue) > QueueLen => queue[Len(queue)] = Nameless

(* Before the watch there are no events.                                   *)
UnwatchedInv == ~Watching => queue = << >>

(* The last unread event is the last thing that happened to its file, so   *)
(* the kernel never merges two creations, or two deletions, into one.      *)
LastEventInv ==
  queue # << >> =>
    LET e == queue[Len(queue)] IN
      /\ e.kind = "CREATE" => disk[e.name] = "new"
      /\ e.kind = "DELETE" => disk[e.name] = "absent"

(* The events that are still to be handled, those in the buffer and those  *)
(* in the queue, numbered from i.                                          *)
Last == length + Len(queue)
Event(q) == IF q <= length THEN buffer[q] ELSE queue[q - length]

Tells(e) == e.kind \in {"CREATE", "DELETE"} /\ Visible(e.name)
Message(e) == <<IF e.kind = "CREATE" THEN "ADDED" ELSE "DELETED", e.name>>

(* No nameless event comes before the loop has handled event q. *)
Reached(q) == \A p \in i..q : Event(p) # Nameless

TellCount == Cardinality(Announced(Len(sent)))

(* g counts the changes that are announced when the loop comes to event q. *)
Counts(g) ==
  /\ g[i] = TellCount
  /\ \A q \in i..Last :
       /\ g[q + 1] = IF Tells(Event(q)) THEN g[q] + 1 ELSE g[q]
       /\ Reached(q) /\ Tells(Event(q)) =>
            g[q] < Len(changes) /\ changes[g[q] + 1] = Message(Event(q))
  /\ Reached(Last) => g[Last + 1] = Len(changes)

PendingInv == \E g \in [i..Last + 1 -> Nat] : Counts(g)

OrderInv ==
  UnwatchedInv /\ LastEventInv /\ AnnouncedInOrder /\ PendingInv
-----------------------------------------------------------------------------
USE NamesAssumption, LengthsAssumption

LEMMA EventKinds == Nameless \in Events /\ \A e \in Events :
  /\ e.kind \in Kinds \cup {"NONE"} /\ e.name \in Names \cup {"none"}
  /\ e.kind = "NONE" <=> e = Nameless
BY DEF Events, Nameless, Kinds

(* The kernel queues an event, merges it, or queues the nameless one. *)
LEMMA QueuedCases ==
  ASSUME TypeOK, BoundsInv, NEW e \in Events
  PROVE  \/ /\ Queued(e) = queue
            /\ ~Watching \/ (queue # << >> /\ queue[Len(queue)] \in {e, Nameless})
         \/ Watching /\ Len(queue) < QueueLen /\ Queued(e) = Append(queue, e)
         \/ Watching /\ Len(queue) = QueueLen /\ Queued(e) = Append(queue, Nameless)
<1>1. Len(queue) \in Nat /\ (Len(queue) = 0 <=> queue = << >>)
  BY DEF TypeOK
<1>2. CASE ~Watching \/ (queue # << >> /\ queue[Len(queue)] \in {e, Arriving(e)})
  BY <1>2 DEF Queued, Arriving
<1>3. CASE ~(~Watching \/ (queue # << >> /\ queue[Len(queue)] \in {e, Arriving(e)}))
  <2>1. Queued(e) = Append(queue, Arriving(e)) /\ Watching
    BY <1>3 DEF Queued
  <2>2. ~(Len(queue) < QueueLen) => Len(queue) = QueueLen
    BY <1>1, <1>3 DEF Arriving, BoundsInv, TypeOK
  <2> QED
    BY <2>1, <2>2 DEF Arriving
<1> QED
  BY <1>2, <1>3

(* What every queue that an event has reached has in common. *)
LEMMA QueuedFacts ==
  ASSUME TypeOK, BoundsInv, NEW e \in Events, queue' = Queued(e)
  PROVE  /\ queue' \in Seq(Events) /\ Len(queue') <= QueueLen + 1
         /\ Len(queue') > QueueLen => queue'[Len(queue')] = Nameless
         /\ Watching => queue' # << >> /\ queue'[Len(queue')] \in {e, Nameless}
         /\ ~Watching => queue' = queue
<1>1. Len(queue) \in Nat /\ queue \in Seq(Events)
  BY DEF TypeOK
<1>2. \A n \in Events :
        /\ Append(queue, n) \in Seq(Events)
        /\ Len(Append(queue, n)) = Len(queue) + 1
        /\ Append(queue, n)[Len(queue) + 1] = n
        /\ Append(queue, n) # << >>
  BY <1>1, AppendProperties
<1>3. CASE /\ queue' = queue
           /\ ~Watching \/ (queue # << >> /\ queue[Len(queue)] \in {e, Nameless})
  BY <1>1, <1>3 DEF TypeOK, BoundsInv
<1>4. CASE Watching /\ Len(queue) < QueueLen /\ queue' = Append(queue, e)
  BY <1>1, <1>2, <1>4
<1>5. CASE Watching /\ Len(queue) = QueueLen /\ queue' = Append(queue, Nameless)
  BY <1>1, <1>2, <1>5, EventKinds
<1> QED
  BY <1>3, <1>4, <1>5, QueuedCases

-----------------------------------------------------------------------------
(* Shapes and bounds.                                                      *)

LEMMA InitTypes == Init => TypeOK /\ BoundsInv
<1> SUFFICES ASSUME Init PROVE TypeOK /\ BoundsInv
  OBVIOUS
<1> USE DEF Init
<1>1. disk \in [Names -> {"absent", "new", "edited", "closed"}]
  OBVIOUS
<1>2. buffer \in [1..BufferLen -> Events]
  BY EventKinds
<1>3. mod \in [Modifies -> [pc : {"idle", "begin", "sleeping", "restore"},
                            event : 1..BufferLen]]
  BY DEF Idle
<1>4. /\ queue \in Seq(Events) /\ Len(queue) = 0
      /\ sent \in Seq(Updates) /\ changes \in Seq(Updates)
  OBVIOUS
<1>5. i \in 1..BufferLen + 1 /\ length \in 0..BufferLen /\ i = length + 1
  OBVIOUS
<1>6. exists \in BOOLEAN
  OBVIOUS
<1> QED
  BY <1>1, <1>2, <1>3, <1>4, <1>5, <1>6 DEF TypeOK, BoundsInv

LEMMA ChangeTypes ==
  ASSUME TypeOK, BoundsInv, NEW e \in Events, queue' = Queued(e),
         UNCHANGED <<exists, loop, pc, flags, mod, sent>>,
         disk' \in [Names -> {"absent", "new", "edited", "closed"}],
         steps' \in 0..MaxChanges, changes' \in Seq(Updates),
         rewritten' \subseteq Names
  PROVE  TypeOK' /\ BoundsInv'
BY QueuedFacts DEF TypeOK, BoundsInv, loop, flags

LEMMA UsersTypes == ASSUME TypeOK, BoundsInv, Users PROVE TypeOK' /\ BoundsInv'
<1>1. ASSUME NEW n \in Names, NEW status \in {"ADDED", "DELETED"}
      PROVE  Noted(status, n) \in Seq(Updates)
  BY <1>1 DEF Noted, TypeOK, Updates
<1>2. ASSUME NEW n \in Names, NEW from,
             NEW to \in {"absent", "new", "edited", "closed"}, Change(n, from, to)
      PROVE  /\ disk' \in [Names -> {"absent", "new", "edited", "closed"}]
             /\ steps' \in 0..MaxChanges
             /\ UNCHANGED <<exists, loop, pc, flags, mod, sent>>
  BY <1>2 DEF Change, TypeOK
<1>3. ASSUME NEW n \in Names, Create(n) PROVE TypeOK' /\ BoundsInv'
  <2>1. [kind |-> "CREATE", name |-> n] \in Events
    BY DEF Events, Kinds
  <2>2. rewritten' \subseteq Names /\ changes' \in Seq(Updates)
    BY <1>1, <1>3 DEF Create, TypeOK
  <2> QED
    BY <1>2, <1>3, <2>1, <2>2, ChangeTypes DEF Create
<1>4. ASSUME NEW n \in Names, Rewrite(n) PROVE TypeOK' /\ BoundsInv'
  BY <1>2, <1>4 DEF Rewrite, TypeOK, BoundsInv, loop, flags
<1>5. ASSUME NEW n \in Names, Close(n) PROVE TypeOK' /\ BoundsInv'
  <2>1. [kind |-> "CLOSE_WRITE", name |-> n] \in Events
    BY DEF Events, Kinds
  <2>2. rewritten' \subseteq Names /\ changes' \in Seq(Updates)
    BY <1>5 DEF Close, TypeOK
  <2> QED
    BY <1>2, <1>5, <2>1, <2>2, ChangeTypes DEF Close
<1>6. ASSUME NEW n \in Names, Delete(n) PROVE TypeOK' /\ BoundsInv'
  <2>1. [kind |-> "DELETE", name |-> n] \in Events
    BY DEF Events, Kinds
  <2>2. rewritten' \subseteq Names /\ changes' \in Seq(Updates)
    BY <1>1, <1>6 DEF Delete, TypeOK
  <2> QED
    BY <1>2, <1>6, <2>1, <2>2, ChangeTypes DEF Delete
<1>7. CASE RemoveDirectory
  <2>1. /\ UNCHANGED <<disk, loop, pc, flags, mod, sent, changes, rewritten>>
        /\ queue' = Queued(Nameless) /\ exists' = FALSE /\ steps' \in 0..MaxChanges
    BY <1>7 DEF RemoveDirectory, TypeOK
  <2> QED
    BY <2>1, EventKinds, QueuedFacts DEF TypeOK, BoundsInv, loop, flags
<1> QED
  BY <1>3, <1>4, <1>5, <1>6, <1>7 DEF Users

(* read() fills the front of the buffer and takes that much of the queue.  *)
LEMMA ReadFacts ==
  ASSUME TypeOK, BoundsInv, ReadEvents
  PROVE  /\ length' \in 1..BufferLen /\ length' <= Len(queue) /\ i' = 1
         /\ buffer' \in [1..BufferLen -> Events]
         /\ \A k \in 1..length' : buffer'[k] = queue[k]
         /\ queue' \in Seq(Events) /\ Len(queue') = Len(queue) - length'
         /\ \A k \in 1..Len(queue') : queue'[k] = queue[k + length']
<1>1. Len(queue) \in Nat /\ queue # << >> /\ queue \in Seq(Events) /\ length' = Taken
  BY DEF ReadEvents, TypeOK
<1>2. Len(queue) > 0
  BY <1>1
<1>3. Taken \in 1..BufferLen /\ Taken <= Len(queue)
  BY <1>1, <1>2 DEF Taken
<1>4. \A k \in 1..Len(queue) : queue[k] \in Events
  BY <1>1, ElementOfSeq
<1>5. buffer' = [k \in 1..BufferLen |-> IF k <= Taken THEN queue[k] ELSE buffer[k]]
  BY DEF ReadEvents
<1>6. \A k \in 1..BufferLen : k <= Taken => queue[k] \in Events
  BY <1>3, <1>4
<1>7. queue' = SubSeq(queue, Taken + 1, Len(queue)) /\ i' = 1
  BY DEF ReadEvents, FirstEvent
<1>8. /\ queue' \in Seq(Events) /\ Len(queue') = Len(queue) - Taken
      /\ \A k \in 1..Len(queue') : queue'[k] = queue[k + Taken]
  <2>1. Taken + 1 \in 1..Len(queue) + 1 /\ Len(queue) \in Taken..Len(queue)
    BY <1>1, <1>3
  <2> QED
    BY <1>1, <1>3, <1>7, <2>1, SubSeqProperties
<1> QED
  BY <1>1, <1>3, <1>5, <1>6, <1>7, <1>8 DEF TypeOK

LEMMA MonitorTypes == ASSUME TypeOK, BoundsInv, Monitor PROVE TypeOK' /\ BoundsInv'
<1>1. CASE OpenDirectory
  BY <1>1 DEF OpenDirectory, TypeOK, BoundsInv, loop, flags
<1>2. CASE AddWatches
  BY <1>2 DEF AddWatches, TypeOK, BoundsInv, loop, flags, user
<1>3. CASE ReadEvents
  <2>1. /\ pc' = "event" /\ UNCHANGED <<user, flags, mod, sent>>
        /\ Len(queue) \in Nat
    BY <1>3 DEF ReadEvents, TypeOK
  <2>2. TypeOK'
    BY <1>3, <2>1, ReadFacts DEF TypeOK, user, flags
  <2>3. Len(queue') > QueueLen => queue'[Len(queue')] = Nameless
    BY <1>3, <2>1, ReadFacts DEF TypeOK
  <2> QED
    BY <1>3, <2>1, <2>2, <2>3, ReadFacts DEF BoundsInv
<1>4. CASE EndOfBuffer
  BY <1>4 DEF EndOfBuffer, TypeOK, BoundsInv, loop, flags, user
<1>5. ASSUME pc = "event", i <= length, Advance, pc' = pc,
             UNCHANGED <<user, queue>>
      PROVE  BoundsInv' /\ i' \in 1..BufferLen + 1
  BY <1>5 DEF TypeOK, BoundsInv, Advance
<1>6. pc = "event" /\ i <= length => buffer[i].name \in Names \cup {"none"}
  BY EventKinds DEF TypeOK
<1>7. CASE Created \/ Deleted
  <2>1. \A status \in {"ADDED", "DELETED"} :
          pc = "event" /\ i <= length => Told(status, buffer[i].name) \in Seq(Updates)
    BY <1>6 DEF Told, TypeOK, Updates
  <2>2. sent' \in Seq(Updates) /\ file_added' \in BOOLEAN
    BY <1>7, <2>1 DEF Created, Deleted, At, TypeOK, flags
  <2> QED
    BY <1>5, <1>7, <2>2 DEF Created, Deleted, At, Advance, TypeOK, flags, user
<1>8. CASE Written
  <2>1. mod' \in [Modifies -> [pc : {"idle", "begin", "sleeping", "restore"},
                               event : 1..BufferLen]]
    <3>1. pc = "event" /\ i \in 1..BufferLen
      BY <1>8 DEF Written, At, TypeOK
    <3>2. CASE UNCHANGED mod
      BY <3>2 DEF TypeOK
    <3>3. CASE Spawn
      <4>1. PICK m \in Modifies : mod' = [mod EXCEPT ![m] = [pc |-> "begin", event |-> i]]
        BY <3>3 DEF Spawn
      <4> QED
        BY <3>1, <4>1 DEF TypeOK
    <3> QED
      BY <1>8, <3>2, <3>3 DEF Written
  <2>2. file_added' \in BOOLEAN
    BY <1>8 DEF Written, TypeOK
  <2> QED
    BY <1>5, <1>8, <2>1, <2>2 DEF Written, At, Advance, TypeOK, user
<1>9. CASE Spin
  BY <1>9 DEF Spin, At, TypeOK, BoundsInv, loop, flags, user
<1> QED
  BY <1>1, <1>2, <1>3, <1>4, <1>7, <1>8, <1>9 DEF Monitor

LEMMA ModifyTypes ==
  ASSUME TypeOK, BoundsInv, NEW m \in Modifies, Modify(m)
  PROVE  TypeOK' /\ BoundsInv'
<1>1. mod[m] \in [pc : {"idle", "begin", "sleeping", "restore"}, event : 1..BufferLen]
  BY DEF TypeOK
<1>2. \A p \in {"sleeping", "restore"} :
        [mod EXCEPT ![m].pc = p] \in [Modifies -> [pc : {"idle", "begin", "sleeping", "restore"}, event : 1..BufferLen]]
  BY <1>1 DEF TypeOK
<1>3. CASE Begin(m)
  BY <1>2, <1>3 DEF Begin, TypeOK, BoundsInv, loop, user
<1>4. CASE Wake(m)
  <2>1. buffer[mod[m].event].name \in Names \cup {"none"}
    BY <1>1, EventKinds DEF TypeOK
  <2>2. sent' \in Seq(Updates)
    BY <1>4, <2>1 DEF Wake, Told, TypeOK, Updates
  <2> QED
    BY <1>2, <1>4, <2>2 DEF Wake, TypeOK, BoundsInv, loop, user, flags
<1>5. CASE Restore(m)
  BY <1>5 DEF Restore, Restored, Idle, TypeOK, BoundsInv, loop, user
<1> QED
  BY <1>3, <1>4, <1>5 DEF Modify

LEMMA TypeStep ==
  TypeOK /\ BoundsInv /\ [Next]_vars => TypeOK' /\ BoundsInv'
<1>1. TypeOK /\ BoundsInv /\ UNCHANGED vars => TypeOK' /\ BoundsInv'
  BY DEF vars, TypeOK, BoundsInv
<1> QED
  BY <1>1, UsersTypes, MonitorTypes, ModifyTypes DEF Next

(* Every variable keeps the shape of the C object it stands for: the queue *)
(* grows by one nameless event at most, and the loop stays in the buffer.  *)
THEOREM TypeCorrect == Spec => []TypeOK
<1>1. TypeOK /\ BoundsInv /\ [Next]_vars => (TypeOK /\ BoundsInv)'
  BY TypeStep
<1> QED
  BY <1>1, InitTypes, PTL DEF Spec

(* Whatever modify threads overlap, the one that clears modifying_global   *)
(* has yet to set it again.                                                *)
THEOREM FlagAlwaysComesBack == Spec => []FlagComesBack
<1>1. Init => FlagComesBack
  BY DEF Init, FlagComesBack
<1>2. TypeOK /\ FlagComesBack /\ [Next]_vars => FlagComesBack'
  <2> SUFFICES ASSUME TypeOK, FlagComesBack, [Next]_vars PROVE FlagComesBack'
    OBVIOUS
  <2>1. CASE UNCHANGED <<modifying_global, mod>>
    BY <2>1 DEF FlagComesBack
  <2>2. CASE Written
    <3>1. modifying_global' = modifying_global
      BY <2>2 DEF Written
    <3>2. \A m \in Modifies : mod[m].pc \in {"sleeping", "restore"} => mod'[m] = mod[m]
      BY <2>2 DEF Written, Spawn, TypeOK
    <3> QED
      BY <3>1, <3>2 DEF FlagComesBack
  <2>3. CASE Monitor /\ ~Written
    BY <2>1, <2>3 DEF Monitor, OpenDirectory, AddWatches, ReadEvents,
       EndOfBuffer, Created, Deleted, Spin, flags
  <2>4. CASE Users
    BY <2>1, <2>4 DEF Users, Create, Rewrite, Close, Delete, Change,
       RemoveDirectory, flags
  <2>5. ASSUME NEW m \in Modifies, Begin(m) PROVE FlagComesBack'
    <3>1. mod'[m].pc = "sleeping"
      BY <2>5 DEF Begin, TypeOK
    <3> QED
      BY <3>1 DEF FlagComesBack
  <2>6. ASSUME NEW m \in Modifies, Wake(m) PROVE FlagComesBack'
    <3>1. mod'[m].pc = "restore"
      BY <2>6 DEF Wake, TypeOK
    <3> QED
      BY <3>1 DEF FlagComesBack
  <2>7. ASSUME NEW m \in Modifies, Restore(m) PROVE FlagComesBack'
    BY <2>7 DEF Restore, Restored, FlagComesBack
  <2>8. CASE UNCHANGED vars
    BY <2>1, <2>8 DEF vars
  <2> QED
    BY <2>2, <2>3, <2>4, <2>5, <2>6, <2>7, <2>8 DEF Next, Modify
<1> QED
  BY <1>1, <1>2, TypeCorrect, PTL DEF Spec

-----------------------------------------------------------------------------
(* What is announced, and what is still to be.                             *)

(* Numbers of messages are numbers, and the last message counted is one. *)
LEMMA CountFacts ==
  ASSUME TypeOK
  PROVE  /\ TellCount \in Nat
         /\ \A k \in Nat : IsFiniteSet(Announced(k)) /\ Cardinality(Announced(k)) \in Nat
         /\ \A k \in Announced(Len(sent)) :
              k \in 1..Len(sent) /\ k \in Announced(k) /\ Cardinality(Announced(k)) >= 1
<1>1. Len(sent) \in Nat
  BY DEF TypeOK
<1>2. \A k \in Nat : IsFiniteSet(Announced(k)) /\ Cardinality(Announced(k)) \in Nat
  <2> TAKE k \in Nat
  <2>1. IsFiniteSet(1..k)
    BY FS_Interval
  <2>2. Announced(k) \subseteq 1..k
    BY DEF Announced
  <2> QED
    BY <2>1, <2>2, FS_Subset, FS_CardinalityType
<1>3. ASSUME NEW k \in Announced(Len(sent))
      PROVE  k \in 1..Len(sent) /\ k \in Announced(k) /\ Cardinality(Announced(k)) >= 1
  <2>1. k \in 1..Len(sent) /\ k \in Nat /\ k \in Announced(k)
    BY <1>1 DEF Announced
  <2>2. Cardinality(Announced(k)) # 0 /\ Cardinality(Announced(k)) \in Nat
    BY <1>2, <2>1, FS_EmptySet
  <2> QED
    BY <2>1, <2>2
<1> QED
  BY <1>1, <1>2, <1>3 DEF TellCount

(* One more message counts unless it tells of a modification. *)
LEMMA AppendedCount ==
  ASSUME TypeOK, NEW u \in Updates, sent' = Append(sent, u)
  PROVE  /\ Len(sent') = Len(sent) + 1 /\ sent'[Len(sent) + 1] = u
         /\ \A k \in 1..Len(sent) : sent'[k] = sent[k] /\ Announced(k)' = Announced(k)
         /\ Announced(Len(sent))' = IF u[1] = "MODIFIED" THEN Announced(Len(sent))
                                     ELSE Announced(Len(sent)) \cup {Len(sent) + 1}
         /\ TellCount' = IF u[1] = "MODIFIED" THEN TellCount ELSE TellCount + 1
<1>1. Len(sent) \in Nat /\ sent \in Seq(Updates)
  BY DEF TypeOK
<1>2. /\ Len(sent') = Len(sent) + 1 /\ sent'[Len(sent) + 1] = u
      /\ \A k \in 1..Len(sent) : sent'[k] = sent[k]
  BY <1>1, AppendProperties
<1>3. \A k \in 1..Len(sent) : Announced(k)' = Announced(k)
  <2> TAKE k \in 1..Len(sent)
  <2>1. \A j \in 1..k : sent'[j] = sent[j]
    BY <1>1, <1>2
  <2> QED
    BY <2>1 DEF Announced
<1>4. Announced(Len(sent))' = IF u[1] = "MODIFIED" THEN Announced(Len(sent))
                               ELSE Announced(Len(sent)) \cup {Len(sent) + 1}
  <2>1. 1..Len(sent') = (1..Len(sent)) \cup {Len(sent) + 1}
    BY <1>1, <1>2
  <2>2. Announced(Len(sent))' = {j \in 1..Len(sent') : sent'[j][1] # "MODIFIED"}
    BY DEF Announced
  <2>3. Announced(Len(sent)) = {j \in 1..Len(sent) : sent'[j][1] # "MODIFIED"}
    BY <1>2 DEF Announced
  <2>4. Announced(Len(sent))' =
          {j \in 1..Len(sent) : sent'[j][1] # "MODIFIED"}
            \cup {j \in {Len(sent) + 1} : sent'[j][1] # "MODIFIED"}
    BY <2>1, <2>2, Zenon
  <2>5. {j \in {Len(sent) + 1} : sent'[j][1] # "MODIFIED"} =
          IF u[1] = "MODIFIED" THEN {} ELSE {Len(sent) + 1}
    BY <1>2
  <2> QED
    BY <2>3, <2>4, <2>5
<1>5. Len(sent) + 1 \notin Announced(Len(sent))
  BY <1>1 DEF Announced
<1>6. IsFiniteSet(Announced(Len(sent)))
  BY <1>1, CountFacts
<1>7. TellCount' = Cardinality(Announced(Len(sent))')
  BY DEF TellCount, Announced
<1>8. Cardinality(Announced(Len(sent)) \cup {Len(sent) + 1}) = TellCount + 1
  BY <1>5, <1>6, FS_AddElement DEF TellCount
<1> QED
  BY <1>2, <1>3, <1>4, <1>7, <1>8 DEF TellCount

(* What has been announced stays in order when more changes happen. *)
LEMMA OrderKept ==
  ASSUME TypeOK, AnnouncedInOrder, UNCHANGED sent, NEW c \in Updates,
         changes' = changes \/ changes' = Append(changes, c)
  PROVE  AnnouncedInOrder'
<1>1. Len(changes) \in Nat
  BY DEF TypeOK
<1>2. Len(changes') >= Len(changes) /\ \A k \in 1..Len(changes) : changes'[k] = changes[k]
  <2>1. changes \in Seq(Updates)
    BY DEF TypeOK
  <2>2. CASE changes' = Append(changes, c)
    BY <1>1, <2>1, <2>2, AppendProperties
  <2> QED
    BY <1>1, <2>2
<1>3. \A j : Announced(j)' = Announced(j)
  BY DEF Announced
<1>4. ASSUME NEW j \in Announced(Len(sent))
      PROVE  /\ Cardinality(Announced(j)) <= Len(changes')
             /\ sent[j] = changes'[Cardinality(Announced(j))]
  <2>1. j \in 1..Len(sent) /\ Len(sent) \in Nat
    BY CountFacts DEF TypeOK
  <2>2. Cardinality(Announced(j)) \in 1..Len(changes)
    BY <1>1, <2>1, CountFacts DEF AnnouncedInOrder
  <2>3. sent[j] = changes[Cardinality(Announced(j))]
    BY DEF AnnouncedInOrder
  <2>4. Len(changes') \in Nat
    BY <1>1, AppendProperties DEF TypeOK
  <2> QED
    BY <1>1, <1>2, <2>2, <2>3, <2>4
<1>5. Len(sent') = Len(sent) /\ sent' = sent
  OBVIOUS
<1> QED
  BY <1>3, <1>4, <1>5 DEF AnnouncedInOrder

(* The numbers of the pending events. *)
LEMMA PendingFacts ==
  ASSUME TypeOK, BoundsInv
  PROVE  /\ i \in Nat /\ i >= 1 /\ length \in Nat /\ Last \in Nat /\ i <= Last + 1
         /\ length <= Last /\ Len(queue) \in Nat /\ Last = length + Len(queue)
         /\ \A q \in i..Last : Event(q) \in Events
         /\ queue # << >> => /\ Last \in i..Last /\ Event(Last) = queue[Len(queue)]
                             /\ queue[Len(queue)] \in Events
<1>1. /\ i \in Nat /\ i >= 1 /\ length \in Nat /\ length <= BufferLen
      /\ Len(queue) \in Nat /\ i <= length + 1 /\ queue \in Seq(Events)
  BY DEF TypeOK, BoundsInv
<1>2. Last \in Nat /\ i <= Last + 1 /\ length <= Last /\ Last = length + Len(queue)
  BY <1>1 DEF Last
<1>3. \A k \in 1..Len(queue) : queue[k] \in Events
  BY <1>1, ElementOfSeq
<1>4. ASSUME NEW q \in i..Last PROVE Event(q) \in Events
  <2>1. CASE q <= length
    <3>1. q \in 1..BufferLen
      BY <1>1, <1>2, <2>1
    <3> QED
      BY <2>1, <3>1 DEF Event, TypeOK
  <2>2. CASE q > length
    <3>1. q - length \in 1..Len(queue)
      BY <1>1, <1>2, <2>2
    <3> QED
      BY <1>1, <1>3, <2>2, <3>1 DEF Event
  <2> QED
    BY <1>1, <1>2, <2>1, <2>2
<1>5. queue # << >> => Len(queue) \in 1..Len(queue)
  BY <1>1
<1>6. queue # << >> => Last \in i..Last /\ Event(Last) = queue[Len(queue)]
  BY <1>1, <1>2, <1>5 DEF Event, Last
<1> QED
  BY <1>1, <1>2, <1>3, <1>4, <1>5, <1>6

(* Nothing that the count depends on has changed. *)
LEMMA PendingKept ==
  ASSUME PendingInv, UNCHANGED <<queue, loop, changes>>, TellCount' = TellCount
  PROVE  PendingInv'
<1>1. PICK g \in [i..Last + 1 -> Nat] : Counts(g)
  BY DEF PendingInv
<1>2. i' = i /\ Last' = Last /\ changes' = changes /\ TellCount' = TellCount
  BY DEF Last, loop
<1>3. \A q : Event(q)' = Event(q)
  BY DEF Event, loop
<1>4. \A q : Reached(q)' = Reached(q)
  BY <1>2, <1>3 DEF Reached
<1>5. Counts(g)'
  BY <1>1, <1>2, <1>3, <1>4 DEF Counts
<1> QED
  BY <1>2, <1>5 DEF PendingInv

(* An event is queued, merged or replaced by the nameless one, and when it *)
(* tells of a change, that change is the latest one.                       *)
LEMMA PendingQueued ==
  ASSUME TypeOK, BoundsInv, PendingInv, NEW e \in Events, queue' = Queued(e),
         UNCHANGED <<loop, sent>>,
         changes' = IF Watching /\ Tells(e) THEN Append(changes, Message(e))
                    ELSE changes,
         Tells(e) /\ queue # << >> => queue[Len(queue)] # e
  PROVE  PendingInv'
<1>1. PICK g \in [i..Last + 1 -> Nat] : Counts(g)
  BY DEF PendingInv
<1>2. /\ i \in Nat /\ length \in Nat /\ Last \in Nat /\ i <= Last + 1
      /\ length <= Last /\ Len(queue) \in Nat /\ Last = length + Len(queue)
  BY PendingFacts
<1>3. /\ i' = i /\ length' = length /\ TellCount' = TellCount /\ buffer' = buffer
  BY DEF loop, TellCount, Announced
<1>4. Len(changes) \in Nat /\ changes \in Seq(Updates)
  BY DEF TypeOK
<1>5. CASE queue' = queue /\ changes' = changes
  BY <1>3, <1>5, PendingKept DEF loop
<1>6. CASE queue' = queue /\ queue # << >> /\ queue[Len(queue)] = Nameless
  <2>1. ~Reached(Last)
    BY <1>6, PendingFacts DEF Reached
  <2>2. Last' = Last /\ \A q : Event(q)' = Event(q)
    BY <1>3, <1>6 DEF Last, Event
  <2>3. \A q : Reached(q)' = Reached(q)
    BY <1>3, <2>2 DEF Reached
  <2>4. Len(changes') \in Nat /\ Len(changes') >= Len(changes)
        /\ \A k \in 1..Len(changes) : changes'[k] = changes[k]
    BY <1>4, AppendProperties
  <2>5. ASSUME NEW q \in i..Last, Reached(q), Tells(Event(q))
        PROVE  g[q] < Len(changes') /\ changes'[g[q] + 1] = Message(Event(q))
    <3>1. g[q] < Len(changes) /\ changes[g[q] + 1] = Message(Event(q))
      BY <1>1, <2>5 DEF Counts
    <3>2. g[q] \in Nat
      BY <1>1, <1>2
    <3>3. g[q] + 1 \in 1..Len(changes)
      BY <1>4, <3>1, <3>2
    <3> QED
      BY <1>4, <2>4, <3>1, <3>2, <3>3
  <2>6. Counts(g)'
    BY <1>1, <1>3, <2>1, <2>2, <2>3, <2>5 DEF Counts, Tells, Message
  <2> QED
    BY <1>1, <1>3, <2>2, <2>6 DEF PendingInv
<1>7. ASSUME NEW n \in {e, Nameless}, Watching, queue' = Append(queue, n)
      PROVE  PendingInv'
  <2>1. PICK l \in Nat : l = Last
    BY <1>2
  <2>2. PICK more \in Nat : more = IF Tells(n) THEN g[l + 1] + 1 ELSE g[l + 1]
    <3>1. g[l + 1] \in Nat
      BY <1>1, <1>2, <2>1
    <3> QED
      BY <3>1
  <2>3. PICK h \in [i..l + 2 -> Nat] :
          h[l + 2] = more /\ \A q \in i..l + 1 : h[q] = g[q]
    <3> DEFINE f == [q \in i..l + 2 |-> IF q = l + 2 THEN more ELSE g[q]]
    <3>1. \A q \in i..l + 2 : q # l + 2 => g[q] \in Nat
      BY <1>1, <1>2, <2>1
    <3>2. f \in [i..l + 2 -> Nat]
      BY <3>1
    <3>3. l + 2 \in i..l + 2 /\ \A q \in i..l + 1 : q \in i..l + 2 /\ q # l + 2
      BY <1>2, <2>1
    <3>4. f[l + 2] = more /\ \A q \in i..l + 1 : f[q] = g[q]
      BY <3>3
    <3> QED
      BY <3>2, <3>4
  <2>4. /\ Len(queue') = Len(queue) + 1 /\ queue'[Len(queue) + 1] = n
        /\ \A k \in 1..Len(queue) : queue'[k] = queue[k]
    BY <1>7, AppendProperties DEF TypeOK
  <2>5. Last' = l + 1
    BY <1>2, <1>3, <2>1, <2>4 DEF Last
  <2>6. Event(l + 1)' = n
    <3>1. ~(l + 1 <= length) /\ (l + 1) - length = Len(queue) + 1
      BY <1>2, <2>1
    <3> QED
      BY <1>3, <2>4, <3>1 DEF Event
  <2>7. ASSUME NEW q \in i..l PROVE Event(q)' = Event(q)
    <3>1. q > length => q - length \in 1..Len(queue)
      BY <1>2, <2>1
    <3>2. q \in Nat
      BY <1>2
    <3> QED
      BY <1>2, <1>3, <2>4, <3>1, <3>2 DEF Event
  <2>8. ASSUME NEW q \in i..l PROVE Reached(q)' = Reached(q)
    <3>1. i..q \subseteq i..l
      BY <1>2
    <3> QED
      BY <1>3, <2>7, <3>1 DEF Reached
  <2>9. Reached(l + 1)' => Reached(l) /\ n # Nameless
    <3>1. l + 1 \in i..(l + 1) /\ i..l \subseteq i..(l + 1)
      BY <1>2, <2>1
    <3>2. i' = i
      BY <1>3
    <3>3. Reached(l + 1)' => \A q \in i..(l + 1) : Event(q)' # Nameless
      BY <3>2 DEF Reached
    <3> QED
      BY <2>6, <2>7, <3>1, <3>3 DEF Reached
  <2>10. /\ Len(changes') \in Nat
         /\ Len(changes') >= Len(changes)
         /\ \A k \in 1..Len(changes) : changes'[k] = changes[k]
    BY <1>4, AppendProperties
  <2>11. ASSUME NEW q \in i..l
         PROVE  /\ h[q + 1] = IF Tells(Event(q)') THEN h[q] + 1 ELSE h[q]
                /\ Reached(q)' /\ Tells(Event(q)') =>
                     h[q] < Len(changes') /\ changes'[h[q] + 1] = Message(Event(q)')
    <3>1. q \in i..l + 1 /\ q + 1 \in i..l + 1 /\ q \in i..Last
      BY <1>2, <2>1
    <3>2. h[q] = g[q] /\ h[q + 1] = g[q + 1] /\ g[q] \in Nat
      BY <1>1, <2>1, <2>3, <3>1
    <3>3. Reached(q) /\ Tells(Event(q)) =>
            g[q] < Len(changes) /\ changes[g[q] + 1] = Message(Event(q))
      BY <1>1, <3>1 DEF Counts
    <3>4. g[q] < Len(changes) => g[q] < Len(changes') /\ changes'[g[q] + 1] = changes[g[q] + 1]
      BY <1>4, <2>10, <3>2
    <3>5. g[q + 1] = IF Tells(Event(q)) THEN g[q] + 1 ELSE g[q]
      BY <1>1, <3>1 DEF Counts
    <3> QED
      BY <2>7, <2>8, <3>2, <3>3, <3>4, <3>5
  <2>12. /\ Reached(l + 1)' /\ Tells(n) =>
              g[l + 1] < Len(changes') /\ changes'[g[l + 1] + 1] = Message(n)
         /\ Reached(l + 1)' => more = Len(changes')
    <3>1. Reached(l) => g[l + 1] = Len(changes)
      BY <1>1, <2>1 DEF Counts
    <3>2. Tells(e) => /\ Len(changes') = Len(changes) + 1
                      /\ changes'[Len(changes) + 1] = Message(e)
      BY <1>4, <1>7, AppendProperties
    <3>3. ~Tells(e) => changes' = changes
      OBVIOUS
    <3> QED
      BY <1>4, <1>7, <2>2, <2>9, <3>1, <3>2, <3>3
  <2>13. h[i] = TellCount'
    <3>1. i \in i..l + 1
      BY <1>2, <2>1
    <3> QED
      BY <1>1, <1>3, <2>3, <3>1 DEF Counts
  <2>14. ASSUME NEW q \in i..l + 1
         PROVE  /\ h[q + 1] = IF Tells(Event(q)') THEN h[q] + 1 ELSE h[q]
                /\ Reached(q)' /\ Tells(Event(q)') =>
                     h[q] < Len(changes') /\ changes'[h[q] + 1] = Message(Event(q)')
    <3>1. CASE q \in i..l
      BY <2>11, <3>1
    <3>2. CASE q = l + 1
      <4>1. q \in i..l + 1 /\ q + 1 = l + 2
        BY <2>1, <3>2
      <4>2. h[q] = g[l + 1] /\ h[q + 1] = more
        BY <2>3, <3>2, <4>1
      <4>3. Event(q)' = n /\ Reached(q)' = Reached(l + 1)'
        BY <2>6, <3>2
      <4> QED
        BY <2>2, <2>12, <4>2, <4>3
    <3>3. q \in i..l \/ q = l + 1
      BY <1>2, <2>1
    <3> QED
      BY <3>1, <3>2, <3>3
  <2>15. Counts(h)'
    <3>1. (l + 1) + 1 = l + 2
      OBVIOUS
    <3>2. \A q : Tells(Event(q))' = Tells(Event(q)') /\ Message(Event(q))' = Message(Event(q)')
      BY DEF Tells, Message
    <3>3. Reached(Last)' = Reached(l + 1)'
      BY <2>5 DEF Reached
    <3>4. Reached(Last)' => h[Last' + 1] = Len(changes')
      BY <2>3, <2>5, <2>12, <3>1, <3>3
    <3> QED
      BY <1>3, <2>5, <2>13, <2>14, <3>2, <3>4 DEF Counts
  <2>16. i'..Last' + 1 = i..l + 2
    BY <1>2, <1>3, <2>5
  <2> QED
    BY <2>15, <2>16, <2>3 DEF PendingInv
<1>8. CASE queue' = queue /\ queue # << >> /\ queue[Len(queue)] = e
  BY <1>5, <1>8
<1> QED
  BY <1>5, <1>6, <1>7, <1>8, QueuedCases

(* read() moves events from the queue to the buffer, which was at its end. *)
LEMMA PendingRead ==
  ASSUME TypeOK, BoundsInv, PendingInv, ReadEvents
  PROVE  PendingInv'
<1>1. PICK g \in [i..Last + 1 -> Nat] : Counts(g)
  BY DEF PendingInv
<1>2. i = length + 1 /\ UNCHANGED <<sent, changes>>
  BY DEF ReadEvents, BoundsInv, user
<1>3. PICK c \in Nat : c = length
  BY DEF TypeOK
<1>4. PICK l \in Nat : l = Len(queue)
  BY DEF TypeOK
<1>5. Last = c + l /\ i = c + 1
  BY <1>2, <1>3, <1>4 DEF Last
<1>6. /\ length' \in Nat /\ length' <= l /\ i' = 1
      /\ \A k \in 1..length' : buffer'[k] = queue[k]
      /\ Len(queue') = l - length'
      /\ \A k \in 1..Len(queue') : queue'[k] = queue[k + length']
  BY <1>4, ReadFacts
<1>7. Last' = l
  <2>1. length' \in Nat /\ Len(queue') = l - length'
    BY <1>6
  <2>2. length' + (l - length') = l
    BY <1>4, <2>1
  <2>3. Last' = length' + Len(queue')
    BY DEF Last
  <2> QED
    BY <2>1, <2>2, <2>3
<1>8. TellCount' = TellCount
  BY <1>2 DEF TellCount, Announced
<1>9. ASSUME NEW q \in 1..l PROVE Event(q)' = Event(q + c)
  <2>1. Event(q + c) = queue[q]
    BY <1>3 DEF Event
  <2>2. CASE q <= length'
    BY <1>6, <2>1, <2>2 DEF Event
  <2>3. CASE ~(q <= length')
    <3>1. q - length' \in 1..Len(queue') /\ (q - length') + length' = q
      <4>1. length' \in Nat /\ Len(queue') = l - length'
        BY <1>6
      <4>2. \A r \in Nat : ~(q <= r) =>
              q - r \in 1..(l - r) /\ (q - r) + r = q
        BY <1>4, <1>9
      <4> QED
        BY <2>3, <4>1, <4>2
    <3>2. queue'[q - length'] = queue[q]
      BY <1>6, <3>1
    <3> QED
      BY <2>1, <2>3, <3>2 DEF Event
  <2> QED
    BY <2>2, <2>3
<1>10. ASSUME NEW q \in 0..l PROVE Reached(q)' => Reached(q + c)
  <2>1. ASSUME NEW p \in i..q + c PROVE p - c \in 1..q /\ p - c \in 1..l /\ (p - c) + c = p
    BY <1>5
  <2>2. ASSUME Reached(q)', NEW p \in i..q + c PROVE Event(p) # Nameless
    <3>1. Event(p - c)' # Nameless
      BY <1>6, <2>1, <2>2 DEF Reached
    <3> QED
      BY <1>9, <2>1, <3>1
  <2> QED
    BY <2>2 DEF Reached
<1>11. PICK h \in [1..l + 1 -> Nat] : \A q \in 1..l + 1 : h[q] = g[q + c]
  <2>1. \A q \in 1..l + 1 : g[q + c] \in Nat
    BY <1>1, <1>5
  <2>2. [q \in 1..l + 1 |-> g[q + c]] \in [1..l + 1 -> Nat]
    BY <2>1
  <2> QED
    BY <2>2
<1>12. h[1] = TellCount'
  BY <1>1, <1>5, <1>8, <1>11 DEF Counts
<1>13. ASSUME NEW q \in 1..l
       PROVE  /\ h[q + 1] = IF Tells(Event(q))' THEN h[q] + 1 ELSE h[q]
              /\ Reached(q)' /\ Tells(Event(q))' =>
                   h[q] < Len(changes') /\ changes'[h[q] + 1] = Message(Event(q))'
  <2>1. q + c \in i..Last /\ (q + 1) + c = (q + c) + 1 /\ q \in 1..l + 1 /\ q + 1 \in 1..l + 1
    BY <1>5
  <2>2. h[q] = g[q + c] /\ h[q + 1] = g[(q + c) + 1]
    BY <1>11, <2>1
  <2>3. Tells(Event(q))' = Tells(Event(q + c)) /\ Message(Event(q))' = Message(Event(q + c))
    BY <1>9 DEF Tells, Message
  <2>4. Reached(q)' => Reached(q + c)
    BY <1>10
  <2> QED
    BY <1>1, <1>2, <2>1, <2>2, <2>3, <2>4 DEF Counts
<1>14. Reached(Last)' => h[Last' + 1] = Len(changes')
  <2>1. Reached(Last)' => Reached(Last)
    <3>1. Reached(Last)' = Reached(l)' /\ l \in 0..l
      BY <1>7 DEF Reached
    <3>2. Reached(l + c) = Reached(Last)
      BY <1>5 DEF Reached
    <3> QED
      BY <1>10, <3>1, <3>2
  <2>2. h[l + 1] = g[Last + 1]
    BY <1>5, <1>11
  <2> QED
    BY <1>1, <1>2, <1>7, <2>1, <2>2 DEF Counts
<1>15. Counts(h)'
  BY <1>6, <1>7, <1>12, <1>13, <1>14 DEF Counts
<1> QED
  BY <1>6, <1>7, <1>11, <1>15 DEF PendingInv

(* The loop handles event i: it sends what the next change demands, or     *)
(* nothing when the event tells of none.                                   *)
LEMMA PendingHandled ==
  ASSUME TypeOK, BoundsInv, PendingInv, AnnouncedInOrder,
         i <= length, buffer[i] # Nameless, Advance, UNCHANGED <<queue, changes>>,
         sent' = IF Tells(buffer[i]) THEN Append(sent, Message(buffer[i])) ELSE sent
  PROVE  PendingInv' /\ AnnouncedInOrder'
<1>1. PICK g \in [i..Last + 1 -> Nat] : Counts(g)
  BY DEF PendingInv
<1>2. PICK k \in Nat : k = i
  BY PendingFacts
<1>3. PICK l \in Nat : l = Last
  BY PendingFacts
<1>4. k <= l /\ i' = k + 1 /\ Last' = l /\ k \in i..Last
  BY <1>2, <1>3, PendingFacts DEF Advance, Last
<1>5. Event(k) = buffer[k] /\ \A q : Event(q)' = Event(q)
  BY <1>2 DEF Event, Advance
<1>6. ASSUME NEW q PROVE Reached(q)' => Reached(q)
  <2>1. \A p \in k..q : p = k \/ p \in (k + 1)..q
    OBVIOUS
  <2> QED
    BY <1>2, <1>4, <1>5, <2>1 DEF Reached
<1>7. Reached(k)
  BY <1>2, <1>5 DEF Reached
<1>8. /\ g[k] = TellCount /\ g[k] \in Nat /\ g[k + 1] \in Nat
      /\ g[k + 1] = IF Tells(buffer[k]) THEN g[k] + 1 ELSE g[k]
      /\ Tells(buffer[k]) => g[k] < Len(changes) /\ changes[g[k] + 1] = Message(buffer[k])
  <2>1. g[k] = TellCount /\ g[k] \in Nat /\ g[k + 1] \in Nat
    <3>1. k \in i..Last + 1 /\ k + 1 \in i..Last + 1
      BY <1>2, <1>3, <1>4, PendingFacts
    <3>2. g[i] = TellCount
      BY <1>1 DEF Counts
    <3> QED
      BY <1>1, <1>2, <3>1, <3>2
  <2>2. /\ g[k + 1] = IF Tells(Event(k)) THEN g[k] + 1 ELSE g[k]
        /\ Reached(k) /\ Tells(Event(k)) =>
             g[k] < Len(changes) /\ changes[g[k] + 1] = Message(Event(k))
    BY <1>1, <1>4 DEF Counts
  <2> QED
    BY <1>5, <1>7, <2>1, <2>2
<1>9. Tells(buffer[k]) => Message(buffer[k]) \in Updates /\ Message(buffer[k])[1] # "MODIFIED"
  <2>1. buffer[k] \in Events
    BY <1>2 DEF TypeOK
  <2> QED
    BY <2>1, EventKinds DEF Tells, Message, Updates
<1>10. TellCount' = g[k + 1]
  <2>1. CASE Tells(buffer[k])
    BY <1>2, <1>8, <1>9, <2>1, AppendedCount
  <2>2. CASE ~Tells(buffer[k])
    BY <1>2, <1>8, <2>2 DEF TellCount, Announced
  <2> QED
    BY <2>1, <2>2
<1>11. PendingInv'
  <2>1. PICK h \in [(k + 1)..l + 1 -> Nat] : \A q \in (k + 1)..l + 1 : h[q] = g[q]
    <3>1. \A q \in (k + 1)..l + 1 : g[q] \in Nat
      BY <1>1, <1>2, <1>3
    <3>2. [q \in (k + 1)..l + 1 |-> g[q]] \in [(k + 1)..l + 1 -> Nat]
      BY <3>1
    <3> QED
      BY <3>2
  <2>2. h[k + 1] = TellCount' /\ h[l + 1] = g[l + 1]
    BY <1>4, <1>10, <2>1
  <2>3. ASSUME NEW q \in (k + 1)..l
        PROVE  /\ h[q + 1] = IF Tells(Event(q))' THEN h[q] + 1 ELSE h[q]
               /\ Reached(q)' /\ Tells(Event(q))' =>
                    h[q] < Len(changes') /\ changes'[h[q] + 1] = Message(Event(q))'
    <3>1. q \in i..Last /\ h[q] = g[q] /\ h[q + 1] = g[q + 1]
      BY <1>2, <1>3, <2>1
    <3>2. Tells(Event(q))' = Tells(Event(q)) /\ Message(Event(q))' = Message(Event(q))
      BY <1>5 DEF Tells, Message
    <3> QED
      BY <1>1, <1>6, <3>1, <3>2 DEF Counts
  <2>4. Reached(Last)' => h[Last' + 1] = Len(changes')
    <3>1. Reached(Last)' => Reached(Last)
      <4>1. Reached(Last)' = Reached(l)' /\ Reached(Last) = Reached(l)
        BY <1>3, <1>4 DEF Reached
      <4> QED
        BY <1>6, <4>1
    <3> QED
      BY <1>1, <1>3, <1>4, <2>2, <3>1 DEF Counts
  <2>5. Counts(h)'
    BY <1>4, <2>2, <2>3, <2>4 DEF Counts
  <2> QED
    BY <1>4, <2>1, <2>5 DEF PendingInv
<1>12. CASE ~Tells(buffer[i])
  BY <1>11, <1>12 DEF AnnouncedInOrder, Announced
<1>13. CASE Tells(buffer[i])
  <2>1. PICK n \in Nat : n = Len(sent)
    BY DEF TypeOK
  <2>2. /\ Len(sent') = n + 1 /\ sent'[n + 1] = Message(buffer[k])
        /\ \A j \in 1..n : sent'[j] = sent[j] /\ Announced(j)' = Announced(j)
        /\ Announced(n + 1)' = Announced(n) \cup {n + 1}
        /\ Cardinality(Announced(n + 1))' = TellCount + 1
    <3>1. Announced(Len(sent))' = Announced(n + 1)'
      BY <1>2, <1>9, <1>13, <2>1, AppendedCount DEF Announced
    <3>2. Cardinality(Announced(n + 1))' = TellCount'
      BY <3>1 DEF TellCount
    <3> QED
      BY <1>2, <1>9, <1>13, <2>1, <3>1, <3>2, AppendedCount
  <2>3. ASSUME NEW j \in Announced(Len(sent))'
        PROVE  /\ Cardinality(Announced(j)') <= Len(changes)
               /\ sent'[j] = changes[Cardinality(Announced(j)')]
    <3>1. CASE j \in Announced(n)
      <4>1. j \in 1..n
        BY <2>1, <3>1, CountFacts
      <4> QED
        BY <2>1, <2>2, <3>1, <4>1 DEF AnnouncedInOrder
    <3>2. CASE j = n + 1
      BY <1>2, <1>8, <1>13, <2>2, <3>2 DEF TypeOK
    <3>3. Announced(Len(sent))' = Announced(n) \cup {n + 1}
      BY <2>2 DEF Announced
    <3> QED
      BY <3>1, <3>2, <3>3
  <2>4. changes' = changes
    OBVIOUS
  <2> QED
    BY <2>3, <2>4, <1>11 DEF AnnouncedInOrder
<1> QED
  BY <1>11, <1>12, <1>13

-----------------------------------------------------------------------------
(* The steps keep the order.                                               *)

LEMMA InitOrder == Init => OrderInv
<1> SUFFICES ASSUME Init PROVE OrderInv
  OBVIOUS
<1>1. /\ i = 1 /\ length = 0 /\ queue = << >> /\ sent = << >> /\ changes = << >>
      /\ Len(queue) = 0 /\ Len(sent) = 0 /\ Len(changes) = 0
  BY DEF Init
<1>2. Announced(0) = {} /\ TellCount = 0
  <2>1. Announced(0) = {}
    BY DEF Announced
  <2> QED
    BY <1>1, <2>1, FS_EmptySet DEF TellCount
<1>3. AnnouncedInOrder
  BY <1>1, <1>2 DEF AnnouncedInOrder
<1>4. Last = 0 /\ i..Last = {} /\ i..Last + 1 = {1}
  BY <1>1 DEF Last
<1>5. Counts([q \in {1} |-> 0])
  BY <1>1, <1>2, <1>4 DEF Counts
<1>6. PendingInv
  BY <1>4, <1>5 DEF PendingInv
<1> QED
  BY <1>1, <1>3, <1>6 DEF OrderInv, UnwatchedInv, LastEventInv

(* A user's step that the kernel tells of by event e. *)
LEMMA OrderQueued ==
  ASSUME TypeOK, BoundsInv, OrderInv, NEW e \in Events, queue' = Queued(e),
         UNCHANGED <<loop, sent, pc>>,
         changes' = IF Watching /\ Tells(e) THEN Append(changes, Message(e))
                    ELSE changes,
         Tells(e) /\ queue # << >> => queue[Len(queue)] # e,
         e.kind = "CREATE" => disk'[e.name] = "new",
         e.kind = "DELETE" => disk'[e.name] = "absent"
  PROVE  OrderInv'
<1>1. PendingInv'
  BY PendingQueued DEF OrderInv
<1>2. AnnouncedInOrder'
  <2>1. Tells(e) => Message(e) \in Updates
    BY EventKinds DEF Tells, Message, Updates
  <2>2. <<"ADDED", "none">> \in Updates
    BY DEF Updates
  <2>3. CASE Watching /\ Tells(e)
    BY <2>1, <2>3, OrderKept DEF OrderInv
  <2>4. CASE ~(Watching /\ Tells(e))
    BY <2>2, <2>4, OrderKept DEF OrderInv
  <2> QED
    BY <2>3, <2>4
<1>3. UnwatchedInv' /\ LastEventInv'
  <2>1. CASE Watching
    BY <2>1, QueuedFacts, EventKinds DEF UnwatchedInv, LastEventInv, Watching, Nameless
  <2>2. CASE ~Watching
    BY <2>2, QueuedFacts DEF OrderInv, UnwatchedInv, LastEventInv, Watching
  <2> QED
    BY <2>1, <2>2
<1> QED
  BY <1>1, <1>2, <1>3 DEF OrderInv

LEMMA UsersOrder ==
  ASSUME TypeOK, BoundsInv, OrderInv, Users
  PROVE  OrderInv'
<1>1. \A n \in Names : \A from, to :
        Change(n, from, to) => /\ disk[n] \in from /\ disk'[n] = to
                               /\ UNCHANGED <<loop, sent, pc>>
  BY DEF Change, TypeOK
<1>2. ASSUME NEW n \in Names, Create(n) PROVE OrderInv'
  <2>1. PICK e \in Events : e = [kind |-> "CREATE", name |-> n]
    BY DEF Events, Kinds
  <2>2. e.kind = "CREATE" /\ e.name = n /\ disk[n] = "absent" /\ disk'[n] = "new"
        /\ UNCHANGED <<loop, sent, pc>>
    BY <1>1, <1>2, <2>1 DEF Create
  <2>3. changes' = IF Watching /\ Tells(e) THEN Append(changes, Message(e)) ELSE changes
    BY <1>2, <2>2 DEF Create, Noted, Tells, Message
  <2>4. queue # << >> => queue[Len(queue)] # e
    BY <2>2 DEF OrderInv, LastEventInv
  <2> QED
    BY <1>2, <2>1, <2>2, <2>3, <2>4, OrderQueued DEF Create
<1>3. ASSUME NEW n \in Names, Delete(n) PROVE OrderInv'
  <2>1. PICK e \in Events : e = [kind |-> "DELETE", name |-> n]
    BY DEF Events, Kinds
  <2>2. e.kind = "DELETE" /\ e.name = n /\ disk[n] = "closed" /\ disk'[n] = "absent"
        /\ UNCHANGED <<loop, sent, pc>>
    BY <1>1, <1>3, <2>1 DEF Delete
  <2>3. changes' = IF Watching /\ Tells(e) THEN Append(changes, Message(e)) ELSE changes
    BY <1>3, <2>2 DEF Delete, Noted, Tells, Message
  <2>4. queue # << >> => queue[Len(queue)] # e
    BY <2>2 DEF OrderInv, LastEventInv
  <2> QED
    BY <1>3, <2>1, <2>2, <2>3, <2>4, OrderQueued DEF Delete
<1>4. ASSUME NEW n \in Names, Close(n) PROVE OrderInv'
  <2>1. PICK e \in Events : e = [kind |-> "CLOSE_WRITE", name |-> n]
    BY DEF Events, Kinds
  <2>2. e.kind = "CLOSE_WRITE" /\ ~Tells(e)
    BY <2>1 DEF Tells
  <2>3. UNCHANGED <<loop, sent, pc, changes>> /\ queue' = Queued(e)
    BY <1>1, <1>4, <2>1 DEF Close
  <2> QED
    BY <2>2, <2>3, OrderQueued
<1>5. ASSUME NEW n \in Names, Rewrite(n) PROVE OrderInv'
  <2>1. UNCHANGED <<loop, sent, pc, queue, changes>> /\ disk[n] = "closed"
        /\ \A f \in Names : disk[f] # "closed" => disk'[f] = disk[f]
    BY <1>1, <1>5 DEF Rewrite, Change, TypeOK
  <2>2. PendingInv'
    BY <2>1, PendingKept DEF OrderInv, TellCount, Announced
  <2>3. LastEventInv'
    <3>1. queue # << >> => queue[Len(queue)] \in Events
      BY PendingFacts
    <3>2. \A e \in Events : e.kind \in {"CREATE", "DELETE"} => e.name \in Names
      BY DEF Events, Nameless
    <3> QED
      BY <2>1, <3>1, <3>2 DEF OrderInv, LastEventInv
  <2> QED
    BY <2>1, <2>2, <2>3 DEF OrderInv, UnwatchedInv, Watching, AnnouncedInOrder, Announced
<1>6. CASE RemoveDirectory
  <2>1. UNCHANGED <<loop, sent, pc, changes>> /\ queue' = Queued(Nameless)
    BY <1>6 DEF RemoveDirectory
  <2>2. ~Tells(Nameless) /\ Nameless.kind = "NONE" /\ Nameless \in Events
    BY EventKinds DEF Tells, Nameless
  <2> QED
    BY <2>1, <2>2, OrderQueued
<1> QED
  BY <1>2, <1>3, <1>4, <1>5, <1>6 DEF Users

LEMMA MonitorOrder ==
  ASSUME TypeOK, BoundsInv, OrderInv, Monitor
  PROVE  OrderInv'
<1>1. ASSUME UNCHANGED <<disk, queue, loop, sent, changes>>, Watching => Watching'
      PROVE  OrderInv'
  <2>1. PendingInv'
    BY <1>1, PendingKept DEF OrderInv, TellCount, Announced
  <2> QED
    BY <1>1, <2>1 DEF OrderInv, UnwatchedInv, LastEventInv, AnnouncedInOrder, Announced
<1>2. CASE OpenDirectory \/ AddWatches \/ EndOfBuffer \/ Spin
  BY <1>1, <1>2 DEF OpenDirectory, AddWatches, EndOfBuffer, Spin, At, Watching, user, loop
<1>3. CASE ReadEvents
  <2>1. PendingInv'
    BY <1>3, PendingRead DEF OrderInv
  <2>2. UNCHANGED <<sent, changes, disk>> /\ Watching'
    BY <1>3 DEF ReadEvents, user, Watching
  <2>3. LastEventInv'
    <3>1. queue' # << >> => queue # << >> /\ queue'[Len(queue')] = queue[Len(queue)]
      <4>1. PICK n \in Nat : n = Len(queue')
        BY <1>3, ReadFacts
      <4>2. queue' # << >> => n \in 1..n
        BY <1>3, <4>1, ReadFacts
      <4>3. n + length' = Len(queue) /\ length' \in Nat /\ Len(queue) \in Nat
        BY <1>3, <4>1, ReadFacts DEF TypeOK
      <4>4. queue' # << >> => queue'[n] = queue[n + length']
        BY <1>3, <4>1, <4>2, ReadFacts
      <4> QED
        BY <1>3, <4>1, <4>3, <4>4 DEF ReadEvents
    <3> QED
      BY <2>2, <3>1 DEF OrderInv, LastEventInv
  <2> QED
    BY <2>1, <2>2, <2>3 DEF OrderInv, UnwatchedInv, AnnouncedInOrder, Announced
<1>4. ASSUME At("CREATE") \/ At("CLOSE_WRITE") \/ At("DELETE"), Advance,
             UNCHANGED <<user, queue, pc>>,
             sent' = IF Tells(buffer[i]) THEN Append(sent, Message(buffer[i])) ELSE sent
      PROVE  OrderInv'
  <2>1. i <= length /\ buffer[i] # Nameless
    BY <1>4 DEF At, Nameless
  <2>2. PendingInv' /\ AnnouncedInOrder'
    BY <1>4, <2>1, PendingHandled DEF OrderInv, user
  <2> QED
    BY <1>4, <2>2 DEF OrderInv, UnwatchedInv, LastEventInv, Watching, user
<1>5. CASE Created
  BY <1>4, <1>5 DEF Created, At, Told, Tells, Message
<1>6. CASE Deleted
  BY <1>4, <1>6 DEF Deleted, At, Told, Tells, Message
<1>7. CASE Written
  BY <1>4, <1>7 DEF Written, At, Tells
<1> QED
  BY <1>2, <1>3, <1>5, <1>6, <1>7 DEF Monitor

LEMMA ModifyOrder ==
  ASSUME TypeOK, BoundsInv, OrderInv, NEW m \in Modifies, Modify(m)
  PROVE  OrderInv'
<1>1. UNCHANGED <<user, queue, loop, pc>>
  BY DEF Modify, Begin, Wake, Restore
<1>2. AnnouncedInOrder' /\ TellCount' = TellCount
  <2>1. CASE sent' = sent
    BY <1>1, <2>1 DEF OrderInv, AnnouncedInOrder, Announced, TellCount, user
  <2>2. CASE Wake(m)
    <3>1. PICK u \in Updates : u[1] = "MODIFIED" /\ sent' = Append(sent, u)
      <4>1. mod[m].event \in 1..BufferLen
        BY DEF TypeOK
      <4>2. buffer[mod[m].event].name \in Names \cup {"none"}
        BY <4>1, EventKinds DEF TypeOK
      <4> QED
        BY <2>2, <4>2 DEF Wake, Told, Updates
    <3>2. TellCount' = TellCount /\ Announced(Len(sent))' = Announced(Len(sent))
      BY <3>1, AppendedCount
    <3>3. ASSUME NEW j \in Announced(Len(sent))
          PROVE  /\ Cardinality(Announced(j)') <= Len(changes)
                 /\ sent'[j] = changes[Cardinality(Announced(j)')]
      <4>1. j \in 1..Len(sent)
        BY CountFacts
      <4>2. sent'[j] = sent[j] /\ Announced(j)' = Announced(j)
        BY <3>1, <4>1, AppendedCount
      <4> QED
        BY <4>2 DEF OrderInv, AnnouncedInOrder
    <3>4. AnnouncedInOrder'
      BY <1>1, <3>2, <3>3 DEF AnnouncedInOrder, user
    <3> QED
      BY <3>2, <3>4
  <2> QED
    BY <2>1, <2>2 DEF Modify, Begin, Restore
<1>3. PendingInv'
  BY <1>1, <1>2, PendingKept DEF OrderInv, user
<1> QED
  BY <1>1, <1>2, <1>3 DEF OrderInv, UnwatchedInv, LastEventInv, Watching, user

(* The tracker is told of creations and deletions in the order in which    *)
(* they happened, none twice and none left out: the messages the loop has  *)
(* sent are the first changes, the events on their way tell of the next.   *)
THEOREM AlwaysInOrder == Spec => []AnnouncedInOrder
<1>1. Init => TypeOK /\ BoundsInv /\ OrderInv
  BY InitTypes, InitOrder
<1>2. TypeOK /\ BoundsInv /\ OrderInv /\ [Next]_vars => (TypeOK /\ BoundsInv /\ OrderInv)'
  <2> SUFFICES ASSUME TypeOK, BoundsInv, OrderInv, [Next]_vars PROVE OrderInv'
    BY TypeStep
  <2>1. CASE UNCHANGED vars
    <3>1. PendingInv'
      BY <2>1, PendingKept DEF OrderInv, vars, loop, TellCount, Announced
    <3> QED
      BY <2>1, <3>1 DEF OrderInv, vars, UnwatchedInv, LastEventInv, Watching,
         AnnouncedInOrder, Announced
  <2> QED
    BY <2>1, UsersOrder, MonitorOrder, ModifyOrder DEF Next
<1>3. OrderInv => AnnouncedInOrder
  BY DEF OrderInv
<1> QED
  BY <1>1, <1>2, <1>3, PTL DEF Spec
=============================================================================
