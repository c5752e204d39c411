----------------------------- MODULE SyncProofs -----------------------------
(***************************************************************************)
(* Proofs about Sync, for any number of peers, files, table entries, deeds *)
(* of users and starts of processes.                                       *)
(***************************************************************************)
EXTENDS Sync, FiniteSetTheorems, SequenceTheorems, TLAPS

(***************************************************************************)
(* The inductive invariant.  What is true of an entry or a message when it *)
(* is made stays true, because it only speaks of histories, which grow:    *)
(* c, d and h are names created, names deleted and names held.             *)
(***************************************************************************)

(* A tombstone for n: somebody deleted n, or a name that n starts with.    *)
Reason(n, d) == \E m \in d : Prefix(m, n)

(* An entry, in the tracker's table or in any copy of it.  One without a   *)
(* name may be memory that no update has been written to.                  *)
EntryOK(e, c, d, h) ==
  /\ e.name \in c \cup {NoName}
  /\ e.status = "DELETED" => Reason(e.name, d)
  /\ e.name # NoName =>
       e.holders # << >> /\ \E m \in h[e.holders[1]] : Prefix(m, e.name)

TableOK(t, c, d, h) ==
  /\ t \in Seq(Table!Entry) /\ Len(t) <= MAX_FILES
  /\ \A k \in DOMAIN t : EntryOK(t[k], c, d, h)

(* A message of peer p that the tracker has not read.                      *)
MessageOK(m, p, d, h) ==
  /\ m \in Kinds \X AllNames
  /\ m[2] \in h[p] \cup {NoName}
  /\ m[1] = "DELETED" => Reason(m[2], d)
  /\ m[1] \in {"DELETED", "MODIFIED"} => m[2] # NoName

ChanOK(s, p, d, h) ==
  s \in Seq(Kinds \X AllNames) /\ \A k \in DOMAIN s : MessageOK(s[k], p, d, h)

InboxOK(b, c, d, h) ==
  /\ b \in Seq(Seq(Table!Entry))
  /\ \A k \in DOMAIN b : TableOK(b[k], c, d, h)

(* talkto_tracker has nothing nameless to fetch: the empty name is taken   *)
(* for that of any file.                                                   *)
ProcOK(q, p, c, d, h) ==
  /\ q \in Processes
  /\ TableOK(q.table, c, d, h)
  /\ \A k \in 1..MAX_FILES : q.files[k] \in h[p] \cup {NoName}
  /\ q.pc = "fetch" => q.i <= Len(q.table) /\ q.table[q.i].name # NoName

DiskOK(f, p, h) ==
  f \in [AllNames -> Contents] /\ \A n \in AllNames : f[n] # Absent => n \in h[p]

(* What a process has asked the tracker for, and been sent: REGISTER comes *)
(* first, before any table; the only heartbeat comes when keepAlive has    *)
(* lost its message.                                                       *)
Asks(s, kind) == \E k \in DOMAIN s : s[k][1] = kind

RequestsOK(s, b, q) ==
  /\ \A k \in DOMAIN s : s[k][1] = "REGISTER" => k = 1
  /\ q.life # "up" => b = << >>
  /\ q.tables + Len(b) <= 2
  /\ q.life = "up" =>
       /\ \A j, k \in DOMAIN s :
            s[j][1] = "KEEP_ALIVE" /\ s[k][1] = "KEEP_ALIVE" => j = k
       /\ Asks(s, "REGISTER") => q.tables + Len(b) = 0
       /\ Asks(s, "KEEP_ALIVE") => q.segtosend = "NULL"
       /\ Asks(s, "KEEP_ALIVE") \/ q.segtosend = "allocated"
            => q.tables + Len(b) <= 1

PeerOK(p) ==
  /\ ChanOK(chan[p], p, deleted, held)
  /\ InboxOK(inbox[p], created, deleted, held)
  /\ ProcOK(proc[p], p, created, deleted, held)
  /\ DiskOK(disk[p], p, held)
  /\ RequestsOK(chan[p], inbox[p], proc[p])

HistoryOK ==
  /\ created \subseteq Names /\ deleted \subseteq Names /\ removed \subseteq Names
  /\ held \in [Peers -> SUBSET Names] /\ missed \in BOOLEAN
  /\ \A p \in Peers : held[p] \subseteq created
  /\ \A n \in removed : Reason(n, deleted)

Shapes ==
  /\ DOMAIN disk = Peers /\ DOMAIN chan = Peers
  /\ DOMAIN inbox = Peers /\ DOMAIN proc = Peers
  /\ disk \in [Peers -> [AllNames -> Contents]]
  /\ chan \in [Peers -> Seq(Kinds \X AllNames)]
  /\ inbox \in [Peers -> Seq(Seq(Table!Entry))]
  /\ proc \in [Peers -> Processes]
  /\ deeds \in 0..MaxDeeds

IInv ==
  /\ Shapes /\ HistoryOK
  /\ TableOK(log, created, deleted, held)
  /\ \A p \in Peers : PeerOK(p)

-----------------------------------------------------------------------------
USE NamesAssumption, SizesAssumption, FoundAssumption

(***************************************************************************)
(* Names.                                                                  *)
(***************************************************************************)

LEMMA PrefixTransitive ==
  ASSUME NEW l, NEW m, NEW n, Prefix(l, m), Prefix(m, n)
  PROVE  Prefix(l, n)
BY DEF Prefix

(* A directory never holds more files than files[] has room for. *)
LEMMA FewFiles ==
  ASSUME NEW S \in SUBSET Names
  PROVE  IsFiniteSet(S) /\ Cardinality(S) \in 0..MAX_FILES
<1>1. IsFiniteSet(S) /\ Cardinality(S) <= Cardinality(Names)
  BY FS_Subset
<1>2. Cardinality(S) \in Nat /\ Cardinality(Names) \in Nat
  BY <1>1, FS_CardinalityType
<1> QED
  BY <1>1, <1>2

(***************************************************************************)
(* What was right stays right as the histories grow.                       *)
(***************************************************************************)

Grown(c, d, h, c2, d2, h2) ==
  c \subseteq c2 /\ d \subseteq d2 /\ \A p \in Peers : h[p] \subseteq h2[p]

LEMMA EntryGrown ==
  ASSUME NEW e \in Table!Entry, NEW c, NEW d, NEW h, NEW c2, NEW d2, NEW h2,
         EntryOK(e, c, d, h), Grown(c, d, h, c2, d2, h2)
  PROVE  EntryOK(e, c2, d2, h2)
<1>1. e.name # NoName => e.holders[1] \in Peers
  BY DEF EntryOK, Table!Entry
<1> QED
  BY <1>1 DEF EntryOK, Reason, Grown

LEMMA TableGrown ==
  ASSUME NEW t, NEW c, NEW d, NEW h, NEW c2, NEW d2, NEW h2,
         TableOK(t, c, d, h), Grown(c, d, h, c2, d2, h2)
  PROVE  TableOK(t, c2, d2, h2)
BY EntryGrown DEF TableOK

LEMMA ChanGrown ==
  ASSUME NEW s, NEW p \in Peers, NEW c, NEW d, NEW h, NEW c2, NEW d2, NEW h2,
         ChanOK(s, p, d, h), Grown(c, d, h, c2, d2, h2)
  PROVE  ChanOK(s, p, d2, h2)
BY DEF ChanOK, MessageOK, Reason, Grown

LEMMA InboxGrown ==
  ASSUME NEW b, NEW c, NEW d, NEW h, NEW c2, NEW d2, NEW h2,
         InboxOK(b, c, d, h), Grown(c, d, h, c2, d2, h2)
  PROVE  InboxOK(b, c2, d2, h2)
BY TableGrown DEF InboxOK

LEMMA ProcGrown ==
  ASSUME NEW q, NEW p \in Peers, NEW c, NEW d, NEW h, NEW c2, NEW d2, NEW h2,
         ProcOK(q, p, c, d, h), Grown(c, d, h, c2, d2, h2)
  PROVE  ProcOK(q, p, c2, d2, h2)
<1>1. TableOK(q.table, c2, d2, h2)
  BY TableGrown DEF ProcOK
<1> QED
  BY <1>1 DEF ProcOK, Grown

LEMMA DiskGrown ==
  ASSUME NEW f, NEW p \in Peers, NEW c, NEW d, NEW h, NEW c2, NEW d2, NEW h2,
         DiskOK(f, p, h), Grown(c, d, h, c2, d2, h2)
  PROVE  DiskOK(f, p, h2)
BY DEF DiskOK, Grown

(* A peer that a step does not touch. *)
LEMMA PeerUntouched ==
  ASSUME NEW p \in Peers, PeerOK(p),
         Grown(created, deleted, held, created', deleted', held'),
         chan'[p] = chan[p], inbox'[p] = inbox[p], proc'[p] = proc[p],
         disk'[p] = disk[p]
  PROVE  PeerOK(p)'
<1>1. ChanOK(chan[p], p, deleted', held')
  BY ChanGrown DEF PeerOK
<1>2. InboxOK(inbox[p], created', deleted', held')
  BY InboxGrown DEF PeerOK
<1>3. ProcOK(proc[p], p, created', deleted', held')
  BY ProcGrown DEF PeerOK
<1>4. DiskOK(disk[p], p, held')
  BY DiskGrown DEF PeerOK
<1> QED
  BY <1>1, <1>2, <1>3, <1>4 DEF PeerOK

-----------------------------------------------------------------------------
(***************************************************************************)
(* The messages on their way to the tracker.                               *)
(***************************************************************************)

LEMMA ChanAppend ==
  ASSUME NEW s, NEW p, NEW d, NEW h, NEW m,
         ChanOK(s, p, d, h), MessageOK(m, p, d, h)
  PROVE  ChanOK(Append(s, m), p, d, h)
<1>1. s \in Seq(Kinds \X AllNames) /\ m \in Kinds \X AllNames
  BY DEF ChanOK, MessageOK
<1>2. /\ Append(s, m) \in Seq(Kinds \X AllNames)
      /\ Len(Append(s, m)) = Len(s) + 1
      /\ \A k \in 1..Len(s) : Append(s, m)[k] = s[k]
      /\ Append(s, m)[Len(s) + 1] = m
  BY <1>1, AppendProperties
<1>3. ASSUME NEW k \in DOMAIN Append(s, m)
      PROVE  MessageOK(Append(s, m)[k], p, d, h)
  BY <1>1, <1>2, <1>3 DEF ChanOK
<1> QED
  BY <1>2, <1>3 DEF ChanOK

LEMMA ChanTail ==
  ASSUME NEW s, NEW p, NEW d, NEW h, ChanOK(s, p, d, h), s # << >>
  PROVE  ChanOK(Tail(s), p, d, h) /\ MessageOK(Head(s), p, d, h)
<1>1. s \in Seq(Kinds \X AllNames)
  BY DEF ChanOK
<1>2. /\ Tail(s) \in Seq(Kinds \X AllNames) /\ Head(s) = s[1]
      /\ Len(Tail(s)) = Len(s) - 1
      /\ \A k \in 1..Len(Tail(s)) : Tail(s)[k] = s[k + 1]
  BY <1>1, HeadTailProperties
<1>3. 1 \in DOMAIN s
  BY <1>1
<1>4. ASSUME NEW k \in DOMAIN Tail(s) PROVE MessageOK(Tail(s)[k], p, d, h)
  <2>1. k + 1 \in DOMAIN s /\ Tail(s)[k] = s[k + 1]
    BY <1>1, <1>2
  <2> QED
    BY <2>1 DEF ChanOK
<1> QED
  BY <1>2, <1>3, <1>4 DEF ChanOK

LEMMA ChanPrefix ==
  ASSUME NEW s, NEW p, NEW d, NEW h, ChanOK(s, p, d, h), NEW j \in 0..Len(s)
  PROVE  ChanOK(SubSeq(s, 1, j), p, d, h)
<1>1. s \in Seq(Kinds \X AllNames)
  BY DEF ChanOK
<1>2. /\ SubSeq(s, 1, j) \in Seq(Kinds \X AllNames)
      /\ Len(SubSeq(s, 1, j)) = j
      /\ \A k \in 1..j : SubSeq(s, 1, j)[k] = s[k]
  BY <1>1
<1> QED
  BY <1>1, <1>2 DEF ChanOK

LEMMA ChanConcat ==
  ASSUME NEW s, NEW t, NEW p, NEW d, NEW h, ChanOK(s, p, d, h), ChanOK(t, p, d, h)
  PROVE  ChanOK(s \o t, p, d, h)
<1>1. s \in Seq(Kinds \X AllNames) /\ t \in Seq(Kinds \X AllNames)
  BY DEF ChanOK
<1>2. /\ s \o t \in Seq(Kinds \X AllNames)
      /\ Len(s \o t) = Len(s) + Len(t)
      /\ \A k \in 1..Len(s) + Len(t) :
           (s \o t)[k] = IF k <= Len(s) THEN s[k] ELSE t[k - Len(s)]
  BY <1>1, ConcatProperties
<1>3. ASSUME NEW k \in DOMAIN (s \o t) PROVE MessageOK((s \o t)[k], p, d, h)
  <2>1. CASE k <= Len(s)
    BY <1>1, <1>2, <2>1 DEF ChanOK
  <2>2. CASE ~(k <= Len(s))
    <3>1. k - Len(s) \in DOMAIN t /\ (s \o t)[k] = t[k - Len(s)]
      BY <1>1, <1>2, <2>2
    <3> QED
      BY <3>1 DEF ChanOK
  <2> QED
    BY <2>1, <2>2
<1> QED
  BY <1>2, <1>3 DEF ChanOK

(***************************************************************************)
(* The requests among them.                                                *)
(***************************************************************************)

Updates == {"ADDED", "MODIFIED", "DELETED"}

LEMMA RequestsConcat ==
  ASSUME NEW s \in Seq(Kinds \X AllNames), NEW t \in Seq(Kinds \X AllNames),
         NEW b, NEW q, RequestsOK(s, b, q),
         \A k \in DOMAIN t : t[k][1] \in Updates
  PROVE  RequestsOK(s \o t, b, q)
<1>1. /\ Len(s \o t) = Len(s) + Len(t)
      /\ DOMAIN (s \o t) = 1..Len(s) + Len(t)
      /\ \A k \in 1..Len(s) + Len(t) :
           (s \o t)[k] = IF k <= Len(s) THEN s[k] ELSE t[k - Len(s)]
  BY ConcatProperties
<1>2. ASSUME NEW k \in DOMAIN (s \o t),
             (s \o t)[k][1] \in {"REGISTER", "KEEP_ALIVE"}
      PROVE  k \in DOMAIN s /\ (s \o t)[k] = s[k]
  <2>1. CASE k <= Len(s)
    BY <1>1, <2>1
  <2>2. CASE ~(k <= Len(s))
    <3>1. k - Len(s) \in DOMAIN t /\ (s \o t)[k] = t[k - Len(s)]
      BY <1>1, <2>2
    <3> QED
      BY <3>1, <1>2 DEF Updates
  <2> QED
    BY <2>1, <2>2
<1>3. /\ Asks(s \o t, "REGISTER") => Asks(s, "REGISTER")
      /\ Asks(s \o t, "KEEP_ALIVE") => Asks(s, "KEEP_ALIVE")
  BY <1>2 DEF Asks
<1> QED
  BY <1>2, <1>3 DEF RequestsOK

LEMMA RequestsAppend ==
  ASSUME NEW s \in Seq(Kinds \X AllNames), NEW m \in Updates \X AllNames,
         NEW b, NEW q, RequestsOK(s, b, q)
  PROVE  RequestsOK(Append(s, m), b, q)
<1>1. m \in Kinds \X AllNames /\ m[1] \in Updates
  BY DEF Kinds, Updates
<1>2. <<m>> \in Seq(Kinds \X AllNames)
  BY <1>1
<1>3. \A k \in DOMAIN <<m>> : <<m>>[k][1] \in Updates
  BY <1>1
<1>4. RequestsOK(s \o <<m>>, b, q)
  BY <1>2, <1>3, RequestsConcat, Zenon
<1>5. Append(s, m) = s \o <<m>>
  BY <1>1, AppendIsConcat, Zenon
<1> QED
  BY <1>4, <1>5, Zenon

LEMMA RequestsTail ==
  ASSUME NEW s \in Seq(Kinds \X AllNames), NEW b, NEW q, RequestsOK(s, b, q),
         s # << >>
  PROVE  RequestsOK(Tail(s), b, q) /\ ~Asks(Tail(s), "REGISTER")
<1>1. /\ DOMAIN Tail(s) = 1..Len(s) - 1
      /\ \A k \in 1..Len(s) - 1 : k + 1 \in DOMAIN s /\ Tail(s)[k] = s[k + 1]
  BY HeadTailProperties
<1>2. ~Asks(Tail(s), "REGISTER")
  <2> SUFFICES ASSUME NEW k \in DOMAIN Tail(s), Tail(s)[k][1] = "REGISTER"
               PROVE  FALSE
    BY DEF Asks
  <2>1. k \in Nat \ {0} /\ k + 1 \in DOMAIN s /\ s[k + 1][1] = "REGISTER"
    BY <1>1
  <2> QED
    BY <2>1 DEF RequestsOK
<1>3. Asks(Tail(s), "KEEP_ALIVE") => Asks(s, "KEEP_ALIVE")
  BY <1>1 DEF Asks
<1>4. ASSUME NEW j \in DOMAIN Tail(s), NEW k \in DOMAIN Tail(s), q.life = "up",
             Tail(s)[j][1] = "KEEP_ALIVE", Tail(s)[k][1] = "KEEP_ALIVE"
      PROVE  j = k
  <2>1. j + 1 = k + 1
    BY <1>1, <1>4 DEF RequestsOK
  <2> QED
    BY <1>1, <2>1
<1>5. \A k \in DOMAIN Tail(s) : Tail(s)[k][1] # "REGISTER"
  BY <1>2 DEF Asks
<1> QED
  BY <1>2, <1>3, <1>4, <1>5 DEF RequestsOK

(* What a process that has ended leaves behind. *)
LEMMA RequestsDead ==
  ASSUME NEW s \in Seq(Kinds \X AllNames), NEW b, NEW q, RequestsOK(s, b, q),
         NEW j \in 0..Len(s), NEW cause, cause # "up"
  PROVE  RequestsOK(SubSeq(s, 1, j), << >>, Dead(cause))
<1>1. /\ DOMAIN SubSeq(s, 1, j) = 1..j
      /\ \A k \in 1..j : k \in DOMAIN s /\ SubSeq(s, 1, j)[k] = s[k]
  OBVIOUS
<1>2. Dead(cause).life = cause /\ Dead(cause).tables = 0
  BY DEF Dead, Fresh
<1> QED
  BY <1>1, <1>2 DEF RequestsOK

(* Requests only depend on part of a process's memory. *)
LEMMA RequestsElsewhere ==
  ASSUME NEW s, NEW b, NEW q, NEW q2, RequestsOK(s, b, q),
         q2.life = q.life, q2.tables = q.tables, q2.segtosend = q.segtosend
  PROVE  RequestsOK(s, b, q2)
BY DEF RequestsOK

-----------------------------------------------------------------------------
(***************************************************************************)
(* Processes.                                                              *)
(***************************************************************************)

Causes == {"heartbeat", "served", "stopped"}

LEMMA EmptyTable ==
  ASSUME NEW c, NEW d, NEW h
  PROVE  TableOK(<< >>, c, d, h)
BY DEF TableOK

LEMMA FreshOK ==
  ASSUME NEW p, NEW c, NEW d, NEW h
  PROVE  ProcOK(Fresh, p, c, d, h)
<1>1. Fresh \in Processes
  BY DEF Fresh, Processes, AllNames
<1> QED
  BY <1>1, EmptyTable DEF Fresh, ProcOK

LEMMA DeadOK ==
  ASSUME NEW p, NEW c, NEW d, NEW h, NEW cause \in Causes
  PROVE  ProcOK(Dead(cause), p, c, d, h)
<1>1. Dead(cause) \in Processes
  <2>1. Fresh \in Processes
    BY DEF Fresh, Processes, AllNames
  <2> QED
    BY <2>1 DEF Dead, Processes, Causes
<1>2. Dead(cause).table = << >> /\ Dead(cause).pc = "read" /\ Dead(cause).files = Fresh.files
  BY DEF Dead, Fresh
<1>3. \A k \in 1..MAX_FILES : Fresh.files[k] = NoName
  BY DEF Fresh
<1> QED
  BY <1>1, <1>2, <1>3, EmptyTable DEF ProcOK

(* A peer that has ended, with what is left of its messages.               *)
LEMMA PeerDead ==
  ASSUME NEW p \in Peers, PeerOK(p), NEW rest \in Delivered(p), NEW cause \in Causes,
         UNCHANGED <<created, deleted, held>>,
         chan'[p] = rest, inbox'[p] = << >>, proc'[p] = Dead(cause),
         disk'[p] = disk[p]
  PROVE  PeerOK(p)'
<1>1. PICK j \in 0..Len(chan[p]) : rest = SubSeq(chan[p], 1, j)
  BY DEF Delivered
<1>2. ChanOK(rest, p, deleted, held)
  BY <1>1, ChanPrefix DEF PeerOK
<1>3. RequestsOK(rest, << >>, Dead(cause))
  BY <1>1, RequestsDead DEF PeerOK, ChanOK, Causes
<1>4. InboxOK(<< >>, created, deleted, held)
  BY DEF InboxOK
<1> QED
  BY <1>2, <1>3, <1>4, DeadOK DEF PeerOK

(* The announcement of a change keeps a peer as it should be.              *)
LEMMA NoticedOK ==
  ASSUME NEW p \in Peers, PeerOK(p), NEW kind \in Updates, NEW n \in Names,
         NEW d, NEW h, Grown(created, deleted, held, created, d, h),
         n \in h[p], kind = "DELETED" => Reason(n, d)
  PROVE  /\ ChanOK(Noticed(p, kind, n), p, d, h)
         /\ RequestsOK(Noticed(p, kind, n), inbox[p], proc[p])
<1>1. ChanOK(chan[p], p, d, h) /\ chan[p] \in Seq(Kinds \X AllNames)
  BY ChanGrown DEF PeerOK, ChanOK
<1>2. <<kind, n>> \in Updates \X AllNames /\ MessageOK(<<kind, n>>, p, d, h)
  BY DEF MessageOK, Updates, Kinds, AllNames
<1>3. /\ ChanOK(Append(chan[p], <<kind, n>>), p, d, h)
      /\ RequestsOK(Append(chan[p], <<kind, n>>), inbox[p], proc[p])
  BY <1>1, <1>2, ChanAppend, RequestsAppend DEF PeerOK
<1> QED
  BY <1>1, <1>3 DEF Noticed, PeerOK

(* So does a step that only moves its own process on.                      *)
LEMMA ProcessMoves ==
  ASSUME IInv, NEW p \in Peers, NEW q,
         proc' = [proc EXCEPT ![p] = q],
         ProcOK(q, p, created, deleted, held),
         RequestsOK(chan[p], inbox[p], q),
         UNCHANGED <<log, disk, chan, inbox, deeds, created, deleted, removed, held>>,
         missed' \in BOOLEAN
  PROVE  IInv'
<1>1. Shapes'
  BY DEF IInv, Shapes, ProcOK
<1>2. PeerOK(p)'
  BY DEF IInv, Shapes, PeerOK
<1>3. ASSUME NEW u \in Peers, u # p PROVE PeerOK(u)'
  BY <1>3, PeerUntouched DEF IInv, Shapes, Grown
<1> QED
  BY <1>1, <1>2, <1>3 DEF IInv, HistoryOK

-----------------------------------------------------------------------------
(***************************************************************************)
(* The steps of users.                                                     *)
(***************************************************************************)

LEMMA PresentNames ==
  ASSUME IInv, NEW p \in Peers
  PROVE  Present(p) \subseteq held[p] /\ held[p] \subseteq created /\ held[p] \subseteq Names
BY DEF IInv, PeerOK, DiskOK, Present, HistoryOK

LEMMA CreateStep ==
  ASSUME IInv, NEW p \in Peers, NEW n \in Names, Create(p, n)
  PROVE  IInv'
<1>1. held' = [held EXCEPT ![p] = @ \cup {n}] /\ created' = created \cup {n}
      /\ deleted' = deleted
  BY DEF Create
<1>2. HistoryOK'
  BY <1>1 DEF IInv, HistoryOK, Create, Reason
<1>3. /\ Grown(created, deleted, held, created', deleted', held')
      /\ Grown(created, deleted, held, created, deleted', held')
  BY <1>1 DEF IInv, HistoryOK, Grown
<1>4. TableOK(log, created, deleted, held)'
  BY <1>3, TableGrown DEF IInv, Create
<1>5. n \in held'[p]
  BY <1>1 DEF IInv, HistoryOK
<1>6. /\ ChanOK(Noticed(p, "ADDED", n), p, deleted', held')
      /\ RequestsOK(Noticed(p, "ADDED", n), inbox[p], proc[p])
  BY <1>3, <1>5, NoticedOK DEF IInv, Updates
<1>7. chan' = [chan EXCEPT ![p] = Noticed(p, "ADDED", n)]
      /\ disk' = [disk EXCEPT ![p][n] = "old"]
      /\ UNCHANGED <<inbox, proc>> /\ deeds' \in 0..MaxDeeds
  BY DEF Create, Do, IInv, Shapes
<1>8. Shapes'
  BY <1>6, <1>7 DEF IInv, Shapes, ChanOK, Contents, AllNames
<1>9. PeerOK(p)'
  <2>1. InboxOK(inbox[p], created', deleted', held')
    BY <1>3, InboxGrown DEF IInv, PeerOK
  <2>2. ProcOK(proc[p], p, created', deleted', held')
    BY <1>3, ProcGrown DEF IInv, PeerOK
  <2>3. DiskOK(disk[p], p, held')
    BY <1>3, DiskGrown DEF IInv, PeerOK
  <2>4. DiskOK(disk'[p], p, held')
    BY <2>3, <1>5, <1>7 DEF IInv, Shapes, DiskOK, Contents, AllNames
  <2> QED
    BY <2>1, <2>2, <2>4, <1>6, <1>7 DEF IInv, Shapes, PeerOK
<1>10. ASSUME NEW u \in Peers, u # p PROVE PeerOK(u)'
  BY <1>3, <1>7, <1>10, PeerUntouched DEF IInv, Shapes
<1> QED
  BY <1>2, <1>4, <1>8, <1>9, <1>10 DEF IInv

(* What may follow from a file's being written. *)
LEMMA NoticedWriteOK ==
  ASSUME IInv, NEW p \in Peers, NEW n \in Present(p), NEW told \in NoticedWrite(p, n)
  PROVE  /\ ChanOK(told, p, deleted, held)
         /\ RequestsOK(told, inbox[p], proc[p])
<1>1. n \in held[p] /\ n \in Names
  BY PresentNames
<1>2. Grown(created, deleted, held, created, deleted, held)
  BY DEF Grown
<1>3. PeerOK(p)
  BY DEF IInv
<1>4. /\ ChanOK(Noticed(p, "MODIFIED", n), p, deleted, held)
      /\ RequestsOK(Noticed(p, "MODIFIED", n), inbox[p], proc[p])
  BY <1>1, <1>2, <1>3, NoticedOK DEF Updates
<1> QED
  BY <1>3, <1>4 DEF NoticedWrite, PeerOK

LEMMA WriteStep ==
  ASSUME IInv, NEW p \in Peers, NEW n \in Names, Write(p, n)
  PROVE  IInv'
<1>1. n \in Present(p)
  BY DEF Write, Present, AllNames
<1>2. PICK told \in NoticedWrite(p, n) : chan' = [chan EXCEPT ![p] = told]
  BY DEF Write
<1>3. ChanOK(told, p, deleted, held) /\ RequestsOK(told, inbox[p], proc[p])
  BY <1>1, NoticedWriteOK
<1>4. disk' = [disk EXCEPT ![p][n] = "new"] /\ deeds' \in 0..MaxDeeds
      /\ UNCHANGED <<log, inbox, proc, created, deleted, removed, held, missed>>
  BY DEF Write, Do, IInv, Shapes, history
<1>5. Shapes'
  BY <1>2, <1>3, <1>4 DEF IInv, Shapes, ChanOK, Contents, AllNames
<1>6. n \in held[p]
  BY <1>1, PresentNames
<1>7. PeerOK(p)'
  <2>1. DiskOK(disk'[p], p, held)
    BY <1>4, <1>6 DEF IInv, Shapes, PeerOK, DiskOK, Contents, AllNames
  <2> QED
    BY <2>1, <1>2, <1>3, <1>4 DEF IInv, Shapes, PeerOK
<1>8. ASSUME NEW u \in Peers, u # p PROVE PeerOK(u)'
  BY <1>2, <1>4, <1>8, PeerUntouched DEF IInv, Shapes, Grown
<1> QED
  BY <1>4, <1>5, <1>7, <1>8 DEF IInv, HistoryOK

LEMMA DeleteStep ==
  ASSUME IInv, NEW p \in Peers, NEW n \in Names, Delete(p, n)
  PROVE  IInv'
<1>1. deleted' = deleted \cup {n}
      /\ chan' = [chan EXCEPT ![p] = Noticed(p, "DELETED", n)]
      /\ disk' = [disk EXCEPT ![p][n] = Absent] /\ deeds' \in 0..MaxDeeds
      /\ UNCHANGED <<log, inbox, proc, created, removed, held, missed>>
  BY DEF Delete, Do, IInv, Shapes
<1>2. n \in held[p]
  BY PresentNames DEF Delete, Present, AllNames
<1>3. Reason(n, deleted')
  BY <1>1 DEF Reason, Prefix
<1>4. Grown(created, deleted, held, created, deleted', held)
  BY <1>1 DEF Grown
<1>5. HistoryOK'
  BY <1>1 DEF IInv, HistoryOK, Reason
<1>6. TableOK(log, created, deleted, held)'
  BY <1>1, <1>4, TableGrown DEF IInv
<1>7. /\ ChanOK(Noticed(p, "DELETED", n), p, deleted', held)
      /\ RequestsOK(Noticed(p, "DELETED", n), inbox[p], proc[p])
  BY <1>2, <1>3, <1>4, NoticedOK DEF IInv, Updates
<1>8. Shapes'
  BY <1>1, <1>7 DEF IInv, Shapes, ChanOK, Contents, AllNames
<1>9. PeerOK(p)'
  <2>1. InboxOK(inbox[p], created, deleted', held)
    BY <1>4, InboxGrown DEF IInv, PeerOK
  <2>2. ProcOK(proc[p], p, created, deleted', held)
    BY <1>4, ProcGrown DEF IInv, PeerOK
  <2>3. DiskOK(disk'[p], p, held)
    BY <1>1 DEF IInv, Shapes, PeerOK, DiskOK, Contents, AllNames
  <2> QED
    BY <2>1, <2>2, <2>3, <1>1, <1>7 DEF IInv, Shapes, PeerOK
<1>10. ASSUME NEW u \in Peers, u # p PROVE PeerOK(u)'
  BY <1>1, <1>4, <1>10, PeerUntouched DEF IInv, Shapes
<1> QED
  BY <1>5, <1>6, <1>8, <1>9, <1>10 DEF IInv

LEMMA DieStep ==
  ASSUME IInv, NEW p \in Peers, NEW cause \in Causes, Die(p, cause),
         UNCHANGED <<log, disk, history>>, deeds' \in 0..MaxDeeds
  PROVE  IInv'
<1>1. PICK rest \in Delivered(p) : chan' = [chan EXCEPT ![p] = rest]
  BY DEF Die
<1>2. proc' = [proc EXCEPT ![p] = Dead(cause)] /\ inbox' = [inbox EXCEPT ![p] = << >>]
  BY DEF Die
<1>3. PeerOK(p)'
  BY <1>1, <1>2, PeerDead DEF IInv, Shapes, history
<1>4. Shapes'
  <2>1. Dead(cause) \in Processes /\ rest \in Seq(Kinds \X AllNames)
    BY <1>1, <1>2, <1>3 DEF IInv, Shapes, PeerOK, ProcOK, ChanOK
  <2> QED
    BY <2>1, <1>1, <1>2 DEF IInv, Shapes
<1>5. ASSUME NEW u \in Peers, u # p PROVE PeerOK(u)'
  BY <1>1, <1>2, <1>5, PeerUntouched DEF IInv, Shapes, Grown, history
<1> QED
  BY <1>3, <1>4, <1>5 DEF IInv, HistoryOK, history

LEMMA StopStep ==
  ASSUME IInv, NEW p \in Peers, Stop(p)
  PROVE  IInv'
BY DieStep DEF Stop, Do, Causes, IInv, Shapes

LEMMA StartStep ==
  ASSUME IInv, NEW p \in Peers, Start(p)
  PROVE  IInv'
<1>1. /\ proc' = [proc EXCEPT ![p] = Fresh]
      /\ chan' = [chan EXCEPT ![p] = << <<"REGISTER", NoName>> >>]
      /\ UNCHANGED <<log, disk, inbox, deeds, history>> /\ proc[p].life # "up"
  BY DEF Start, Up
<1>2. Fresh.life = "up" /\ Fresh.tables = 0 /\ Fresh.segtosend = "allocated"
  BY DEF Fresh
<1> DEFINE s == << <<"REGISTER", NoName>> >>
<1>3. s \in Seq(Kinds \X AllNames) /\ DOMAIN s = {1} /\ s[1] = <<"REGISTER", NoName>>
  BY DEF Kinds, AllNames
<1> HIDE DEF s
<1>4. ChanOK(s, p, deleted, held)
  BY <1>3 DEF ChanOK, MessageOK, Kinds, AllNames
<1>5. inbox[p] = << >>
  BY <1>1 DEF IInv, PeerOK, RequestsOK
<1>6. RequestsOK(s, << >>, Fresh)
  BY <1>2, <1>3 DEF RequestsOK, Asks
<1>7. ProcOK(Fresh, p, created, deleted, held)
  BY FreshOK
<1>8. PeerOK(p)'
  BY <1>1, <1>4, <1>5, <1>6, <1>7 DEF IInv, Shapes, PeerOK, history, s
<1>9. Shapes'
  BY <1>1, <1>3, <1>7 DEF IInv, Shapes, ProcOK, s
<1>10. ASSUME NEW u \in Peers, u # p PROVE PeerOK(u)'
  BY <1>1, <1>10, PeerUntouched DEF IInv, Shapes, Grown, history
<1> QED
  BY <1>1, <1>8, <1>9, <1>10 DEF IInv, HistoryOK, history

-----------------------------------------------------------------------------
(***************************************************************************)
(* The heartbeat.                                                          *)
(***************************************************************************)

LEMMA BeatStep ==
  ASSUME IInv, NEW p \in Peers, Beat(p)
  PROVE  IInv'
<1>1. /\ chan' = [chan EXCEPT ![p] = Append(@, <<"KEEP_ALIVE", NoName>>)]
      /\ proc' = [proc EXCEPT ![p].segtosend = "NULL"]
      /\ UNCHANGED <<log, disk, inbox, deeds, history>>
      /\ proc[p].life = "up" /\ proc[p].tables > 0 /\ proc[p].segtosend = "allocated"
  BY DEF Beat, Up, Zeroed
<1> DEFINE m == <<"KEEP_ALIVE", NoName>>
           q == [proc[p] EXCEPT !.segtosend = "NULL"]
<1>2. PeerOK(p) /\ chan[p] \in Seq(Kinds \X AllNames) /\ m \in Kinds \X AllNames
      /\ proc[p] \in Processes
  BY DEF IInv, Shapes, Kinds, AllNames
<1>3. ChanOK(Append(chan[p], m), p, deleted, held)
  <2>1. MessageOK(m, p, deleted, held)
    BY <1>2 DEF MessageOK
  <2> QED
    BY <1>2, <2>1, ChanAppend DEF PeerOK
<1>4. ProcOK(q, p, created, deleted, held)
  BY <1>2 DEF PeerOK, ProcOK, Processes
<1>5. RequestsOK(Append(chan[p], m), inbox[p], q)
  <2>1. /\ DOMAIN Append(chan[p], m) = 1..Len(chan[p]) + 1
        /\ \A k \in 1..Len(chan[p]) : Append(chan[p], m)[k] = chan[p][k]
        /\ Append(chan[p], m)[Len(chan[p]) + 1] = m /\ m[1] = "KEEP_ALIVE"
        /\ DOMAIN chan[p] = 1..Len(chan[p]) /\ Len(chan[p]) \in Nat
    BY <1>2, AppendProperties
  <2>2. /\ proc[p].tables \in Nat /\ Len(inbox[p]) \in Nat
        /\ RequestsOK(chan[p], inbox[p], proc[p])
    BY <1>2 DEF PeerOK, Processes, InboxOK
  <2>3. \A k \in DOMAIN chan[p] : chan[p][k][1] \notin {"REGISTER", "KEEP_ALIVE"}
    BY <2>2, <1>1 DEF RequestsOK, Asks
  <2>4. proc[p].tables + Len(inbox[p]) <= 1
    BY <2>2, <1>1 DEF RequestsOK
  <2>5. q.life = "up" /\ q.tables = proc[p].tables /\ q.segtosend = "NULL"
    BY <1>1, <1>2 DEF Processes
  <2>6. \A k \in DOMAIN Append(chan[p], m) :
          /\ Append(chan[p], m)[k][1] # "REGISTER"
          /\ Append(chan[p], m)[k][1] = "KEEP_ALIVE" => k = Len(chan[p]) + 1
    BY <2>1, <2>3
  <2> HIDE DEF m, q
  <2> QED
    BY <2>2, <2>4, <2>5, <2>6 DEF RequestsOK, Asks
<1>6. PeerOK(p)'
  BY <1>1, <1>3, <1>4, <1>5 DEF IInv, Shapes, PeerOK, history
<1>7. Shapes'
  BY <1>1, <1>3, <1>4 DEF IInv, Shapes, ChanOK, ProcOK
<1>8. ASSUME NEW u \in Peers, u # p PROVE PeerOK(u)'
  BY <1>1, <1>8, PeerUntouched DEF IInv, Shapes, Grown, history
<1> QED
  BY <1>1, <1>6, <1>7, <1>8 DEF IInv, HistoryOK, history

LEMMA BeatNullStep ==
  ASSUME IInv, NEW p \in Peers, BeatNull(p)
  PROVE  IInv'
BY DieStep DEF BeatNull, Causes, IInv, Shapes

-----------------------------------------------------------------------------
(***************************************************************************)
(* The tracker.                                                            *)
(***************************************************************************)

LEMMA RequestAnswered ==
  ASSUME NEW s \in Seq(Kinds \X AllNames), s # << >>,
         NEW b, NEW q, RequestsOK(s, b, q),
         q.life = "up", q.tables \in Nat, Len(b) \in Nat,
         Head(s)[1] \in {"REGISTER", "KEEP_ALIVE"},
         NEW b2, NEW q2, q2.life = "up", q2.segtosend = q.segtosend,
         q2.tables \in Nat, Len(b2) \in Nat,
         q2.tables + Len(b2) = q.tables + Len(b) + 1
  PROVE  RequestsOK(Tail(s), b2, q2)
<1>1. 1 \in DOMAIN s /\ Head(s) = s[1]
  OBVIOUS
<1>2. RequestsOK(Tail(s), b, q) /\ ~Asks(Tail(s), "REGISTER")
  BY RequestsTail
<1>3. CASE Head(s)[1] = "REGISTER"
  <2>1. q.tables + Len(b) = 0
    BY <1>1, <1>3 DEF RequestsOK, Asks
  <2> QED
    BY <2>1, <1>2 DEF RequestsOK, Asks
<1>4. CASE Head(s)[1] = "KEEP_ALIVE"
  <2>1. q.tables + Len(b) <= 1 /\ q.segtosend = "NULL"
    BY <1>1, <1>4 DEF RequestsOK, Asks
  <2>2. ~Asks(Tail(s), "KEEP_ALIVE")
    <3> SUFFICES ASSUME NEW k \in DOMAIN Tail(s), Tail(s)[k][1] = "KEEP_ALIVE"
                 PROVE  FALSE
      BY DEF Asks
    <3>1. k \in Nat \ {0} /\ k + 1 \in DOMAIN s /\ s[k + 1][1] = "KEEP_ALIVE"
      BY HeadTailProperties
    <3>2. k + 1 = 1
      BY <3>1, <1>1, <1>4 DEF RequestsOK
    <3> QED
      BY <3>1, <3>2
  <2> QED
    BY <2>1, <2>2, <1>2 DEF RequestsOK, Asks
<1> QED
  BY <1>3, <1>4

LEMMA BeginFields ==
  ASSUME NEW q \in Processes, NEW t \in Seq(Table!Entry)
  PROVE  /\ Begin(q, t) \in Processes
         /\ Begin(q, t).table = t /\ Begin(q, t).files = q.files
         /\ Begin(q, t).pc = "entry" /\ Begin(q, t).life = q.life
         /\ Begin(q, t).segtosend = q.segtosend
         /\ Begin(q, t).tables = q.tables + 1
<1>1. 1 \in 1..MAX_FILES + 1 /\ q.tables + 1 \in Nat
  BY DEF Processes
<1>2. Begin(q, t) \in Processes
  BY <1>1 DEF Begin, Processes
<1> QED
  BY <1>2 DEF Begin, Processes

LEMMA BeginOK ==
  ASSUME NEW q, NEW p, NEW c, NEW d, NEW h, NEW t,
         ProcOK(q, p, c, d, h), TableOK(t, c, d, h)
  PROVE  ProcOK(Begin(q, t), p, c, d, h)
<1>1. q \in Processes /\ t \in Seq(Table!Entry)
  BY DEF ProcOK, TableOK
<1> QED
  BY <1>1, BeginFields DEF ProcOK

(* The answer may be any good table, the current one or not. *)
LEMMA AnswerStep ==
  ASSUME IInv, NEW p \in Peers, NEW table,
         TableOK(table, created, deleted, held), AnswerWith(p, table)
  PROVE  IInv'
<1>1. /\ chan[p] # << >> /\ Head(chan[p])[1] \in {"REGISTER", "KEEP_ALIVE"}
      /\ chan' = [chan EXCEPT ![p] = Tail(@)]
      /\ UNCHANGED <<log, disk, deeds, history>>
  BY DEF AnswerWith, Hears
<1>2. /\ PeerOK(p) /\ chan[p] \in Seq(Kinds \X AllNames)
      /\ proc[p] \in Processes /\ inbox[p] \in Seq(Seq(Table!Entry))
      /\ table \in Seq(Table!Entry)
  BY DEF IInv, Shapes, TableOK
<1>3. proc[p].tables \in Nat /\ Len(inbox[p]) \in Nat
  BY <1>2 DEF Processes
<1>4. ChanOK(Tail(chan[p]), p, deleted, held)
  BY <1>1, <1>2, ChanTail DEF PeerOK
<1>5. /\ DOMAIN proc' = Peers /\ DOMAIN inbox' = Peers
      /\ inbox'[p] \in Seq(Seq(Table!Entry))
      /\ \A u \in Peers : u # p => proc'[u] = proc[u] /\ inbox'[u] = inbox[u]
      /\ InboxOK(inbox'[p], created, deleted, held)
      /\ ProcOK(proc'[p], p, created, deleted, held)
      /\ RequestsOK(Tail(chan[p]), inbox'[p], proc'[p])
  <2>1. CASE /\ Up(p) /\ proc[p].pc = "read" /\ inbox[p] = << >>
             /\ proc' = [proc EXCEPT ![p] = Begin(@, table)]
             /\ UNCHANGED inbox
    <3>0. ProcOK(proc[p], p, created, deleted, held) /\ proc[p].life = "up"
          /\ RequestsOK(chan[p], inbox[p], proc[p])
      BY <1>2, <2>1 DEF PeerOK, Up
    <3>1. /\ ProcOK(Begin(proc[p], table), p, created, deleted, held)
          /\ Begin(proc[p], table).life = proc[p].life
          /\ Begin(proc[p], table).segtosend = proc[p].segtosend
          /\ Begin(proc[p], table).tables = proc[p].tables + 1
      <4>1. ProcOK(Begin(proc[p], table), p, created, deleted, held)
        BY <1>2, <3>0, BeginOK
      <4> QED
        BY <4>1, <1>2, BeginFields
    <3>2. /\ Begin(proc[p], table).life = "up" /\ Begin(proc[p], table).tables \in Nat
          /\ Begin(proc[p], table).tables + Len(inbox[p]) = proc[p].tables + Len(inbox[p]) + 1
      <4>1. \A m, n, k \in Nat : m = n + 1 => m \in Nat /\ m + k = n + k + 1
        OBVIOUS
      <4>2. Begin(proc[p], table).life = "up"
            /\ Begin(proc[p], table).tables = proc[p].tables + 1
        BY <3>0, <3>1
      <4>3. Begin(proc[p], table).tables \in Nat
        BY <1>3, <4>2
      <4> QED
        BY <1>3, <4>1, <4>2, <4>3
    <3>3. RequestsOK(Tail(chan[p]), inbox[p], Begin(proc[p], table))
      BY <1>1, <1>2, <1>3, <3>0, <3>1, <3>2, RequestAnswered, Zenon
    <3> QED
      BY <1>2, <2>1, <3>1, <3>3 DEF IInv, Shapes, PeerOK
  <2>2. CASE /\ Up(p) /\ inbox' = [inbox EXCEPT ![p] = Append(@, table)]
             /\ UNCHANGED proc
    <3>1. /\ Append(inbox[p], table) \in Seq(Seq(Table!Entry))
          /\ Len(Append(inbox[p], table)) = Len(inbox[p]) + 1
          /\ DOMAIN Append(inbox[p], table) = 1..Len(inbox[p]) + 1
          /\ \A k \in 1..Len(inbox[p]) : Append(inbox[p], table)[k] = inbox[p][k]
          /\ Append(inbox[p], table)[Len(inbox[p]) + 1] = table
      BY <1>2, AppendProperties
    <3>2. InboxOK(Append(inbox[p], table), created, deleted, held)
      <4>1. \A k \in 1..Len(inbox[p]) : TableOK(inbox[p][k], created, deleted, held)
        BY <1>2 DEF PeerOK, InboxOK
      <4> QED
        BY <1>2, <3>1, <4>1 DEF InboxOK
    <3>3. RequestsOK(Tail(chan[p]), Append(inbox[p], table), proc[p])
      <4>1. proc[p].life = "up" /\ RequestsOK(chan[p], inbox[p], proc[p])
        BY <1>2, <2>2 DEF PeerOK, Up
      <4>2. /\ Len(Append(inbox[p], table)) \in Nat
            /\ proc[p].tables + Len(Append(inbox[p], table))
                 = proc[p].tables + Len(inbox[p]) + 1
        BY <1>3, <3>1
      <4> QED
        BY <1>1, <1>2, <1>3, <4>1, <4>2, RequestAnswered, Zenon
    <3> QED
      BY <1>2, <2>2, <3>1, <3>2, <3>3 DEF IInv, Shapes, PeerOK
  <2>3. CASE ~Up(p) /\ UNCHANGED <<inbox, proc>>
    <3>1. RequestsOK(Tail(chan[p]), inbox[p], proc[p])
      BY <1>1, <1>2, RequestsTail DEF PeerOK
    <3> QED
      BY <1>2, <2>3, <3>1 DEF IInv, Shapes, PeerOK
  <2> QED
    BY <2>1, <2>2, <2>3 DEF AnswerWith
<1>6. Shapes'
  <2>1. proc'[p] \in Processes /\ Tail(chan[p]) \in Seq(Kinds \X AllNames)
    BY <1>4, <1>5 DEF ProcOK, ChanOK
  <2>2. chan' \in [Peers -> Seq(Kinds \X AllNames)] /\ DOMAIN chan' = Peers
    BY <2>1, <1>1 DEF IInv, Shapes
  <2>3. proc' \in [Peers -> Processes] /\ inbox' \in [Peers -> Seq(Seq(Table!Entry))]
    <3>1. /\ proc' = [u \in Peers |-> proc'[u]] /\ inbox' = [u \in Peers |-> inbox'[u]]
      BY <1>5 DEF AnswerWith, IInv, Shapes
    <3> QED
      BY <2>1, <1>5, <3>1 DEF IInv, Shapes
  <2> QED
    BY <2>2, <2>3, <1>1, <1>5 DEF IInv, Shapes
<1>7. PeerOK(p)'
  BY <1>1, <1>2, <1>4, <1>5 DEF IInv, Shapes, PeerOK, history
<1>8. ASSUME NEW u \in Peers, u # p PROVE PeerOK(u)'
  BY <1>1, <1>5, <1>8, PeerUntouched DEF IInv, Shapes, Grown, history
<1> QED
  BY <1>1, <1>6, <1>7, <1>8 DEF IInv, HistoryOK, history

(* An update has been read, and the table changed to a good one. *)
LEMMA TableChanges ==
  ASSUME IInv, NEW p \in Peers, chan[p] # << >>,
         chan' = [chan EXCEPT ![p] = Tail(@)],
         TableOK(log', created, deleted, held),
         UNCHANGED <<disk, inbox, proc, deeds, history>>
  PROVE  IInv'
<1>1. PeerOK(p) /\ chan[p] \in Seq(Kinds \X AllNames)
  BY DEF IInv, Shapes
<1>2. /\ ChanOK(Tail(chan[p]), p, deleted, held)
      /\ RequestsOK(Tail(chan[p]), inbox[p], proc[p])
  BY <1>1, ChanTail, RequestsTail DEF PeerOK
<1>3. Shapes'
  BY <1>2 DEF IInv, Shapes, ChanOK
<1>4. PeerOK(p)'
  BY <1>1, <1>2 DEF IInv, Shapes, PeerOK, history
<1>5. ASSUME NEW u \in Peers, u # p PROVE PeerOK(u)'
  BY <1>5, PeerUntouched DEF IInv, Shapes, Grown, history
<1> QED
  BY <1>3, <1>4, <1>5 DEF IInv, HistoryOK, history

LEMMA AddStep ==
  ASSUME IInv, NEW p \in Peers, Add(p)
  PROVE  IInv'
<1>1. /\ chan[p] # << >> /\ chan' = [chan EXCEPT ![p] = Tail(@)]
      /\ UNCHANGED <<disk, inbox, proc, deeds, history>>
  BY DEF Add, Hears
<1>2. MessageOK(Head(chan[p]), p, deleted, held)
  BY <1>1, ChanTail DEF IInv, PeerOK
<1> DEFINE n == Head(chan[p])[2]
           e == [name |-> n, status |-> "ADDED", holders |-> <<p>>]
<1>3. n \in AllNames /\ n \in held[p] \cup {NoName} /\ held[p] \subseteq created
      /\ held[p] \subseteq Names
  BY <1>2, PresentNames DEF MessageOK
<1>4. e \in Table!Entry /\ EntryOK(e, created, deleted, held)
  <2>1. <<p>> \in Seq(Peers) /\ <<p>> # << >> /\ <<p>>[1] = p
    OBVIOUS
  <2>2. n # NoName => Prefix(n, n)
    BY <1>3 DEF Prefix
  <2> HIDE DEF n
  <2> QED
    BY <1>3, <2>1, <2>2 DEF EntryOK, Table!Entry
<1>5. TableOK(log, created, deleted, held)
  BY DEF IInv
<1>6. TableOK(log', created, deleted, held)
  <2>1. CASE Len(log) < MAX_FILES /\ log' = Append(log, e)
    <3>1. /\ log \in Seq(Table!Entry) /\ Append(log, e) \in Seq(Table!Entry)
          /\ DOMAIN log = 1..Len(log) /\ DOMAIN Append(log, e) = 1..Len(log) + 1
          /\ Len(Append(log, e)) = Len(log) + 1
          /\ \A k \in 1..Len(log) : Append(log, e)[k] = log[k]
          /\ Append(log, e)[Len(log) + 1] = e
      BY <1>4, <1>5, AppendProperties DEF TableOK
    <3> HIDE DEF e
    <3>2. \A k \in 1..Len(log) + 1 : EntryOK(Append(log, e)[k], created, deleted, held)
      BY <1>4, <1>5, <3>1 DEF TableOK
    <3> QED
      BY <2>1, <3>1, <3>2 DEF TableOK
  <2>2. CASE UNCHANGED log
    BY <1>5, <2>2
  <2> QED
    BY <2>1, <2>2 DEF Add, Table!Announce
<1> QED
  BY <1>1, <1>6, TableChanges

LEMMA MarkStep ==
  ASSUME IInv, NEW p \in Peers, Mark(p)
  PROVE  IInv'
<1> DEFINE kind == Head(chan[p])[1]
           n == Head(chan[p])[2]
<1>1. /\ chan[p] # << >> /\ kind \in {"MODIFIED", "DELETED"}
      /\ chan' = [chan EXCEPT ![p] = Tail(@)]
      /\ UNCHANGED <<disk, inbox, proc, deeds, history>>
  BY DEF Mark, Hears
<1>2. log' = [k \in DOMAIN log |->
               IF Matches(n, log[k]) THEN Marked(log[k], kind, p) ELSE log[k]]
  BY DEF Mark
<1>3. MessageOK(Head(chan[p]), p, deleted, held)
  BY <1>1, ChanTail DEF IInv, PeerOK
<1>4. n \in held[p] /\ (kind = "DELETED" => Reason(n, deleted))
  BY <1>1, <1>3 DEF MessageOK
<1>5. TableOK(log, created, deleted, held)
  BY DEF IInv
<1> HIDE DEF kind, n
<1>6. ASSUME NEW k \in DOMAIN log, Matches(n, log[k])
      PROVE  /\ Marked(log[k], kind, p) \in Table!Entry
             /\ EntryOK(Marked(log[k], kind, p), created, deleted, held)
  <2>1. /\ log[k] \in Table!Entry /\ EntryOK(log[k], created, deleted, held)
        /\ Prefix(n, log[k].name)
    BY <1>5, <1>6 DEF TableOK, Matches
  <2>2. CASE kind = "DELETED"
    <3>1. Reason(log[k].name, deleted)
      BY <2>1, <2>2, <1>4, PrefixTransitive DEF Reason
    <3> DEFINE e == [log[k] EXCEPT !.status = "DELETED"]
    <3>2. e \in Table!Entry /\ e.name = log[k].name /\ e.holders = log[k].holders
      BY <2>1 DEF Table!Entry
    <3>3. EntryOK(e, created, deleted, held)
      <4> HIDE DEF e
      <4> QED
        BY <2>1, <3>1, <3>2 DEF EntryOK
    <3> QED
      BY <2>2, <3>2, <3>3 DEF Marked
  <2>3. CASE kind = "MODIFIED"
    <3> DEFINE e == [log[k] EXCEPT !.holders = <<p>>]
    <3>0. <<p>> \in Seq(Peers) /\ <<p>> # << >> /\ <<p>>[1] = p
      OBVIOUS
    <3>1. /\ e \in Table!Entry /\ e.name = log[k].name /\ e.status = log[k].status
          /\ e.holders = <<p>>
      BY <2>1, <3>0 DEF Table!Entry
    <3>2. EntryOK(e, created, deleted, held)
      <4> HIDE DEF e
      <4> QED
        BY <2>1, <3>0, <3>1, <1>4 DEF EntryOK
    <3> QED
      BY <2>3, <3>1, <3>2 DEF Marked
  <2> QED
    BY <2>2, <2>3, <1>1
<1>7. TableOK(log', created, deleted, held)
  <2>1. log \in Seq(Table!Entry) /\ DOMAIN log = 1..Len(log) /\ Len(log) \in Nat
    BY <1>5 DEF TableOK
  <2>2. \A k \in 1..Len(log) :
          log'[k] \in Table!Entry /\ EntryOK(log'[k], created, deleted, held)
    BY <1>2, <1>5, <1>6, <2>1 DEF TableOK
  <2>3. log' \in Seq(Table!Entry) /\ Len(log') = Len(log) /\ DOMAIN log' = 1..Len(log)
    BY <1>2, <2>1, <2>2
  <2> QED
    BY <2>2, <2>3, <1>5 DEF TableOK
<1> QED
  BY <1>1, <1>7, TableChanges

-----------------------------------------------------------------------------
(***************************************************************************)
(* talkto_tracker.                                                         *)
(***************************************************************************)

LEMMA ReceiveStep ==
  ASSUME IInv, NEW p \in Peers, Receive(p)
  PROVE  IInv'
<1> DEFINE b == inbox[p]
           q == Begin(proc[p], Head(b))
<1>1. /\ b # << >> /\ inbox' = [inbox EXCEPT ![p] = Tail(b)]
      /\ proc' = [proc EXCEPT ![p] = q] /\ proc[p].life = "up"
      /\ UNCHANGED <<log, disk, chan, deeds, history>>
  BY DEF Receive, At, Up
<1>2. /\ b \in Seq(Seq(Table!Entry)) /\ proc[p] \in Processes
      /\ InboxOK(b, created, deleted, held)
      /\ ProcOK(proc[p], p, created, deleted, held)
      /\ RequestsOK(chan[p], b, proc[p])
  BY DEF IInv, Shapes, PeerOK
<1> HIDE DEF b, q
<1>3. /\ Tail(b) \in Seq(Seq(Table!Entry)) /\ Head(b) = b[1] /\ 1 \in DOMAIN b
      /\ Len(Tail(b)) = Len(b) - 1 /\ DOMAIN Tail(b) = 1..Len(b) - 1
      /\ \A k \in 1..Len(b) - 1 : k + 1 \in DOMAIN b /\ Tail(b)[k] = b[k + 1]
      /\ Len(b) \in Nat \ {0}
  BY <1>1, <1>2, HeadTailProperties
<1>4. TableOK(Head(b), created, deleted, held) /\ InboxOK(Tail(b), created, deleted, held)
  BY <1>2, <1>3 DEF InboxOK
<1>5. ProcOK(q, p, created, deleted, held)
  BY <1>2, <1>4, BeginOK DEF q
<1>6. /\ q.life = proc[p].life /\ q.segtosend = proc[p].segtosend
      /\ q.tables = proc[p].tables + 1
  <2>1. Head(b) \in Seq(Table!Entry)
    BY <1>4 DEF TableOK
  <2> QED
    BY <1>2, <2>1, BeginFields DEF q
<1>7. RequestsOK(chan[p], Tail(b), q)
  <2>1. q.tables + Len(Tail(b)) = proc[p].tables + Len(b) /\ proc[p].tables + Len(b) # 0
    BY <1>2, <1>3, <1>6 DEF Processes
  <2> QED
    BY <1>1, <1>2, <1>6, <2>1 DEF RequestsOK
<1>8. Shapes'
  BY <1>1, <1>3, <1>5 DEF IInv, Shapes, ProcOK
<1>9. PeerOK(p)'
  BY <1>1, <1>4, <1>5, <1>7 DEF IInv, Shapes, PeerOK, history
<1>10. ASSUME NEW u \in Peers, u # p PROVE PeerOK(u)'
  BY <1>1, <1>10, PeerUntouched DEF IInv, Shapes, Grown, history
<1> QED
  BY <1>1, <1>8, <1>9, <1>10 DEF IInv, HistoryOK, history

(* The entry that talkto_tracker is at. *)
LEMMA EntryFacts ==
  ASSUME IInv, NEW p \in Peers, proc[p].i <= Len(proc[p].table)
  PROVE  /\ Entry(p) \in Table!Entry
         /\ EntryOK(Entry(p), created, deleted, held)
         /\ Source(p) \in Peers
<1>1. /\ proc[p] \in Processes /\ TableOK(proc[p].table, created, deleted, held)
  BY DEF IInv, Shapes, PeerOK, ProcOK
<1>2. proc[p].i \in DOMAIN proc[p].table
  BY <1>1 DEF Processes
<1>3. Entry(p) \in Table!Entry /\ EntryOK(Entry(p), created, deleted, held)
  BY <1>1, <1>2 DEF TableOK, Entry
<1>4. Entry(p).holders # << >> => Entry(p).holders[1] \in Peers
  BY <1>3 DEF Table!Entry
<1> QED
  BY <1>3, <1>4 DEF Source

LEMMA NextEntryOK ==
  ASSUME NEW q, NEW p, NEW c, NEW d, NEW h, ProcOK(q, p, c, d, h),
         q.i <= Len(q.table)
  PROVE  /\ ProcOK(NextEntry(q), p, c, d, h)
         /\ NextEntry(q).life = q.life /\ NextEntry(q).tables = q.tables
         /\ NextEntry(q).segtosend = q.segtosend
<1>1. q \in Processes /\ Len(q.table) \in 0..MAX_FILES
  BY DEF ProcOK, TableOK
<1>2. q.i + 1 \in 1..MAX_FILES + 1
  BY <1>1 DEF Processes
<1>3. NextEntry(q) \in Processes
  BY <1>1, <1>2 DEF NextEntry, Processes
<1>4. /\ NextEntry(q).table = q.table /\ NextEntry(q).files = q.files
      /\ NextEntry(q).pc = "entry" /\ NextEntry(q).life = q.life
      /\ NextEntry(q).tables = q.tables /\ NextEntry(q).segtosend = q.segtosend
  BY <1>1 DEF NextEntry, Processes
<1> QED
  BY <1>3, <1>4 DEF ProcOK

(* It goes on to the next entry and nothing else happens. *)
LEMMA NextEntryStep ==
  ASSUME IInv, NEW p \in Peers, proc[p].i <= Len(proc[p].table),
         proc' = [proc EXCEPT ![p] = NextEntry(@)],
         UNCHANGED <<log, disk, chan, inbox, deeds, created, deleted, removed, held>>,
         missed' \in BOOLEAN
  PROVE  IInv'
<1>1. /\ ProcOK(proc[p], p, created, deleted, held)
      /\ RequestsOK(chan[p], inbox[p], proc[p])
  BY DEF IInv, PeerOK
<1>2. /\ ProcOK(NextEntry(proc[p]), p, created, deleted, held)
      /\ RequestsOK(chan[p], inbox[p], NextEntry(proc[p]))
  BY <1>1, NextEntryOK, RequestsElsewhere
<1>3. proc' = [proc EXCEPT ![p] = NextEntry(proc[p])]
  OBVIOUS
<1> QED
  BY <1>2, <1>3, ProcessMoves

LEMMA MissingStep ==
  ASSUME IInv, NEW p \in Peers, Missing(p)
  PROVE  IInv'
<1> DEFINE q == [proc[p] EXCEPT !.pc = "fetch"]
<1>1. /\ proc[p].i <= Len(proc[p].table) /\ proc' = [proc EXCEPT ![p] = q]
      /\ UNCHANGED <<log, disk, chan, inbox, deeds, history>>
      /\ proc[p].table[proc[p].i].name # NoName
  BY DEF Missing, More, InDirectory, Entry, IInv, Shapes
<1>2. /\ ProcOK(proc[p], p, created, deleted, held) /\ proc[p] \in Processes
      /\ RequestsOK(chan[p], inbox[p], proc[p])
  BY DEF IInv, PeerOK, ProcOK
<1>3. /\ q \in Processes /\ q.life = proc[p].life /\ q.tables = proc[p].tables
      /\ q.segtosend = proc[p].segtosend /\ q.table = proc[p].table
      /\ q.files = proc[p].files /\ q.i = proc[p].i
  BY <1>2 DEF Processes
<1> HIDE DEF q
<1>4. ProcOK(q, p, created, deleted, held)
  BY <1>1, <1>2, <1>3 DEF ProcOK
<1>5. RequestsOK(chan[p], inbox[p], q)
  BY <1>2, <1>3, RequestsElsewhere
<1>6. missed' \in BOOLEAN
  BY <1>1 DEF IInv, HistoryOK, history
<1> QED
  BY <1>1, <1>4, <1>5, <1>6, ProcessMoves DEF history

LEMMA KeepStep ==
  ASSUME IInv, NEW p \in Peers, Keep(p)
  PROVE  IInv'
BY NextEntryStep DEF Keep, More, history, IInv, HistoryOK

LEMMA NotConnectedStep ==
  ASSUME IInv, NEW p \in Peers, NotConnected(p)
  PROVE  IInv'
<1>1. proc[p].i <= Len(proc[p].table)
  BY DEF NotConnected, At, IInv, PeerOK, ProcOK
<1> QED
  BY <1>1, NextEntryStep DEF NotConnected

LEMMA RemoveStep ==
  ASSUME IInv, NEW p \in Peers, Remove(p)
  PROVE  IInv'
<1>1. /\ proc[p].i <= Len(proc[p].table) /\ Entry(p).status = "DELETED"
      /\ proc' = [proc EXCEPT ![p] = NextEntry(@)]
      /\ UNCHANGED <<log, inbox, deeds, created, deleted, held, missed>>
  BY DEF Remove, More, IsDeleted
<1>2. CASE UNCHANGED <<disk, chan, removed>>
  BY <1>1, <1>2, NextEntryStep DEF IInv, HistoryOK
<1>3. CASE /\ Entry(p).name \in Present(p)
           /\ disk' = [disk EXCEPT ![p][Entry(p).name] = Absent]
           /\ chan' = [chan EXCEPT ![p] = Noticed(p, "DELETED", Entry(p).name)]
           /\ removed' = removed \cup {Entry(p).name}
  <2> DEFINE n == Entry(p).name
  <2>1. n \in held[p] /\ n \in Names
    BY <1>3, PresentNames
  <2>2. Reason(n, deleted)
    BY <1>1, EntryFacts DEF EntryOK
  <2> HIDE DEF n
  <2>3. Grown(created, deleted, held, created, deleted, held)
    BY DEF Grown
  <2>4. /\ PeerOK(p) /\ ProcOK(proc[p], p, created, deleted, held)
        /\ RequestsOK(chan[p], inbox[p], proc[p])
    BY DEF IInv, PeerOK
  <2>5. /\ ChanOK(Noticed(p, "DELETED", n), p, deleted, held)
        /\ RequestsOK(Noticed(p, "DELETED", n), inbox[p], proc[p])
    BY <2>1, <2>2, <2>3, <2>4, NoticedOK DEF Updates
  <2>6. /\ ProcOK(NextEntry(proc[p]), p, created, deleted, held)
        /\ RequestsOK(Noticed(p, "DELETED", n), inbox[p], NextEntry(proc[p]))
    BY <1>1, <2>4, <2>5, NextEntryOK, RequestsElsewhere
  <2>7. HistoryOK'
    BY <1>1, <1>3, <2>1, <2>2 DEF IInv, HistoryOK, n
  <2>8. /\ chan' = [chan EXCEPT ![p] = Noticed(p, "DELETED", n)]
        /\ disk' = [disk EXCEPT ![p][n] = Absent]
        /\ proc' = [proc EXCEPT ![p] = NextEntry(proc[p])]
    BY <1>1, <1>3 DEF n
  <2>9. Shapes'
    <3>1. disk' \in [Peers -> [AllNames -> Contents]] /\ DOMAIN disk' = Peers
      BY <2>1, <2>8 DEF IInv, Shapes, Contents, AllNames
    <3>2. /\ Noticed(p, "DELETED", n) \in Seq(Kinds \X AllNames)
          /\ NextEntry(proc[p]) \in Processes
      BY <2>5, <2>6 DEF ChanOK, ProcOK
    <3> QED
      BY <1>1, <2>8, <3>1, <3>2 DEF IInv, Shapes
  <2>10. DiskOK(disk'[p], p, held)
    BY <2>1, <2>8 DEF IInv, Shapes, PeerOK, DiskOK, Contents, AllNames
  <2>11. PeerOK(p)'
    BY <1>1, <2>4, <2>5, <2>6, <2>8, <2>10 DEF IInv, Shapes, PeerOK
  <2>12. ASSUME NEW u \in Peers, u # p PROVE PeerOK(u)'
    BY <1>1, <2>3, <2>8, <2>12, PeerUntouched DEF IInv, Shapes
  <2> QED
    BY <1>1, <2>7, <2>9, <2>11, <2>12 DEF IInv
<1> QED
  BY <1>2, <1>3 DEF Remove

(* A file that somebody holds, or held, is put into p's directory, and the *)
(* monitor tells of it.                                                    *)
LEMMA StoredOK ==
  ASSUME IInv, NEW p \in Peers, NEW n \in created, NEW contents \in Contents,
         Stored(p, n, contents), NEW told \in Echo(p, n),
         UNCHANGED <<created, deleted, removed, missed>>
  PROVE  /\ HistoryOK'
         /\ Grown(created, deleted, held, created, deleted, held')
         /\ ChanOK(told, p, deleted, held')
         /\ RequestsOK(told, inbox[p], proc[p])
         /\ disk' \in [Peers -> [AllNames -> Contents]] /\ DOMAIN disk' = Peers
         /\ DiskOK(disk'[p], p, held')
         /\ \A u \in Peers : u # p => disk'[u] = disk[u]
<1>1. /\ disk' = [disk EXCEPT ![p][n] = contents]
      /\ held' = [held EXCEPT ![p] = @ \cup {n}]
  BY DEF Stored
<1>2. n \in Names /\ n \in AllNames
  BY DEF IInv, HistoryOK, AllNames
<1>3. HistoryOK'
  BY <1>1, <1>2 DEF IInv, HistoryOK
<1>4. Grown(created, deleted, held, created, deleted, held') /\ n \in held'[p]
  BY <1>1 DEF IInv, HistoryOK, Grown
<1>5. PeerOK(p)
  BY DEF IInv
<1>6. /\ ChanOK(Noticed(p, "ADDED", n), p, deleted, held')
      /\ RequestsOK(Noticed(p, "ADDED", n), inbox[p], proc[p])
      /\ ChanOK(Noticed(p, "MODIFIED", n), p, deleted, held')
      /\ RequestsOK(Noticed(p, "MODIFIED", n), inbox[p], proc[p])
  BY <1>2, <1>4, <1>5, NoticedOK DEF Updates
<1>7. ChanOK(chan[p], p, deleted, held') /\ RequestsOK(chan[p], inbox[p], proc[p])
  BY <1>4, <1>5, ChanGrown DEF PeerOK
<1>8. told \in {chan[p], Noticed(p, "ADDED", n), Noticed(p, "MODIFIED", n)}
  BY DEF Echo, NoticedWrite
<1>9. /\ disk' \in [Peers -> [AllNames -> Contents]] /\ DOMAIN disk' = Peers
      /\ \A u \in Peers : u # p => disk'[u] = disk[u]
  BY <1>1, <1>2 DEF IInv, Shapes
<1>10. DiskOK(disk'[p], p, held')
  <2>1. DiskOK(disk[p], p, held')
    BY <1>4, <1>5, DiskGrown DEF PeerOK
  <2> QED
    BY <2>1, <1>1, <1>2, <1>4 DEF IInv, Shapes, DiskOK
<1> QED
  BY <1>3, <1>4, <1>6, <1>7, <1>8, <1>9, <1>10

(* A talkto_tracker that fetches is at an entry whose name was created. *)
LEMMA FetchFacts ==
  ASSUME IInv, NEW p \in Peers, At(p, "fetch")
  PROVE  /\ proc[p].i <= Len(proc[p].table)
         /\ Entry(p).name \in created /\ Source(p) \in Peers
<1>1. proc[p].i <= Len(proc[p].table) /\ Entry(p).name # NoName
  BY DEF At, IInv, PeerOK, ProcOK, Entry
<1> QED
  BY <1>1, EntryFacts DEF EntryOK

LEMMA FetchStep ==
  ASSUME IInv, NEW p \in Peers, Fetch(p)
  PROVE  IInv'
<1> DEFINE n == Entry(p).name
           contents == IF p = Source(p) THEN "junk" ELSE disk[Source(p)][n]
<1>1. /\ proc[p].i <= Len(proc[p].table) /\ n \in created /\ Source(p) \in Peers
  BY FetchFacts DEF Fetch
<1>2. PICK told \in Echo(p, n) : chan' = [chan EXCEPT ![p] = told]
  BY DEF Fetch
<1>3. /\ proc' = [proc EXCEPT ![p] = NextEntry(proc[p])]
      /\ Stored(p, n, contents)
      /\ UNCHANGED <<log, inbox, deeds, created, deleted, removed, missed>>
  BY DEF Fetch
<1>4. contents \in Contents
  BY <1>1 DEF IInv, Shapes, HistoryOK, Contents, AllNames
<1> HIDE DEF n, contents
<1>5. /\ HistoryOK'
      /\ Grown(created, deleted, held, created, deleted, held')
      /\ ChanOK(told, p, deleted, held')
      /\ RequestsOK(told, inbox[p], proc[p])
      /\ disk' \in [Peers -> [AllNames -> Contents]] /\ DOMAIN disk' = Peers
      /\ DiskOK(disk'[p], p, held')
      /\ \A u \in Peers : u # p => disk'[u] = disk[u]
  BY <1>1, <1>2, <1>3, <1>4, StoredOK
<1>6. PeerOK(p)
  BY DEF IInv
<1>7. /\ ProcOK(NextEntry(proc[p]), p, created, deleted, held')
      /\ RequestsOK(told, inbox[p], NextEntry(proc[p]))
  <2>1. ProcOK(proc[p], p, created, deleted, held')
    BY <1>5, <1>6, ProcGrown DEF PeerOK
  <2> QED
    BY <1>1, <1>5, <2>1, NextEntryOK, RequestsElsewhere
<1>8. InboxOK(inbox[p], created, deleted, held')
  BY <1>5, <1>6, InboxGrown DEF PeerOK
<1>9. TableOK(log, created, deleted, held')
  BY <1>5, TableGrown DEF IInv
<1>10. Shapes'
  BY <1>2, <1>3, <1>5, <1>7 DEF IInv, Shapes, ChanOK, ProcOK
<1>11. PeerOK(p)'
  BY <1>2, <1>3, <1>5, <1>7, <1>8 DEF IInv, Shapes, PeerOK
<1>12. ASSUME NEW u \in Peers, u # p PROVE PeerOK(u)'
  BY <1>2, <1>3, <1>5, <1>12, PeerUntouched DEF IInv, Shapes
<1> QED
  BY <1>3, <1>5, <1>9, <1>10, <1>11, <1>12 DEF IInv

LEMMA KillStep ==
  ASSUME IInv, NEW p \in Peers, Kill(p)
  PROVE  IInv'
<1>0. /\ proc[p].i <= Len(proc[p].table)
      /\ Entry(p).name \in created /\ Source(p) \in Peers
  BY FetchFacts DEF Kill
<1>1. PICK q \in Peers, n \in created : q = Source(p) /\ n = Entry(p).name
  BY <1>0
<1>2. /\ inbox' = [inbox EXCEPT ![q] = << >>]
      /\ proc' = [proc EXCEPT ![p] = NextEntry(proc[p]), ![q] = Dead("served")]
      /\ UNCHANGED <<log, deeds, created, deleted, removed, missed>>
  BY <1>1 DEF Kill
<1>3. PICK rest \in Delivered(q) :
        \/ /\ chan' = [chan EXCEPT ![q] = rest]
           /\ UNCHANGED <<disk, held>>
        \/ /\ p # q
           /\ Stored(p, n, "junk")
           /\ \E told \in Echo(p, n) : chan' = [chan EXCEPT ![q] = rest, ![p] = told]
  BY <1>1 DEF Kill
<1>4. PeerOK(p) /\ PeerOK(q) /\ "served" \in Causes
  BY <1>1 DEF IInv, Causes
<1>5. /\ ChanOK(rest, q, deleted, held)
      /\ RequestsOK(rest, << >>, Dead("served"))
      /\ ProcOK(Dead("served"), q, created, deleted, held)
  <2>1. PICK j \in 0..Len(chan[q]) : rest = SubSeq(chan[q], 1, j)
    BY DEF Delivered
  <2>2. chan[q] \in Seq(Kinds \X AllNames)
    BY <1>1 DEF IInv, Shapes
  <2> QED
    BY <1>4, <2>1, <2>2, ChanPrefix, RequestsDead, DeadOK DEF PeerOK
<1>6. /\ ProcOK(NextEntry(proc[p]), p, created, deleted, held)
      /\ RequestsOK(chan[p], inbox[p], NextEntry(proc[p]))
  BY <1>0, <1>4, NextEntryOK, RequestsElsewhere DEF PeerOK
<1>7. /\ proc' \in [Peers -> Processes] /\ DOMAIN proc' = Peers
      /\ inbox' \in [Peers -> Seq(Seq(Table!Entry))] /\ DOMAIN inbox' = Peers
      /\ deeds' \in 0..MaxDeeds
  <2>1. NextEntry(proc[p]) \in Processes /\ Dead("served") \in Processes
    BY <1>5, <1>6 DEF ProcOK
  <2>2. proc' \in [Peers -> Processes] /\ DOMAIN proc' = Peers
    BY <2>1, <1>2 DEF IInv, Shapes
  <2>3. << >> \in Seq(Seq(Table!Entry))
    OBVIOUS
  <2>4. inbox' \in [Peers -> Seq(Seq(Table!Entry))] /\ DOMAIN inbox' = Peers
    BY <2>3, <1>2 DEF IInv, Shapes
  <2> QED
    BY <2>2, <2>4, <1>2 DEF IInv, Shapes
<1>8. proc'[q] = Dead("served") /\ inbox'[q] = << >>
  BY <1>1, <1>2 DEF IInv, Shapes
<1>9. p # q => proc'[p] = NextEntry(proc[p]) /\ inbox'[p] = inbox[p]
  BY <1>1, <1>2 DEF IInv, Shapes
<1>10. \A u \in Peers : u # p /\ u # q => proc'[u] = proc[u] /\ inbox'[u] = inbox[u]
  BY <1>1, <1>2 DEF IInv, Shapes
<1>11. CASE chan' = [chan EXCEPT ![q] = rest] /\ UNCHANGED <<disk, held>>
  <2>1. chan'[q] = rest /\ \A u \in Peers : u # q => chan'[u] = chan[u]
    BY <1>1, <1>11 DEF IInv, Shapes
  <2>2. Shapes'
    BY <1>5, <1>7, <1>11 DEF IInv, Shapes, ChanOK
  <2>3. PeerOK(q)'
    BY <1>1, <1>2, <1>4, <1>8, <1>11, <2>1, PeerDead
  <2>4. p # q => PeerOK(p)'
    BY <1>2, <1>4, <1>6, <1>9, <1>11, <2>1 DEF PeerOK
  <2>5. ASSUME NEW u \in Peers, u # p, u # q PROVE PeerOK(u)'
    BY <1>2, <1>10, <1>11, <2>1, <2>5, PeerUntouched DEF IInv, Grown
  <2> QED
    BY <1>2, <1>11, <2>2, <2>3, <2>4, <2>5 DEF IInv, HistoryOK
<1>12. CASE /\ p # q
            /\ Stored(p, n, "junk")
            /\ \E told \in Echo(p, n) : chan' = [chan EXCEPT ![q] = rest, ![p] = told]
  <2>1. PICK told \in Echo(p, n) : chan' = [chan EXCEPT ![q] = rest, ![p] = told]
    BY <1>12
  <2>2. /\ HistoryOK'
        /\ Grown(created, deleted, held, created, deleted, held')
        /\ ChanOK(told, p, deleted, held')
        /\ RequestsOK(told, inbox[p], proc[p])
        /\ disk' \in [Peers -> [AllNames -> Contents]] /\ DOMAIN disk' = Peers
        /\ DiskOK(disk'[p], p, held')
        /\ \A u \in Peers : u # p => disk'[u] = disk[u]
    <3>1. "junk" \in Contents
      BY DEF Contents
    <3> QED
      BY <1>1, <1>2, <1>12, <3>1, StoredOK
  <2>3. /\ chan'[q] = rest /\ chan'[p] = told
        /\ \A u \in Peers : u # p /\ u # q => chan'[u] = chan[u]
    BY <1>1, <1>12, <2>1 DEF IInv, Shapes
  <2>4. Shapes'
    <3>1. rest \in Seq(Kinds \X AllNames) /\ told \in Seq(Kinds \X AllNames)
      BY <1>5, <2>2 DEF ChanOK
    <3>2. chan' \in [Peers -> Seq(Kinds \X AllNames)] /\ DOMAIN chan' = Peers
      BY <2>1, <3>1 DEF IInv, Shapes
    <3> QED
      BY <1>7, <2>2, <3>2 DEF Shapes
  <2>5. PeerOK(q)'
    <3>1. ChanOK(rest, q, deleted, held')
      BY <1>1, <1>5, <2>2, ChanGrown
    <3>2. ProcOK(Dead("served"), q, created, deleted, held')
      BY <1>4, DeadOK
    <3>3. DiskOK(disk[q], q, held')
      BY <1>1, <1>4, <2>2, DiskGrown DEF PeerOK
    <3>4. InboxOK(<< >>, created, deleted, held')
      BY DEF InboxOK
    <3> QED
      BY <1>1, <1>2, <1>5, <1>8, <1>12, <2>2, <2>3, <3>1, <3>2, <3>3, <3>4 DEF PeerOK
  <2>6. PeerOK(p)'
    <3>1. ProcOK(NextEntry(proc[p]), p, created, deleted, held')
      BY <1>6, <2>2, ProcGrown
    <3>2. RequestsOK(told, inbox[p], NextEntry(proc[p]))
      BY <1>0, <1>4, <2>2, NextEntryOK, RequestsElsewhere DEF PeerOK
    <3>3. InboxOK(inbox[p], created, deleted, held')
      BY <1>4, <2>2, InboxGrown DEF PeerOK
    <3> QED
      BY <1>2, <1>9, <1>12, <2>2, <2>3, <3>1, <3>2, <3>3 DEF PeerOK
  <2>7. ASSUME NEW u \in Peers, u # p, u # q PROVE PeerOK(u)'
    BY <1>2, <1>10, <2>2, <2>3, <2>7, PeerUntouched DEF IInv
  <2>8. TableOK(log, created, deleted, held')
    BY <2>2, TableGrown DEF IInv
  <2> QED
    BY <1>2, <2>2, <2>4, <2>5, <2>6, <2>7, <2>8 DEF IInv
<1> QED
  BY <1>3, <1>11, <1>12

LEMMA ListStep ==
  ASSUME IInv, NEW p \in Peers, List(p)
  PROVE  IInv'
<1>1. PICK s \in Orders(Present(p)) :
        proc' = [proc EXCEPT ![p].pc = "extra", ![p].i = 1,
                   ![p].files = [k \in 1..MAX_FILES |->
                                   IF k \in DOMAIN s THEN s[k] ELSE @[k]]]
  BY DEF List
<1> DEFINE f == [k \in 1..MAX_FILES |->
                   IF k \in DOMAIN s THEN s[k] ELSE proc[p].files[k]]
           q == [proc[p] EXCEPT !.pc = "extra", !.i = 1, !.files = f]
<1>2. proc' = [proc EXCEPT ![p] = q]
  BY <1>1 DEF IInv, Shapes, Processes
<1>3. /\ ProcOK(proc[p], p, created, deleted, held) /\ proc[p] \in Processes
      /\ RequestsOK(chan[p], inbox[p], proc[p])
  BY DEF IInv, PeerOK, ProcOK
<1>4. \A k \in DOMAIN s : s[k] \in held[p]
  BY PresentNames DEF Orders
<1>5. /\ \A k \in 1..MAX_FILES : f[k] \in held[p] \cup {NoName}
      /\ f \in [1..MAX_FILES -> AllNames]
  BY <1>3, <1>4, PresentNames DEF ProcOK, AllNames
<1>6. 1 \in 1..MAX_FILES + 1
  OBVIOUS
<1> HIDE DEF f
<1>7. /\ q \in Processes /\ q.life = proc[p].life /\ q.tables = proc[p].tables
      /\ q.segtosend = proc[p].segtosend /\ q.table = proc[p].table
      /\ q.files = f /\ q.pc = "extra"
  BY <1>3, <1>5, <1>6 DEF Processes
<1> HIDE DEF q
<1>8. ProcOK(q, p, created, deleted, held) /\ RequestsOK(chan[p], inbox[p], q)
  BY <1>3, <1>5, <1>7, RequestsElsewhere DEF ProcOK
<1>9. UNCHANGED <<log, disk, chan, inbox, deeds, created, deleted, removed, held>>
      /\ missed' \in BOOLEAN
  BY DEF List, history, IInv, HistoryOK
<1> QED
  BY <1>2, <1>8, <1>9, ProcessMoves

LEMMA ExtraStep ==
  ASSUME IInv, NEW p \in Peers, Extra(p)
  PROVE  IInv'
<1> DEFINE U == Unlisted(p)
           q == [proc[p] EXCEPT !.pc = "read", !.table = << >>]
<1>1. PICK s \in Orders(U) :
        chan' = [chan EXCEPT ![p] = @ \o [k \in DOMAIN s |->
                                           <<"ADDED", proc[p].files[s[k]]>>]]
  BY DEF Extra
<1>2. /\ proc' = [proc EXCEPT ![p] = q]
      /\ UNCHANGED <<log, disk, inbox, deeds, created, deleted, removed, held, missed>>
  BY DEF Extra, history
<1>3. /\ ProcOK(proc[p], p, created, deleted, held) /\ proc[p] \in Processes
      /\ ChanOK(chan[p], p, deleted, held) /\ RequestsOK(chan[p], inbox[p], proc[p])
      /\ chan[p] \in Seq(Kinds \X AllNames)
  BY DEF IInv, Shapes, PeerOK, ProcOK
<1>4. /\ q \in Processes /\ q.life = proc[p].life /\ q.tables = proc[p].tables
      /\ q.segtosend = proc[p].segtosend /\ q.table = << >>
      /\ q.files = proc[p].files /\ q.pc = "read"
  <2>1. << >> \in Seq(Table!Entry)
    OBVIOUS
  <2>2. q \in Processes
    BY <1>3, <2>1 DEF Processes
  <2> QED
    BY <1>3, <2>2 DEF Processes
<1>5. U \subseteq 1..MAX_FILES /\ IsFiniteSet(U) /\ Cardinality(U) \in Nat
  <2>1. Counted(p) \in 0..MAX_FILES
    BY PresentNames, FewFiles DEF Counted
  <2>2. U \subseteq 1..MAX_FILES
    BY <2>1 DEF Unlisted
  <2>3. IsFiniteSet(1..MAX_FILES)
    BY FS_Interval
  <2> QED
    BY <2>2, <2>3, FS_Subset, FS_CardinalityType
<1> HIDE DEF U, q
<1>6. s \in [1..Cardinality(U) -> U] /\ DOMAIN s = 1..Cardinality(U)
  BY DEF Orders
<1> DEFINE t == [k \in DOMAIN s |-> <<"ADDED", proc[p].files[s[k]]>>]
<1>7. \A k \in DOMAIN s :
        /\ proc[p].files[s[k]] \in held[p] \cup {NoName}
        /\ proc[p].files[s[k]] \in AllNames
  BY <1>3, <1>5, <1>6 DEF ProcOK, Processes
<1>8. \A k \in DOMAIN s : MessageOK(<<"ADDED", proc[p].files[s[k]]>>, p, deleted, held)
  BY <1>7 DEF MessageOK, Kinds
<1>9. /\ t \in Seq(Kinds \X AllNames) /\ DOMAIN t = DOMAIN s
      /\ \A k \in DOMAIN t : MessageOK(t[k], p, deleted, held) /\ t[k][1] \in Updates
  <2>1. \A k \in DOMAIN s : <<"ADDED", proc[p].files[s[k]]>> \in Kinds \X AllNames
    BY <1>7 DEF Kinds
  <2>2. t \in [1..Cardinality(U) -> Kinds \X AllNames]
    BY <1>6, <2>1
  <2>3. t \in Seq(Kinds \X AllNames)
    BY <1>5, <2>2
  <2> QED
    BY <1>6, <1>8, <2>3 DEF Updates
<1>10. chan' = [chan EXCEPT ![p] = chan[p] \o t]
  BY <1>1
<1> HIDE DEF t
<1>11. /\ ChanOK(chan[p] \o t, p, deleted, held)
       /\ RequestsOK(chan[p] \o t, inbox[p], proc[p])
  BY <1>3, <1>9, ChanConcat, RequestsConcat DEF ChanOK
<1>12. RequestsOK(chan[p] \o t, inbox[p], q)
  BY <1>4, <1>11, RequestsElsewhere
<1>13. ProcOK(q, p, created, deleted, held)
  BY <1>3, <1>4, EmptyTable DEF ProcOK
<1>14. Shapes'
  BY <1>2, <1>4, <1>10, <1>11 DEF IInv, Shapes, ChanOK
<1>15. PeerOK(p)'
  BY <1>2, <1>10, <1>11, <1>12, <1>13 DEF IInv, Shapes, PeerOK
<1>16. ASSUME NEW u \in Peers, u # p PROVE PeerOK(u)'
  BY <1>2, <1>10, <1>16, PeerUntouched DEF IInv, Shapes, Grown
<1> QED
  BY <1>2, <1>14, <1>15, <1>16 DEF IInv, HistoryOK

-----------------------------------------------------------------------------
(***************************************************************************)
(* The theorems.                                                           *)
(***************************************************************************)

LEMMA InitOK == Init => IInv
<1> SUFFICES ASSUME Init PROVE IInv
  OBVIOUS
<1> USE DEF Init
<1>1. "stopped" \in Causes /\ 0 \in 0..MaxDeeds /\ MaxDeeds \in 0..MaxDeeds
  BY DEF Causes
<1>2. /\ Dead("stopped") \in Processes
      /\ Dead("stopped").life = "stopped" /\ Dead("stopped").tables = 0
  <2>1. Dead("stopped") \in Processes
    BY <1>1, DeadOK DEF ProcOK
  <2> QED
    BY <2>1 DEF Dead, Fresh
<1>3. Shapes
  BY <1>1, <1>2 DEF Shapes, Contents, Kinds, AllNames
<1>4. HistoryOK
  BY DEF HistoryOK, AllNames
<1>5. TableOK(log, created, deleted, held)
  BY EmptyTable
<1>6. ASSUME NEW p \in Peers PROVE PeerOK(p)
  <2>1. ChanOK(<< >>, p, deleted, held)
    BY DEF ChanOK
  <2>2. InboxOK(<< >>, created, deleted, held)
    BY DEF InboxOK
  <2>3. ProcOK(Dead("stopped"), p, created, deleted, held)
    BY <1>1, DeadOK
  <2>4. DiskOK(disk[p], p, held)
    BY <1>3 DEF Shapes, DiskOK, AllNames
  <2>5. RequestsOK(<< >>, << >>, Dead("stopped"))
    BY <1>2 DEF RequestsOK
  <2> QED
    BY <2>1, <2>2, <2>3, <2>4, <2>5 DEF PeerOK
<1> QED
  BY <1>3, <1>4, <1>5, <1>6 DEF IInv

LEMMA StutterOK == IInv /\ UNCHANGED vars => IInv'
BY DEF IInv, vars, Shapes, HistoryOK, PeerOK

LEMMA StepOK == IInv /\ [Next]_vars => IInv'
<1> SUFFICES ASSUME IInv, Next PROVE IInv'
  BY StutterOK
<1>1. PICK p \in Peers :
        Users(p) \/ Start(p) \/ KeepAlive(p) \/ Tracker(p) \/ TalkToTracker(p)
  BY DEF Next
<1>2. CASE Users(p)
  BY <1>2, StopStep, CreateStep, WriteStep, DeleteStep DEF Users
<1>3. CASE Start(p)
  BY <1>3, StartStep
<1>4. CASE KeepAlive(p)
  BY <1>4, BeatStep, BeatNullStep DEF KeepAlive
<1>5. CASE Tracker(p)
  BY <1>5, AnswerStep, AddStep, MarkStep DEF Tracker, Answer, IInv
<1>6. CASE TalkToTracker(p)
  BY <1>6, ReceiveStep, MissingStep, KeepStep, RemoveStep, NotConnectedStep,
     FetchStep, KillStep, ListStep, ExtraStep DEF TalkToTracker
<1> QED
  BY <1>1, <1>2, <1>3, <1>4, <1>5, <1>6

(* The inductive invariant holds throughout, however many peers there are  *)
(* and however often their processes end and are started again.            *)
THEOREM Invariance == Spec => []IInv
<1>1. Init => IInv
  BY InitOK
<1>2. IInv /\ [Next]_vars => IInv'
  BY StepOK
<1> QED
  BY <1>1, <1>2, PTL DEF Spec

(* Every variable keeps the shape of the C object it stands for.           *)
THEOREM TypeCorrect == Spec => []TypeOK
<1>1. IInv => TypeOK
  BY DEF IInv, Shapes, HistoryOK, TableOK, TypeOK, Table!TypeOK
<1> QED
  BY <1>1, Invariance, PTL

(* talkto_tracker never reads a third table: keepAlive has made its        *)
(* process ask for the last one it will be sent.                           *)
THEOREM NoThirdTable == Spec => []TwoTablesAtMost
<1>1. IInv => TwoTablesAtMost
  BY DEF IInv, PeerOK, RequestsOK, TwoTablesAtMost
<1> QED
  BY <1>1, Invariance, PTL

(* remove_locally only removes what users deleted somewhere, or names that *)
(* start with such a name.                                                 *)
THEOREM RemovalsHaveReasons == Spec => []RemovedForAReason
<1>1. IInv => RemovedForAReason
  BY DEF IInv, HistoryOK, Reason, RemovedForAReason
<1> QED
  BY <1>1, Invariance, PTL

(* downloadFromPeer never makes a file that no user has made.              *)
THEOREM FilesComeFromUsers == Spec => []NothingFromNowhere
<1>1. IInv => NothingFromNowhere
  BY PresentNames DEF NothingFromNowhere
<1> QED
  BY <1>1, Invariance, PTL

(* The tracker names peers as holders that have held what they announced.  *)
THEOREM HoldersHeld == Spec => []HolderHeldIt
<1>1. IInv => HolderHeldIt
  BY DEF IInv, TableOK, EntryOK, HolderHeldIt
<1> QED
  BY <1>1, Invariance, PTL
=============================================================================
