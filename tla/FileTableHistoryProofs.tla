----------------------- MODULE FileTableHistoryProofs -----------------------
(***************************************************************************)
(* What FileTable owes to the past, for any number of threads, names,      *)
(* messages and table entries: nothing is in the table without an update   *)
(* that put it there, and the tables sent to a connection never go back.   *)
(***************************************************************************)
EXTENDS FileTableProofs

(* The update a thread is handling was received, and the entry it is about *)
(* to mark is one it matched.                                              *)
AtWork(t) ==
  /\ update[t] \in Updates => <<t, update[t]>> \in asked
  /\ pc[t] \in {"marklock", "mark"} /\ idx[t] < MAX_FILES =>
       <<update[t].name, nodes[idx[t]].name>> \in PrefixOf

CauseInv ==
  /\ \A t \in Threads : AtWork(t)
  /\ \A i \in Slots : i < numfiles => Caused(nodes[i], asked)

(* The entries with a name are the published ones and the one a thread has *)
(* filled and is about to count; no other entry is a tombstone.            *)
Named(i) ==
  /\ i < numfiles => nodes[i].name # "unset"
  /\ nodes[i].name = "unset" => nodes[i].status # "DELETED"
  /\ nodes[i].name # "unset" =>
       i < numfiles \/ (i = numfiles /\ \E t \in Threads : pc[t] = "count")

NamedInv == \A i \in Slots : Named(i)

(* One copy of an entry may have been read before another. *)
Precedes(x, y) ==
  /\ x.name # "unset" => y.name = x.name
  /\ x.status = "DELETED" => y.status = "DELETED"

(* The last table sent, the part of the next one that is copied, and the   *)
(* table itself, in the order of time.                                     *)
SentInv(t) ==
  /\ sent[t].size <= sent[t].count /\ sent[t].count <= numfiles
  /\ \A i \in Slots : Precedes(sent[t].nodes[i], nodes[i])

CopyInv(t) ==
  pc[t] = "copy" =>
    /\ sent[t].count <= reply[t].size /\ reply[t].size <= numfiles
    /\ CountCell \notin todo[t] =>
         reply[t].size <= reply[t].count /\ reply[t].count <= numfiles
    /\ \A i \in Slots \ todo[t] :
         /\ Precedes(sent[t].nodes[i], reply[t].nodes[i])
         /\ Precedes(reply[t].nodes[i], nodes[i])

ForwardInv == NamedInv /\ \A t \in Threads : SentInv(t) /\ CopyInv(t)

(* Every entry, wherever it lies, is untouched memory or has a cause. *)
Justified(node, past) == node # EmptyNode => Caused(node, past)

JustifiedInv ==
  \A i \in Slots :
    /\ Justified(nodes[i], asked)
    /\ \A t \in Threads : /\ Justified(sent[t].nodes[i], asked)
                          /\ Justified(reply[t].nodes[i], asked)

(* A copied entry that was published when the size was read has a name. *)
Whole(t) ==
  \A i \in Slots :
    /\ i < sent[t].size => sent[t].nodes[i].name # "unset"
    /\ pc[t] = "copy" /\ i \notin todo[t] /\ i < reply[t].size
         => reply[t].nodes[i].name # "unset"

SourcedInv == JustifiedInv /\ \A t \in Threads : Whole(t)
-----------------------------------------------------------------------------
USE ThreadsAssumption, NamesAssumption, SizesAssumption, StatusesAssumption

(* The steps that store nothing and count nothing. *)
Quiet(t) ==
  \/ ReadUpdate(t) \/ ReadRequest(t) \/ Lock(t) \/ TestRoom(t) \/ AddUnlock(t)
  \/ MarkUnlock(t) \/ Scan(t) \/ Finish(t) \/ CopyCell(t) \/ SendTable(t)

LEMMA QuietSteps ==
  ASSUME NEW t \in Threads, Quiet(t)
  PROVE  UNCHANGED <<nodes, numfiles>>
BY DEF Quiet, ReadUpdate, ReadRequest, Lock, AddLock, MarkLock, TestRoom,
   AddUnlock, MarkUnlock, Scan, Finish, CopyCell, SendTable

LEMMA NextSteps ==
  ASSUME [Next]_vars
  PROVE  \/ UNCHANGED vars
         \/ \E t \in Threads :
              Quiet(t) \/ WriteNode(t) \/ CountNode(t) \/ Mark(t)
BY DEF Next, Handle, Quiet

(* Counts and histories only grow. *)
LEMMA Grows ==
  ASSUME TypeOK, [Next]_vars
  PROVE  numfiles <= numfiles' /\ numfiles' \in Nat /\ asked \subseteq asked'
<1> USE DEF TypeOK
<1>1. ASSUME NEW t \in Threads, Quiet(t) PROVE numfiles' = numfiles
  BY <1>1, QuietSteps
<1>2. ASSUME NEW t \in Threads, CountNode(t) PROVE numfiles' = numfiles + 1
  BY <1>2 DEF CountNode, Counted
<1>3. ASSUME NEW t \in Threads, WriteNode(t) \/ Mark(t) PROVE numfiles' = numfiles
  BY <1>3 DEF WriteNode, Mark
<1>4. ASSUME NEW t \in Threads, ReadUpdate(t) PROVE asked \subseteq asked'
  BY <1>4 DEF ReadUpdate
<1>5. ASSUME NEW t \in Threads,
             \/ ReadRequest(t) \/ Lock(t) \/ Handle(t)
      PROVE  asked' = asked
  BY <1>5 DEF ReadRequest, Lock, AddLock, MarkLock, Handle, TestRoom, WriteNode,
     CountNode, AddUnlock, Scan, Mark, MarkUnlock, Finish, CopyCell, SendTable
<1>6. CASE UNCHANGED vars
  BY <1>6 DEF vars
<1>7. asked \subseteq asked'
  BY <1>4, <1>5, <1>6 DEF Next
<1> QED
  BY <1>1, <1>2, <1>3, <1>6, <1>7, NextSteps DEF vars

-----------------------------------------------------------------------------
(* What has a cause keeps it. *)
LEMMA CausesStay ==
  ASSUME NEW node, NEW past, NEW more, past \subseteq more, Caused(node, past)
  PROVE  Caused(node, more)
BY DEF Caused, Announced, Offered, Removed

(* An entry that an update adds has its cause in that update. *)
LEMMA NewIsCaused ==
  ASSUME TypeOK, NEW t \in Threads, <<t, update[t]>> \in asked,
         update[t] \in Updates, update[t].status = "ADDED"
  PROVE  Caused(NewNode(t), asked)
<1> DEFINE node == NewNode(t)
<1>1. /\ update[t] = [status |-> "ADDED", name |-> node.name]
      /\ node.name = update[t].name /\ update[t].name \in Names
      /\ "ADDED" \in Statuses
  BY DEF Updates, NewNode
<1>2. node.holders = <<t>> /\ node.status = "ADDED"
  BY DEF NewNode
<1>3. Announced(node, asked)
  BY <1>1 DEF Announced
<1>4. Reaches(update[t], node, Statuses \ {"DELETED"})
  BY <1>1 DEF Reaches
<1>5. Offered(node, t, asked)
  BY <1>4 DEF Offered
<1>6. \A k \in DOMAIN node.holders : node.holders[k] = t
  BY <1>2
<1> QED
  BY <1>2, <1>3, <1>5, <1>6 DEF Caused

(* So has what the update does to an entry it matches. *)
LEMMA MarkedIsCaused ==
  ASSUME TypeOK, NEW t \in Threads, <<t, update[t]>> \in asked,
         update[t] \in Updates, NEW node \in Nodes, Caused(node, asked),
         <<update[t].name, node.name>> \in PrefixOf
  PROVE  Caused(Marked(t, node), asked)
<1> DEFINE new == Marked(t, node)
<1>1. node.holders \in Seq(Threads) /\ update[t].status \in Statuses
  BY DEF Nodes, Updates
<1>2. new.name = node.name
  BY DEF Marked, Nodes
<1>3. Announced(new, asked)
  BY <1>2 DEF Caused, Announced
<1>4. \A h : Offered(node, h, asked) => Offered(new, h, asked)
  BY <1>2 DEF Offered, Reaches
<1>5. CASE update[t].status = "DELETED"
  <2>1. new.holders = node.holders /\ new.status = "DELETED"
    BY <1>5 DEF Marked, Nodes
  <2>2. Reaches(update[t], new, {"DELETED"})
    BY <1>5, <1>2 DEF Reaches
  <2>3. Removed(new, asked)
    BY <2>2 DEF Removed
  <2> QED
    BY <2>1, <2>3, <1>3, <1>4 DEF Caused
<1>6. CASE update[t].status # "DELETED"
  <2>1. Reaches(update[t], new, Statuses \ {"DELETED"})
    BY <1>1, <1>2, <1>6 DEF Reaches
  <2>2. Offered(new, t, asked)
    BY <2>1 DEF Offered
  <2>3. new.status = node.status /\ (Removed(node, asked) => Removed(new, asked))
    BY <1>2, <1>6 DEF Marked, Nodes, Removed, Reaches
  <2>4. new.holders \in {<<t>>, Append(node.holders, t)}
    BY <1>6 DEF Marked, Nodes
  <2>5. /\ new.holders # << >>
        /\ \A k \in DOMAIN new.holders :
             \/ new.holders[k] = t
             \/ k \in DOMAIN node.holders /\ new.holders[k] = node.holders[k]
    <3>1. CASE new.holders = <<t>>
      BY <3>1
    <3>2. CASE new.holders = Append(node.holders, t)
      BY <3>2, <1>1, AppendProperties
    <3> QED
      BY <2>4, <3>1, <3>2
  <2> QED
    BY <2>2, <2>3, <2>5, <1>3, <1>4 DEF Caused
<1> QED
  BY <1>5, <1>6

(* An update is in the history while it is handled, and the entry a thread *)
(* has matched keeps the name it matched.                                  *)
LEMMA AtWorkStep ==
  ASSUME TypeOK, PhaseInv, \A t \in Threads : AtWork(t), [Next]_vars,
         NEW u \in Threads
  PROVE  AtWork(u)'
<1> USE DEF TypeOK, Goto
<1>a. ASSUME UNCHANGED <<pc[u], update[u], idx[u]>> PROVE AtWork(u)'
  <2>1. pc[u] \in {"marklock", "mark"} /\ idx[u] < MAX_FILES =>
          /\ idx[u] \in Slots /\ idx[u] < numfiles
    BY DEF PhaseInv, Slots
  <2>2. pc[u] \in {"marklock", "mark"} /\ idx[u] < MAX_FILES =>
          nodes'[idx[u]].name = nodes[idx[u]].name
    BY <2>1, EntriesStay
  <2> QED
    BY <1>a, <2>2, Grows DEF AtWork
<1>b. ASSUME update'[u] = update[u], pc'[u] \notin {"marklock", "mark"}
      PROVE  AtWork(u)'
  BY <1>b, Grows DEF AtWork
<1>1. ASSUME NEW t \in Threads, ReadUpdate(t) PROVE AtWork(u)'
  <2>1. CASE t = u
    BY <1>1, <2>1 DEF ReadUpdate, AtWork
  <2>2. CASE t # u
    BY <1>1, <2>2, <1>a DEF ReadUpdate
  <2> QED
    BY <2>1, <2>2
<1>2. ASSUME NEW t \in Threads, Scan(t) PROVE AtWork(u)'
  <2>1. CASE t = u /\ idx[u] < numfiles /\ TRUE \in Matches(u)
             /\ Goto(u, "marklock") /\ UNCHANGED idx
    <3>1. ASSUME idx[u] < MAX_FILES
          PROVE  <<update[u].name, nodes[idx[u]].name>> \in PrefixOf
      <4>1. Matches(u) = {(<<update[u].name, nodes[idx[u]].name>> \in PrefixOf)}
        BY <3>1, Zenon DEF Matches
      <4> QED
        BY <2>1, <4>1, Zenon
    <3>2. UNCHANGED <<update, nodes, asked>>
      BY <1>2 DEF Scan
    <3> QED
      BY <2>1, <3>1, <3>2 DEF AtWork
  <2>2. CASE t # u
    BY <1>2, <2>2, <1>a DEF Scan
  <2>3. CASE t = u /\ Goto(u, "finish")
    BY <1>2, <2>3, <1>b DEF Scan
  <2>4. CASE t = u /\ UNCHANGED pc
    BY <1>2, <2>4, <1>b DEF Scan
  <2> QED
    BY <1>2, <2>1, <2>2, <2>3, <2>4 DEF Scan
<1>3. ASSUME NEW t \in Threads, MarkLock(t) PROVE AtWork(u)'
  BY <1>3 DEF MarkLock, AtWork
<1>4. ASSUME NEW t \in Threads,
             \/ ReadRequest(t) \/ AddLock(t) \/ TestRoom(t) \/ WriteNode(t)
             \/ CountNode(t) \/ AddUnlock(t) \/ Mark(t) \/ MarkUnlock(t)
             \/ CopyCell(t) \/ SendTable(t)
      PROVE  AtWork(u)'
  <2>1. CASE t = u
    BY <1>4, <2>1, <1>b DEF ReadRequest, AddLock, TestRoom, WriteNode,
       CountNode, AddUnlock, Mark, MarkUnlock, CopyCell, SendTable
  <2>2. CASE t # u
    BY <1>4, <2>2, <1>a DEF ReadRequest, AddLock, TestRoom, WriteNode,
       CountNode, AddUnlock, Mark, MarkUnlock, CopyCell, SendTable
  <2> QED
    BY <2>1, <2>2
<1>5. ASSUME NEW t \in Threads, Finish(t) PROVE AtWork(u)'
  <2>1. CASE t = u
    BY <1>5, <2>1 DEF Finish, AtWork, NoUpdate, Updates
  <2>2. CASE t # u
    BY <1>5, <2>2, <1>a DEF Finish
  <2> QED
    BY <2>1, <2>2
<1>6. CASE UNCHANGED vars
  BY <1>6, <1>a DEF vars
<1> QED
  BY <1>1, <1>2, <1>3, <1>4, <1>5, <1>6 DEF Next, Handle, Lock

(* Every published entry has its causes: what CountNode publishes is what  *)
(* its thread stored, and a marked entry is one its update matches.        *)
LEMMA CauseStep == IInv /\ CauseInv /\ [Next]_vars => CauseInv'
<1> SUFFICES ASSUME IInv, CauseInv, [Next]_vars PROVE CauseInv'
  OBVIOUS
<1> USE DEF IInv
<1>1. \A t \in Threads : AtWork(t)'
  BY AtWorkStep DEF CauseInv
<1>2. ASSUME NEW i \in Slots, (i < numfiles)' PROVE Caused(nodes[i], asked)'
  <2> USE DEF TypeOK
  <2>1. asked \subseteq asked'
    BY Grows
  <2>2. CASE i < numfiles /\ nodes'[i] = nodes[i]
    BY <2>1, <2>2, CausesStay DEF CauseInv
  <2>3. CASE UNCHANGED <<nodes, numfiles>>
    BY <1>2, <2>2, <2>3
  <2>4. ASSUME NEW t \in Threads, Quiet(t) PROVE Caused(nodes[i], asked)'
    BY <2>3, <2>4, QuietSteps
  <2>5. ASSUME NEW t \in Threads, WriteNode(t) PROVE Caused(nodes[i], asked)'
    <3>1. numfiles' = numfiles
      BY <2>5 DEF WriteNode
    <3>2. nodes'[i] = nodes[i]
      BY <1>2, <2>5, <3>1, EntriesStay DEF WriteNode, Store, Slots
    <3> QED
      BY <1>2, <3>1, <3>2, <2>2
  <2>6. ASSUME NEW t \in Threads, CountNode(t) PROVE Caused(nodes[i], asked)'
    <3>1. /\ numfiles' = numfiles + 1 /\ UNCHANGED <<nodes, asked>>
          /\ pc[t] = "count"
      BY <2>6 DEF CountNode, Counted
    <3>2. CASE i < numfiles
      BY <3>1, <3>2, <2>2
    <3>3. CASE i = numfiles
      <4>1. nodes[i] = NewNode(t)
        BY <3>1, <3>3 DEF PublishesItsOwn, Slots
      <4>2. update[t] \in Updates /\ update[t].status = "ADDED"
        BY <3>1 DEF PhaseInv, Adding
      <4>3. <<t, update[t]>> \in asked
        BY <4>2 DEF CauseInv, AtWork
      <4> QED
        BY <3>1, <4>1, <4>2, <4>3, NewIsCaused
    <3> QED
      BY <1>2, <3>1, <3>2, <3>3 DEF Slots
  <2>7. ASSUME NEW t \in Threads, Mark(t) PROVE Caused(nodes[i], asked)'
    <3>1. numfiles' = numfiles /\ asked' = asked /\ pc[t] = "mark"
      BY <2>7 DEF Mark
    <3>2. CASE nodes'[i] = nodes[i]
      BY <1>2, <3>1, <3>2, <2>2
    <3>3. CASE i = idx[t] /\ nodes'[i] = Marked(t, nodes[i])
      <4>1. update[t] \in Updates
        BY <3>1 DEF PhaseInv, Scanning
      <4>2. <<t, update[t]>> \in asked
        BY <4>1 DEF CauseInv, AtWork
      <4>3. <<update[t].name, nodes[i].name>> \in PrefixOf
        <5>1. AtWork(t) /\ idx[t] < MAX_FILES
          BY <3>3 DEF CauseInv, Slots
        <5> QED
          BY <3>1, <3>3, <5>1 DEF AtWork
      <4>4. nodes[i] \in Nodes /\ Caused(nodes[i], asked)
        BY <1>2, <3>1 DEF CauseInv
      <4> QED
        BY <3>1, <3>3, <4>1, <4>2, <4>3, <4>4, MarkedIsCaused
    <3> QED
      BY <2>7, <3>2, <3>3 DEF Mark, Store
  <2>8. CASE UNCHANGED vars
    BY <2>3, <2>8 DEF vars
  <2> QED
    BY <2>4, <2>5, <2>6, <2>7, <2>8, NextSteps
<1> QED
  BY <1>1, <1>2 DEF CauseInv

LEMMA InitCause == Init => CauseInv
BY DEF Init, CauseInv, AtWork, NoUpdate, Updates, Slots

(* Whatever overlaps, each published entry was announced under its own     *)
(* name, its holders sent updates that reach it, and it is a tombstone     *)
(* only if somebody asked for that.                                        *)
THEOREM TableIsAccountable == Spec => []Accountable
<1>1. IInv /\ CauseInv => Accountable
  <2> SUFFICES ASSUME IInv, CauseInv, NEW i \in 0..Filled - 1
               PROVE  Caused(nodes[i], asked)
    BY DEF Accountable, Caused, Announced, Offered, Removed
  <2>1. i \in Slots /\ i < numfiles
    BY DEF IInv, TypeOK, Filled, Slots
  <2> QED
    BY <2>1 DEF CauseInv
<1>2. Init => IInv /\ CauseInv
  BY InitIInv, InitCause
<1>3. Spec => []CauseInv
  <2>1. CauseInv /\ IInv /\ [Next]_vars => CauseInv'
    BY CauseStep
  <2> QED
    BY <1>2, <2>1, Invariance, PTL DEF Spec
<1> QED
  BY <1>1, <1>3, Invariance, PTL
-----------------------------------------------------------------------------
(* An entry gets its name when its thread stores it, one place after the   *)
(* published ones, where nothing has been stored before.                   *)
LEMMA NamedStep == IInv /\ NamedInv /\ [Next]_vars => NamedInv'
<1> SUFFICES ASSUME IInv, NamedInv, [Next]_vars, NEW i \in Slots PROVE Named(i)'
  BY DEF NamedInv
<1> USE DEF IInv, TypeOK, Goto
<1>a. ASSUME UNCHANGED <<nodes, numfiles>>,
             \A t \in Threads : pc[t] = "count" => pc'[t] = "count"
      PROVE  Named(i)'
  BY <1>a DEF NamedInv, Named
<1>1. ASSUME NEW t \in Threads, Quiet(t) PROVE Named(i)'
  <2>1. \A u \in Threads : pc[u] = "count" => pc'[u] = "count"
    BY <1>1 DEF Quiet, ReadUpdate, ReadRequest, Lock, AddLock, MarkLock,
       TestRoom, AddUnlock, MarkUnlock, Scan, Finish, CopyCell, SendTable
  <2> QED
    BY <1>1, <2>1, <1>a, QuietSteps
<1>2. ASSUME NEW t \in Threads, WriteNode(t) PROVE Named(i)'
  <2>1. numfiles' = numfiles /\ pc'[t] = "count"
    BY <1>2 DEF WriteNode
  <2>2. CASE i = numfiles
    <3>1. nodes'[i] = NewNode(t)
      BY <1>2, <2>2 DEF WriteNode, Store, Slots
    <3>2. update[t].name # "unset"
      BY <1>2 DEF WriteNode, PhaseInv, Adding, Updates
    <3> QED
      BY <2>1, <2>2, <3>1, <3>2 DEF NewNode, Named, Slots
  <2>3. CASE i # numfiles
    <3>1. nodes'[i] = nodes[i]
      BY <1>2, <2>3 DEF WriteNode, Store, Slots
    <3> QED
      BY <2>1, <2>3, <3>1 DEF NamedInv, Named
  <2> QED
    BY <2>2, <2>3
<1>3. ASSUME NEW t \in Threads, CountNode(t) PROVE Named(i)'
  <2>1. numfiles' = numfiles + 1 /\ nodes' = nodes /\ pc[t] = "count"
    BY <1>3 DEF CountNode, Counted
  <2>2. i = numfiles => nodes[i].name # "unset"
    BY <2>1 DEF PublishesItsOwn, NewNode, PhaseInv, Adding, Updates, Slots
  <2>3. i < numfiles' => i < numfiles \/ i = numfiles
    BY <2>1 DEF Slots
  <2> QED
    BY <2>1, <2>2, <2>3 DEF NamedInv, Named, Slots
<1>4. ASSUME NEW t \in Threads, Mark(t) PROVE Named(i)'
  <2>1. /\ numfiles' = numfiles /\ pc[t] = "mark" /\ idx[t] < numfiles
        /\ \A u \in Threads : pc[u] = "count" => pc'[u] = "count"
    BY <1>4 DEF Mark, PhaseInv
  <2>2. nodes'[i] = nodes[i] \/ (i < numfiles /\ nodes'[i] = Marked(t, nodes[i]))
    BY <1>4, <2>1 DEF Mark, Store
  <2>3. nodes[i] \in Nodes
    OBVIOUS
  <2>4. Marked(t, nodes[i]).name = nodes[i].name
    BY <2>3 DEF Marked, Nodes
  <2> QED
    BY <2>1, <2>2, <2>4 DEF NamedInv, Named
<1>5. CASE UNCHANGED vars
  BY <1>5, <1>a DEF vars
<1> QED
  BY <1>1, <1>2, <1>3, <1>4, <1>5, NextSteps

LEMMA InitForward == Init => ForwardInv
BY DEF Init, ForwardInv, NamedInv, Named, SentInv, CopyInv, Precedes, EmptyTable,
   EmptyNode, Slots

(* No step takes back an entry's name or a tombstone, published or not.    *)
LEMMA EntriesPrecede ==
  ASSUME IInv, NamedInv, [Next]_vars, NEW i \in Slots
  PROVE  Precedes(nodes[i], nodes'[i])
<1> USE DEF IInv, TypeOK
<1>1. CASE i < numfiles
  BY <1>1, EntriesStay DEF Precedes
<1>2. CASE nodes'[i] = nodes[i]
  BY <1>2 DEF Precedes
<1>3. ASSUME ~(i < numfiles), NEW t \in Threads, WriteNode(t)
      PROVE  Precedes(nodes[i], nodes'[i])
  <2>1. \A u \in Threads : pc[u] # "count"
    BY <1>3 DEF WriteNode, MutexInv, InSection
  <2>2. nodes[i].name = "unset" /\ nodes[i].status # "DELETED"
    BY <1>3, <2>1 DEF NamedInv, Named
  <2> QED
    BY <2>2 DEF Precedes
<1>4. ASSUME ~(i < numfiles), NEW t \in Threads, Mark(t)
      PROVE  Precedes(nodes[i], nodes'[i])
  BY <1>2, <1>4 DEF Mark, Store, PhaseInv
<1>5. ASSUME NEW t \in Threads, Quiet(t) \/ CountNode(t)
      PROVE  Precedes(nodes[i], nodes'[i])
  BY <1>2, <1>5, QuietSteps DEF CountNode
<1>6. CASE UNCHANGED vars
  BY <1>2, <1>6 DEF vars
<1> QED
  BY <1>1, <1>3, <1>4, <1>5, <1>6, NextSteps

LEMMA PrecedesTransitive ==
  ASSUME NEW x, NEW y, NEW z, Precedes(x, y), Precedes(y, z)
  PROVE  Precedes(x, z)
BY DEF Precedes

(* What a connection was sent, and what is copied for it, stays behind the *)
(* table.                                                                  *)
LEMMA SentStep ==
  ASSUME IInv, ForwardInv, [Next]_vars, NEW u \in Threads,
         UNCHANGED <<sent[u]>>
  PROVE  SentInv(u)'
<1>1. \A i \in Slots : Precedes(nodes[i], nodes'[i])
  BY EntriesPrecede DEF ForwardInv
<1>2. \A i \in Slots : Precedes(sent[u].nodes[i], nodes'[i])
  BY <1>1, PrecedesTransitive DEF ForwardInv, SentInv
<1>3. numfiles <= numfiles' /\ numfiles' \in Nat /\ numfiles \in Nat
  BY Grows DEF IInv, TypeOK
<1>4. sent[u].count \in Nat
  BY DEF IInv, TypeOK, Tables
<1> QED
  BY <1>2, <1>3, <1>4 DEF ForwardInv, SentInv

LEMMA CopyStays ==
  ASSUME IInv, ForwardInv, [Next]_vars, NEW u \in Threads,
         UNCHANGED <<pc[u], sent[u], reply[u], todo[u]>>
  PROVE  CopyInv(u)'
<1> SUFFICES ASSUME pc[u] = "copy" PROVE CopyInv(u)'
  BY DEF CopyInv
<1>1. \A i \in Slots : Precedes(nodes[i], nodes'[i])
  BY EntriesPrecede DEF ForwardInv
<1>2. \A i \in Slots \ todo[u] : Precedes(reply[u].nodes[i], nodes'[i])
  BY <1>1, PrecedesTransitive DEF ForwardInv, CopyInv
<1>3. numfiles <= numfiles' /\ numfiles' \in Nat /\ numfiles \in Nat
  BY Grows DEF IInv, TypeOK
<1>4. reply[u].size \in Nat /\ reply[u].count \in Nat
  BY DEF IInv, TypeOK, Tables
<1> QED
  BY <1>2, <1>3, <1>4 DEF ForwardInv, CopyInv

(* Each cell is read after the table it is compared with was sent, and the *)
(* count is read after the size.                                           *)
LEMMA ForwardStep == IInv /\ ForwardInv /\ [Next]_vars => ForwardInv'
<1> SUFFICES ASSUME IInv, ForwardInv, [Next]_vars PROVE ForwardInv'
  OBVIOUS
<1> USE DEF IInv, TypeOK, Goto
<1>a. NamedInv'
  BY NamedStep DEF ForwardInv
<1> SUFFICES ASSUME NEW u \in Threads PROVE SentInv(u)' /\ CopyInv(u)'
  BY <1>a DEF ForwardInv
<1>b. ASSUME UNCHANGED <<pc[u], sent[u], reply[u], todo[u]>>
      PROVE  SentInv(u)' /\ CopyInv(u)'
  BY <1>b, SentStep, CopyStays
<1>c. ASSUME UNCHANGED sent[u], pc'[u] # "copy"
      PROVE  SentInv(u)' /\ CopyInv(u)'
  BY <1>c, SentStep DEF CopyInv
<1>1. ASSUME NEW t \in Threads, ReadRequest(t) PROVE SentInv(u)' /\ CopyInv(u)'
  <2>1. CASE t = u
    <3>1. /\ UNCHANGED <<sent, numfiles>>
          /\ todo'[u] = Cells /\ reply'[u].size = numfiles
      BY <1>1, <2>1 DEF ReadRequest, Tables
    <3>2. CountCell \in Cells /\ Slots \ Cells = {}
      BY DEF Cells
    <3>3. CopyInv(u)'
      BY <3>1, <3>2 DEF CopyInv, ForwardInv, SentInv
    <3> QED
      BY <3>1, <3>3, SentStep
  <2>2. CASE t # u
    BY <1>1, <2>2, <1>b DEF ReadRequest
  <2> QED
    BY <2>1, <2>2
<1>2. ASSUME NEW t \in Threads, CopyCell(t) PROVE SentInv(u)' /\ CopyInv(u)'
  <2>1. CASE t # u
    BY <1>2, <2>1, <1>b DEF CopyCell
  <2>2. CASE t = u
    <3>1. PICK c \in todo[u] :
            /\ todo' = [todo EXCEPT ![u] = @ \ {c}]
            /\ reply' = IF c = CountCell
                        THEN [reply EXCEPT ![u].count = numfiles]
                        ELSE [reply EXCEPT ![u].nodes[c] = nodes[c]]
      BY <1>2, <2>2 DEF CopyCell
    <3>2. UNCHANGED <<sent, numfiles, nodes, pc>> /\ pc[u] = "copy"
      BY <1>2, <2>2 DEF CopyCell
    <3>3. reply[u] \in Tables /\ todo'[u] = todo[u] \ {c} /\ CountCell \notin Slots
      BY <3>1 DEF CountCell, Slots
    <3>4. CASE c = CountCell
      <4>1. /\ reply'[u].count = numfiles /\ reply'[u].size = reply[u].size
            /\ reply'[u].nodes = reply[u].nodes
        BY <3>1, <3>3, <3>4 DEF Tables
      <4>2. Slots \ todo'[u] = Slots \ todo[u]
        BY <3>3, <3>4
      <4>3. CopyInv(u)'
        BY <3>2, <4>1, <4>2 DEF CopyInv, ForwardInv
      <4> QED
        BY <3>2, <4>3, SentStep
    <3>5. CASE c # CountCell
      <4>1. c \in Slots
        BY <3>5 DEF Cells
      <4>2. /\ reply'[u].count = reply[u].count /\ reply'[u].size = reply[u].size
            /\ \A i \in Slots : reply'[u].nodes[i] =
                                  IF i = c THEN nodes[c] ELSE reply[u].nodes[i]
        BY <3>1, <3>3, <3>5, <4>1 DEF Tables
      <4>3. \A i \in Slots \ todo'[u] : i = c \/ i \in Slots \ todo[u]
        BY <3>3
      <4>4. Precedes(sent[u].nodes[c], nodes[c]) /\ Precedes(nodes[c], nodes[c])
        BY <4>1 DEF ForwardInv, SentInv, Precedes
      <4>5. CopyInv(u)
        BY DEF ForwardInv
      <4>6. \A i \in Slots \ todo'[u] :
              /\ Precedes(sent[u].nodes[i], reply'[u].nodes[i])
              /\ Precedes(reply'[u].nodes[i], nodes[i])
        BY <3>2, <4>2, <4>3, <4>4, <4>5 DEF CopyInv
      <4>7. CopyInv(u)'
        BY <3>2, <3>3, <3>5, <4>2, <4>5, <4>6 DEF CopyInv
      <4> QED
        BY <3>2, <4>7, SentStep
    <3> QED
      BY <3>4, <3>5
  <2> QED
    BY <2>1, <2>2
<1>3. ASSUME NEW t \in Threads, SendTable(t) PROVE SentInv(u)' /\ CopyInv(u)'
  <2>1. CASE t # u
    BY <1>3, <2>1, <1>b DEF SendTable
  <2>2. CASE t = u
    <3>1. /\ sent'[u] = reply[u] /\ UNCHANGED <<numfiles, nodes>>
          /\ pc[u] = "copy" /\ pc'[u] = "read" /\ todo[u] = {}
      BY <1>3, <2>2 DEF SendTable
    <3>2. SentInv(u)'
      BY <3>1 DEF ForwardInv, CopyInv, SentInv
    <3> QED
      BY <3>1, <3>2 DEF CopyInv
  <2> QED
    BY <2>1, <2>2
<1>4. ASSUME NEW t \in Threads,
             \/ ReadUpdate(t) \/ Lock(t) \/ TestRoom(t) \/ WriteNode(t)
             \/ CountNode(t) \/ AddUnlock(t) \/ Scan(t) \/ Mark(t)
             \/ MarkUnlock(t) \/ Finish(t)
      PROVE  SentInv(u)' /\ CopyInv(u)'
  <2>1. CASE \/ ReadUpdate(t) \/ Lock(t) \/ TestRoom(t) \/ WriteNode(t)
             \/ CountNode(t)
    <3>1. UNCHANGED <<sent, reply, todo>> /\ (pc'[u] = pc[u] \/ pc'[u] # "copy")
      BY <2>1 DEF ReadUpdate, Lock, AddLock, MarkLock, TestRoom, WriteNode, CountNode
    <3> QED
      BY <3>1, <1>b, <1>c
  <2>2. CASE AddUnlock(t) \/ Scan(t) \/ Mark(t) \/ MarkUnlock(t) \/ Finish(t)
    <3>1. UNCHANGED <<sent, reply, todo>> /\ (pc'[u] = pc[u] \/ pc'[u] # "copy")
      BY <2>2 DEF AddUnlock, Scan, Mark, MarkUnlock, Finish
    <3> QED
      BY <3>1, <1>b, <1>c
  <2> QED
    BY <1>4, <2>1, <2>2
<1>5. CASE UNCHANGED vars
  BY <1>5, <1>b DEF vars
<1> QED
  BY <1>1, <1>2, <1>3, <1>4, <1>5 DEF Next, Handle

(* A table is sent complete, so it succeeds the one sent before; no other  *)
(* step changes what a connection was sent.                                *)
LEMMA SendsSuccessor ==
  ASSUME IInv, ForwardInv, [Next]_vars, NEW u \in Threads
  PROVE  Succeeds(sent[u], sent'[u])
<1> USE DEF IInv, TypeOK
<1>1. CASE sent'[u] = sent[u]
  BY <1>1 DEF ForwardInv, SentInv, Succeeds, Tables
<1>2. ASSUME NEW t \in Threads, SendTable(t)
      PROVE  Succeeds(sent[u], sent'[u])
  <2>1. CASE t # u
    BY <1>1, <1>2, <2>1 DEF SendTable
  <2>2. CASE t = u
    <3>1. sent'[u] = reply[u] /\ pc[u] = "copy" /\ todo[u] = {}
      BY <1>2, <2>2 DEF SendTable
    <3>2. CopyInv(u) /\ SentInv(u)
      BY DEF ForwardInv
    <3>3. \A i \in Slots : Precedes(sent[u].nodes[i], sent'[u].nodes[i])
      BY <3>1, <3>2 DEF CopyInv
    <3>4. /\ sent[u].size <= sent'[u].size /\ sent[u].count <= sent'[u].count
          /\ sent'[u].size <= sent'[u].count
      <4>1. /\ sent[u].size \in Nat /\ sent[u].count \in Nat
            /\ reply[u].size \in Nat /\ reply[u].count \in Nat
        BY DEF Tables
      <4> QED
        BY <3>1, <3>2, <4>1 DEF CopyInv, SentInv
    <3> QED
      BY <3>3, <3>4 DEF Succeeds, Precedes
  <2> QED
    BY <2>1, <2>2
<1>3. ASSUME NEW t \in Threads,
             \/ ReadUpdate(t) \/ ReadRequest(t) \/ Lock(t) \/ TestRoom(t)
             \/ WriteNode(t) \/ CountNode(t) \/ AddUnlock(t) \/ Scan(t)
             \/ Mark(t) \/ MarkUnlock(t) \/ Finish(t) \/ CopyCell(t)
      PROVE  sent' = sent
  BY <1>3 DEF ReadUpdate, ReadRequest, Lock, AddLock, MarkLock, TestRoom,
     WriteNode, CountNode, AddUnlock, Scan, Mark, MarkUnlock, Finish, CopyCell
<1>4. CASE UNCHANGED vars
  BY <1>1, <1>4 DEF vars
<1> QED
  BY <1>1, <1>2, <1>3, <1>4 DEF Next, Handle

(* The tables a connection is sent never go back in time, although the     *)
(* mutex is not taken while they are copied.                               *)
THEOREM TablesNeverGoBack == Spec => TablesMoveForward
<1>1. Init => ForwardInv
  BY InitForward
<1>2. ForwardInv /\ IInv /\ [Next]_vars => ForwardInv'
  BY ForwardStep
<1>3. ForwardInv /\ IInv /\ [Next]_vars
        => [\A t \in Threads : Succeeds(sent[t], sent'[t])]_sent
  BY SendsSuccessor
<1> QED
  BY <1>1, <1>2, <1>3, Invariance, PTL DEF Spec, TablesMoveForward
-----------------------------------------------------------------------------
LEMMA JustifiedStays ==
  ASSUME NEW node, NEW past, NEW more, past \subseteq more,
         Justified(node, past)
  PROVE  Justified(node, more)
BY CausesStay DEF Justified

LEMMA InitSourced == Init => SourcedInv
BY DEF Init, SourcedInv, JustifiedInv, Justified, Whole, EmptyTable, Slots

(* An entry is stored with its cause, published or not. *)
LEMMA EntryJustified ==
  ASSUME IInv, CauseInv, JustifiedInv, [Next]_vars, NEW i \in Slots
  PROVE  Justified(nodes[i], asked)'
<1> USE DEF IInv, TypeOK
<1>1. asked \subseteq asked'
  BY Grows
<1>2. CASE nodes'[i] = nodes[i]
  BY <1>1, <1>2, JustifiedStays DEF JustifiedInv
<1>3. ASSUME NEW t \in Threads, WriteNode(t) PROVE Justified(nodes[i], asked)'
  <2>1. asked' = asked /\ pc[t] = "write"
    BY <1>3 DEF WriteNode
  <2>2. nodes'[i] \in {nodes[i], NewNode(t)}
    BY <1>3 DEF WriteNode, Store
  <2>3. update[t] \in Updates /\ update[t].status = "ADDED"
    BY <2>1 DEF PhaseInv, Adding
  <2>4. <<t, update[t]>> \in asked
    BY <2>3 DEF CauseInv, AtWork
  <2>5. Caused(NewNode(t), asked)
    BY <2>3, <2>4, NewIsCaused
  <2> QED
    BY <1>2, <2>1, <2>2, <2>5 DEF Justified
<1>4. ASSUME NEW t \in Threads, Mark(t) PROVE Justified(nodes[i], asked)'
  <2>1. numfiles' = numfiles
    BY <1>4 DEF Mark
  <2>2. i < numfiles => Caused(nodes[i], asked)'
    BY <2>1, CauseStep DEF CauseInv
  <2>3. ~(i < numfiles) => nodes'[i] = nodes[i]
    BY <1>4 DEF Mark, Store, PhaseInv
  <2> QED
    BY <1>2, <2>2, <2>3 DEF Justified
<1>5. ASSUME NEW t \in Threads, Quiet(t) \/ CountNode(t)
      PROVE  Justified(nodes[i], asked)'
  BY <1>2, <1>5, QuietSteps DEF CountNode
<1>6. CASE UNCHANGED vars
  BY <1>2, <1>6 DEF vars
<1> QED
  BY <1>3, <1>4, <1>5, <1>6, NextSteps

(* What a step can do to the tables of a connection. *)
LEMMA TableSteps ==
  ASSUME TypeOK, [Next]_vars, NEW u \in Threads
  PROVE  \/ /\ UNCHANGED <<sent[u], reply[u], todo[u]>>
            /\ pc'[u] = "copy" => pc[u] = "copy"
         \/ ReadRequest(u)
         \/ CopyCell(u)
         \/ SendTable(u)
<1> USE DEF TypeOK, Goto
<1>1. ASSUME NEW t \in Threads,
             \/ ReadUpdate(t) \/ Lock(t) \/ TestRoom(t) \/ WriteNode(t)
             \/ CountNode(t)
      PROVE  UNCHANGED <<sent, reply, todo>> /\ (pc'[u] = "copy" => pc[u] = "copy")
  BY <1>1 DEF ReadUpdate, Lock, AddLock, MarkLock, TestRoom, WriteNode, CountNode
<1>2. ASSUME NEW t \in Threads,
             AddUnlock(t) \/ Scan(t) \/ Mark(t) \/ MarkUnlock(t) \/ Finish(t)
      PROVE  UNCHANGED <<sent, reply, todo>> /\ (pc'[u] = "copy" => pc[u] = "copy")
  BY <1>2 DEF AddUnlock, Scan, Mark, MarkUnlock, Finish
<1>3. ASSUME NEW t \in Threads \ {u},
             ReadRequest(t) \/ CopyCell(t) \/ SendTable(t)
      PROVE  UNCHANGED <<sent[u], reply[u], todo[u], pc[u]>>
  BY <1>3 DEF ReadRequest, CopyCell, SendTable
<1>4. CASE UNCHANGED vars
  BY <1>4 DEF vars
<1>5. ASSUME NEW t \in Threads,
             ReadUpdate(t) \/ ReadRequest(t) \/ Lock(t) \/ Handle(t)
      PROVE  \/ /\ UNCHANGED <<sent[u], reply[u], todo[u]>>
                /\ pc'[u] = "copy" => pc[u] = "copy"
             \/ ReadRequest(u)
             \/ CopyCell(u)
             \/ SendTable(u)
  <2>1. \/ ReadUpdate(t) \/ Lock(t) \/ TestRoom(t) \/ WriteNode(t)
        \/ CountNode(t) \/ AddUnlock(t) \/ Scan(t) \/ Mark(t)
        \/ MarkUnlock(t) \/ Finish(t)
        \/ ReadRequest(t) \/ CopyCell(t) \/ SendTable(t)
    BY <1>5 DEF Handle
  <2>2. CASE ReadRequest(t) \/ CopyCell(t) \/ SendTable(t)
    BY <1>3, <2>2
  <2> QED
    BY <1>1, <1>2, <2>1, <2>2
<1> QED
  BY <1>4, <1>5 DEF Next

(* A reply starts empty and takes its entries from the table. *)
LEMMA SourcedStep ==
  IInv /\ CauseInv /\ ForwardInv /\ SourcedInv /\ [Next]_vars => SourcedInv'
<1> SUFFICES ASSUME IInv, CauseInv, ForwardInv, SourcedInv, [Next]_vars
             PROVE  SourcedInv'
  OBVIOUS
<1>1. \A i \in Slots : Justified(nodes[i], asked)'
  BY EntryJustified DEF SourcedInv
<1> SUFFICES ASSUME NEW u \in Threads
             PROVE  /\ \A i \in Slots :
                         /\ Justified(sent[u].nodes[i], asked)'
                         /\ Justified(reply[u].nodes[i], asked)'
                    /\ Whole(u)'
  BY <1>1 DEF SourcedInv, JustifiedInv
<1> USE DEF IInv, TypeOK, Goto
<1>2. asked \subseteq asked'
  BY Grows
<1>3. \A i \in Slots : /\ Justified(sent[u].nodes[i], asked')
                       /\ Justified(reply[u].nodes[i], asked')
  BY <1>2, JustifiedStays DEF SourcedInv, JustifiedInv
<1>4. Whole(u) /\ sent[u] \in Tables /\ reply[u] \in Tables
  BY DEF SourcedInv
<1>5. CASE /\ UNCHANGED <<sent[u], reply[u], todo[u]>>
           /\ pc'[u] = "copy" => pc[u] = "copy"
  BY <1>3, <1>4, <1>5 DEF Whole
<1>6. CASE ReadRequest(u)
  <2>1. /\ sent' = sent /\ todo'[u] = Cells
        /\ reply'[u].nodes = reply[u].nodes
    BY <1>4, <1>6 DEF ReadRequest, Tables
  <2>2. Slots \subseteq Cells
    BY DEF Cells
  <2> QED
    BY <1>3, <1>4, <2>1, <2>2 DEF Whole
<1>7. CASE CopyCell(u)
  <2>1. PICK c \in todo[u] :
          /\ todo' = [todo EXCEPT ![u] = @ \ {c}]
          /\ reply' = IF c = CountCell
                      THEN [reply EXCEPT ![u].count = numfiles]
                      ELSE [reply EXCEPT ![u].nodes[c] = nodes[c]]
    BY <1>7 DEF CopyCell
  <2>2. /\ UNCHANGED <<sent, nodes, pc>> /\ pc[u] = "copy"
        /\ todo'[u] = todo[u] \ {c}
    BY <1>7, <2>1 DEF CopyCell
  <2>3. reply'[u].size = reply[u].size
    BY <1>4, <2>1 DEF Tables
  <2>4. ASSUME NEW i \in Slots
        PROVE  \/ i # c /\ reply'[u].nodes[i] = reply[u].nodes[i]
               \/ reply'[u].nodes[i] = nodes[i]
    BY <1>4, <2>1 DEF Tables, CountCell, Slots
  <2>5. \A i \in Slots : Justified(reply'[u].nodes[i], asked')
    BY <1>1, <1>3, <2>2, <2>4
  <2>6. ASSUME NEW i \in Slots, i < reply[u].size
        PROVE  nodes[i].name # "unset"
    <3>1. reply[u].size <= numfiles /\ reply[u].size \in Nat
      BY <1>4, <2>2 DEF ForwardInv, CopyInv, Tables
    <3>2. i < numfiles
      BY <2>6, <3>1 DEF Slots
    <3> QED
      BY <3>2 DEF ForwardInv, NamedInv, Named
  <2>7. ASSUME NEW i \in Slots, i \notin todo'[u], i < reply'[u].size
        PROVE  reply'[u].nodes[i].name # "unset"
    BY <1>4, <2>2, <2>3, <2>4, <2>6, <2>7 DEF Whole
  <2>8. Whole(u)'
    BY <1>4, <2>2, <2>7 DEF Whole
  <2> QED
    BY <1>3, <2>2, <2>5, <2>8
<1>8. CASE SendTable(u)
  <2>1. /\ sent'[u] = reply[u] /\ reply'[u] = EmptyTable
        /\ pc[u] = "copy" /\ todo[u] = {} /\ pc'[u] = "read"
    BY <1>8 DEF SendTable
  <2>2. \A i \in Slots : EmptyTable.nodes[i] = EmptyNode
    BY DEF EmptyTable
  <2> QED
    BY <1>3, <1>4, <2>1, <2>2 DEF Whole, Justified
<1> QED
  BY <1>5, <1>6, <1>7, <1>8, TableSteps

(* Whatever is written while a table is copied, each entry a peer is sent  *)
(* is untouched memory or an entry somebody asked for, and all that were   *)
(* published when the request was read are in it.                          *)
THEOREM SentTablesAreAccountable == Spec => []SentAccountable
<1>1. Init => CauseInv /\ ForwardInv /\ SourcedInv
  BY InitCause, InitForward, InitSourced
<1>2. /\ CauseInv /\ ForwardInv /\ SourcedInv /\ IInv /\ [Next]_vars
        => (CauseInv /\ ForwardInv /\ SourcedInv)'
  BY CauseStep, ForwardStep, SourcedStep
<1>3. SourcedInv => SentAccountable
  BY DEF SourcedInv, JustifiedInv, Justified, Whole, SentAccountable, EmptyNode
<1> QED
  BY <1>1, <1>2, <1>3, Invariance, PTL DEF Spec
=============================================================================
