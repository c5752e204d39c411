--------------------------- MODULE FileTableProofs ---------------------------
(***************************************************************************)
(* Proofs about FileTable, for any number of threads, names, messages and  *)
(* table entries.                                                          *)
(***************************************************************************)
EXTENDS FileTable, FiniteSetTheorems, SequenceTheorems, TLAPS

(* A thread between pthread_mutex_lock and pthread_mutex_unlock. *)
InSection(t) == pc[t] \in {"write", "count", "addunlock", "mark", "markunlock"}

(* The mutex does its work: one thread at a time is in a locked section,   *)
(* even after an overrun has wedged it (nobody can enter then).            *)
MutexInv ==
  /\ \A t \in Threads : InSection(t) => mutex \in {t, "wedged"}
  /\ \A t, u \in Threads : InSection(t) /\ InSection(u) => t = u

(* Where a thread is tells which update it is handling.                    *)
Adding(t) == pc[t] \in {"room", "addlock", "write", "count", "addunlock"}
Scanning(t) == pc[t] \in {"scan", "marklock", "mark", "markunlock"}

PhaseInv ==
  \A t \in Threads :
    /\ Adding(t) \/ Scanning(t) => update[t] \in Updates
    /\ Adding(t) => update[t].status = "ADDED"
    /\ pc[t] \in {"marklock", "mark", "markunlock"} => idx[t] < numfiles
    /\ known[t] <= numfiles

(* The threads that have passed the room test and not yet counted.         *)
Pending == {t \in Threads : pc[t] \in {"addlock", "write", "count"}}

OvershootInv ==
  numfiles + Cardinality(Pending) <= MAX_FILES + Cardinality(Threads)

(* The entries a scan has passed are done.                                 *)
Done(t, i) ==
  <<update[t].name, nodes[i].name>> \in PrefixOf => nodes[i].status = "DELETED"

ScanInv ==
  \A t \in Threads : update[t].status = "DELETED" =>
    \A i \in Slots : i < known[t] =>
      /\ Scanning(t) /\ i < idx[t] => Done(t, i)
      /\ pc[t] = "markunlock" /\ i = idx[t] => Done(t, i)
      /\ pc[t] = "finish" => Done(t, i)

IInv == TypeOK /\ MutexInv /\ PhaseInv /\ OvershootInv /\ PublishesItsOwn /\ ScanInv

-----------------------------------------------------------------------------
USE ThreadsAssumption, NamesAssumption, SizesAssumption, StatusesAssumption

(* A table stays a table when broadcast_to_peer sets one part of it. *)
LEMMA TableParts ==
  ASSUME NEW r \in Tables
  PROVE  /\ \A n \in Nat : [r EXCEPT !.size = n] \in Tables
         /\ \A n \in Nat : [r EXCEPT !.count = n] \in Tables
         /\ \A c \in Slots, x \in Nodes : [r EXCEPT !.nodes[c] = x] \in Tables
BY DEF Tables

(* The shape of the variables is kept by every step. *)
LEMMA TypeStep == TypeOK /\ [Next]_vars => TypeOK'
<1> SUFFICES ASSUME TypeOK, [Next]_vars PROVE TypeOK'
  OBVIOUS
<1> USE DEF TypeOK, Goto
<1>a. EmptyNode \in Nodes /\ EmptyTable \in Tables /\ NoUpdate \in Updates \cup {NoUpdate}
  BY DEF EmptyNode, EmptyTable, Nodes, Tables, Slots
<1>1. ASSUME NEW t \in Threads, ReadUpdate(t) PROVE TypeOK'
  BY <1>1 DEF ReadUpdate, FirstIndex, Labels, Updates
<1>2. ASSUME NEW t \in Threads, ReadRequest(t) PROVE TypeOK'
  <2>1. [reply[t] EXCEPT !.size = numfiles] \in Tables
    BY TableParts
  <2>2. reply' \in [Threads -> Tables]
    BY <1>2, <2>1 DEF ReadRequest
  <2> QED
    BY <1>2, <2>2 DEF ReadRequest, Labels
<1>3. ASSUME NEW t \in Threads, Lock(t) PROVE TypeOK'
  BY <1>3 DEF Lock, AddLock, MarkLock, Labels
<1>4. ASSUME NEW t \in Threads, TestRoom(t) PROVE TypeOK'
  BY <1>4 DEF TestRoom, Labels
<1>5. ASSUME NEW t \in Threads, WriteNode(t) PROVE TypeOK'
  <2>1. NewNode(t) \in Nodes
    BY DEF NewNode, Nodes, Updates, NoUpdate
  <2>2. nodes' \in [Slots -> Nodes]
    BY <1>5, <2>1 DEF WriteNode, Store, Slots
  <2>3. mutex' \in Threads \cup {"free", "wedged"} /\ running' \in BOOLEAN
    BY <1>5 DEF WriteNode, Store
  <2> QED
    BY <1>5, <2>2, <2>3 DEF WriteNode, Labels
<1>6. ASSUME NEW t \in Threads, CountNode(t) PROVE TypeOK'
  BY <1>6 DEF CountNode, Counted, Labels
<1>7. ASSUME NEW t \in Threads, AddUnlock(t) PROVE TypeOK'
  BY <1>7 DEF AddUnlock, Unlocked, Labels
<1>8. ASSUME NEW t \in Threads, Scan(t) PROVE TypeOK'
  <2>1. pc' \in [Threads -> Labels] /\ idx' \in [Threads -> Nat]
    <3>1. CASE Goto(t, "finish") /\ UNCHANGED idx
      BY <3>1 DEF Labels
    <3>2. CASE Goto(t, "marklock") /\ UNCHANGED idx
      BY <3>2 DEF Labels
    <3>3. CASE idx' = [idx EXCEPT ![t] = NextIndex(@)] /\ UNCHANGED pc
      BY <3>3 DEF NextIndex
    <3> QED
      BY <1>8, <3>1, <3>2, <3>3 DEF Scan
  <2> QED
    BY <1>8, <2>1 DEF Scan
<1>9. ASSUME NEW t \in Threads, Mark(t) PROVE TypeOK'
  <2>1. ASSUME NEW i \in Slots PROVE Marked(t, nodes[i]) \in Nodes
    <3>1. nodes[i] \in Nodes
      OBVIOUS
    <3>2. Append(nodes[i].holders, t) \in Seq(Threads) /\ <<t>> \in Seq(Threads)
      BY <3>1 DEF Nodes
    <3> QED
      BY <3>1, <3>2 DEF Marked, Nodes
  <2>2. nodes' \in [Slots -> Nodes]
    <3>1. CASE idx[t] < MAX_FILES
      <4>1. idx[t] \in Slots
        BY <3>1 DEF Slots
      <4>2. Marked(t, nodes[idx[t]]) \in Nodes
        BY <4>1, <2>1
      <4> QED
        BY <1>9, <3>1, <4>2 DEF Mark, Store
    <3>2. CASE ~(idx[t] < MAX_FILES)
      BY <1>9, <3>2 DEF Mark, Store
    <3> QED
      BY <3>1, <3>2
  <2>3. mutex' \in Threads \cup {"free", "wedged"} /\ running' \in BOOLEAN
    BY <1>9 DEF Mark, Store
  <2> QED
    BY <1>9, <2>2, <2>3 DEF Mark, Labels
<1>10. ASSUME NEW t \in Threads, MarkUnlock(t) PROVE TypeOK'
  BY <1>10 DEF MarkUnlock, Unlocked, NextIndex, Labels
<1>11. ASSUME NEW t \in Threads, Finish(t) PROVE TypeOK'
  BY <1>11 DEF Finish, Labels
<1>12. ASSUME NEW t \in Threads, CopyCell(t) PROVE TypeOK'
  <2>1. PICK c \in todo[t] :
          /\ todo' = [todo EXCEPT ![t] = @ \ {c}]
          /\ reply' = IF c = CountCell
                      THEN [reply EXCEPT ![t].count = numfiles]
                      ELSE [reply EXCEPT ![t].nodes[c] = nodes[c]]
    BY <1>12 DEF CopyCell
  <2>2. todo' \in [Threads -> SUBSET Cells]
    BY <2>1
  <2>3. CASE c = CountCell
    <3>1. [reply[t] EXCEPT !.count = numfiles] \in Tables
      BY TableParts
    <3>2. reply' \in [Threads -> Tables]
      BY <2>1, <2>3, <3>1
    <3> QED
      BY <1>12, <2>2, <3>2 DEF CopyCell
  <2>4. CASE c # CountCell
    <3>1. c \in Slots
      BY <2>4 DEF Cells
    <3>2. [reply[t] EXCEPT !.nodes[c] = nodes[c]] \in Tables
      BY <3>1, TableParts
    <3>3. reply' \in [Threads -> Tables]
      BY <2>1, <2>4, <3>2
    <3> QED
      BY <1>12, <2>2, <3>3 DEF CopyCell
  <2> QED
    BY <2>3, <2>4
<1>13. ASSUME NEW t \in Threads, SendTable(t) PROVE TypeOK'
  BY <1>13, <1>a DEF SendTable, Labels
<1>14. CASE UNCHANGED vars
  BY <1>14 DEF vars
<1> QED
  BY <1>1, <1>2, <1>3, <1>4, <1>5, <1>6, <1>7, <1>8, <1>9, <1>10, <1>11, <1>12,
     <1>13, <1>14 DEF Next, Handle

(* The program starts with the invariant true. *)
LEMMA InitIInv == Init => IInv
<1> SUFFICES ASSUME Init PROVE IInv
  OBVIOUS
<1> USE DEF Init
<1>1. EmptyNode \in Nodes /\ EmptyTable \in Tables
  BY DEF EmptyNode, EmptyTable, Nodes, Tables, Slots
<1>2. TypeOK
  BY <1>1 DEF TypeOK, Labels, Slots
<1>3. MutexInv
  BY DEF MutexInv, InSection
<1>4. PhaseInv
  BY DEF PhaseInv, Adding, Scanning
<1>5. OvershootInv
  <2>1. Pending = {}
    BY DEF Pending
  <2>2. Cardinality(Pending) = 0
    BY <2>1, FS_EmptySet
  <2>3. Cardinality(Threads) \in Nat
    BY FS_CardinalityType
  <2> QED
    BY <2>2, <2>3 DEF OvershootInv
<1>6. PublishesItsOwn
  BY DEF PublishesItsOwn
<1>7. ScanInv
  BY DEF ScanInv, NoUpdate
<1> QED
  BY <1>2, <1>3, <1>4, <1>5, <1>6, <1>7 DEF IInv

(* Only a thread that finds the mutex free enters a locked section, and an *)
(* overrun mutex lets nobody in.                                           *)
LEMMA MutexStep == TypeOK /\ MutexInv /\ [Next]_vars => MutexInv'
<1> SUFFICES ASSUME TypeOK, MutexInv, [Next]_vars PROVE MutexInv'
  OBVIOUS
<1> USE DEF TypeOK, MutexInv, InSection, Goto
<1>1. ASSUME NEW t \in Threads, ReadUpdate(t) PROVE MutexInv'
  BY <1>1 DEF ReadUpdate
<1>2. ASSUME NEW t \in Threads, ReadRequest(t) PROVE MutexInv'
  BY <1>2 DEF ReadRequest
<1>3. ASSUME NEW t \in Threads, AddLock(t) PROVE MutexInv'
  BY <1>3 DEF AddLock, CanLock
<1>4. ASSUME NEW t \in Threads, MarkLock(t) PROVE MutexInv'
  BY <1>4 DEF MarkLock, CanLock
<1>5. ASSUME NEW t \in Threads, TestRoom(t) PROVE MutexInv'
  BY <1>5 DEF TestRoom
<1>6. ASSUME NEW t \in Threads, WriteNode(t) PROVE MutexInv'
  BY <1>6 DEF WriteNode, Store
<1>7. ASSUME NEW t \in Threads, CountNode(t) PROVE MutexInv'
  BY <1>7 DEF CountNode
<1>8. ASSUME NEW t \in Threads, AddUnlock(t) PROVE MutexInv'
  BY <1>8 DEF AddUnlock, Unlocked
<1>9. ASSUME NEW t \in Threads, Scan(t) PROVE MutexInv'
  <2>1. pc[t] = "scan" /\ mutex' = mutex
    BY <1>9 DEF Scan
  <2>2. pc'[t] \in {"scan", "marklock", "finish"} /\ \A u \in Threads \ {t} : pc'[u] = pc[u]
    BY <1>9 DEF Scan
  <2> QED
    BY <2>1, <2>2
<1>10. ASSUME NEW t \in Threads, Mark(t) PROVE MutexInv'
  <2>1. /\ pc[t] = "mark" /\ pc' = [pc EXCEPT ![t] = "markunlock"]
        /\ mutex' \in {mutex, "wedged"}
    BY <1>10 DEF Mark, Store
  <2> QED
    BY <2>1
<1>11. ASSUME NEW t \in Threads, MarkUnlock(t) PROVE MutexInv'
  BY <1>11 DEF MarkUnlock, Unlocked
<1>12. ASSUME NEW t \in Threads, Finish(t) PROVE MutexInv'
  BY <1>12 DEF Finish
<1>13. ASSUME NEW t \in Threads, CopyCell(t) \/ SendTable(t) PROVE MutexInv'
  BY <1>13 DEF CopyCell, SendTable
<1>14. CASE UNCHANGED vars
  BY <1>14 DEF vars
<1> QED
  BY <1>1, <1>2, <1>3, <1>4, <1>5, <1>6, <1>7, <1>8, <1>9, <1>10, <1>11,
     <1>12, <1>13, <1>14 DEF Next, Handle, Lock

(* An update keeps its kind through its handler, and an index stays below  *)
(* the count it was compared with, because the count only grows.           *)
LEMMA PhaseStep == TypeOK /\ PhaseInv /\ [Next]_vars => PhaseInv'
<1> SUFFICES ASSUME TypeOK, PhaseInv, [Next]_vars PROVE PhaseInv'
  OBVIOUS
<1> USE DEF TypeOK, PhaseInv, Adding, Scanning, Goto
<1>1. ASSUME NEW t \in Threads, ReadUpdate(t) PROVE PhaseInv'
  <2>1. PICK u \in Updates :
          /\ update' = [update EXCEPT ![t] = u]
          /\ IF u.status \in {"DELETED", "MODIFIED", "MODIFIED_DONE"}
             THEN /\ Goto(t, "scan")
                  /\ known' = [known EXCEPT ![t] = numfiles]
             ELSE Goto(t, "room") /\ UNCHANGED known
    BY <1>1 DEF ReadUpdate
  <2>2. CASE u.status \in {"DELETED", "MODIFIED", "MODIFIED_DONE"}
    BY <1>1, <2>1, <2>2 DEF ReadUpdate
  <2>3. CASE u.status = "ADDED"
    BY <1>1, <2>1, <2>3 DEF ReadUpdate
  <2> QED
    BY <2>2, <2>3, StatusesAssumption DEF Updates
<1>2. ASSUME NEW t \in Threads, ReadRequest(t) PROVE PhaseInv'
  BY <1>2 DEF ReadRequest
<1>3. ASSUME NEW t \in Threads, Lock(t) PROVE PhaseInv'
  BY <1>3 DEF Lock, AddLock, MarkLock
<1>4. ASSUME NEW t \in Threads, TestRoom(t) PROVE PhaseInv'
  BY <1>4 DEF TestRoom
<1>5. ASSUME NEW t \in Threads, WriteNode(t) PROVE PhaseInv'
  BY <1>5 DEF WriteNode
<1>6. ASSUME NEW t \in Threads, CountNode(t) PROVE PhaseInv'
  BY <1>6 DEF CountNode, Counted
<1>7. ASSUME NEW t \in Threads, AddUnlock(t) PROVE PhaseInv'
  BY <1>7 DEF AddUnlock
<1>8. ASSUME NEW t \in Threads, Scan(t) PROVE PhaseInv'
  BY <1>8 DEF Scan
<1>9. ASSUME NEW t \in Threads, Mark(t) PROVE PhaseInv'
  BY <1>9 DEF Mark
<1>10. ASSUME NEW t \in Threads, MarkUnlock(t) PROVE PhaseInv'
  BY <1>10 DEF MarkUnlock
<1>11. ASSUME NEW t \in Threads, Finish(t) PROVE PhaseInv'
  BY <1>11 DEF Finish
<1>12. ASSUME NEW t \in Threads, CopyCell(t) \/ SendTable(t) PROVE PhaseInv'
  BY <1>12 DEF CopyCell, SendTable
<1>13. CASE UNCHANGED vars
  BY <1>13 DEF vars
<1> QED
  BY <1>1, <1>2, <1>3, <1>4, <1>5, <1>6, <1>7, <1>8, <1>9, <1>10, <1>11,
     <1>12, <1>13 DEF Next, Handle

(* A thread joins the pending ones only if it saw numfiles <= MAX_FILES,   *)
(* and it leaves them when it counts: the sum cannot exceed the bound.     *)
LEMMA OvershootStep ==
  TypeOK /\ OvershootInv /\ [Next]_vars => OvershootInv'
<1> SUFFICES ASSUME TypeOK, OvershootInv, [Next]_vars PROVE OvershootInv'
  OBVIOUS
<1> USE DEF TypeOK, Goto
<1>a. /\ IsFiniteSet(Pending) /\ Cardinality(Pending) \in Nat
      /\ Cardinality(Threads) \in Nat
  <2>1. Pending \subseteq Threads
    BY DEF Pending
  <2> QED
    BY <2>1, ThreadsAssumption, FS_Subset, FS_CardinalityType
<1>1. ASSUME NEW t \in Threads, TestRoom(t) PROVE OvershootInv'
  <2>1. CASE HasRoom(numfiles)
    <3>1. numfiles' = numfiles /\ numfiles <= MAX_FILES
      BY <1>1, <2>1 DEF TestRoom, HasRoom
    <3>2. Pending' \subseteq Threads
      BY DEF Pending
    <3>3. Cardinality(Pending') \in Nat /\ Cardinality(Pending') <= Cardinality(Threads)
      BY <3>2, ThreadsAssumption, FS_Subset, FS_CardinalityType
    <3> QED
      BY <3>1, <3>3, <1>a DEF OvershootInv
  <2>2. CASE ~HasRoom(numfiles)
    <3>1. numfiles' = numfiles /\ Pending' = Pending
      BY <1>1, <2>2 DEF TestRoom, Pending
    <3> QED
      BY <3>1 DEF OvershootInv
  <2> QED
    BY <2>1, <2>2
<1>2. ASSUME NEW t \in Threads, CountNode(t) PROVE OvershootInv'
  <2>1. numfiles' = numfiles + 1 /\ Pending' = Pending \ {t} /\ t \in Pending
    BY <1>2 DEF CountNode, Counted, Pending
  <2>2. Cardinality(Pending') = Cardinality(Pending) - 1
    BY <2>1, <1>a, FS_RemoveElement
  <2> QED
    BY <2>1, <2>2, <1>a DEF OvershootInv
<1>3. ASSUME numfiles' = numfiles, Pending' = Pending PROVE OvershootInv'
  BY <1>3 DEF OvershootInv
<1>4. ASSUME NEW t \in Threads, ReadUpdate(t) PROVE Pending' = Pending
  BY <1>4 DEF ReadUpdate, Pending
<1>5. ASSUME NEW t \in Threads, ReadRequest(t) PROVE Pending' = Pending
  BY <1>5 DEF ReadRequest, Pending
<1>6. ASSUME NEW t \in Threads, Lock(t) PROVE Pending' = Pending
  BY <1>6 DEF Lock, AddLock, MarkLock, Pending
<1>7. ASSUME NEW t \in Threads, WriteNode(t) PROVE Pending' = Pending
  BY <1>7 DEF WriteNode, Pending
<1>8. ASSUME NEW t \in Threads, AddUnlock(t) \/ MarkUnlock(t)
      PROVE  Pending' = Pending
  BY <1>8 DEF AddUnlock, MarkUnlock, Pending
<1>9. ASSUME NEW t \in Threads, Scan(t) PROVE Pending' = Pending
  BY <1>9 DEF Scan, Pending
<1>10. ASSUME NEW t \in Threads, Mark(t) PROVE Pending' = Pending
  BY <1>10 DEF Mark, Pending
<1>11. ASSUME NEW t \in Threads, Finish(t) \/ CopyCell(t) \/ SendTable(t)
       PROVE  Pending' = Pending
  BY <1>11 DEF Finish, CopyCell, SendTable, Pending
<1>12. CASE UNCHANGED vars
  BY <1>12, <1>3 DEF vars, Pending
<1>13. ASSUME NEW t \in Threads,
              \/ ReadUpdate(t) \/ ReadRequest(t) \/ Lock(t) \/ WriteNode(t)
              \/ AddUnlock(t) \/ MarkUnlock(t) \/ Scan(t) \/ Mark(t)
              \/ Finish(t) \/ CopyCell(t) \/ SendTable(t)
       PROVE  numfiles' = numfiles
  BY <1>13 DEF ReadUpdate, ReadRequest, Lock, AddLock, MarkLock, WriteNode,
     AddUnlock, MarkUnlock, Scan, Mark, Finish, CopyCell, SendTable
<1> QED
  BY <1>1, <1>2, <1>3, <1>4, <1>5, <1>6, <1>7, <1>8, <1>9, <1>10, <1>11,
     <1>12, <1>13 DEF Next, Handle

(* While a thread is between filling an entry and counting it, the mutex   *)
(* keeps every other thread from storing or counting.                      *)
LEMMA PublishStep ==
  TypeOK /\ MutexInv /\ PublishesItsOwn /\ [Next]_vars => PublishesItsOwn'
<1> SUFFICES ASSUME TypeOK, MutexInv, PublishesItsOwn, [Next]_vars
             PROVE  PublishesItsOwn'
  OBVIOUS
<1> USE DEF TypeOK, PublishesItsOwn, NewNode, Goto
<1>1. ASSUME NEW t \in Threads, ReadUpdate(t) PROVE PublishesItsOwn'
  BY <1>1 DEF ReadUpdate
<1>2. ASSUME NEW t \in Threads, ReadRequest(t) PROVE PublishesItsOwn'
  BY <1>2 DEF ReadRequest
<1>3. ASSUME NEW t \in Threads, Lock(t) PROVE PublishesItsOwn'
  BY <1>3 DEF Lock, AddLock, MarkLock
<1>4. ASSUME NEW t \in Threads, TestRoom(t) PROVE PublishesItsOwn'
  BY <1>4 DEF TestRoom
<1>5. ASSUME NEW t \in Threads, WriteNode(t) PROVE PublishesItsOwn'
  <2>1. \A u \in Threads : pc'[u] = "count" => u = t
    BY <1>5 DEF WriteNode, MutexInv, InSection
  <2>2. numfiles < MAX_FILES => nodes'[numfiles] = NewNode(t)
    BY <1>5, SizesAssumption DEF WriteNode, Store, Slots
  <2> QED
    BY <1>5, <2>1, <2>2 DEF WriteNode
<1>6. ASSUME NEW t \in Threads, CountNode(t) PROVE PublishesItsOwn'
  BY <1>6 DEF CountNode, MutexInv, InSection
<1>7. ASSUME NEW t \in Threads, AddUnlock(t) PROVE PublishesItsOwn'
  BY <1>7 DEF AddUnlock
<1>8. ASSUME NEW t \in Threads, Scan(t) PROVE PublishesItsOwn'
  BY <1>8 DEF Scan
<1>9. ASSUME NEW t \in Threads, Mark(t) PROVE PublishesItsOwn'
  BY <1>9 DEF Mark, MutexInv, InSection
<1>10. ASSUME NEW t \in Threads, MarkUnlock(t) PROVE PublishesItsOwn'
  BY <1>10 DEF MarkUnlock
<1>11. ASSUME NEW t \in Threads, Finish(t) PROVE PublishesItsOwn'
  BY <1>11 DEF Finish
<1>12. ASSUME NEW t \in Threads, CopyCell(t) \/ SendTable(t)
       PROVE  PublishesItsOwn'
  BY <1>12 DEF CopyCell, SendTable
<1>13. CASE UNCHANGED vars
  BY <1>13 DEF vars
<1> QED
  BY <1>1, <1>2, <1>3, <1>4, <1>5, <1>6, <1>7, <1>8, <1>9, <1>10, <1>11,
     <1>12, <1>13 DEF Next, Handle

(* A published entry keeps its place and its name, and a tombstone stays   *)
(* one: stores go to the entry after the published ones, and marking       *)
(* writes neither the name nor any status but DELETED.                     *)
LEMMA EntriesStay ==
  ASSUME TypeOK, [Next]_vars, NEW i \in Slots, i < numfiles
  PROVE  /\ nodes'[i].name = nodes[i].name
         /\ nodes[i].status = "DELETED" => nodes'[i].status = "DELETED"
<1> USE DEF TypeOK
<1>1. ASSUME NEW t \in Threads, WriteNode(t) PROVE nodes'[i] = nodes[i]
  BY <1>1 DEF WriteNode, Store, Slots
<1>2. ASSUME NEW t \in Threads, Mark(t)
      PROVE  /\ nodes'[i].name = nodes[i].name
             /\ nodes[i].status = "DELETED" => nodes'[i].status = "DELETED"
  <2>1. nodes[i] \in Nodes
    OBVIOUS
  <2>2. /\ Marked(t, nodes[i]).name = nodes[i].name
        /\ nodes[i].status = "DELETED" => Marked(t, nodes[i]).status = "DELETED"
    BY <2>1 DEF Marked, Nodes
  <2>3. nodes'[i] \in {nodes[i], Marked(t, nodes[i])}
    BY <1>2 DEF Mark, Store
  <2> QED
    BY <2>2, <2>3
<1>3. ASSUME NEW t \in Threads,
             \/ ReadUpdate(t) \/ ReadRequest(t) \/ Lock(t) \/ TestRoom(t)
             \/ CountNode(t) \/ AddUnlock(t) \/ MarkUnlock(t) \/ Scan(t)
             \/ Finish(t) \/ CopyCell(t) \/ SendTable(t)
      PROVE  nodes' = nodes
  BY <1>3 DEF ReadUpdate, ReadRequest, Lock, AddLock, MarkLock, TestRoom,
     CountNode, AddUnlock, MarkUnlock, Scan, Finish, CopyCell, SendTable
<1>4. CASE UNCHANGED vars
  BY <1>4 DEF vars
<1> QED
  BY <1>1, <1>2, <1>3, <1>4 DEF Next, Handle

(* A scan leaves no matching entry behind it that it has not marked.       *)
LEMMA ScanStep ==
  TypeOK /\ PhaseInv /\ ScanInv /\ [Next]_vars => ScanInv'
<1> SUFFICES ASSUME TypeOK, PhaseInv, ScanInv, [Next]_vars,
                    NEW u \in Threads, (update[u].status = "DELETED")',
                    NEW i \in Slots, (i < known[u])'
             PROVE  /\ (Scanning(u) /\ i < idx[u])' => Done(u, i)'
                    /\ (pc[u] = "markunlock" /\ i = idx[u])' => Done(u, i)'
                    /\ (pc[u] = "finish")' => Done(u, i)'
  BY DEF ScanInv
<1> DEFINE Goal ==
      /\ (Scanning(u) /\ i < idx[u])' => Done(u, i)'
      /\ (pc[u] = "markunlock" /\ i = idx[u])' => Done(u, i)'
      /\ (pc[u] = "finish")' => Done(u, i)'
<1> USE DEF TypeOK, Goto
<1>a. ASSUME update'[u] = update[u], known'[u] = known[u]
      PROVE  /\ i < numfiles
             /\ Done(u, i) => Done(u, i)'
             /\ Scanning(u) /\ i < idx[u] => Done(u, i)
             /\ pc[u] = "markunlock" /\ i = idx[u] => Done(u, i)
             /\ pc[u] = "finish" => Done(u, i)
  <2>1. i < known[u] /\ known[u] <= numfiles
    BY <1>a DEF PhaseInv
  <2>2. i < numfiles
    BY <2>1 DEF Slots
  <2>3. Done(u, i) => Done(u, i)'
    BY <1>a, <2>2, EntriesStay DEF Done
  <2> QED
    BY <1>a, <2>1, <2>2, <2>3 DEF ScanInv
<1>b. ASSUME UNCHANGED <<pc[u], update[u], idx[u], known[u]>> PROVE Goal
  BY <1>a, <1>b DEF Scanning
<1>1. ASSUME NEW t \in Threads, ReadUpdate(t) PROVE Goal
  <2>1. CASE t = u
    BY <1>1, <2>1 DEF ReadUpdate, FirstIndex, Scanning, Slots
  <2>2. CASE t # u
    BY <1>1, <2>2, <1>b DEF ReadUpdate
  <2> QED
    BY <2>1, <2>2
<1>2. ASSUME NEW t \in Threads, ReadRequest(t) PROVE Goal
  BY <1>2, <1>a DEF ReadRequest, Scanning
<1>3. ASSUME NEW t \in Threads, TestRoom(t) PROVE Goal
  <2>1. CASE t = u
    BY <1>3, <2>1, StatusesAssumption DEF TestRoom, PhaseInv, Adding
  <2>2. CASE t # u
    BY <1>3, <2>2, <1>b DEF TestRoom
  <2> QED
    BY <2>1, <2>2
<1>4. ASSUME NEW t \in Threads,
             AddLock(t) \/ WriteNode(t) \/ CountNode(t) \/ AddUnlock(t)
      PROVE  Goal
  <2>1. CASE t = u
    BY <1>4, <2>1 DEF AddLock, WriteNode, CountNode, AddUnlock, PhaseInv, Adding
  <2>2. CASE t # u
    BY <1>4, <2>2, <1>b DEF AddLock, WriteNode, CountNode, AddUnlock
  <2> QED
    BY <2>1, <2>2
<1>5. ASSUME NEW t \in Threads, Scan(t) PROVE Goal
  <2>1. UNCHANGED <<update, known>>
    BY <1>5 DEF Scan
  <2>2. CASE t # u
    BY <1>5, <2>2, <1>b DEF Scan
  <2>3. CASE t = u /\ idx[u] >= numfiles /\ Goto(u, "finish") /\ UNCHANGED idx
    BY <1>5, <2>1, <2>3, <1>a DEF Scan, Scanning, Slots
  <2>4. CASE t = u /\ Goto(u, "marklock") /\ UNCHANGED idx
    BY <1>5, <2>1, <2>4, <1>a DEF Scan, Scanning
  <2>5. CASE t = u /\ FALSE \in Matches(u)
             /\ idx' = [idx EXCEPT ![u] = NextIndex(@)] /\ UNCHANGED pc
    <3>1. i = idx[u] => Done(u, i)
      <4>1. ASSUME i = idx[u]
            PROVE  <<update[u].name, nodes[i].name>> \notin PrefixOf
        <5>1. idx[u] < MAX_FILES
          BY <4>1 DEF Slots
        <5>2. Matches(u) = {(<<update[u].name, nodes[i].name>> \in PrefixOf)}
          BY <4>1, <5>1, Zenon DEF Matches
        <5> QED
          BY <2>5, <5>2, Zenon
      <4> QED
        BY <4>1 DEF Done
    <3>2. i < idx'[u] => i < idx[u] \/ i = idx[u]
      BY <2>5 DEF NextIndex, Slots
    <3> QED
      BY <1>5, <2>1, <2>5, <3>1, <3>2, <1>a DEF Scan, Scanning
  <2> QED
    BY <1>5, <2>2, <2>3, <2>4, <2>5 DEF Scan
<1>6. ASSUME NEW t \in Threads, MarkLock(t) PROVE Goal
  <2>1. CASE t = u
    BY <1>6, <2>1, <1>a DEF MarkLock, Scanning
  <2>2. CASE t # u
    BY <1>6, <2>2, <1>b DEF MarkLock
  <2> QED
    BY <2>1, <2>2
<1>7. ASSUME NEW t \in Threads, Mark(t) PROVE Goal
  <2>1. CASE t = u
    <3>1. UNCHANGED <<update, idx, known>> /\ pc[u] = "mark"
      BY <1>7, <2>1 DEF Mark
    <3>2. i = idx[u] => Done(u, i)'
      <4>1. nodes[i] \in Nodes
        OBVIOUS
      <4>2. i = idx[u] => nodes'[i] = Marked(u, nodes[i])
        BY <1>7, <2>1 DEF Mark, Store, Slots
      <4>3. Marked(u, nodes[i]).status = "DELETED"
        BY <3>1, <4>1 DEF Marked, Nodes
      <4> QED
        BY <4>2, <4>3 DEF Done
    <3>3. i < idx[u] => Done(u, i)'
      BY <3>1, <1>a DEF Scanning
    <3> QED
      BY <1>7, <2>1, <3>1, <3>2, <3>3 DEF Mark
  <2>2. CASE t # u
    BY <1>7, <2>2, <1>b DEF Mark
  <2> QED
    BY <2>1, <2>2
<1>8. ASSUME NEW t \in Threads, MarkUnlock(t) PROVE Goal
  <2>1. CASE t = u
    <3>1. i < idx'[u] => i < idx[u] \/ i = idx[u]
      BY <1>8, <2>1 DEF MarkUnlock, NextIndex, Slots
    <3> QED
      BY <1>8, <2>1, <3>1, <1>a DEF MarkUnlock, Scanning
  <2>2. CASE t # u
    BY <1>8, <2>2, <1>b DEF MarkUnlock
  <2> QED
    BY <2>1, <2>2
<1>9. ASSUME NEW t \in Threads, Finish(t) PROVE Goal
  <2>1. CASE t = u
    BY <1>9, <2>1 DEF Finish, NoUpdate
  <2>2. CASE t # u
    BY <1>9, <2>2, <1>b DEF Finish
  <2> QED
    BY <2>1, <2>2
<1>10. ASSUME NEW t \in Threads, CopyCell(t) PROVE Goal
  BY <1>10, <1>b DEF CopyCell
<1>11. ASSUME NEW t \in Threads, SendTable(t) PROVE Goal
  BY <1>11, <1>a DEF SendTable, Scanning
<1>12. CASE UNCHANGED vars
  BY <1>12, <1>b DEF vars
<1> QED
  BY <1>1, <1>2, <1>3, <1>4, <1>5, <1>6, <1>7, <1>8, <1>9, <1>10, <1>11,
     <1>12 DEF Next, Handle, Lock
-----------------------------------------------------------------------------
(* The inductive invariant holds in every reachable state. *)
THEOREM Invariance == Spec => []IInv
<1>1. Init => IInv
  BY InitIInv
<1>2. IInv /\ [Next]_vars => IInv'
  BY TypeStep, MutexStep, PhaseStep, OvershootStep, PublishStep, ScanStep
     DEF IInv
<1> QED
  BY <1>1, <1>2, PTL DEF Spec

(* Every variable keeps the shape of the C object it stands for. *)
THEOREM TypeCorrect == Spec => []TypeOK
<1>1. IInv => TypeOK
  BY DEF IInv
<1> QED
  BY <1>1, Invariance, PTL

(* However many threads pass the unlocked room test together, numfiles     *)
(* overshoots the array by at most one entry for each of them.             *)
THEOREM OvershootIsBounded == Spec => []OvershootBounded
<1>1. IInv => OvershootBounded
  <2> SUFFICES ASSUME IInv PROVE OvershootBounded
    OBVIOUS
  <2>1. Pending \subseteq Threads
    BY DEF Pending
  <2>2. Cardinality(Pending) \in Nat /\ Cardinality(Threads) \in Nat
    BY <2>1, ThreadsAssumption, FS_Subset, FS_CardinalityType
  <2> QED
    BY <2>2, SizesAssumption DEF IInv, TypeOK, OvershootInv, OvershootBounded
<1> QED
  BY <1>1, Invariance, PTL

(* No announcement is lost: what a thread counts is what it stored.        *)
THEOREM EachPublishesItsOwn == Spec => []PublishesItsOwn
<1>1. IInv => PublishesItsOwn
  BY DEF IInv
<1> QED
  BY <1>1, Invariance, PTL

(* A handled deletion has reached every matching entry it found published. *)
THEOREM DeletionReachesAll == Spec => []DeleteReachesAll
<1>1. IInv => DeleteReachesAll
  BY DEF IInv, ScanInv, Done, DeleteReachesAll
<1> QED
  BY <1>1, Invariance, PTL
=============================================================================
