------------------------- MODULE FileTableRefinement -------------------------
(***************************************************************************)
(* FileTable implements FileLog, for any number of threads, names,         *)
(* messages and table entries: counting an entry announces it, marking one *)
(* buries it or changes its holders, and every other step is a stutter.    *)
(***************************************************************************)
EXTENDS FileTableProofs

USE ThreadsAssumption, NamesAssumption, SizesAssumption, StatusesAssumption

(* The published part of the array is a sequence of entries.               *)
LEMMA PublishedIsSeq ==
  ASSUME TypeOK
  PROVE  /\ Filled \in Nat /\ Filled <= MAX_FILES /\ Filled <= numfiles
         /\ Published \in Seq(Nodes) /\ Len(Published) = Filled
         /\ \A j \in 1..Filled : j - 1 \in Slots /\ Published[j] = nodes[j - 1]
<1>1. Filled \in Nat /\ Filled <= MAX_FILES /\ Filled <= numfiles
  BY SizesAssumption DEF TypeOK, Filled
<1>2. \A j \in 1..Filled : j - 1 \in Slots
  BY <1>1, SizesAssumption DEF Slots
<1>3. \A j \in 1..Filled : nodes[j - 1] \in Nodes
  BY <1>2 DEF TypeOK
<1> QED
  BY <1>1, <1>2, <1>3 DEF Published

(* Nothing is published before the first announcement. *)
LEMMA RefinesInit == Init => Log!Init
<1> SUFFICES ASSUME Init PROVE Published = << >>
  BY DEF Log!Init
<1>1. Filled = 0
  BY SizesAssumption DEF Init, Filled
<1>2. TypeOK
  BY InitIInv DEF IInv
<1> QED
  BY <1>1, <1>2, PublishedIsSeq, EmptySeq

(* A step that leaves the published entries alone is a stutter. *)
LEMMA Unseen ==
  ASSUME TypeOK, TypeOK', Filled' = Filled,
         \A i \in Slots : i < Filled => nodes'[i] = nodes[i]
  PROVE  Published' = Published
<1>1. \A j \in 1..Filled : j - 1 \in Slots /\ j - 1 < Filled
  BY PublishedIsSeq
<1> QED
  BY <1>1 DEF Published

(* The element that Append adds is the last one. *)
LEMMA LastOfAppend ==
  ASSUME NEW S, NEW s \in Seq(S), NEW e \in S
  PROVE  Append(s, e)[Len(s) + 1] = e
BY AppendProperties

(* A published prefix with one more entry holds entries only. *)
LEMMA PrefixTyped ==
  ASSUME TypeOK, numfiles < MAX_FILES
  PROVE  /\ numfiles + 1 \in Nat /\ numfiles \in Slots
         /\ \A j \in 1..numfiles + 1 : nodes[j - 1] \in Nodes
<1>1. numfiles \in Nat /\ MAX_FILES \in Nat /\ nodes \in [Slots -> Nodes]
  BY SizesAssumption DEF TypeOK
<1>2. ASSUME NEW j \in 1..numfiles + 1 PROVE nodes[j - 1] \in Nodes
  <2>1. j - 1 \in Slots
    BY <1>1 DEF Slots
  <2> QED
    BY <1>1, <2>1
<1> QED
  BY <1>1, <1>2 DEF Slots

(* CountNode announces the entry the thread has filled. *)
LEMMA CountAnnounces ==
  ASSUME IInv, IInv', NEW t \in Threads, CountNode(t)
  PROVE  [Log!Next]_Published
<1>0. TypeOK /\ TypeOK' /\ PublishesItsOwn /\ PhaseInv
  BY DEF IInv
<1>1. CASE numfiles < MAX_FILES
  <2>1. /\ numfiles' = numfiles + 1 /\ nodes' = nodes
        /\ Filled = numfiles /\ Filled' = numfiles + 1
    BY <1>0, <1>1, SizesAssumption DEF CountNode, Counted, Filled, TypeOK
  <2>2. nodes[numfiles] = NewNode(t)
    BY <1>0, <1>1 DEF CountNode, PublishesItsOwn
  <2>3. NewNode(t) \in Nodes
    <3>1. numfiles + 1 \in 1..numfiles + 1 /\ (numfiles + 1) - 1 = numfiles
      BY <1>0 DEF TypeOK
    <3> QED
      BY <1>0, <1>1, <2>2, <3>1, PrefixTyped
  <2>4. /\ Published \in Seq(Nodes) /\ Len(Published) = numfiles
        /\ \A j \in 1..numfiles : Published[j] = nodes[j - 1]
    BY <1>0, <2>1, PublishedIsSeq
  <2>5. /\ Published' \in Seq(Nodes) /\ Len(Published') = numfiles + 1
        /\ \A j \in 1..numfiles + 1 : Published'[j] = nodes[j - 1]
    <3>1. Published' = [j \in 1..numfiles + 1 |-> nodes[j - 1]]
      BY <2>1 DEF Published
    <3> QED
      BY <1>0, <1>1, <3>1, PrefixTyped
  <2>6. Published' = Append(Published, NewNode(t))
    <3>1. Append(Published, NewNode(t)) \in Seq(Nodes)
      BY <2>3, <2>4, AppendProperties
    <3>2. Len(Append(Published, NewNode(t))) = numfiles + 1
      BY <2>3, <2>4, AppendProperties
    <3>3. ASSUME NEW j \in 1..numfiles + 1
          PROVE  Published'[j] = Append(Published, NewNode(t))[j]
      <4>1. CASE j \in 1..numfiles
        <5>1. Append(Published, NewNode(t))[j] = Published[j]
          <6>1. j \in 1..Len(Published)
            BY <2>4, <4>1
          <6> QED
            BY <2>3, <2>4, <6>1, AppendProperties
        <5> QED
          BY <4>1, <2>4, <2>5, <5>1
      <4>2. CASE j = numfiles + 1
        <5>1. Append(Published, NewNode(t))[numfiles + 1] = NewNode(t)
          <6>1. Append(Published, NewNode(t))[Len(Published) + 1] = NewNode(t)
            BY <2>3, <2>4, LastOfAppend
          <6> QED
            BY <2>4, <6>1
        <5>2. Published'[numfiles + 1] = nodes[numfiles]
          <6>1. numfiles + 1 \in 1..numfiles + 1 /\ (numfiles + 1) - 1 = numfiles
            BY <1>0 DEF TypeOK
          <6> QED
            BY <2>5, <6>1
        <5> QED
          BY <2>2, <4>2, <5>1, <5>2
      <4>3. j \in 1..numfiles \/ j = numfiles + 1
        BY <1>0 DEF TypeOK
      <4> QED
        BY <4>1, <4>2, <4>3
    <3> QED
      BY <2>5, <3>1, <3>2, <3>3, SeqEqual
  <2>7. update[t].name \in Names
    BY <1>0 DEF CountNode, PhaseInv, Adding, Updates
  <2>8. Log!Announce(update[t].name, t)
    BY <1>1, <2>4, <2>6 DEF Log!Announce, NewNode
  <2> QED
    BY <2>7, <2>8 DEF Log!Next
<1>2. CASE ~(numfiles < MAX_FILES)
  <2>1. nodes' = nodes /\ Filled' = Filled
    BY <1>0, <1>2, SizesAssumption DEF CountNode, Counted, Filled, TypeOK
  <2> QED
    BY <1>0, <2>1, Unseen
<1> QED
  BY <1>1, <1>2

(* Mark buries an entry, replaces its holders or adds one.                 *)
LEMMA MarkChangesOne ==
  ASSUME IInv, TypeOK', NEW t \in Threads, Mark(t)
  PROVE  [Log!Next]_Published
<1> USE DEF IInv
<1>1. numfiles' = numfiles /\ Filled' = Filled
  BY DEF Mark, Filled
<1>2. idx[t] \in Nat /\ idx[t] < numfiles /\ update[t] \in Updates
  BY DEF Mark, PhaseInv, Scanning, TypeOK
<1>3. CASE idx[t] < MAX_FILES
  <2> DEFINE k == idx[t] + 1
  <2>1. k \in 1..Filled /\ k \in DOMAIN Published
    <3>1. k \in 1..Filled
      BY <1>2, <1>3, SizesAssumption DEF Filled, TypeOK
    <3>2. DOMAIN Published = 1..Filled
      BY DEF Published
    <3> QED
      BY <3>1, <3>2
  <2>2. nodes' = [nodes EXCEPT ![idx[t]] = Marked(t, nodes[idx[t]])]
    BY <1>3 DEF Mark, Store
  <2>3. Published' = [Published EXCEPT ![k] = Marked(t, Published[k])]
    <3>1. Published' = [j \in 1..Filled |-> nodes'[j - 1]]
      BY <1>1 DEF Published
    <3>2. Published = [j \in 1..Filled |-> nodes[j - 1]]
      BY DEF Published
    <3>3. \A j \in 1..Filled : j - 1 \in Slots /\ (j = k <=> j - 1 = idx[t])
      BY <1>2, PublishedIsSeq
    <3>4. nodes \in [Slots -> Nodes]
      BY DEF TypeOK
    <3> HIDE DEF k
    <3>5. \A j \in 1..Filled :
            nodes'[j - 1] = IF j = k THEN Marked(t, Published[k]) ELSE Published[j]
      BY <2>1, <2>2, <3>2, <3>3, <3>4
    <3> QED
      BY <3>1, <3>2, <3>5
  <2>4. Published[k] \in Nodes
    BY <2>1, PublishedIsSeq
  <2> HIDE DEF k
  <2>5. CASE update[t].status = "DELETED"
    <3>1. Log!Bury(k)
      BY <2>3, <2>5 DEF Log!Bury, Marked
    <3> QED
      BY <2>1, <3>1 DEF Log!Next
  <2>6. CASE update[t].status = "MODIFIED"
    <3>1. Log!Replace(k, t)
      BY <2>3, <2>6 DEF Log!Replace, Marked
    <3> QED
      BY <2>1, <3>1 DEF Log!Next
  <2>7. CASE update[t].status \notin {"DELETED", "MODIFIED"}
    <3>1. Log!Join(k, t)
      BY <2>3, <2>7 DEF Log!Join, Marked
    <3> QED
      BY <2>1, <3>1 DEF Log!Next
  <2> QED
    BY <2>5, <2>6, <2>7
<1>4. CASE ~(idx[t] < MAX_FILES)
  <2>1. nodes' = nodes
    BY <1>4 DEF Mark, Store
  <2> QED
    BY <1>1, <2>1, Unseen
<1> QED
  BY <1>3, <1>4

(* Every step of the tracker's threads is a step of the log or a stutter. *)
LEMMA RefinesNext ==
  ASSUME IInv, IInv', [Next]_vars
  PROVE  [Log!Next]_Published
<1> USE DEF IInv
<1>1. ASSUME NEW t \in Threads, CountNode(t) PROVE [Log!Next]_Published
  BY <1>1, CountAnnounces
<1>2. ASSUME NEW t \in Threads, Mark(t) PROVE [Log!Next]_Published
  BY <1>2, MarkChangesOne
<1>3. ASSUME NEW t \in Threads, WriteNode(t) PROVE Published' = Published
  <2>1. numfiles' = numfiles /\ Filled' = Filled
    BY <1>3 DEF WriteNode, Filled
  <2>2. \A i \in Slots : i < Filled => nodes'[i] = nodes[i]
    <3>1. nodes' = nodes \/ nodes' = [nodes EXCEPT ![numfiles] = NewNode(t)]
      BY <1>3 DEF WriteNode, Store
    <3>2. \A i \in Slots : i < Filled => i # numfiles
      BY SizesAssumption DEF Filled, Slots, TypeOK
    <3> QED
      BY <3>1, <3>2 DEF TypeOK
  <2> QED
    BY <2>1, <2>2, Unseen
<1>4. ASSUME UNCHANGED <<numfiles, nodes>> PROVE Published' = Published
  BY <1>4 DEF Published, Filled
<1>5. ASSUME NEW t \in Threads,
             \/ ReadUpdate(t) \/ ReadRequest(t) \/ Lock(t) \/ TestRoom(t)
             \/ AddUnlock(t) \/ MarkUnlock(t) \/ Scan(t) \/ Finish(t)
             \/ CopyCell(t) \/ SendTable(t)
      PROVE  UNCHANGED <<numfiles, nodes>>
  BY <1>5 DEF ReadUpdate, ReadRequest, Lock, AddLock, MarkLock, TestRoom,
     AddUnlock, MarkUnlock, Scan, Finish, CopyCell, SendTable
<1>6. CASE UNCHANGED vars
  BY <1>6, <1>4 DEF vars
<1> QED
  BY <1>1, <1>2, <1>3, <1>4, <1>5, <1>6 DEF Next, Handle

(* The array, its mutex and its threads implement the log: entries are     *)
(* only appended, one at a time and never beyond the array, deletions are  *)
(* tombstones, and holders change without an entry losing place or name.   *)
THEOREM TableImplementsLog == Spec => ImplementsLog
<1>1. Init => Log!Init
  BY RefinesInit
<1>2. IInv /\ IInv' /\ [Next]_vars => [Log!Next]_Published
  BY RefinesNext
<1> QED
  BY <1>1, <1>2, Invariance, PTL DEF Spec, ImplementsLog, Log!Spec
=============================================================================
