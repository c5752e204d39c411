------------------------------ MODULE FileTable ------------------------------
(***************************************************************************)
(* The tracker's global_filetable (tracker/tracker.c, common/filetable.h)  *)
(* and the handshake threads that work on it: one thread per connection,   *)
(* each handling one message at a time.  A FILE_UPDATE runs                *)
(* handleFileUpdate; a REGISTER or KEEP_ALIVE that is answered runs        *)
(* broadcast_to_peer, which copies the table without taking the mutex.     *)
(* Every access to shared memory is a step of its own, so the model has    *)
(* the interleavings the threads have.                                     *)
(*                                                                         *)
(* File names are abstract; <<n, m>> \in PrefixOf says that n is a prefix  *)
(* of m, which is all that strncmp(entry, update, strlen(update)) == 0     *)
(* asks.  The connection stands for the peer's address.                    *)
(***************************************************************************)
EXTENDS Integers, FiniteSets, Sequences

CONSTANTS Threads,      \* handshake threads
          Names,        \* names the updates carry
          PrefixOf,     \* the prefix relation on Names
          Statuses,     \* file_information.status of the updates sent
          MAX_FILES,    \* length of the nodes[] array
          MaxRequests   \* bound: messages each connection delivers

ASSUME ThreadsAssumption ==
  IsFiniteSet(Threads) /\ "free" \notin Threads /\ "wedged" \notin Threads
ASSUME NamesAssumption ==
  /\ "unset" \notin Names
  /\ PrefixOf \subseteq Names \X Names
  /\ \A n \in Names : <<n, n>> \in PrefixOf
ASSUME SizesAssumption ==
  MAX_FILES \in Nat \ {0} /\ MaxRequests \in [Threads -> Nat]
ASSUME StatusesAssumption ==
  Statuses \subseteq {"ADDED", "DELETED", "MODIFIED", "MODIFIED_DONE"}

VARIABLES
  numfiles,  \* global_filetable->numfiles
  nodes,     \* global_filetable->nodes, the MAX_FILES entries that exist
  mutex,     \* filetable_mutex: "free", the thread that holds it, or "wedged"
  running,   \* FALSE once the process has died of a corrupted heap
  pc,        \* what each thread is about to do
  update,    \* the FILE_UPDATE a thread is handling
  idx,       \* its loop index i
  reply,     \* the ptp_tracker_t broadcast_to_peer is filling
  todo,      \* the cells of the table its memcpy has not read yet
  sent,      \* the last table sent to each connection
  left,      \* messages each connection may still deliver
  asked,     \* history: every update received, with its connection
  known      \* history: numfiles when the thread began to scan

vars == <<numfiles, nodes, mutex, running, pc, update, idx, reply, todo, sent,
          left, asked, known>>

Slots == 0..MAX_FILES - 1
CountCell == -1           \* numfiles, which comes before nodes[0] in memory
Cells == {CountCell} \cup Slots
Updates == [status : Statuses, name : Names]
NoUpdate == [status |-> "unset", name |-> "unset"]

(* create_fileTable sets num_peers to 0 and leaves the rest to malloc. *)
EmptyNode == [name |-> "unset", status |-> "unset", holders |-> << >>]
EmptyTable == [size |-> 0, count |-> 0, nodes |-> [i \in Slots |-> EmptyNode]]

Init ==
  /\ numfiles = 0
  /\ nodes = [i \in Slots |-> EmptyNode]
  /\ mutex = "free"
  /\ running = TRUE
  /\ pc = [t \in Threads |-> "read"]
  /\ update = [t \in Threads |-> NoUpdate]
  /\ idx = [t \in Threads |-> 0]
  /\ reply = [t \in Threads |-> EmptyTable]
  /\ todo = [t \in Threads |-> {}]
  /\ sent = [t \in Threads |-> EmptyTable]
  /\ left = MaxRequests
  /\ asked = {}
  /\ known = [t \in Threads |-> 0]
-----------------------------------------------------------------------------
(***************************************************************************)
(* Mistakes of the kind these handlers invite; each breaks a property when *)
(* it takes the place of the operator it is named after.                   *)
(***************************************************************************)

HasRoomLoose(n) == n <= MAX_FILES + 1          \* one off too many

CanLockMissing(m) == TRUE                      \* no pthread_mutex_lock

UnlockedForgotten(m) == m                      \* no pthread_mutex_unlock

MatchesEverything(t) == {TRUE}                 \* strncmp over zero characters

MarkedRevives(t, node) ==                      \* MODIFIED resets the status
  CASE update[t].status = "DELETED" -> [node EXCEPT !.status = "DELETED"]
    [] update[t].status = "MODIFIED" ->
         [node EXCEPT !.holders = <<t>>, !.status = "ADDED"]
    [] OTHER -> [node EXCEPT !.holders = Append(@, t)]

MarkedErases(t, node) ==                       \* DELETED clears the entry
  CASE update[t].status = "DELETED" -> EmptyNode
    [] update[t].status = "MODIFIED" -> [node EXCEPT !.holders = <<t>>]
    [] OTHER -> [node EXCEPT !.holders = Append(@, t)]

NextIndexBackwards(i) == i - 1                 \* i-- for i++

NextIndexSkips(i) == i + 2                     \* i++ in the body as well
-----------------------------------------------------------------------------
(***************************************************************************)
(* The conditions and assignments of the handlers, each an operator of its *)
(* own.                                                                    *)
(***************************************************************************)

Goto(t, label) == pc' = [pc EXCEPT ![t] = label]

(* if (numfiles <= MAX_FILES), tested before the mutex is taken *)
HasRoom(n) == n <= MAX_FILES

(* pthread_mutex_lock returns *)
CanLock(m) == m = "free"

(* the mutex after pthread_mutex_unlock: an overrun lock word stays set *)
Unlocked(m) == IF m = "wedged" THEN "wedged" ELSE "free"

(* the three ways strncmp can match: the entry's name starts with the name *)
(* in the update; past the array it compares whatever bytes lie there      *)
Matches(t) ==
  IF idx[t] < MAX_FILES
  THEN {(<<update[t].name, nodes[idx[t]].name>> \in PrefixOf)}
  ELSE BOOLEAN

(* the entry an ADDED update writes, the sender its only holder *)
NewNode(t) ==
  [name |-> update[t].name, status |-> "ADDED", holders |-> <<t>>]

(* what the locked section of each scan does to a matching entry *)
Marked(t, node) ==
  CASE update[t].status = "DELETED" -> [node EXCEPT !.status = "DELETED"]
    [] update[t].status = "MODIFIED" -> [node EXCEPT !.holders = <<t>>]
    [] OTHER -> [node EXCEPT !.holders = Append(@, t)]

Counted(n) == n + 1

FirstIndex == 0

NextIndex(i) == i + 1

(* A store to nodes[i].  The heap block ends with the array and the next   *)
(* block is the mutex (tracker_init allocates it right after the table):   *)
(* a store past the end can go unnoticed, leave the lock word set for      *)
(* good, or end in an abort.                                               *)
Store(i, node) ==
  IF i < MAX_FILES
  THEN nodes' = [nodes EXCEPT ![i] = node] /\ UNCHANGED <<mutex, running>>
  ELSE /\ mutex' \in {mutex, "wedged"}
       /\ running' \in BOOLEAN
       /\ UNCHANGED nodes

-----------------------------------------------------------------------------
(***************************************************************************)
(* handshake: the next message of the connection is read and dispatched.   *)
(***************************************************************************)

ReadUpdate(t) ==
  /\ pc[t] = "read" /\ left[t] > 0
  /\ left' = [left EXCEPT ![t] = @ - 1]
  /\ \E u \in Updates :
       /\ update' = [update EXCEPT ![t] = u]
       /\ asked' = asked \cup {<<t, u>>}
       /\ IF u.status \in {"DELETED", "MODIFIED", "MODIFIED_DONE"}
          THEN /\ Goto(t, "scan")
               /\ idx' = [idx EXCEPT ![t] = FirstIndex]
               /\ known' = [known EXCEPT ![t] = numfiles]
          ELSE Goto(t, "room") /\ UNCHANGED <<idx, known>>
  /\ UNCHANGED <<numfiles, nodes, mutex, running, reply, todo, sent>>

(* handleFileUpdate, file added *)

TestRoom(t) ==
  /\ pc[t] = "room"
  /\ Goto(t, IF HasRoom(numfiles) THEN "addlock" ELSE "finish")
  /\ UNCHANGED <<numfiles, nodes, mutex, running, update, idx, reply, todo,
                 sent, left, asked, known>>

AddLock(t) ==
  /\ pc[t] = "addlock"
  /\ CanLock(mutex)
  /\ mutex' = t
  /\ Goto(t, "write")
  /\ UNCHANGED <<numfiles, nodes, running, update, idx, reply, todo, sent,
                 left, asked, known>>

WriteNode(t) ==
  /\ pc[t] = "write"
  /\ Store(numfiles, NewNode(t))
  /\ Goto(t, "count")
  /\ UNCHANGED <<numfiles, update, idx, reply, todo, sent, left, asked, known>>

CountNode(t) ==
  /\ pc[t] = "count"
  /\ numfiles' = Counted(numfiles)
  /\ Goto(t, "addunlock")
  /\ UNCHANGED <<nodes, mutex, running, update, idx, reply, todo, sent, left,
                 asked, known>>

AddUnlock(t) ==
  /\ pc[t] = "addunlock"
  /\ mutex' = Unlocked(mutex)
  /\ Goto(t, "finish")
  /\ UNCHANGED <<numfiles, nodes, running, update, idx, reply, todo, sent,
                 left, asked, known>>

(* handleFileUpdate, file deleted, modified or fetched: every entry whose  *)
(* name matches is changed under the mutex; the loop bound and the name    *)
(* are read without it                                                     *)

Scan(t) ==
  /\ pc[t] = "scan"
  /\ \/ idx[t] >= numfiles /\ Goto(t, "finish") /\ UNCHANGED idx
     \/ /\ idx[t] < numfiles /\ TRUE \in Matches(t)
        /\ Goto(t, "marklock")
        /\ UNCHANGED idx
     \/ /\ idx[t] < numfiles /\ FALSE \in Matches(t)
        /\ idx' = [idx EXCEPT ![t] = NextIndex(@)]
        /\ UNCHANGED pc
  /\ UNCHANGED <<numfiles, nodes, mutex, running, update, reply, todo, sent,
                 left, asked, known>>

MarkLock(t) ==
  /\ pc[t] = "marklock"
  /\ CanLock(mutex)
  /\ mutex' = t
  /\ Goto(t, "mark")
  /\ UNCHANGED <<numfiles, nodes, running, update, idx, reply, todo, sent,
                 left, asked, known>>

Mark(t) ==
  /\ pc[t] = "mark"
  /\ Store(idx[t], Marked(t, nodes[idx[t]]))
  /\ Goto(t, "markunlock")
  /\ UNCHANGED <<numfiles, update, idx, reply, todo, sent, left, asked, known>>

MarkUnlock(t) ==
  /\ pc[t] = "markunlock"
  /\ mutex' = Unlocked(mutex)
  /\ idx' = [idx EXCEPT ![t] = NextIndex(@)]
  /\ Goto(t, "scan")
  /\ UNCHANGED <<numfiles, nodes, running, update, reply, todo, sent, left,
                 asked, known>>

(* The end of handleFileUpdate.  broadcast_to_all_peers_except loops over  *)
(* the connected peers and sends nothing: the call in its body is          *)
(* commented out.                                                          *)
Finish(t) ==
  /\ pc[t] = "finish"
  /\ update' = [update EXCEPT ![t] = NoUpdate]
  /\ idx' = [idx EXCEPT ![t] = 0]
  /\ known' = [known EXCEPT ![t] = 0]
  /\ Goto(t, "read")
  /\ UNCHANGED <<numfiles, nodes, mutex, running, reply, todo, sent, left,
                 asked>>

(* broadcast_to_peer: file_table_size is read first, then memcpy reads the *)
(* table in an order of its own choosing while other threads write it.     *)

ReadRequest(t) ==
  /\ pc[t] = "read" /\ left[t] > 0
  /\ left' = [left EXCEPT ![t] = @ - 1]
  /\ reply' = [reply EXCEPT ![t].size = numfiles]
  /\ todo' = [todo EXCEPT ![t] = Cells]
  /\ Goto(t, "copy")
  /\ UNCHANGED <<numfiles, nodes, mutex, running, update, idx, sent, asked,
                 known>>

CopyCell(t) ==
  /\ pc[t] = "copy"
  /\ \E c \in todo[t] :
       /\ todo' = [todo EXCEPT ![t] = @ \ {c}]
       /\ reply' = IF c = CountCell
                   THEN [reply EXCEPT ![t].count = numfiles]
                   ELSE [reply EXCEPT ![t].nodes[c] = nodes[c]]
  /\ UNCHANGED <<numfiles, nodes, mutex, running, pc, update, idx, sent, left,
                 asked, known>>

SendTable(t) ==
  /\ pc[t] = "copy" /\ todo[t] = {}
  /\ sent' = [sent EXCEPT ![t] = reply[t]]
  /\ reply' = [reply EXCEPT ![t] = EmptyTable]
  /\ Goto(t, "read")
  /\ UNCHANGED <<numfiles, nodes, mutex, running, update, idx, todo, left,
                 asked, known>>

-----------------------------------------------------------------------------
Lock(t) == AddLock(t) \/ MarkLock(t)

Handle(t) ==
  \/ TestRoom(t) \/ WriteNode(t) \/ CountNode(t) \/ AddUnlock(t)
  \/ Scan(t) \/ Mark(t) \/ MarkUnlock(t) \/ Finish(t)
  \/ CopyCell(t) \/ SendTable(t)

Next ==
  /\ running
  /\ \E t \in Threads :
       ReadUpdate(t) \/ ReadRequest(t) \/ Lock(t) \/ Handle(t)

Spec == Init /\ [][Next]_vars

(* A runnable thread is eventually scheduled, and a mutex released again   *)
(* and again is eventually obtained.  Peers need not send anything.        *)
FairSpec ==
  /\ Spec
  /\ \A t \in Threads : WF_vars(running /\ Handle(t))
  /\ \A t \in Threads : SF_vars(running /\ Lock(t))

-----------------------------------------------------------------------------
(***************************************************************************)
(* Properties.                                                             *)
(***************************************************************************)

Labels == {"read", "room", "addlock", "write", "count", "addunlock", "scan",
           "marklock", "mark", "markunlock", "finish", "copy"}

Nodes == [name    : Names \cup {"unset"},
          status  : {"unset", "ADDED", "DELETED"},
          holders : Seq(Threads)]

Tables == [size : Nat, count : Nat, nodes : [Slots -> Nodes]]

(* Every variable has the shape of the C object it stands for. *)
TypeOK ==
  /\ numfiles \in Nat
  /\ nodes \in [Slots -> Nodes]
  /\ mutex \in Threads \cup {"free", "wedged"}
  /\ running \in BOOLEAN
  /\ pc \in [Threads -> Labels]
  /\ update \in [Threads -> Updates \cup {NoUpdate}]
  /\ idx \in [Threads -> Nat]
  /\ reply \in [Threads -> Tables]
  /\ todo \in [Threads -> SUBSET Cells]
  /\ sent \in [Threads -> Tables]
  /\ left \in [Threads -> Nat]
  /\ asked \subseteq Threads \X Updates
  /\ known \in [Threads -> Nat]

(* The published entries that the array really holds. *)
Filled == IF numfiles < MAX_FILES THEN numfiles ELSE MAX_FILES

(* The table is tested for room before the mutex is taken, so several      *)
(* threads can pass the test on the last free entry: numfiles overshoots   *)
(* the array, but by no more than one entry for each thread.               *)
OvershootBounded == numfiles <= MAX_FILES + Cardinality(Threads)

(* Between filling an entry and counting it, nobody else fills the same    *)
(* one: each announcement a thread publishes is its own, none is lost.     *)
PublishesItsOwn ==
  \A t \in Threads :
    pc[t] = "count" /\ numfiles < MAX_FILES => nodes[numfiles] = NewNode(t)

(* However the table grows and changes under a scan, when a DELETED update *)
(* has been handled every matching entry that was published when the       *)
(* handler started is a tombstone.                                         *)
DeleteReachesAll ==
  \A t \in Threads :
    pc[t] = "finish" /\ update[t].status = "DELETED" =>
      \A i \in Slots :
        i < known[t] /\ <<update[t].name, nodes[i].name>> \in PrefixOf
          => nodes[i].status = "DELETED"

(* Nothing appears in the table without a cause: a published entry was     *)
(* announced under its own name, a tombstone was asked for, and each       *)
(* holder sent an update that reaches this entry.                          *)
Reaches(u, node, S) ==
  u.status \in S /\ <<u.name, node.name>> \in PrefixOf

Announced(node, past) ==
  \E a \in past : a[2] = [status |-> "ADDED", name |-> node.name]
Offered(node, holder, past) ==
  \E a \in past : a[1] = holder /\ Reaches(a[2], node, Statuses \ {"DELETED"})
Removed(node, past) == \E a \in past : Reaches(a[2], node, {"DELETED"})

Caused(node, past) ==
  /\ Announced(node, past)
  /\ node.holders # << >>
  /\ \A k \in DOMAIN node.holders : Offered(node, node.holders[k], past)
  /\ node.status = "DELETED" => Removed(node, past)

Accountable == \A i \in 0..Filled - 1 : Caused(nodes[i], asked)

(* A table is copied while others write it, so it may mix entries of       *)
(* several moments and may hold the unpublished one.  Still, each entry a  *)
(* peer is sent is untouched memory or has a cause, and every entry that   *)
(* was published when the request was read is in it.                       *)
SentAccountable ==
  \A t \in Threads, i \in Slots :
    /\ i < sent[t].size => sent[t].nodes[i] # EmptyNode
    /\ sent[t].nodes[i] # EmptyNode => Caused(sent[t].nodes[i], asked)

(* The tables a connection is sent never go back in time, although each is *)
(* copied without the mutex: counts grow, a name once seen stays in its    *)
(* place, a tombstone once seen stays.                                     *)
Succeeds(old, new) ==
  /\ old.size <= new.size /\ old.count <= new.count
  /\ new.size <= new.count
  /\ \A i \in Slots :
       /\ old.nodes[i].name # "unset" =>
            new.nodes[i].name = old.nodes[i].name
       /\ old.nodes[i].status = "DELETED" =>
            new.nodes[i].status = "DELETED"

TablesMoveForward ==
  [][\A t \in Threads : Succeeds(sent[t], sent'[t])]_sent

(* The array, its mutex and its threads implement the log of FileLog.      *)
Published == [i \in 1..Filled |-> nodes[i - 1]]

Log == INSTANCE FileLog
         WITH log <- Published, Peers <- Threads, Capacity <- MAX_FILES

ImplementsLog == Log!Spec

(* A handler that has begun comes to its end, whatever the other threads   *)
(* do, unless an overrun has wedged the mutex or killed the process.       *)
HandlersReturn ==
  \A t \in Threads :
    pc[t] # "read" ~> (pc[t] = "read" \/ ~running \/ mutex = "wedged")
=============================================================================
