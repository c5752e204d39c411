------------------------------ MODULE PeerTable ------------------------------
(***************************************************************************)
(* tracker_side_peer_table (tracker/tracker.c) and everything that works   *)
(* on it without a lock: the main thread that accepts connections, one     *)
(* handshake thread per connection, and monitor_peers.  A slot holds a     *)
(* pointer; what it points to is an address of a small heap, so that a     *)
(* freed entry, an entry not yet filled in and an address handed out again *)
(* are what they are in C.  Every read or write of shared memory is a step.*)
(*                                                                         *)
(* Descriptors are the kernel's: accept takes the lowest free number,      *)
(* close makes a number free while a thread already blocked in read()      *)
(* keeps reading the connection it blocked on.  The connection stands for  *)
(* the peer behind it.                                                     *)
(***************************************************************************)
EXTENDS Integers, FiniteSets

CONSTANTS Conns,           \* connections, each with its handshake thread
          Addrs,           \* heap addresses malloc can return
          MAX_PEER_SLOTS,  \* length of the table
          MaxFD,           \* descriptors accept can hand out
          Messages,        \* what a registered peer sends
          Quiet,           \* bound: the peers that may fall silent
          NULL             \* the null pointer

ASSUME ConnsAssumption ==
  IsFiniteSet(Conns) /\ "monitor" \notin Conns /\ NULL \notin Conns
ASSUME QuietAssumption == Quiet \subseteq Conns
ASSUME AddrsAssumption == IsFiniteSet(Addrs) /\ NULL \notin Addrs
ASSUME BoundsAssumption == MAX_PEER_SLOTS \in Nat \ {0} /\ MaxFD \in Nat \ {0}
ASSUME MessagesAssumption ==
  Messages \subseteq {"KEEP_ALIVE", "FILE_UPDATE", "PEER_CLOSE"}

VARIABLES
  alive,    \* FALSE once the process has exited, crashed or aborted
  conn,     \* the peer's end: "none", "open", "mute" (silent) or "gone"
  greeted,  \* the connections whose REGISTER has been read
  fdt,      \* the kernel's table: the connection behind each descriptor
  fd,       \* sockfd of each handshake thread
  file,     \* the connection a thread is blocked reading
  slot,     \* tracker_side_peer_table
  entry,    \* the tracker_peer_t at each address
  pool,     \* how many times each address is on malloc's free lists
  pc,       \* what each thread is about to do
  at,       \* the loop index i of a thread
  index,    \* tableindex of each handshake thread
  back,     \* where disconnectpeer returns to
  blame,    \* history: the causes of disorder that have happened
  refused   \* history: the threads whose new_peer has turned a peer away

vars == <<alive, conn, greeted, fdt, fd, file, slot, entry, pool, pc, at, index,
          back, blame, refused>>
peers == <<conn, greeted, fdt, fd, file>>
memory == <<slot, entry, pool>>
history == <<blame, refused>>

Slots == 0..MAX_PEER_SLOTS - 1
FDs == 1..MaxFD
Threads == Conns \cup {"monitor"}
Blank == [sockfd |-> 0, stale |-> TRUE]   \* memory never used: all zeros

Init ==
  /\ alive = TRUE
  /\ conn = [c \in Conns |-> "none"]
  /\ greeted = {}
  /\ fdt = [f \in FDs |-> NULL]
  /\ fd = [c \in Conns |-> 0]
  /\ file = [c \in Conns |-> NULL]
  /\ slot = [s \in Slots |-> NULL]
  /\ entry = [a \in Addrs |-> Blank]
  /\ pool = [a \in Addrs |-> 1]
  /\ pc = [x \in Threads |-> IF x = "monitor" THEN "look" ELSE "start"]
  /\ at = [x \in Threads |-> 0]
  /\ index = [c \in Conns |-> -1]
  /\ back = [x \in Threads |-> "look"]
  /\ blame = {}
  /\ refused = {}
-----------------------------------------------------------------------------
(***************************************************************************)
(* Mistakes of the kind this code invites; each breaks a property when it  *)
(* takes the place of the operator it is named after.                      *)
(***************************************************************************)

ScanBoundShort == MAX_PEER_SLOTS - 1       \* the last slot is never tried

WalkBoundShort == MAX_PEER_SLOTS - 1       \* the last slot is never watched

EmptiedNot(i) == slot                      \* freed, and the pointer kept
-----------------------------------------------------------------------------
Goto(x, label) == pc' = [pc EXCEPT ![x] = label]

(* The slot a thread is disconnecting. *)
Target(x) == IF x = "monitor" THEN at[x] ELSE index[x]

(* Slot -1 is read as NULL: it falls into the padding the linker puts      *)
(* before the array.                                                       *)
At(i) == IF i \in Slots THEN slot[i] ELSE NULL

(* for (int i = 0; i < MAX_PEER_SLOTS; i++), in new_peer and in the other  *)
(* two loops                                                               *)
ScanBound == MAX_PEER_SLOTS
WalkBound == MAX_PEER_SLOTS

Vacant(i) == slot[i] = NULL

(* difference > HEARTBEAT_TIMEOUT *)
Expired(a) == entry[a].stale

Emptied(i) == [slot EXCEPT ![i] = NULL]

Registering(c) == pc[c] \in {"scan", "claim", "fill", "stamp"}

(* A loop index means nothing outside its loop. *)
Rewound(x) == at' = [at EXCEPT ![x] = 0]

(* A segmentation fault or an abort ends the process. *)
Crash == alive' = FALSE

-----------------------------------------------------------------------------
(***************************************************************************)
(* The main thread: accept, and a handshake thread for the connection.     *)
(***************************************************************************)

Accept(c) ==
  /\ conn[c] = "none"
  /\ \E f \in FDs :
       /\ fdt[f] = NULL /\ \A g \in FDs : g < f => fdt[g] # NULL
       /\ fdt' = [fdt EXCEPT ![f] = c]
       /\ fd' = [fd EXCEPT ![c] = f]
  /\ conn' = [conn EXCEPT ![c] = "open"]
  /\ Goto(c, "read")
  /\ UNCHANGED <<alive, greeted, file, memory, at, index, back, history>>

(* accept fails for want of a descriptor: the loop breaks and main returns. *)
AcceptFails ==
  /\ \E c \in Conns : conn[c] = "none"
  /\ \A f \in FDs : fdt[f] # NULL
  /\ alive' = FALSE
  /\ UNCHANGED <<peers, memory, pc, at, index, back, history>>

(***************************************************************************)
(* The peers: one falls silent and may be heard again, or it is gone.      *)
(***************************************************************************)

Turn(c, from, to) ==
  /\ conn[c] \in from
  /\ conn' = [conn EXCEPT ![c] = to]
  /\ UNCHANGED <<alive, greeted, fdt, fd, file, memory, pc, at, index, back,
                 history>>

Mute(c) == c \in Quiet /\ Turn(c, {"open"}, "mute")
Resume(c) == Turn(c, {"mute"}, "open")
Leave(c) == Turn(c, {"open", "mute"}, "gone")

(* More than HEARTBEAT_TIMEOUT seconds without a message. *)
Silent(f) == \A c \in Conns : fdt[f] = c => conn[c] = "mute"

Age(a) ==
  /\ entry[a].sockfd \in FDs /\ Silent(entry[a].sockfd)
  /\ ~entry[a].stale
  /\ entry' = [entry EXCEPT ![a].stale = TRUE]
  /\ UNCHANGED <<alive, peers, slot, pool, pc, at, index, back, history>>

(***************************************************************************)
(* handshake                                                               *)
(***************************************************************************)

LeavingToStart(c) == Goto(c, "check") /\ back' = [back EXCEPT ![c] = "start"]

Leaving(c) == Goto(c, "check") /\ back' = [back EXCEPT ![c] = "end"]

(* read() returns: the thread is blocked on no connection any more *)
Unblocked(c) ==
  /\ file' = [file EXCEPT ![c] = NULL]
  /\ UNCHANGED <<conn, fdt, fd>>

(* read() on a number: what it refers to now, or EBADF *)
Read(c) ==
  /\ pc[c] = "read"
  /\ file' = [file EXCEPT ![c] = fdt[fd[c]]]
  /\ IF fdt[fd[c]] = NULL
     THEN Leaving(c)
     ELSE Goto(c, "blocked") /\ UNCHANGED back
  /\ UNCHANGED <<alive, conn, greeted, fdt, fd, memory, at, index, history>>

ReadEnds(c) ==
  /\ pc[c] = "blocked" /\ conn[file[c]] = "gone"
  /\ Leaving(c)
  /\ Unblocked(c)
  /\ UNCHANGED <<alive, greeted, memory, at, index, history>>

ReadRegister(c) ==
  /\ pc[c] = "blocked" /\ conn[file[c]] = "open" /\ file[c] \notin greeted
  /\ greeted' = greeted \cup {file[c]}
  /\ Goto(c, "scan")
  /\ blame' = IF \E d \in Conns : Registering(d)
              THEN blame \cup {"overlap"} ELSE blame
  /\ Unblocked(c)
  /\ UNCHANGED <<alive, memory, at, index, back, refused>>

Receives(c, message) ==
  /\ pc[c] = "blocked" /\ conn[file[c]] = "open" /\ file[c] \in greeted
  /\ message \in Messages

ReadKeepAlive(c) ==
  /\ Receives(c, "KEEP_ALIVE")
  /\ Goto(c, "beat")
  /\ Unblocked(c)
  /\ UNCHANGED <<alive, greeted, memory, at, index, back, history>>

ReadFileUpdate(c) ==
  /\ Receives(c, "FILE_UPDATE")
  /\ Goto(c, "look")
  /\ Unblocked(c)
  /\ UNCHANGED <<alive, greeted, memory, at, index, back, history>>

ReadClose(c) ==
  /\ Receives(c, "PEER_CLOSE")
  /\ Goto(c, "check")
  /\ back' = [back EXCEPT ![c] = "read"]
  /\ blame' = blame \cup {"close"}
  /\ Unblocked(c)
  /\ UNCHANGED <<alive, greeted, memory, at, index, refused>>

(* new_peer *)

Scan(c) ==
  /\ pc[c] = "scan" /\ at[c] < ScanBound
  /\ IF Vacant(at[c])
     THEN Goto(c, "claim") /\ UNCHANGED at
     ELSE at' = [at EXCEPT ![c] = @ + 1] /\ UNCHANGED pc
  /\ UNCHANGED <<alive, peers, memory, index, back, history>>

Refuse(c) ==
  /\ pc[c] = "scan" /\ at[c] >= ScanBound
  /\ index' = [index EXCEPT ![c] = -1]
  /\ Rewound(c)
  /\ Goto(c, "read")
  /\ refused' = refused \cup {c}
  /\ UNCHANGED <<alive, peers, memory, back, blame>>

Claim(c) ==
  /\ pc[c] = "claim"
  /\ \E a \in Addrs :
       /\ pool[a] > 0
       /\ pool' = [pool EXCEPT ![a] = @ - 1]
       /\ slot' = [slot EXCEPT ![at[c]] = a]
  /\ Goto(c, "fill")
  /\ UNCHANGED <<alive, peers, entry, at, index, back, blame, refused>>

(* malloc leaves in the entry what its last user left there.  The slot is  *)
(* read again for every field: once to compare it with NULL, then to store *)
(* through it.                                                             *)
FillSockfd(c) ==
  /\ pc[c] = "fill"
  /\ \/ /\ Vacant(at[c])
        /\ index' = [index EXCEPT ![c] = -1]
        /\ Rewound(c)
        /\ Goto(c, "read")
        /\ UNCHANGED <<alive, entry>>
     \/ Vacant(at[c]) /\ Crash /\ UNCHANGED <<entry, at, index, pc>>
     \/ /\ ~Vacant(at[c])
        /\ entry' = [entry EXCEPT ![slot[at[c]]].sockfd = fd[c]]
        /\ Goto(c, "stamp")
        /\ UNCHANGED <<alive, at, index>>
  /\ UNCHANGED <<peers, slot, pool, back, history>>

(* The stamp is set and the new peer is sent the table. *)
FillStamp(c) ==
  /\ pc[c] = "stamp"
  /\ IF Vacant(at[c])
     THEN Crash /\ UNCHANGED <<entry, at, index, pc>>
     ELSE /\ entry' = [entry EXCEPT ![slot[at[c]]].stale = FALSE]
          /\ index' = [index EXCEPT ![c] = at[c]]
          /\ Rewound(c)
          /\ Goto(c, "read")
          /\ UNCHANGED alive
  /\ UNCHANGED <<peers, slot, pool, back, blame, refused>>

(* KEEP_ALIVE: the slot is compared with NULL, then stamped. *)
Beat(c) ==
  /\ pc[c] = "beat"
  /\ Goto(c, IF At(index[c]) = NULL THEN "read" ELSE "refresh")
  /\ UNCHANGED <<alive, peers, memory, at, index, back, history>>

(* Then the table is sent, to whatever sockfd refers to now.  A peer that  *)
(* died without reading an earlier table has reset the connection, and     *)
(* SIGPIPE ends the process.                                               *)
MayBreak(c) == fdt[fd[c]] # NULL /\ conn[fdt[fd[c]]] = "gone"

Refresh(c) ==
  /\ pc[c] = "refresh"
  /\ IF At(index[c]) = NULL
     THEN Crash /\ UNCHANGED <<entry, pc>>
     ELSE /\ entry' = [entry EXCEPT ![slot[index[c]]].stale = FALSE]
          /\ Goto(c, "read")
          /\ alive' \in (IF MayBreak(c) THEN BOOLEAN ELSE {TRUE})
  /\ UNCHANGED <<peers, slot, pool, at, index, back, history>>

(***************************************************************************)
(* The loops over the table: monitor_peers looks for expired entries, and  *)
(* the end of handleFileUpdate (broadcast_to_all_peers_except) reads every *)
(* entry and sends nothing.                                                *)
(***************************************************************************)

Look(x) ==
  /\ pc[x] = "look" /\ at[x] < WalkBound
  /\ IF Vacant(at[x])
     THEN at' = [at EXCEPT ![x] = @ + 1] /\ UNCHANGED pc
     ELSE Goto(x, "peek") /\ UNCHANGED at
  /\ UNCHANGED <<alive, peers, memory, index, back, history>>

Peek(x) ==
  /\ pc[x] = "peek"
  /\ \/ Vacant(at[x]) /\ Crash /\ UNCHANGED <<pc, at, blame>>
     \/ /\ ~Vacant(at[x]) /\ x = "monitor" /\ Expired(slot[at[x]])
        /\ Goto(x, "check")
        /\ blame' = blame \cup {"timeout"}
        /\ UNCHANGED <<alive, at>>
     \/ /\ ~Vacant(at[x]) /\ (x = "monitor" => ~Expired(slot[at[x]]))
        /\ at' = [at EXCEPT ![x] = @ + 1]
        /\ Goto(x, "look")
        /\ UNCHANGED <<alive, blame>>
  /\ UNCHANGED <<peers, memory, index, back, refused>>

(* monitor_peers sleeps and starts again; a handshake thread reads on. *)
WalkEnds(x) ==
  /\ pc[x] = "look" /\ at[x] >= WalkBound
  /\ Rewound(x)
  /\ Goto(x, IF x = "monitor" THEN "look" ELSE "read")
  /\ UNCHANGED <<alive, peers, memory, index, back, history>>

(***************************************************************************)
(* disconnectpeer, which reads the slot again for each of its steps        *)
(***************************************************************************)

Return(x) ==
  /\ Goto(x, back[x])
  /\ at' = IF x = "monitor" THEN [at EXCEPT ![x] = @ + 1] ELSE at
  /\ index' = IF back[x] = "end" THEN [index EXCEPT ![x] = -1] ELSE index

CheckSlot(x) ==
  /\ pc[x] = "check"
  /\ IF At(Target(x)) = NULL
     THEN Return(x)
     ELSE Goto(x, "close") /\ UNCHANGED <<at, index>>
  /\ UNCHANGED <<alive, peers, memory, back, history>>

CloseSocket(x) ==
  /\ pc[x] = "close"
  /\ IF At(Target(x)) = NULL
     THEN Crash /\ UNCHANGED <<fdt, pc>>
     ELSE /\ fdt' = [f \in FDs |-> IF f = entry[At(Target(x))].sockfd
                                   THEN NULL ELSE fdt[f]]
          /\ Goto(x, "free")
          /\ UNCHANGED alive
  /\ UNCHANGED <<conn, greeted, fd, file, memory, at, index, back, history>>

(* free(NULL) does nothing; freeing twice is noticed and aborts, or not. *)
FreeEntry(x) ==
  /\ pc[x] = "free"
  /\ LET a == At(Target(x)) IN
       IF a = NULL
       THEN UNCHANGED <<pool, alive>>
       ELSE /\ pool' = [pool EXCEPT ![a] = @ + 1]
            /\ alive' \in (IF pool[a] > 0 THEN BOOLEAN ELSE {TRUE})
  /\ Goto(x, "clear")
  /\ UNCHANGED <<peers, slot, entry, at, index, back, history>>

ClearSlot(x) ==
  /\ pc[x] = "clear"
  /\ slot' = Emptied(Target(x))
  /\ Return(x)
  /\ UNCHANGED <<alive, peers, entry, pool, back, history>>

-----------------------------------------------------------------------------
Hear(c) ==
  ReadRegister(c) \/ ReadKeepAlive(c) \/ ReadFileUpdate(c) \/ ReadClose(c)

Handshake(c) ==
  \/ Read(c) \/ ReadEnds(c)
  \/ Scan(c) \/ Refuse(c) \/ Claim(c) \/ FillSockfd(c) \/ FillStamp(c)
  \/ Beat(c) \/ Refresh(c)

Walk(x) == Look(x) \/ Peek(x) \/ WalkEnds(x)

Disconnect(x) == CheckSlot(x) \/ CloseSocket(x) \/ FreeEntry(x) \/ ClearSlot(x)

Next ==
  /\ alive
  /\ \/ AcceptFails
     \/ \E c \in Conns :
          \/ Accept(c) \/ Mute(c) \/ Resume(c) \/ Leave(c)
          \/ Hear(c) \/ Handshake(c)
     \/ \E a \in Addrs : Age(a)
     \/ \E x \in Threads : Walk(x) \/ Disconnect(x)

Spec == Init /\ [][Next]_vars

(* Threads that can run are scheduled; peers need not connect or send.     *)
FairSpec ==
  /\ Spec
  /\ \A x \in Threads : WF_vars(alive /\ (Walk(x) \/ Disconnect(x)))
  /\ \A c \in Conns : WF_vars(alive /\ Handshake(c))

-----------------------------------------------------------------------------
(***************************************************************************)
(* Properties.                                                             *)
(***************************************************************************)

Labels == {"start", "read", "blocked", "scan", "claim", "fill", "stamp",
           "beat", "refresh", "look", "peek", "check", "close", "free",
           "clear", "end"}

(* Every variable has the shape of the C object it stands for. *)
TypeOK ==
  /\ alive \in BOOLEAN
  /\ conn \in [Conns -> {"none", "open", "mute", "gone"}]
  /\ greeted \subseteq Conns
  /\ fdt \in [FDs -> Conns \cup {NULL}]
  /\ fd \in [Conns -> FDs \cup {0}]
  /\ file \in [Conns -> Conns \cup {NULL}]
  /\ slot \in [Slots -> Addrs \cup {NULL}]
  /\ entry \in [Addrs -> [sockfd : FDs \cup {0}, stale : BOOLEAN]]
  /\ pool \in [Addrs -> Nat]
  /\ pc \in [Threads -> Labels]
  /\ at \in [Threads -> 0..MAX_PEER_SLOTS]
  /\ index \in [Conns -> Slots \cup {-1}]
  /\ back \in [Threads -> {"look", "read", "end"}]
  /\ blame \subseteq {"overlap", "timeout", "close"}
  /\ refused \subseteq Conns

(* The slot of a registered connection, until its own disconnectpeer has   *)
(* begun, leads to its descriptor, and that descriptor to it.              *)
Registered(c) ==
  index[c] >= 0 /\ pc[c] \notin {"close", "free", "clear"}

Holds(c, s) ==
  slot[s] # NULL /\ entry[slot[s]].sockfd = fd[c] /\ fdt[fd[c]] = c

(* As long as registrations do not overlap, nobody times out and nobody    *)
(* says PEER_CLOSE, the table is exact, whatever connections come, go and  *)
(* reuse descriptors and heap addresses: every registered connection has   *)
(* its slot, and every slot in use is a registered or registering one's.   *)
TableExact ==
  blame = {} =>
    /\ \A c \in Conns : Registered(c) => Holds(c, index[c])
    /\ \A s \in Slots : slot[s] # NULL =>
         \E c \in Conns :
           index[c] = s \/ (pc[c] \in {"fill", "stamp"} /\ at[c] = s)

(* The table has as many places as it has slots: peers are turned away     *)
(* only when at least as many more than there are slots have registered,   *)
(* although new_peer's scan takes no lock, the slots it looks at change    *)
(* hands behind it, and threads read each other's connections once a       *)
(* descriptor has been closed under them.                                  *)
RefusedBeyondSlots ==
  refused # {} =>
    Cardinality(greeted) >= MAX_PEER_SLOTS + Cardinality(refused)

(* A peer that stays silent loses its slot, whatever the other threads do. *)
SilentPeerReclaimed ==
  \A s \in Slots :
    (slot[s] # NULL /\ entry[slot[s]].stale)
      ~> (slot[s] = NULL \/ ~entry[slot[s]].stale \/ ~alive)

(***************************************************************************)
(* What README.md says, and the code does not do.                          *)
(***************************************************************************)

(* "new_peer() [...] adds the peer to the table": a peer that has been     *)
(* answered is in the table, unless a time-out or a close took it out.     *)
RegistrationKept ==
  blame \subseteq {"overlap"} =>
    \A c \in Conns : Registered(c) => Holds(c, index[c])
=============================================================================
