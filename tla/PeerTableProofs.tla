--------------------------- MODULE PeerTableProofs ---------------------------
(***************************************************************************)
(* Proofs about PeerTable, for any number of connections, descriptors,     *)
(* heap addresses and slots.                                               *)
(***************************************************************************)
EXTENDS PeerTable, FiniteSetTheorems, TLAPS

(* What every interleaving keeps: descriptors are read once there are any, *)
(* table indices are used inside their loops, and monitor_peers is in its  *)
(* own loop.                                                               *)
Disconnecting(x) == pc[x] \in {"check", "close", "free", "clear"}

BoundsInv ==
  /\ \A c \in Conns :
       /\ conn[c] = "none" => pc[c] = "start"
       /\ pc[c] # "start" => fd[c] \in FDs
       /\ pc[c] = "blocked" => file[c] \in Conns
       /\ pc[c] \in {"claim", "fill", "stamp", "peek"} => at[c] \in Slots
  /\ pc["monitor"] \in {"look", "peek"} \/ Disconnecting("monitor")
  /\ pc["monitor"] # "look" => at["monitor"] \in Slots
  /\ back["monitor"] = "look"

(* No two registrations have overlapped, nobody has timed out and nobody   *)
(* has said PEER_CLOSE.  The rest of the invariant is about these states.  *)
Calm == blame = {}

(* The course of one connection: it registers once, reads what its own     *)
(* peer sends, and owns its descriptor until it closes it for good.        *)
CourseInv(c) ==
  /\ Registering(c) \/ index[c] # -1 => c \in greeted
  /\ Registering(c) \/ pc[c] \in {"start", "end"} => index[c] = -1
  /\ Disconnecting(c) => back[c] = "end"
  /\ pc[c] \in {"close", "free", "clear"} => index[c] \in Slots
  /\ pc[c] = "blocked" => file[c] = c
  /\ pc[c] \notin {"start", "free", "clear", "end"} => fdt[fd[c]] = c
  /\ ~Registering(c) /\ pc[c] \notin {"look", "peek"} => at[c] = 0

FlowInv ==
  /\ pc["monitor"] \in {"look", "peek"}
  /\ \A c \in Conns : CourseInv(c)
  /\ \A c, d \in Conns : Registering(c) /\ Registering(d) => c = d

(* A connection has a slot from its claim until it clears it.              *)
Has(c, s) == index[c] = s \/ (pc[c] \in {"fill", "stamp"} /\ at[c] = s)

(* The slots in use are those that connections have, one each.             *)
OwnerInv ==
  /\ \A c \in Conns : pc[c] = "claim" => slot[at[c]] = NULL
  /\ \A c \in Conns, s \in Slots : Has(c, s) => slot[s] # NULL
  /\ \A c, d \in Conns, s \in Slots : Has(c, s) /\ Has(d, s) => c = d
  /\ \A s \in Slots : slot[s] # NULL => \E c \in Conns : Has(c, s)

(* A connection's entry is its own until it has been freed, although the   *)
(* slot still points to it then and malloc may hand it to somebody else.   *)
InUse(c, s) == Has(c, s) /\ pc[c] # "clear"

HeapInv ==
  /\ \A a \in Addrs : pool[a] <= 1
  /\ \A c \in Conns, s \in Slots : InUse(c, s) => pool[slot[s]] = 0
  /\ \A c, d \in Conns, s, r \in Slots :
       InUse(c, s) /\ InUse(d, r) /\ slot[s] = slot[r] => s = r
  /\ \A c \in Conns, s \in Slots :
       InUse(c, s) /\ pc[c] # "fill" => entry[slot[s]].sockfd = fd[c]

CalmInv == FlowInv /\ OwnerInv /\ HeapInv
CalmOK == Calm => CalmInv
-----------------------------------------------------------------------------
USE ConnsAssumption, QuietAssumption, AddrsAssumption, BoundsAssumption,
    MessagesAssumption

(* The shape of the variables and the bounds of the indices are kept by    *)
(* every step.                                                             *)
LEMMA InitTypes == Init => TypeOK /\ BoundsInv
BY DEF Init, TypeOK, BoundsInv, Disconnecting, Blank, Threads, Slots, FDs, Labels

LEMMA EntryParts ==
  ASSUME TypeOK, NEW a \in Addrs,
         \/ \E f \in FDs \cup {0} : entry' = [entry EXCEPT ![a].sockfd = f]
         \/ \E b \in BOOLEAN : entry' = [entry EXCEPT ![a].stale = b]
  PROVE  entry' \in [Addrs -> [sockfd : FDs \cup {0}, stale : BOOLEAN]]
<1>1. entry \in [Addrs -> [sockfd : FDs \cup {0}, stale : BOOLEAN]]
  BY DEF TypeOK
<1>2. CASE \E f \in FDs \cup {0} : entry' = [entry EXCEPT ![a].sockfd = f]
  BY <1>1, <1>2
<1>3. CASE \E b \in BOOLEAN : entry' = [entry EXCEPT ![a].stale = b]
  BY <1>1, <1>3
<1> QED
  BY <1>2, <1>3

LEMMA PeerSteps ==
  ASSUME TypeOK, BoundsInv, NEW c \in Conns,
         Accept(c) \/ Mute(c) \/ Resume(c) \/ Leave(c)
  PROVE  TypeOK' /\ BoundsInv'
<1> USE DEF TypeOK, Goto, Threads
<1>1. CASE Accept(c)
  <2>1. TypeOK'
    <3>1. fdt' \in [FDs -> Conns \cup {NULL}] /\ fd' \in [Conns -> FDs \cup {0}]
      BY <1>1 DEF Accept
    <3>2. /\ conn' \in [Conns -> {"none", "open", "mute", "gone"}]
          /\ pc' \in [Threads -> Labels]
      BY <1>1 DEF Accept, Labels
    <3>3. UNCHANGED <<alive, greeted, file, memory, at, index, back, history>>
      BY <1>1 DEF Accept
    <3> QED
      BY <3>1, <3>2, <3>3 DEF memory, history
  <2>2. BoundsInv'
    BY <1>1 DEF Accept, BoundsInv, Disconnecting, memory, history
  <2> QED
    BY <2>1, <2>2
<1>2. CASE Mute(c) \/ Resume(c) \/ Leave(c)
  <2>0. /\ conn' \in [Conns -> {"none", "open", "mute", "gone"}]
        /\ UNCHANGED <<alive, greeted, fdt, fd, file, memory, pc, at, index, back,
                       history>>
    BY <1>2 DEF Mute, Resume, Leave, Turn
  <2>1. TypeOK'
    BY <2>0 DEF memory, history
  <2>2. BoundsInv'
    <3>1. \A d \in Conns : conn'[d] = "none" => conn[d] = "none"
      BY <1>2 DEF Mute, Resume, Leave, Turn
    <3> QED
      BY <2>0, <3>1 DEF BoundsInv, Disconnecting
  <2> QED
    BY <2>1, <2>2
<1> QED
  BY <1>1, <1>2

LEMMA HearTypes ==
  ASSUME TypeOK, BoundsInv, NEW c \in Conns, Hear(c)
  PROVE  TypeOK' /\ BoundsInv'
<1> USE DEF TypeOK, Goto, Threads, Unblocked
<1>1. CASE ReadRegister(c)
  <2>1. TypeOK'
    BY <1>1 DEF ReadRegister, BoundsInv, memory, Labels
  <2>2. BoundsInv'
    BY <1>1 DEF ReadRegister, BoundsInv, Disconnecting, memory
  <2> QED
    BY <2>1, <2>2
<1>2. CASE ReadKeepAlive(c)
  <2>1. TypeOK'
    BY <1>2 DEF ReadKeepAlive, Receives, memory, history, Labels
  <2>2. BoundsInv'
    BY <1>2 DEF ReadKeepAlive, Receives, BoundsInv, Disconnecting, memory, history
  <2> QED
    BY <2>1, <2>2
<1>3. CASE ReadFileUpdate(c)
  <2>1. TypeOK'
    BY <1>3 DEF ReadFileUpdate, Receives, memory, history, Labels
  <2>2. BoundsInv'
    BY <1>3 DEF ReadFileUpdate, Receives, BoundsInv, Disconnecting, memory, history
  <2> QED
    BY <2>1, <2>2
<1>4. CASE ReadClose(c)
  <2>1. TypeOK'
    BY <1>4 DEF ReadClose, Receives, memory, Labels
  <2>2. BoundsInv'
    BY <1>4 DEF ReadClose, Receives, BoundsInv, Disconnecting, memory
  <2> QED
    BY <2>1, <2>2
<1> QED
  BY <1>1, <1>2, <1>3, <1>4 DEF Hear

LEMMA HandshakeTypes ==
  ASSUME TypeOK, BoundsInv, NEW c \in Conns, Handshake(c)
  PROVE  TypeOK' /\ BoundsInv'
<1> USE DEF TypeOK, Goto, Threads
<1>1. CASE Read(c) \/ ReadEnds(c)
  <2>1. TypeOK'
    <3>1. CASE Read(c)
      <4>1. fdt[fd[c]] \in Conns \cup {NULL}
        BY <3>1 DEF Read, BoundsInv
      <4>2. file' \in [Conns -> Conns \cup {NULL}]
        BY <3>1, <4>1 DEF Read
      <4> QED
        BY <3>1, <4>2 DEF Read, Leaving, memory, history, Labels
    <3>2. CASE ReadEnds(c)
      <4>1. file' \in [Conns -> Conns \cup {NULL}]
        BY <3>2 DEF ReadEnds, Unblocked
      <4> QED
        BY <3>2, <4>1 DEF ReadEnds, Leaving, Goto, Unblocked, memory, history, Labels
    <3> QED
      BY <1>1, <3>1, <3>2
  <2>2. BoundsInv'
    BY <1>1 DEF Read, ReadEnds, Leaving, Unblocked, BoundsInv, Disconnecting,
       memory, history
  <2> QED
    BY <2>1, <2>2
<1>2. CASE Scan(c)
  <2>1. TypeOK'
    BY <1>2 DEF Scan, ScanBound, peers, memory, history, Labels
  <2>2. BoundsInv'
    <3>1. at[c] \in Slots
      BY <1>2 DEF Scan, ScanBound, Slots
    <3> QED
      BY <1>2, <3>1 DEF Scan, BoundsInv, Disconnecting, peers, memory, history
  <2> QED
    BY <2>1, <2>2
<1>3. CASE Refuse(c)
  <2>1. TypeOK'
    BY <1>3 DEF Refuse, Rewound, peers, memory, Labels
  <2>2. BoundsInv'
    BY <1>3 DEF Refuse, Rewound, BoundsInv, Disconnecting, peers, memory
  <2> QED
    BY <2>1, <2>2
<1>4. CASE Claim(c)
  <2>1. TypeOK'
    <3>1. PICK a \in Addrs :
            /\ pool[a] > 0
            /\ pool' = [pool EXCEPT ![a] = @ - 1]
            /\ slot' = [slot EXCEPT ![at[c]] = a]
      BY <1>4 DEF Claim
    <3>2. pool[a] - 1 \in Nat
      BY <3>1
    <3>3. pool' \in [Addrs -> Nat] /\ slot' \in [Slots -> Addrs \cup {NULL}]
      BY <3>1, <3>2
    <3> QED
      BY <1>4, <3>3 DEF Claim, peers, Labels
  <2>2. BoundsInv'
    BY <1>4 DEF Claim, BoundsInv, Disconnecting, peers
  <2> QED
    BY <2>1, <2>2
<1>5. CASE FillSockfd(c)
  <2>1. TypeOK'
    <3>1. at[c] \in Slots /\ (~Vacant(at[c]) => slot[at[c]] \in Addrs)
      BY <1>5 DEF FillSockfd, Vacant, BoundsInv
    <3>2. entry' \in [Addrs -> [sockfd : FDs \cup {0}, stale : BOOLEAN]]
      <4>1. CASE entry' = entry
        BY <4>1
      <4>2. CASE ~(Vacant(at[c])) /\ entry' = [entry EXCEPT ![slot[at[c]]].sockfd = fd[c]]
        BY <3>1, <4>2, EntryParts
      <4> QED
        BY <1>5, <4>1, <4>2 DEF FillSockfd
    <3>3. pc' \in [Threads -> Labels] /\ alive' \in BOOLEAN
      <4>1. \/ pc' = [pc EXCEPT ![c] = "read"]
            \/ pc' = [pc EXCEPT ![c] = "stamp"]
            \/ pc' = pc
        BY <1>5 DEF FillSockfd
      <4>2. pc' \in [Threads -> Labels]
        BY <4>1 DEF Labels
      <4>3. alive' \in {alive, FALSE}
        BY <1>5 DEF FillSockfd, Crash
      <4> QED
        BY <4>2, <4>3
    <3>4. /\ at' \in [Threads -> 0..MAX_PEER_SLOTS]
          /\ index' \in [Conns -> Slots \cup {-1}]
      BY <1>5 DEF FillSockfd, Rewound
    <3>5. UNCHANGED <<peers, slot, pool, back, history>>
      BY <1>5 DEF FillSockfd
    <3> QED
      BY <3>2, <3>3, <3>4, <3>5 DEF peers, history
  <2>2. BoundsInv'
    BY <1>5 DEF FillSockfd, Vacant, Rewound, Crash, BoundsInv, Disconnecting,
       peers, history
  <2> QED
    BY <2>1, <2>2
<1>6. CASE FillStamp(c)
  <2>1. TypeOK'
    <3>1. at[c] \in Slots /\ (~Vacant(at[c]) => slot[at[c]] \in Addrs)
      BY <1>6 DEF FillStamp, Vacant, BoundsInv
    <3>2. entry' \in [Addrs -> [sockfd : FDs \cup {0}, stale : BOOLEAN]]
      <4>1. CASE entry' = entry
        BY <4>1
      <4>2. CASE ~(Vacant(at[c])) /\ entry' = [entry EXCEPT ![slot[at[c]]].stale = FALSE]
        BY <3>1, <4>2, EntryParts
      <4> QED
        BY <1>6, <4>1, <4>2 DEF FillStamp
    <3>3. pc' \in [Threads -> Labels] /\ alive' \in BOOLEAN
      BY <1>6 DEF FillStamp, Crash, Goto, Labels
    <3>4. /\ at' \in [Threads -> 0..MAX_PEER_SLOTS]
          /\ index' \in [Conns -> Slots \cup {-1}]
      <4>1. CASE Rewound(c) /\ index' = [index EXCEPT ![c] = at[c]]
        BY <3>1, <4>1 DEF Rewound
      <4>2. CASE UNCHANGED <<at, index>>
        BY <4>2
      <4> QED
        BY <1>6, <4>1, <4>2 DEF FillStamp
    <3>5. UNCHANGED <<peers, slot, pool, back, blame, refused>>
      BY <1>6 DEF FillStamp
    <3> QED
      BY <3>2, <3>3, <3>4, <3>5 DEF peers, history
  <2>2. BoundsInv'
    BY <1>6 DEF FillStamp, Vacant, Rewound, Crash, BoundsInv, Disconnecting,
       peers, history
  <2> QED
    BY <2>1, <2>2
<1>7. CASE Beat(c)
  <2>1. TypeOK'
    BY <1>7 DEF Beat, peers, memory, history, Labels
  <2>2. BoundsInv'
    BY <1>7 DEF Beat, BoundsInv, Disconnecting, peers, memory, history
  <2> QED
    BY <2>1, <2>2
<1>8. CASE Refresh(c)
  <2>1. TypeOK'
    <3>1. At(index[c]) # NULL => slot[index[c]] \in Addrs
      BY DEF At
    <3>2. entry' \in [Addrs -> [sockfd : FDs \cup {0}, stale : BOOLEAN]]
      <4>1. CASE entry' = entry
        BY <4>1
      <4>2. CASE ~(At(index[c]) = NULL) /\ entry' = [entry EXCEPT ![slot[index[c]]].stale = FALSE]
        BY <3>1, <4>2, EntryParts
      <4> QED
        BY <1>8, <4>1, <4>2 DEF Refresh
    <3>3. alive' \in BOOLEAN /\ pc' \in [Threads -> Labels]
      <4>1. CASE At(index[c]) = NULL
        BY <1>8, <4>1 DEF Refresh, Crash
      <4>2. CASE At(index[c]) # NULL
        BY <1>8, <4>2 DEF Refresh, Labels
      <4> QED
        BY <4>1, <4>2
    <3>4. UNCHANGED <<peers, slot, pool, at, index, back, history>>
      BY <1>8 DEF Refresh
    <3> QED
      BY <3>2, <3>3, <3>4 DEF peers, history
  <2>2. BoundsInv'
    <3>1. /\ pc' = pc \/ pc' = [pc EXCEPT ![c] = "read"]
          /\ pc[c] = "refresh" /\ UNCHANGED <<peers, slot, pool, at, index, back, history>>
      BY <1>8 DEF Refresh
    <3> QED
      BY <3>1 DEF BoundsInv, Disconnecting, peers, history
  <2> QED
    BY <2>1, <2>2
<1> QED
  BY <1>1, <1>2, <1>3, <1>4, <1>5, <1>6, <1>7, <1>8 DEF Handshake

LEMMA WalkTypes ==
  ASSUME TypeOK, BoundsInv, NEW x \in Threads, Walk(x)
  PROVE  TypeOK' /\ BoundsInv'
<1> USE DEF TypeOK, Goto, Threads
<1>1. CASE Look(x)
  <2>1. TypeOK'
    BY <1>1 DEF Look, WalkBound, peers, memory, history, Labels
  <2>2. BoundsInv'
    <3>1. at[x] \in Slots
      BY <1>1 DEF Look, WalkBound, Slots
    <3> QED
      BY <1>1, <3>1 DEF Look, BoundsInv, Disconnecting, peers, memory, history
  <2> QED
    BY <2>1, <2>2
<1>2. CASE Peek(x)
  <2>1. TypeOK'
    <3>1. at[x] \in Slots
      BY <1>2 DEF Peek, BoundsInv
    <3>2. at' \in [Threads -> 0..MAX_PEER_SLOTS]
      <4>1. at[x] + 1 \in 0..MAX_PEER_SLOTS
        BY <3>1 DEF Slots
      <4> QED
        BY <1>2, <4>1 DEF Peek
    <3>3. pc' \in [Threads -> Labels] /\ alive' \in BOOLEAN
      <4>1. \/ pc' = pc
            \/ pc' = [pc EXCEPT ![x] = "check"]
            \/ pc' = [pc EXCEPT ![x] = "look"]
        BY <1>2 DEF Peek
      <4>2. pc' \in [Threads -> Labels]
        BY <4>1 DEF Labels
      <4>3. alive' \in {alive, FALSE}
        BY <1>2 DEF Peek, Crash
      <4> QED
        BY <4>2, <4>3
    <3>4. blame' \subseteq {"overlap", "timeout", "close"}
      BY <1>2 DEF Peek
    <3> QED
      BY <1>2, <3>2, <3>3, <3>4 DEF Peek, peers, memory
  <2>2. BoundsInv'
    BY <1>2 DEF Peek, Crash, BoundsInv, Disconnecting, peers, memory
  <2> QED
    BY <2>1, <2>2
<1>3. CASE WalkEnds(x)
  <2>1. TypeOK'
    BY <1>3 DEF WalkEnds, Rewound, peers, memory, history, Labels
  <2>2. BoundsInv'
    BY <1>3 DEF WalkEnds, Rewound, BoundsInv, Disconnecting, peers, memory, history
  <2> QED
    BY <2>1, <2>2
<1> QED
  BY <1>1, <1>2, <1>3 DEF Walk

(* disconnectpeer returns to the monitor's loop or to the handshake. *)
LEMMA ReturnTypes ==
  ASSUME TypeOK, BoundsInv, NEW x \in Threads, Disconnecting(x), Return(x)
  PROVE  /\ pc' \in [Threads -> Labels] /\ at' \in [Threads -> 0..MAX_PEER_SLOTS]
         /\ index' \in [Conns -> Slots \cup {-1}]
         /\ \A c \in Conns : pc'[c] # pc[c] => c = x /\ pc'[c] \in {"look", "read", "end"}
         /\ \A c \in Conns : at'[c] = at[c]
         /\ x # "monitor" => /\ at'["monitor"] = at["monitor"]
                             /\ pc'["monitor"] = pc["monitor"]
         /\ x = "monitor" => pc'["monitor"] = "look"
BY DEF Return, Goto, TypeOK, BoundsInv, Disconnecting, Threads, Labels, Slots

LEMMA DisconnectTypes ==
  ASSUME TypeOK, BoundsInv, NEW x \in Threads, Disconnect(x)
  PROVE  TypeOK' /\ BoundsInv'
<1>1. ASSUME Return(x), Disconnecting(x),
             UNCHANGED <<alive, peers, entry, pool, back, history>>,
             slot' \in [Slots -> Addrs \cup {NULL}]
      PROVE  TypeOK' /\ BoundsInv'
  <2>1. TypeOK'
    BY <1>1, ReturnTypes DEF TypeOK, peers, history
  <2>2. BoundsInv'
    BY <1>1, ReturnTypes DEF TypeOK, BoundsInv, Disconnecting, peers, history, Threads
  <2> QED
    BY <2>1, <2>2
<1>2. CASE CheckSlot(x)
  <2>1. CASE At(Target(x)) = NULL
    BY <1>2, <2>1, <1>1 DEF CheckSlot, Disconnecting, memory, TypeOK
  <2>2. CASE At(Target(x)) # NULL
    <3>1. TypeOK'
      BY <1>2, <2>2 DEF CheckSlot, TypeOK, Goto, peers, memory, history, Labels
    <3>2. BoundsInv'
      BY <1>2, <2>2 DEF CheckSlot, TypeOK, BoundsInv, Disconnecting, Goto,
         Threads, peers, memory, history
    <3> QED
      BY <3>1, <3>2
  <2> QED
    BY <2>1, <2>2
<1>3. CASE CloseSocket(x)
  <2>1. TypeOK'
    <3>1. fdt' \in [FDs -> Conns \cup {NULL}]
      BY <1>3 DEF CloseSocket, TypeOK
    <3>2. pc' \in [Threads -> Labels] /\ alive' \in BOOLEAN
      BY <1>3 DEF CloseSocket, TypeOK, Crash, Goto, Labels
    <3> QED
      BY <1>3, <3>1, <3>2 DEF CloseSocket, TypeOK, memory, history
  <2>2. BoundsInv'
    BY <1>3 DEF CloseSocket, TypeOK, BoundsInv, Disconnecting, Crash, Goto,
       Threads, memory, history
  <2> QED
    BY <2>1, <2>2
<1>4. CASE FreeEntry(x)
  <2>1. TypeOK'
    <3>1. At(Target(x)) \in Addrs \cup {NULL}
      BY DEF At, TypeOK
    <3>2. pool' \in [Addrs -> Nat]
      <4>1. CASE At(Target(x)) = NULL
        BY <1>4, <4>1 DEF FreeEntry, TypeOK
      <4>2. CASE At(Target(x)) # NULL
        <5>1. /\ At(Target(x)) \in Addrs
              /\ pool' = [pool EXCEPT ![At(Target(x))] = @ + 1]
          BY <1>4, <3>1, <4>2 DEF FreeEntry
        <5> QED
          BY <5>1 DEF TypeOK
      <4> QED
        BY <4>1, <4>2
    <3>3. alive' \in BOOLEAN
      BY <1>4 DEF FreeEntry, TypeOK
    <3> QED
      BY <1>4, <3>2, <3>3 DEF FreeEntry, TypeOK, Goto, peers, history, Labels
  <2>2. BoundsInv'
    BY <1>4 DEF FreeEntry, TypeOK, BoundsInv, Disconnecting, Goto, Threads,
       peers, history
  <2> QED
    BY <2>1, <2>2
<1>5. CASE ClearSlot(x)
  <2>1. slot' \in [Slots -> Addrs \cup {NULL}]
    BY <1>5 DEF ClearSlot, Emptied, TypeOK
  <2> QED
    BY <1>5, <2>1, <1>1 DEF ClearSlot, Disconnecting
<1> QED
  BY <1>2, <1>3, <1>4, <1>5 DEF Disconnect

LEMMA TypeStep ==
  TypeOK /\ BoundsInv /\ [Next]_vars => TypeOK' /\ BoundsInv'
<1> SUFFICES ASSUME TypeOK, BoundsInv, [Next]_vars PROVE TypeOK' /\ BoundsInv'
  OBVIOUS
<1>1. ASSUME NEW a \in Addrs, Age(a) PROVE TypeOK' /\ BoundsInv'
  <2>1. TypeOK'
    <3>1. entry' \in [Addrs -> [sockfd : FDs \cup {0}, stale : BOOLEAN]]
      BY <1>1, EntryParts DEF Age
    <3> QED
      BY <1>1, <3>1 DEF Age, TypeOK, peers, history
  <2>2. BoundsInv'
    BY <1>1 DEF Age, BoundsInv, Disconnecting, peers, history
  <2> QED
    BY <2>1, <2>2
<1>2. CASE AcceptFails
  BY <1>2 DEF AcceptFails, TypeOK, BoundsInv, Disconnecting, peers, memory, history
<1>3. CASE UNCHANGED vars
  BY <1>3 DEF vars, TypeOK, BoundsInv, Disconnecting
<1> QED
  BY <1>1, <1>2, <1>3, PeerSteps, HearTypes, HandshakeTypes, WalkTypes,
     DisconnectTypes DEF Next

(* Every variable keeps the shape of the C object it stands for, whatever  *)
(* the threads overwrite, free or close of one another.                    *)
THEOREM TypeCorrect == Spec => []TypeOK
<1>1. TypeOK /\ BoundsInv /\ [Next]_vars => (TypeOK /\ BoundsInv)'
  BY TypeStep
<1> QED
  BY <1>1, InitTypes, PTL DEF Spec
-----------------------------------------------------------------------------
(* The causes of disorder are remembered. *)
LEMMA BlameStays ==
  ASSUME [Next]_vars
  PROVE  blame \subseteq blame'
<1>1. ASSUME NEW c \in Conns, Accept(c) \/ Mute(c) \/ Resume(c) \/ Leave(c)
      PROVE  blame' = blame
  BY <1>1 DEF Accept, Mute, Resume, Leave, Turn, history
<1>2. ASSUME NEW c \in Conns, Hear(c) PROVE blame \subseteq blame'
  BY <1>2 DEF Hear, ReadRegister, ReadKeepAlive, ReadFileUpdate, ReadClose, history
<1>3. ASSUME NEW c \in Conns, Handshake(c) PROVE blame' = blame
  BY <1>3 DEF Handshake, Read, ReadEnds, Scan, Refuse, Claim, FillSockfd,
     FillStamp, Beat, Refresh, history
<1>4. ASSUME NEW x \in Threads, Walk(x) PROVE blame \subseteq blame'
  BY <1>4 DEF Walk, Look, Peek, WalkEnds, history
<1>5. ASSUME NEW x \in Threads, Disconnect(x) PROVE blame' = blame
  BY <1>5 DEF Disconnect, CheckSlot, CloseSocket, FreeEntry, ClearSlot, history
<1>6. CASE AcceptFails \/ \E a \in Addrs : Age(a)
  BY <1>6 DEF AcceptFails, Age, history
<1>7. CASE UNCHANGED vars
  BY <1>7 DEF vars
<1> QED
  BY <1>1, <1>2, <1>3, <1>4, <1>5, <1>6, <1>7 DEF Next

(* A step of connection c's thread: the other threads stay where they are, *)
(* and keep their descriptors.                                             *)
OnlyMoves(c) ==
  /\ \A x \in Threads \ {c} : UNCHANGED <<pc[x], at[x], back[x]>>
  /\ \A d \in Conns \ {c} :
       /\ UNCHANGED <<index[d], file[d], fd[d]>>
       /\ pc[d] \notin {"start", "free", "clear", "end"} /\ fdt[fd[d]] = d
            => fdt'[fd[d]] = d
  /\ greeted \subseteq greeted'

LEMMA FlowFrame ==
  ASSUME TypeOK, BoundsInv, FlowInv, NEW c \in Conns, OnlyMoves(c),
         CourseInv(c)',
         Registering(c)' => \A d \in Conns \ {c} : ~Registering(d)
  PROVE  FlowInv'
<1>1. ASSUME NEW d \in Conns \ {c} PROVE CourseInv(d)'
  <2>1. /\ UNCHANGED <<pc[d], at[d], back[d], index[d], file[d], fd[d]>>
        /\ d \in Threads \ {c}
    BY DEF OnlyMoves, Threads
  <2>2. CourseInv(d)
    BY DEF FlowInv
  <2>3. pc[d] \notin {"start", "free", "clear", "end"} /\ fdt[fd[d]] = d
          => fdt'[fd[d]] = d
    BY DEF OnlyMoves
  <2>4. greeted \subseteq greeted'
    BY DEF OnlyMoves
  <2> QED
    BY <2>1, <2>2, <2>3, <2>4 DEF CourseInv, Registering, Disconnecting
<1>2. pc'["monitor"] = pc["monitor"]
  BY DEF OnlyMoves, Threads
<1>3. \A d \in Conns \ {c} : Registering(d)' => Registering(d)
  BY DEF OnlyMoves, Registering, Threads
<1> QED
  BY <1>1, <1>2, <1>3 DEF FlowInv

(* One step of a thread of a connection, while the table is calm. *)
LEMMA HearFlow ==
  ASSUME TypeOK, BoundsInv, FlowInv, Calm', NEW c \in Conns, Hear(c)
  PROVE  FlowInv'
<1> USE DEF TypeOK, Threads, Goto
<1>1. file[c] = c /\ pc[c] = "blocked" /\ CourseInv(c)
  BY DEF Hear, ReadRegister, ReadKeepAlive, ReadFileUpdate, ReadClose, Receives,
     FlowInv, CourseInv
<1>2. CASE ReadRegister(c)
  <2>1. \A d \in Conns : ~Registering(d)
    BY <1>2 DEF ReadRegister, Calm
  <2>2. OnlyMoves(c)
    BY <1>2 DEF ReadRegister, OnlyMoves, Unblocked
  <2>3. index[c] = -1 /\ pc'[c] = "scan" /\ c \in greeted'
    BY <1>1, <1>2 DEF ReadRegister, CourseInv
  <2>4. CourseInv(c)'
    BY <1>1, <1>2, <2>3 DEF ReadRegister, CourseInv, Registering, Disconnecting,
       Unblocked
  <2> QED
    BY <2>1, <2>2, <2>4, FlowFrame
<1>3. CASE ReadKeepAlive(c) \/ ReadFileUpdate(c)
  <2>1. OnlyMoves(c)
    BY <1>3 DEF ReadKeepAlive, ReadFileUpdate, OnlyMoves, Unblocked
  <2>2. pc'[c] \in {"beat", "look"}
    BY <1>3 DEF ReadKeepAlive, ReadFileUpdate
  <2>3. CourseInv(c)'
    BY <1>1, <1>3, <2>2 DEF ReadKeepAlive, ReadFileUpdate, CourseInv,
       Registering, Disconnecting, Unblocked
  <2> QED
    BY <2>1, <2>2, <2>3, FlowFrame DEF Registering
<1>4. CASE ReadClose(c)
  BY <1>4 DEF ReadClose, Calm
<1> QED
  BY <1>2, <1>3, <1>4 DEF Hear

LEMMA HandshakeFlow ==
  ASSUME TypeOK, BoundsInv, FlowInv, NEW c \in Conns, Handshake(c)
  PROVE  FlowInv'
<1> USE DEF TypeOK, Threads, Goto
<1>a. CourseInv(c)
  BY DEF FlowInv
<1>1. OnlyMoves(c)
  <2>1. CASE Read(c) \/ ReadEnds(c)
    BY <2>1 DEF Read, ReadEnds, Leaving, Unblocked, OnlyMoves
  <2>2. CASE Scan(c) \/ Refuse(c) \/ Claim(c)
    BY <2>2 DEF Scan, Refuse, Claim, Rewound, OnlyMoves, peers
  <2>3. CASE FillSockfd(c)
    BY <2>3 DEF FillSockfd, Rewound, OnlyMoves, peers
  <2>4. CASE FillStamp(c)
    BY <2>4 DEF FillStamp, Rewound, OnlyMoves, peers
  <2>5. CASE Beat(c) \/ Refresh(c)
    BY <2>5 DEF Beat, Refresh, OnlyMoves, peers
  <2> QED
    BY <2>1, <2>2, <2>3, <2>4, <2>5 DEF Handshake
<1>2. Registering(c)' => Registering(c)
  <2>1. CASE Read(c) \/ ReadEnds(c) \/ Beat(c) \/ Refresh(c)
    <3>1. CASE Read(c)
      BY <3>1 DEF Read, Leaving, Goto, Registering
    <3>2. CASE ReadEnds(c)
      BY <3>2 DEF ReadEnds, Leaving, Goto, Registering
    <3>3. CASE Beat(c)
      <4>1. pc'[c] \in {"read", "refresh"}
        BY <3>3 DEF Beat
      <4> QED
        BY <4>1 DEF Registering
    <3>4. CASE Refresh(c)
      <4>1. pc'[c] \in {"read", pc[c]}
        BY <3>4 DEF Refresh
      <4> QED
        BY <4>1 DEF Registering
    <3> QED
      BY <2>1, <3>1, <3>2, <3>3, <3>4
  <2>2. CASE Scan(c) \/ Refuse(c) \/ Claim(c) \/ FillSockfd(c) \/ FillStamp(c)
    <3>1. pc[c] \in {"scan", "claim", "fill", "stamp"}
      BY <2>2 DEF Scan, Refuse, Claim, FillSockfd, FillStamp
    <3> QED
      BY <3>1 DEF Registering
  <2> QED
    BY <2>1, <2>2 DEF Handshake
<1>3. CourseInv(c)'
  <2> USE DEF CourseInv, Registering, Disconnecting
  <2>1. CASE Read(c)
    BY <1>a, <2>1 DEF Read, Leaving
  <2>2. CASE ReadEnds(c)
    BY <1>a, <2>2 DEF ReadEnds, Leaving, Unblocked
  <2>3. CASE Scan(c)
    BY <1>a, <2>3 DEF Scan, peers
  <2>4. CASE Refuse(c)
    BY <1>a, <2>4 DEF Refuse, Rewound, peers
  <2>5. CASE Claim(c)
    BY <1>a, <2>5 DEF Claim, peers
  <2>6. CASE FillSockfd(c)
    BY <1>a, <2>6 DEF FillSockfd, Rewound, peers
  <2>7. CASE FillStamp(c)
    BY <1>a, <2>7 DEF FillStamp, Rewound, peers
  <2>8. CASE Beat(c) \/ Refresh(c)
    <3>1. /\ pc[c] \in {"beat", "refresh"}
          /\ UNCHANGED <<peers, at, index, back>>
      BY <2>8 DEF Beat, Refresh
    <3>2. pc'[c] \in {"read", "refresh"}
      <4>1. CASE Beat(c)
        BY <4>1 DEF Beat
      <4>2. CASE Refresh(c)
        BY <4>2 DEF Refresh
      <4> QED
        BY <2>8, <4>1, <4>2
    <3> QED
      BY <1>a, <3>1, <3>2 DEF peers
  <2> QED
    BY <2>1, <2>2, <2>3, <2>4, <2>5, <2>6, <2>7, <2>8 DEF Handshake
<1> QED
  BY <1>1, <1>2, <1>3, FlowFrame DEF FlowInv

LEMMA WalkFlow ==
  ASSUME TypeOK, BoundsInv, FlowInv, Calm', NEW x \in Threads, Walk(x)
  PROVE  FlowInv'
<1> USE DEF TypeOK, Goto
<1>1. CASE x = "monitor"
  <2>1. pc'["monitor"] \in {"look", "peek"}
    BY <1>1 DEF Walk, Look, Peek, WalkEnds, Calm, FlowInv, Threads
  <2>2. \A c \in Conns : pc'[c] = pc[c] /\ at'[c] = at[c]
    BY <1>1 DEF Walk, Look, Peek, WalkEnds, Rewound, Threads
  <2>3. UNCHANGED <<index, back, file, fd, fdt, greeted>>
    BY DEF Walk, Look, Peek, WalkEnds, peers
  <2> QED
    BY <2>1, <2>2, <2>3 DEF FlowInv, CourseInv, Registering, Disconnecting
<1>2. CASE x \in Conns
  <2>1. OnlyMoves(x)
    BY <1>2 DEF Walk, Look, Peek, WalkEnds, Rewound, OnlyMoves, peers, Threads
  <2>2. pc[x] \in {"look", "peek"} /\ pc'[x] \in {"look", "peek", "read"}
    BY <1>2 DEF Walk, Look, Peek, WalkEnds, Threads
  <2>3. CourseInv(x)
    BY <1>2 DEF FlowInv
  <2>4. CourseInv(x)'
    BY <1>2, <2>2, <2>3 DEF Walk, Look, Peek, WalkEnds, Rewound, CourseInv,
       Registering, Disconnecting, peers, Threads
  <2> QED
    BY <1>2, <2>1, <2>2, <2>4, FlowFrame DEF Registering
<1> QED
  BY <1>1, <1>2 DEF Threads

LEMMA DisconnectFlow ==
  ASSUME TypeOK, BoundsInv, FlowInv, OwnerInv, HeapInv, NEW x \in Threads,
         Disconnect(x)
  PROVE  FlowInv'
<1> USE DEF TypeOK, Goto
<1>1. Disconnecting(x) /\ x \in Conns
  <2>1. Disconnecting(x)
    BY DEF Disconnect, CheckSlot, CloseSocket, FreeEntry, ClearSlot, Disconnecting
  <2> QED
    BY <2>1 DEF FlowInv, Disconnecting, Threads
<1>2. Target(x) = index[x] /\ back[x] = "end" /\ CourseInv(x)
  BY <1>1 DEF Target, FlowInv, CourseInv
<1>3. ASSUME OnlyMoves(x), pc'[x] \in {"close", "free", "clear", "end"},
             CourseInv(x)'
      PROVE  FlowInv'
  BY <1>1, <1>3, FlowFrame DEF Registering
<1>4. CASE CheckSlot(x)
  <2>1. OnlyMoves(x)
    BY <1>1, <1>2, <1>4 DEF CheckSlot, Return, OnlyMoves, peers, Threads
  <2>2. CASE At(Target(x)) = NULL
    BY <1>1, <1>2, <1>3, <1>4, <2>1, <2>2 DEF CheckSlot, Return, CourseInv,
       Registering, Disconnecting, peers, Threads
  <2>3. CASE At(Target(x)) # NULL
    <3>1. index[x] \in Slots
      BY <1>1, <1>2, <2>3 DEF At
    <3> QED
      BY <1>1, <1>2, <1>3, <1>4, <2>1, <2>3, <3>1 DEF CheckSlot, CourseInv,
         Registering, Disconnecting, peers, Threads
  <2> QED
    BY <2>2, <2>3
<1>5. CASE CloseSocket(x)
  <2>1. pc[x] = "close" /\ index[x] \in Slots
    BY <1>2, <1>5 DEF CloseSocket, CourseInv
  <2>2. Has(x, index[x])
    BY DEF Has
  <2>3. At(Target(x)) = slot[index[x]] /\ slot[index[x]] # NULL
    BY <1>1, <1>2, <2>1, <2>2 DEF At, OwnerInv
  <2>4. entry[At(Target(x))].sockfd = fd[x]
    BY <1>1, <2>1, <2>2, <2>3 DEF HeapInv, InUse
  <2>5. /\ fdt' = [f \in FDs |-> IF f = fd[x] THEN NULL ELSE fdt[f]]
        /\ pc' = [pc EXCEPT ![x] = "free"]
        /\ UNCHANGED <<greeted, fd, file, at, index, back>>
    BY <1>5, <2>3, <2>4 DEF CloseSocket
  <2>6. fdt[fd[x]] = x
    BY <1>2, <2>1 DEF CourseInv
  <2>7. ASSUME NEW d \in Conns \ {x},
               pc[d] \notin {"start", "free", "clear", "end"}, fdt[fd[d]] = d
        PROVE  fdt'[fd[d]] = d
    <3>1. fd[d] \in FDs /\ fd[d] # fd[x]
      BY <2>6, <2>7 DEF BoundsInv
    <3> QED
      BY <2>5, <2>7, <3>1
  <2>8. OnlyMoves(x)
    BY <1>1, <2>5, <2>7 DEF OnlyMoves, Threads
  <2> QED
    BY <1>1, <1>2, <1>3, <2>1, <2>5, <2>8 DEF CourseInv, Registering,
       Disconnecting, Threads
<1>6. CASE FreeEntry(x)
  <2>1. OnlyMoves(x)
    BY <1>1, <1>6 DEF FreeEntry, OnlyMoves, peers, Threads
  <2> QED
    BY <1>1, <1>2, <1>3, <1>6, <2>1 DEF FreeEntry, CourseInv, Registering,
       Disconnecting, peers, Threads
<1>7. CASE ClearSlot(x)
  <2>1. OnlyMoves(x)
    BY <1>1, <1>2, <1>7 DEF ClearSlot, Return, OnlyMoves, peers, Threads
  <2> QED
    BY <1>1, <1>2, <1>3, <1>7, <2>1 DEF ClearSlot, Return, CourseInv,
       Registering, Disconnecting, peers, Threads
<1> QED
  BY <1>4, <1>5, <1>6, <1>7 DEF Disconnect

LEMMA FlowStep ==
  ASSUME TypeOK, BoundsInv, CalmInv, Calm', [Next]_vars
  PROVE  FlowInv'
<1> USE DEF CalmInv
<1>1. ASSUME NEW c \in Conns, Accept(c) PROVE FlowInv'
  <2> USE DEF TypeOK, Threads, Goto
  <2>1. PICK f \in FDs :
          fdt[f] = NULL /\ fdt' = [fdt EXCEPT ![f] = c] /\ fd' = [fd EXCEPT ![c] = f]
    BY <1>1 DEF Accept
  <2>2. pc[c] = "start" /\ pc' = [pc EXCEPT ![c] = "read"]
    BY <1>1 DEF Accept, BoundsInv
  <2>3. \A d \in Conns : fdt[fd[d]] = d => fd[d] # f
    BY <2>1
  <2>4. OnlyMoves(c)
    BY <1>1, <2>1, <2>2, <2>3 DEF Accept, OnlyMoves
  <2>5. CourseInv(c)
    BY DEF FlowInv
  <2>6. CourseInv(c)'
    BY <1>1, <2>1, <2>2, <2>5 DEF Accept, CourseInv, Registering, Disconnecting,
       history
  <2> QED
    BY <2>2, <2>4, <2>6, FlowFrame DEF Registering
<1>2. CASE UNCHANGED <<greeted, fdt, fd, file, pc, at, index, back>>
  BY <1>2 DEF FlowInv, CourseInv, Registering, Disconnecting
<1>3. ASSUME NEW c \in Conns, Mute(c) \/ Resume(c) \/ Leave(c) PROVE FlowInv'
  BY <1>2, <1>3 DEF Mute, Resume, Leave, Turn
<1>4. CASE AcceptFails \/ \E a \in Addrs : Age(a)
  BY <1>2, <1>4 DEF AcceptFails, Age, peers
<1>5. CASE UNCHANGED vars
  BY <1>2, <1>5 DEF vars
<1> QED
  BY <1>1, <1>3, <1>4, <1>5, HearFlow, HandshakeFlow, WalkFlow, DisconnectFlow
     DEF Next
-----------------------------------------------------------------------------
(* A step that takes no slot and gives none up. *)
TableStays ==
  /\ UNCHANGED <<slot, pool, index>>
  /\ \A a \in Addrs : entry'[a].sockfd = entry[a].sockfd
  /\ \A d \in Conns :
       /\ fd'[d] = fd[d] \/ (pc[d] = "start" /\ pc'[d] = "read")
       /\ pc'[d] \in {"claim", "fill", "stamp"} => UNCHANGED <<pc[d], at[d]>>
       /\ pc[d] \in {"fill", "stamp", "clear"} => pc'[d] = pc[d]
       /\ pc'[d] = "scan" => at'[d] = 0 \/ UNCHANGED <<pc[d], at[d]>>

LEMMA TableStaysFrame ==
  ASSUME TypeOK, FlowInv, OwnerInv, HeapInv, TableStays
  PROVE  OwnerInv' /\ HeapInv'
<1>1. ASSUME NEW d \in Conns, NEW s \in Slots
      PROVE  /\ Has(d, s)' <=> Has(d, s)
             /\ InUse(d, s)' => InUse(d, s)
  BY DEF TableStays, Has, InUse
<1>2. OwnerInv'
  <2>1. \A d \in Conns : pc'[d] = "claim" => pc[d] = "claim" /\ at'[d] = at[d]
    BY DEF TableStays
  <2>2. slot' = slot
    BY DEF TableStays
  <2> QED
    BY <1>1, <2>1, <2>2 DEF OwnerInv
<1>3. HeapInv'
  <2>1. slot' = slot /\ pool' = pool
    BY DEF TableStays
  <2>2. ASSUME NEW d \in Conns, NEW s \in Slots, InUse(d, s)', pc'[d] # "fill"
        PROVE  entry'[slot[s]].sockfd = fd'[d]
    <3>1. InUse(d, s) /\ pc[d] # "fill" /\ pc[d] # "start"
      BY <1>1, <2>2 DEF TableStays, InUse, Has, FlowInv, CourseInv, Slots
    <3>2. fd'[d] = fd[d] /\ entry[slot[s]].sockfd = fd[d]
      BY <3>1 DEF TableStays, HeapInv
    <3>3. slot[s] \in Addrs
      BY <3>1 DEF InUse, OwnerInv, TypeOK
    <3> QED
      BY <3>2, <3>3 DEF TableStays
  <2> QED
    BY <1>1, <2>1, <2>2 DEF HeapInv
<1> QED
  BY <1>2, <1>3

(* The table is what it was when no slot is claimed, filled or given up.   *)
LEMMA TableStaysSteps ==
  ASSUME TypeOK, BoundsInv, CalmInv, Calm', NEW c \in Conns,
         Accept(c) \/ Mute(c) \/ Resume(c) \/ Leave(c) \/ Hear(c) \/ Read(c)
           \/ ReadEnds(c) \/ Beat(c) \/ Refresh(c)
  PROVE  TableStays
<1> USE DEF TypeOK, Threads, TableStays
<1>1. CASE Accept(c)
  BY <1>1 DEF Accept, BoundsInv, Goto, memory, history
<1>2. CASE Mute(c) \/ Resume(c) \/ Leave(c)
  BY <1>2 DEF Mute, Resume, Leave, Turn, memory, history
<1>3. CASE Hear(c)
  <2>1. CASE ReadRegister(c)
    <3>1. at[c] = 0
      BY <2>1 DEF ReadRegister, CalmInv, FlowInv, CourseInv, Registering
    <3> QED
      BY <2>1, <3>1 DEF ReadRegister, Unblocked, Goto, memory
  <2>2. CASE ReadKeepAlive(c) \/ ReadFileUpdate(c)
    BY <2>2 DEF ReadKeepAlive, ReadFileUpdate, Receives, Unblocked, Goto,
       memory, history
  <2>3. CASE ReadClose(c)
    BY <2>3 DEF ReadClose, Calm
  <2> QED
    BY <1>3, <2>1, <2>2, <2>3 DEF Hear
<1>4. CASE Read(c)
  BY <1>4 DEF Read, Leaving, Goto, memory, history
<1>5. CASE ReadEnds(c)
  BY <1>5 DEF ReadEnds, Leaving, Unblocked, Goto, memory, history
<1>6. CASE Beat(c)
  BY <1>6 DEF Beat, Goto, peers, memory, history
<1>7. CASE Refresh(c)
  <2>1. /\ UNCHANGED <<fd, slot, pool, at, index>>
        /\ \A d \in Conns : pc'[d] = pc[d] \/ (d = c /\ pc'[d] = "read")
        /\ pc[c] = "refresh"
    BY <1>7 DEF Refresh, Goto, peers, history
  <2>2. ASSUME NEW a \in Addrs PROVE entry'[a].sockfd = entry[a].sockfd
    <3>1. CASE entry' = entry
      BY <3>1
    <3>2. CASE entry' = [entry EXCEPT ![slot[index[c]]].stale = FALSE]
      BY <3>2
    <3> QED
      BY <1>7, <3>1, <3>2 DEF Refresh
  <2> QED
    BY <2>1, <2>2
<1> QED
  BY <1>1, <1>2, <1>3, <1>4, <1>5, <1>6, <1>7

LEMMA WalkTable ==
  ASSUME TypeOK, BoundsInv, CalmInv, Calm', NEW x \in Threads, Walk(x)
  PROVE  TableStays
<1> USE DEF TypeOK, Goto, Threads, TableStays
<1>1. CASE Look(x)
  BY <1>1 DEF Look, peers, memory, history
<1>2. CASE Peek(x)
  BY <1>2 DEF Peek, peers, memory
<1>3. CASE WalkEnds(x)
  BY <1>3 DEF WalkEnds, Rewound, peers, memory, history
<1> QED
  BY <1>1, <1>2, <1>3 DEF Walk

LEMMA AgeTable == ASSUME TypeOK, NEW a \in Addrs, Age(a) PROVE TableStays
BY DEF Age, TypeOK, TableStays, peers, history

(* new_peer finds the first slot that is free. *)
LEMMA ScanTable ==
  ASSUME TypeOK, BoundsInv, CalmInv, NEW c \in Conns, Scan(c)
  PROVE  OwnerInv' /\ HeapInv'
<1> USE DEF CalmInv
<1>1. /\ UNCHANGED <<slot, entry, pool, fd, index>>
      /\ pc[c] = "scan" /\ pc'[c] \in {"scan", "claim"}
      /\ \A d \in Conns \ {c} : pc'[d] = pc[d] /\ at'[d] = at[d]
      /\ pc'[c] = "claim" => at'[c] = at[c] /\ slot[at[c]] = NULL
  BY DEF TypeOK, Threads, Scan, Goto, Vacant, peers, memory, history
<1>2. \A d \in Conns, s \in Slots :
        (Has(d, s)' <=> Has(d, s)) /\ (InUse(d, s)' <=> InUse(d, s))
  BY <1>1 DEF Has, InUse
<1>3. OwnerInv'
  BY <1>1, <1>2 DEF OwnerInv
<1>4. HeapInv'
  BY <1>1, <1>2 DEF HeapInv
<1> QED
  BY <1>3, <1>4

(* It refuses the peer when every slot it has tried was in use. *)
LEMMA RefuseTable ==
  ASSUME TypeOK, BoundsInv, CalmInv, NEW c \in Conns, Refuse(c)
  PROVE  OwnerInv' /\ HeapInv'
<1> USE DEF CalmInv
<1>1. /\ UNCHANGED <<slot, entry, pool, fd>>
      /\ pc[c] = "scan" /\ pc'[c] = "read" /\ at[c] >= MAX_PEER_SLOTS
      /\ \A d \in Conns \ {c} : pc'[d] = pc[d] /\ at'[d] = at[d]
  BY DEF TypeOK, Threads, Refuse, Rewound, Goto, ScanBound, peers, memory
<1>2. index' = index
  BY <1>1 DEF Refuse, FlowInv, CourseInv, Registering, TypeOK
<1>3. \A d \in Conns, s \in Slots :
        (Has(d, s)' <=> Has(d, s)) /\ (InUse(d, s)' <=> InUse(d, s))
  BY <1>1, <1>2 DEF Has, InUse
<1>4. OwnerInv'
  BY <1>1, <1>3 DEF OwnerInv
<1>5. HeapInv'
  BY <1>1, <1>3 DEF HeapInv
<1> QED
  BY <1>4, <1>5

(* A claimed slot was free, and malloc returns an address nobody uses.     *)
LEMMA ClaimTable ==
  ASSUME TypeOK, BoundsInv, CalmInv, NEW c \in Conns, Claim(c)
  PROVE  OwnerInv' /\ HeapInv'
<1> USE DEF CalmInv
<1>1. PICK a \in Addrs : /\ pool[a] > 0
                         /\ pool' = [pool EXCEPT ![a] = @ - 1]
                         /\ slot' = [slot EXCEPT ![at[c]] = a]
  BY DEF Claim
<1>2. /\ UNCHANGED <<entry, fd, at, index>>
      /\ pc[c] = "claim" /\ pc'[c] = "fill"
      /\ \A d \in Conns \ {c} : pc'[d] = pc[d]
      /\ \A d \in Conns : Registering(d) => d = c
  BY DEF TypeOK, Threads, Claim, Goto, peers, FlowInv, Registering
<1>3. /\ at[c] \in Slots /\ slot[at[c]] = NULL /\ index[c] = -1
      /\ slot'[at[c]] = a /\ a # NULL /\ pool[a] = 1 /\ pool'[a] = 0
  BY <1>1, <1>2 DEF BoundsInv, OwnerInv, TypeOK, FlowInv, CourseInv, HeapInv,
     Registering
<1>4. ASSUME NEW d \in Conns, NEW s \in Slots
      PROVE  /\ Has(d, s)' <=> Has(d, s) \/ (d = c /\ s = at[c])
             /\ InUse(d, s)' <=> InUse(d, s) \/ (d = c /\ s = at[c])
             /\ Has(d, s) => d # c /\ s # at[c]
  <2>1. ~Has(c, s)
    BY <1>2, <1>3 DEF Has, Slots
  <2>2. ~Has(d, at[c])
    BY <1>3 DEF OwnerInv
  <2> QED
    BY <1>2, <1>3, <2>1, <2>2 DEF Has, InUse
<1>5. \A s \in Slots : s # at[c] => slot'[s] = slot[s]
  BY <1>1 DEF TypeOK
<1>6. OwnerInv'
  <2>1. \A d \in Conns : pc'[d] # "claim"
    BY <1>2 DEF Registering
  <2> QED
    BY <1>2, <1>3, <1>4, <1>5, <2>1 DEF OwnerInv
<1>7. HeapInv'
  <2>1. \A d \in Conns, s \in Slots : InUse(d, s) => slot'[s] = slot[s] /\ slot[s] # a
    BY <1>3, <1>4, <1>5 DEF HeapInv, InUse
  <2>2. \A b \in Addrs : b # a => pool'[b] = pool[b]
    BY <1>1 DEF TypeOK
  <2>3. \A d \in Conns, s \in Slots : InUse(d, s) => slot[s] \in Addrs
    BY DEF InUse, OwnerInv, TypeOK
  <2>4. \A b \in Addrs : pool'[b] <= 1
    BY <1>3, <2>2 DEF HeapInv
  <2>5. ASSUME NEW d \in Conns, NEW s \in Slots, InUse(d, s)'
        PROVE  pool'[slot'[s]] = 0
    BY <1>3, <1>4, <2>1, <2>2, <2>3, <2>5 DEF HeapInv
  <2>6. ASSUME NEW d \in Conns, NEW e \in Conns, NEW s \in Slots, NEW r \in Slots,
               InUse(d, s)', InUse(e, r)', slot'[s] = slot'[r]
        PROVE  s = r
    BY <1>3, <1>4, <2>1, <2>6 DEF HeapInv
  <2>7. ASSUME NEW d \in Conns, NEW s \in Slots, InUse(d, s)', pc'[d] # "fill"
        PROVE  entry'[slot'[s]].sockfd = fd'[d]
    BY <1>2, <1>4, <2>1, <2>7 DEF HeapInv
  <2> QED
    BY <2>4, <2>5, <2>6, <2>7 DEF HeapInv
<1> QED
  BY <1>6, <1>7

(* Its own slot, and no other in use, leads to the entry a peer fills in.  *)
LEMMA FillSockfdTable ==
  ASSUME TypeOK, BoundsInv, CalmInv, NEW c \in Conns, FillSockfd(c)
  PROVE  OwnerInv' /\ HeapInv'
<1> USE DEF CalmInv
<1>1. pc[c] = "fill" /\ at[c] \in Slots /\ Has(c, at[c])
  BY DEF FillSockfd, BoundsInv, Has
<1>2. slot[at[c]] \in Addrs /\ ~Vacant(at[c])
  BY <1>1 DEF OwnerInv, TypeOK, Vacant
<1>3. /\ UNCHANGED <<slot, pool, fd, at, index>>
      /\ entry' = [entry EXCEPT ![slot[at[c]]].sockfd = fd[c]]
      /\ pc'[c] = "stamp" /\ \A d \in Conns \ {c} : pc'[d] = pc[d]
  BY <1>2 DEF FillSockfd, TypeOK, Threads, Goto, peers, history
<1>4. \A d \in Conns, s \in Slots :
        (Has(d, s)' <=> Has(d, s)) /\ (InUse(d, s)' <=> InUse(d, s))
  BY <1>1, <1>3 DEF Has, InUse
<1>5. OwnerInv'
  BY <1>1, <1>3, <1>4 DEF OwnerInv
<1>6. HeapInv'
  <2>1. ASSUME NEW d \in Conns, NEW s \in Slots, InUse(d, s), pc'[d] # "fill"
        PROVE  entry'[slot[s]].sockfd = fd[d]
    <3>1. CASE s = at[c]
      <4>1. d = c
        BY <1>1, <2>1, <3>1 DEF InUse, OwnerInv
      <4>2. entry[slot[at[c]]] \in [sockfd : FDs \cup {0}, stale : BOOLEAN]
        BY <1>2 DEF TypeOK
      <4> QED
        BY <1>2, <1>3, <3>1, <4>1, <4>2 DEF TypeOK
    <3>2. CASE s # at[c]
      <4>1. InUse(c, at[c])
        BY <1>1 DEF InUse
      <4>2. slot[s] # slot[at[c]]
        BY <1>1, <2>1, <3>2, <4>1 DEF HeapInv
      <4>3. d # c
        <5>1. index[c] = -1
          BY <1>1 DEF FlowInv, CourseInv, Registering
        <5> QED
          BY <1>1, <2>1, <3>2, <5>1 DEF InUse, Has, Slots
      <4>4. entry[slot[s]].sockfd = fd[d]
        BY <1>3, <2>1, <4>3 DEF HeapInv
      <4> QED
        BY <1>3, <4>2, <4>4
    <3> QED
      BY <3>1, <3>2
  <2> QED
    BY <1>3, <1>4, <2>1 DEF HeapInv
<1> QED
  BY <1>5, <1>6

(* The table index takes the slot over from the loop index. *)
LEMMA FillStampTable ==
  ASSUME TypeOK, BoundsInv, CalmInv, NEW c \in Conns, FillStamp(c)
  PROVE  OwnerInv' /\ HeapInv'
<1> USE DEF CalmInv
<1>1. pc[c] = "stamp" /\ at[c] \in Slots /\ Has(c, at[c]) /\ index[c] = -1
  BY DEF FillStamp, BoundsInv, Has, FlowInv, CourseInv, Registering
<1>2. slot[at[c]] \in Addrs /\ ~Vacant(at[c])
  BY <1>1 DEF OwnerInv, TypeOK, Vacant
<1>3. /\ UNCHANGED <<slot, pool, fd>>
      /\ entry' = [entry EXCEPT ![slot[at[c]]].stale = FALSE]
      /\ pc'[c] = "read" /\ index'[c] = at[c]
      /\ \A d \in Conns \ {c} : UNCHANGED <<pc[d], at[d], index[d]>>
  BY <1>2 DEF FillStamp, TypeOK, Threads, Goto, Rewound, peers, history
<1>4. \A d \in Conns, s \in Slots :
        (Has(d, s)' <=> Has(d, s)) /\ (InUse(d, s)' <=> InUse(d, s))
  BY <1>1, <1>3 DEF Has, InUse, Slots
<1>5. \A a \in Addrs : entry'[a].sockfd = entry[a].sockfd
  BY <1>3 DEF TypeOK
<1>6. OwnerInv'
  BY <1>1, <1>3, <1>4 DEF OwnerInv
<1>7. HeapInv'
  <2>1. ASSUME NEW d \in Conns, NEW s \in Slots, InUse(d, s), pc'[d] # "fill"
        PROVE  entry'[slot[s]].sockfd = fd[d]
    <3>1. pc[d] # "fill"
      BY <1>1, <1>3, <2>1
    <3>2. slot[s] \in Addrs
      BY <2>1 DEF InUse, OwnerInv, TypeOK
    <3> QED
      BY <1>5, <2>1, <3>1, <3>2 DEF HeapInv
  <2> QED
    BY <1>3, <1>4, <2>1 DEF HeapInv
<1> QED
  BY <1>6, <1>7

(* disconnectpeer of a connection takes its own slot, once. *)
LEMMA DisconnectTable ==
  ASSUME TypeOK, BoundsInv, CalmInv, NEW x \in Threads, Disconnect(x)
  PROVE  OwnerInv' /\ HeapInv'
<1> USE DEF CalmInv
<1>1. Disconnecting(x) /\ x \in Conns
  <2>1. Disconnecting(x)
    BY DEF Disconnect, CheckSlot, CloseSocket, FreeEntry, ClearSlot, Disconnecting
  <2> QED
    BY <2>1 DEF FlowInv, Disconnecting, Threads
<1>2. Target(x) = index[x] /\ back[x] = "end" /\ x # "monitor"
  BY <1>1 DEF Target, FlowInv, CourseInv
<1>a. ASSUME pc[x] # "check"
      PROVE  /\ index[x] \in Slots /\ Has(x, index[x])
             /\ At(Target(x)) = slot[index[x]] /\ slot[index[x]] \in Addrs
  <2>1. index[x] \in Slots
    BY <1>1, <1>a DEF FlowInv, CourseInv, Disconnecting
  <2>2. Has(x, index[x])
    BY DEF Has
  <2> QED
    BY <1>1, <1>2, <2>1, <2>2 DEF At, OwnerInv, TypeOK
<1>3. CASE CheckSlot(x)
  <2>1. pc[x] = "check" /\ UNCHANGED <<slot, entry, pool, fd>>
    BY <1>3 DEF CheckSlot, peers, memory, history
  <2>2. index' = index
    <3>1. CASE At(Target(x)) = NULL
      <4>1. index[x] \notin Slots
        BY <1>1, <1>2, <3>1 DEF At, Has, OwnerInv
      <4>2. index[x] = -1
        BY <1>1, <4>1 DEF TypeOK
      <4> QED
        BY <1>1, <1>3, <3>1, <4>2 DEF CheckSlot, Return, TypeOK
    <3>2. CASE At(Target(x)) # NULL
      BY <1>3, <3>2 DEF CheckSlot
    <3> QED
      BY <3>1, <3>2
  <2>3. at' = at
    BY <1>2, <1>3 DEF CheckSlot, Return
  <2>4. \A d \in Conns : pc'[d] = pc[d] \/ (d = x /\ pc'[d] \in {"end", "close"})
    BY <1>2, <1>3 DEF CheckSlot, Return, Goto, TypeOK, Threads
  <2> QED
    BY <2>1, <2>2, <2>3, <2>4, TableStaysFrame DEF TableStays
<1>4. CASE CloseSocket(x)
  <2>1. /\ UNCHANGED <<slot, entry, pool, fd, at, index>>
        /\ \A d \in Conns : pc'[d] = pc[d] \/ (d = x /\ pc'[d] = "free")
        /\ pc[x] = "close"
    BY <1>4 DEF CloseSocket, Goto, TypeOK, Threads, memory, history
  <2> QED
    BY <2>1, TableStaysFrame DEF TableStays
<1>5. CASE FreeEntry(x)
  <2>1. /\ UNCHANGED <<slot, entry, fd, at, index>>
        /\ pc[x] = "free" /\ pc'[x] = "clear"
        /\ \A d \in Conns \ {x} : pc'[d] = pc[d]
    BY <1>1, <1>5 DEF FreeEntry, Goto, TypeOK, Threads, peers, history
  <2>2. /\ pool' = [pool EXCEPT ![slot[index[x]]] = @ + 1]
        /\ InUse(x, index[x]) /\ index[x] \in Slots
    BY <1>a, <1>5, <2>1 DEF FreeEntry, InUse, AddrsAssumption
  <2>3. pool[slot[index[x]]] = 0 /\ slot[index[x]] \in Addrs
    BY <1>1, <1>a, <2>1, <2>2 DEF HeapInv
  <2>4. \A d \in Conns, s \in Slots :
          /\ Has(d, s)' <=> Has(d, s)
          /\ InUse(d, s)' => InUse(d, s) /\ d # x
    BY <2>1 DEF Has, InUse
  <2>5. OwnerInv'
    BY <2>1, <2>4 DEF OwnerInv
  <2>6. HeapInv'
    <3>1. \A a \in Addrs : pool'[a] <= 1
      BY <2>2, <2>3 DEF HeapInv, TypeOK
    <3>2. ASSUME NEW d \in Conns, NEW s \in Slots, InUse(d, s)'
          PROVE  pool'[slot[s]] = 0
      <4>1. InUse(d, s) /\ d # x
        BY <2>4, <3>2
      <4>2. s # index[x]
        BY <1>1, <1>a, <2>1, <4>1 DEF InUse, OwnerInv
      <4>3. slot[s] # slot[index[x]] /\ pool[slot[s]] = 0
        BY <1>1, <2>2, <4>1, <4>2 DEF HeapInv
      <4>4. slot[s] \in Addrs
        BY <4>1 DEF InUse, OwnerInv, TypeOK
      <4> QED
        BY <2>2, <4>3, <4>4 DEF TypeOK
    <3> QED
      BY <2>1, <2>4, <3>1, <3>2 DEF HeapInv
  <2> QED
    BY <2>5, <2>6
<1>6. CASE ClearSlot(x)
  <2>1. /\ UNCHANGED <<entry, pool, fd>>
        /\ pc[x] = "clear" /\ pc'[x] = "end" /\ index'[x] = -1
        /\ \A d \in Conns \ {x} : UNCHANGED <<pc[d], index[d]>>
        /\ at' = at
        /\ slot' = [slot EXCEPT ![index[x]] = NULL]
    BY <1>1, <1>2, <1>6 DEF ClearSlot, Emptied, Return, Goto, TypeOK, Threads,
       peers, history
  <2>2. index[x] \in Slots /\ Has(x, index[x])
    BY <1>a, <2>1
  <2>3. ASSUME NEW d \in Conns, NEW s \in Slots
        PROVE  /\ Has(d, s)' <=> Has(d, s) /\ d # x
               /\ InUse(d, s)' <=> InUse(d, s)
    <3>1. Has(d, s)' <=> Has(d, s) /\ d # x
      BY <2>1 DEF Has, Slots
    <3> QED
      BY <2>1, <3>1 DEF InUse
  <2>4. ASSUME NEW d \in Conns, NEW s \in Slots, Has(d, s), d # x
        PROVE  s # index[x] /\ slot'[s] = slot[s]
    BY <1>1, <2>1, <2>2, <2>4 DEF OwnerInv
  <2>5. \A s \in Slots : slot'[s] = IF s = index[x] THEN NULL ELSE slot[s]
    BY <2>1 DEF TypeOK
  <2>6. OwnerInv'
    <3>1. \A d \in Conns : pc'[d] = "claim" => slot'[at'[d]] = NULL
      BY <2>1, <2>5 DEF OwnerInv, BoundsInv
    <3>2. \A d \in Conns, s \in Slots : Has(d, s)' => slot'[s] # NULL
      BY <2>1, <2>3, <2>4 DEF OwnerInv
    <3>3. \A d, e \in Conns, s \in Slots : Has(d, s)' /\ Has(e, s)' => d = e
      BY <2>3 DEF OwnerInv
    <3>4. ASSUME NEW s \in Slots, slot'[s] # NULL PROVE \E d \in Conns : Has(d, s)'
      <4>1. PICK d \in Conns : Has(d, s)
        BY <2>5, <3>4 DEF OwnerInv
      <4>2. d # x
        BY <2>1, <2>5, <3>4, <4>1 DEF Has
      <4> QED
        BY <2>3, <4>1, <4>2
    <3> QED
      BY <3>1, <3>2, <3>3, <3>4 DEF OwnerInv
  <2>7. HeapInv'
    <3>1. \A d \in Conns, s \in Slots :
            InUse(d, s)' => /\ InUse(d, s) /\ slot'[s] = slot[s]
                            /\ pc'[d] = pc[d] /\ fd'[d] = fd[d]
      BY <2>1, <2>3, <2>4 DEF InUse
    <3> QED
      BY <2>1, <3>1 DEF HeapInv
  <2> QED
    BY <2>6, <2>7
<1> QED
  BY <1>3, <1>4, <1>5, <1>6 DEF Disconnect

LEMMA CalmStep ==
  TypeOK /\ BoundsInv /\ CalmOK /\ [Next]_vars => CalmOK'
<1> SUFFICES ASSUME TypeOK, BoundsInv, CalmOK, [Next]_vars, Calm' PROVE CalmInv'
  BY DEF CalmOK
<1>1. CalmInv
  BY BlameStays DEF Calm, CalmOK
<1>2. FlowInv'
  BY <1>1, FlowStep
<1> DEFINE Goal == OwnerInv' /\ HeapInv'
<1>a. TableStays => Goal
  BY <1>1, TableStaysFrame DEF CalmInv
<1>3. ASSUME NEW c \in Conns, Handshake(c) PROVE Goal
  BY <1>1, <1>3, <1>a, TableStaysSteps, ScanTable, RefuseTable, ClaimTable,
     FillSockfdTable, FillStampTable DEF Handshake
<1>4. ASSUME NEW c \in Conns,
             Accept(c) \/ Mute(c) \/ Resume(c) \/ Leave(c) \/ Hear(c)
      PROVE  Goal
  BY <1>1, <1>4, <1>a, TableStaysSteps
<1>5. ASSUME AcceptFails \/ UNCHANGED vars PROVE Goal
  <2>1. UNCHANGED <<slot, entry, pool, fd, pc, at, index>>
    BY <1>5 DEF AcceptFails, vars, peers, memory, history
  <2> QED
    BY <2>1, <1>a DEF TableStays
<1>6. ASSUME NEW a \in Addrs, Age(a) PROVE Goal
  BY <1>6, <1>a, AgeTable
<1>7. ASSUME NEW x \in Threads, Walk(x) \/ Disconnect(x) PROVE Goal
  BY <1>1, <1>7, <1>a, WalkTable, DisconnectTable
<1>8. Goal
  BY <1>3, <1>4, <1>5, <1>6, <1>7 DEF Next
<1> QED
  BY <1>2, <1>8 DEF CalmInv

LEMMA InitCalm == Init => CalmOK
<1> SUFFICES ASSUME Init PROVE CalmInv
  BY DEF CalmOK
<1> USE DEF Init, Threads
<1>1. \A c \in Conns : pc[c] = "start" /\ index[c] = -1 /\ at[c] = 0
  OBVIOUS
<1>2. FlowInv
  BY <1>1 DEF FlowInv, CourseInv, Registering, Disconnecting
<1>3. \A c \in Conns, s \in Slots : ~Has(c, s)
  BY <1>1 DEF Has, Slots
<1>4. OwnerInv
  BY <1>1, <1>3 DEF OwnerInv
<1>5. HeapInv
  BY <1>3 DEF HeapInv, InUse
<1> QED
  BY <1>2, <1>4, <1>5 DEF CalmInv

-----------------------------------------------------------------------------
(* The inductive invariant holds in every reachable state. *)
THEOREM Invariance == Spec => [](TypeOK /\ BoundsInv /\ CalmOK)
<1>1. Init => TypeOK /\ BoundsInv /\ CalmOK
  BY InitTypes, InitCalm
<1>2. TypeOK /\ BoundsInv /\ CalmOK /\ [Next]_vars
        => (TypeOK /\ BoundsInv /\ CalmOK)'
  BY TypeStep, CalmStep
<1> QED
  BY <1>1, <1>2, PTL DEF Spec

(* Until registrations overlap, somebody times out or says PEER_CLOSE, the *)
(* table is exact, through every order in which connections come, register *)
(* and go, and every reuse of their descriptors and heap addresses.        *)
THEOREM TableIsExact == Spec => []TableExact
<1>1. TypeOK /\ BoundsInv /\ CalmOK => TableExact
  <2> SUFFICES ASSUME TypeOK, BoundsInv, CalmInv
               PROVE  /\ \A c \in Conns : Registered(c) => Holds(c, index[c])
                      /\ \A s \in Slots : slot[s] # NULL =>
                           \E c \in Conns : Has(c, s)
    BY DEF TableExact, CalmOK, Calm, Has
  <2> USE DEF CalmInv
  <2>1. ASSUME NEW c \in Conns, Registered(c) PROVE Holds(c, index[c])
    <3>1. index[c] \in Slots /\ index[c] # -1
      BY <2>1 DEF Registered, TypeOK
    <3>2. pc[c] \notin {"start", "fill", "close", "free", "clear", "end"}
      BY <2>1, <3>1 DEF Registered, FlowInv, CourseInv, Registering
    <3>3. InUse(c, index[c])
      BY <3>2 DEF InUse, Has
    <3>4. slot[index[c]] # NULL
      BY <3>1, <3>3 DEF InUse, OwnerInv
    <3>5. entry[slot[index[c]]].sockfd = fd[c]
      BY <3>1, <3>2, <3>3 DEF HeapInv
    <3>6. fdt[fd[c]] = c
      BY <3>2 DEF FlowInv, CourseInv
    <3> QED
      BY <3>4, <3>5, <3>6 DEF Holds
  <2> QED
    BY <2>1 DEF OwnerInv
<1> QED
  BY <1>1, Invariance, PTL

-----------------------------------------------------------------------------
(* The rest holds whatever has happened, time-outs and overlapping         *)
(* registrations included.                                                 *)

(* A loop index is 0 outside the loops. *)
RewoundInv ==
  \A c \in Conns : ~Registering(c) /\ pc[c] \notin {"look", "peek"} => at[c] = 0

(* The threads that have a REGISTER in hand and no slot yet. *)
Asking == {c \in Conns : pc[c] \in {"scan", "claim"}}

(* The REGISTERs that have been read account for the slots that were ever  *)
(* in use (U), for the threads that are asking and for those that refused. *)
Pays(U) ==
  Cardinality(U) + Cardinality(Asking) + Cardinality(refused)
    <= Cardinality(greeted)

Covers(U) ==
  /\ \A s \in Slots : slot[s] # NULL => s \in U
  /\ \A c \in Conns, s \in Slots : pc[c] = "scan" /\ s < at[c] => s \in U
  /\ refused # {} => U = Slots

UsedInv == \E U \in SUBSET Slots : Covers(U) /\ Pays(U)

LEMMA Finite ==
  ASSUME TypeOK
  PROVE  /\ IsFiniteSet(Asking) /\ IsFiniteSet(refused) /\ IsFiniteSet(greeted)
         /\ IsFiniteSet(Slots) /\ Cardinality(Slots) = MAX_PEER_SLOTS
         /\ \A U \in SUBSET Slots : IsFiniteSet(U)
<1>1. Asking \subseteq Conns /\ refused \subseteq Conns /\ greeted \subseteq Conns
  BY DEF TypeOK, Asking
<1>2. IsFiniteSet(Slots) /\ Cardinality(Slots) = MAX_PEER_SLOTS
  <2>1. MAX_PEER_SLOTS - 1 \in Int /\ 0 \in Int
    OBVIOUS
  <2> QED
    BY <2>1, FS_Interval DEF Slots
<1> QED
  BY <1>1, <1>2, FS_Subset

LEMMA RewoundStep ==
  TypeOK /\ BoundsInv /\ RewoundInv /\ [Next]_vars => RewoundInv'
<1> SUFFICES ASSUME TypeOK, BoundsInv, RewoundInv, [Next]_vars, NEW d \in Conns,
                    ~Registering(d)', pc'[d] \notin {"look", "peek"}
             PROVE  at'[d] = 0
  BY DEF RewoundInv
<1> USE DEF TypeOK, Threads, Registering, RewoundInv, Goto
<1>1. ASSUME NEW c \in Conns, Accept(c) \/ Mute(c) \/ Resume(c) \/ Leave(c)
      PROVE  at'[d] = 0
  <2>1. CASE Accept(c)
    <3>1. UNCHANGED at /\ pc[c] = "start" /\ \A e \in Conns \ {c} : pc'[e] = pc[e]
      BY <2>1 DEF Accept, BoundsInv
    <3> QED
      BY <3>1
  <2>2. CASE Mute(c) \/ Resume(c) \/ Leave(c)
    BY <2>2 DEF Mute, Resume, Leave, Turn
  <2> QED
    BY <1>1, <2>1, <2>2
<1>2. ASSUME NEW c \in Conns, Hear(c) PROVE at'[d] = 0
  <2>1. pc[c] = "blocked" /\ UNCHANGED at /\ \A e \in Conns \ {c} : pc'[e] = pc[e]
    BY <1>2 DEF Hear, ReadRegister, ReadKeepAlive, ReadFileUpdate, ReadClose, Receives
  <2> QED
    BY <2>1
<1>3. ASSUME NEW c \in Conns, Handshake(c) PROVE at'[d] = 0
  <2>1. CASE Read(c) \/ ReadEnds(c) \/ Beat(c) \/ Refresh(c)
    <3>1. /\ pc[c] \in {"read", "blocked", "beat", "refresh"} /\ UNCHANGED at
          /\ \A e \in Conns \ {c} : pc'[e] = pc[e]
      <4>1. CASE Read(c) \/ ReadEnds(c)
        BY <4>1 DEF Read, ReadEnds, Leaving
      <4>2. CASE Beat(c) \/ Refresh(c)
        BY <4>2 DEF Beat, Refresh
      <4> QED
        BY <2>1, <4>1, <4>2
    <3> QED
      BY <3>1
  <2>2. CASE Scan(c) \/ Refuse(c) \/ Claim(c)
    BY <2>2 DEF Scan, Refuse, Claim, Rewound
  <2>3. CASE FillSockfd(c) \/ FillStamp(c)
    BY <2>3 DEF FillSockfd, FillStamp, Rewound
  <2> QED
    BY <1>3, <2>1, <2>2, <2>3 DEF Handshake
<1>4. ASSUME NEW x \in Threads, Walk(x) PROVE at'[d] = 0
  BY <1>4, ConnsAssumption DEF Walk, Look, Peek, WalkEnds, Rewound
<1>5. ASSUME NEW x \in Threads, Disconnect(x) PROVE at'[d] = 0
  <2>1. at'[d] = at[d]
    BY <1>5, ConnsAssumption DEF Disconnect, CheckSlot, CloseSocket, FreeEntry,
       ClearSlot, Return
  <2>2. pc'[d] = pc[d] \/ (x = d /\ Disconnecting(x))
    BY <1>5 DEF Disconnect, CheckSlot, CloseSocket, FreeEntry, ClearSlot, Return,
       Disconnecting
  <2> QED
    BY <2>1, <2>2 DEF Disconnecting
<1>6. CASE AcceptFails \/ (\E a \in Addrs : Age(a)) \/ UNCHANGED vars
  BY <1>6 DEF AcceptFails, Age, vars
<1> QED
  BY <1>1, <1>2, <1>3, <1>4, <1>5, <1>6 DEF Next

(* A step that reads no REGISTER and settles none uses no new slot.        *)
NothingAsked ==
  /\ UNCHANGED <<greeted, refused>>
  /\ \A s \in Slots : slot'[s] # NULL => slot[s] # NULL
  /\ \A d \in Conns :
       \/ UNCHANGED <<pc[d], at[d]>>
       \/ {pc[d], pc'[d]} \cap {"scan", "claim"} = {}

LEMMA NothingAskedFrame ==
  ASSUME UsedInv, NothingAsked
  PROVE  UsedInv'
<1>1. PICK U \in SUBSET Slots : Covers(U) /\ Pays(U)
  BY DEF UsedInv
<1>2. Asking' = Asking /\ \A d \in Conns : pc'[d] = "scan" => UNCHANGED <<pc[d], at[d]>>
  BY DEF Asking, NothingAsked
<1>3. Pays(U)'
  BY <1>1, <1>2 DEF Pays, NothingAsked
<1>4. Covers(U)'
  BY <1>1, <1>2 DEF Covers, NothingAsked
<1> QED
  BY <1>3, <1>4 DEF UsedInv

LEMMA NothingAskedSteps ==
  ASSUME TypeOK, [Next]_vars
  PROVE  \/ NothingAsked
         \/ \E c \in Conns : ReadRegister(c) \/ Scan(c) \/ Refuse(c) \/ Claim(c)
<1> USE DEF TypeOK, Threads, Goto, NothingAsked
<1>1. ASSUME NEW c \in Conns, Accept(c) \/ Mute(c) \/ Resume(c) \/ Leave(c)
      PROVE  NothingAsked
  BY <1>1 DEF Accept, Mute, Resume, Leave, Turn, memory, history
<1>2. ASSUME NEW c \in Conns, Hear(c), ~ReadRegister(c) PROVE NothingAsked
  BY <1>2 DEF Hear, ReadKeepAlive, ReadFileUpdate, ReadClose, Receives, Unblocked,
     memory, history
<1>3. ASSUME NEW c \in Conns, Handshake(c), ~(Scan(c) \/ Refuse(c) \/ Claim(c))
      PROVE  NothingAsked
  <2>1. CASE Read(c) \/ ReadEnds(c)
    BY <2>1 DEF Read, ReadEnds, Leaving, Unblocked, memory, history
  <2>2. CASE Beat(c)
    BY <2>2 DEF Beat, peers, memory, history
  <2>3. CASE FillSockfd(c) \/ FillStamp(c)
    BY <2>3 DEF FillSockfd, FillStamp, Rewound, peers, history
  <2>4. CASE Refresh(c)
    <3>1. pc[c] = "refresh" /\ (pc' = pc \/ pc' = [pc EXCEPT ![c] = "read"])
      BY <2>4 DEF Refresh
    <3>2. UNCHANGED <<slot, greeted, refused, at>>
      BY <2>4 DEF Refresh, peers, history
    <3> QED
      BY <3>1, <3>2
  <2> QED
    BY <1>3, <2>1, <2>2, <2>3, <2>4 DEF Handshake
<1>4. ASSUME NEW x \in Threads, Walk(x) PROVE NothingAsked
  BY <1>4, ConnsAssumption DEF Walk, Look, Peek, WalkEnds, Rewound, peers, memory, history
<1>5. ASSUME NEW x \in Threads, Disconnect(x) PROVE NothingAsked
  <2>1. UNCHANGED <<greeted, refused>>
    BY <1>5 DEF Disconnect, CheckSlot, CloseSocket, FreeEntry, ClearSlot, peers,
       memory, history
  <2>2. \A s \in Slots : slot'[s] # NULL => slot[s] # NULL
    BY <1>5 DEF Disconnect, CheckSlot, CloseSocket, FreeEntry, ClearSlot, Emptied,
       memory
  <2>3. \A d \in Conns : at'[d] = at[d]
    BY <1>5, ConnsAssumption DEF Disconnect, CheckSlot, CloseSocket, FreeEntry,
       ClearSlot, Return
  <2>4. back[x] \notin {"scan", "claim"}
    OBVIOUS
  <2>5. \A d \in Conns :
          pc'[d] = pc[d] \/ {pc[d], pc'[d]} \cap {"scan", "claim"} = {}
    BY <1>5, <2>4 DEF Disconnect, CheckSlot, CloseSocket, FreeEntry, ClearSlot,
       Return
  <2> QED
    BY <2>1, <2>2, <2>3, <2>5
<1>6. CASE AcceptFails \/ (\E a \in Addrs : Age(a)) \/ UNCHANGED vars
  BY <1>6 DEF AcceptFails, Age, vars, peers, memory, history
<1> QED
  BY <1>1, <1>2, <1>3, <1>4, <1>5, <1>6 DEF Next

(* A peer registers once, and one thread reads that it does. *)
LEMMA RegisterUsed ==
  ASSUME TypeOK, BoundsInv, RewoundInv, UsedInv, NEW c \in Conns, ReadRegister(c)
  PROVE  UsedInv'
<1>1. PICK U \in SUBSET Slots : Covers(U) /\ Pays(U)
  BY DEF UsedInv
<1>2. /\ pc[c] = "blocked" /\ pc'[c] = "scan" /\ at[c] = 0
      /\ file[c] \in Conns \ greeted /\ greeted' = greeted \cup {file[c]}
      /\ UNCHANGED <<slot, at, refused>>
      /\ \A d \in Conns \ {c} : pc'[d] = pc[d]
  BY DEF ReadRegister, BoundsInv, RewoundInv, Registering, TypeOK, Threads, Goto,
     memory
<1>3. Asking' = Asking \cup {c} /\ c \notin Asking
  BY <1>2 DEF Asking
<1>4. /\ Cardinality(Asking') = Cardinality(Asking) + 1
      /\ Cardinality(greeted') = Cardinality(greeted) + 1
  BY <1>2, <1>3, Finite, FS_AddElement
<1>5. /\ Cardinality(U) \in Nat /\ Cardinality(Asking) \in Nat
      /\ Cardinality(refused) \in Nat /\ Cardinality(greeted) \in Nat
  BY Finite, FS_CardinalityType
<1>6. Pays(U)'
  BY <1>1, <1>2, <1>4, <1>5 DEF Pays
<1>7. Covers(U)'
  BY <1>1, <1>2 DEF Covers, Slots
<1> QED
  BY <1>6, <1>7 DEF UsedInv

(* A scan goes on past a slot that is in use, or stops.                    *)
LEMMA ScanUsed ==
  ASSUME TypeOK, BoundsInv, UsedInv, NEW c \in Conns, Scan(c)
  PROVE  UsedInv'
<1>1. PICK U \in SUBSET Slots : Covers(U) /\ Pays(U)
  BY DEF UsedInv
<1>2. /\ UNCHANGED <<slot, greeted, refused>> /\ at[c] \in Slots
      /\ pc[c] = "scan" /\ pc'[c] \in {"scan", "claim"}
      /\ \A d \in Conns \ {c} : UNCHANGED <<pc[d], at[d]>>
      /\ pc'[c] = "scan" => slot[at[c]] # NULL /\ at'[c] = at[c] + 1
  BY DEF Scan, ScanBound, Slots, Vacant, TypeOK, Threads, Goto, peers, memory, history
<1>3. Asking' = Asking
  BY <1>2 DEF Asking
<1>4. Pays(U)'
  BY <1>1, <1>2, <1>3 DEF Pays
<1>5. ASSUME NEW s \in Slots, pc'[c] = "scan", s < at'[c] PROVE s \in U
  <2>1. s < at[c] \/ s = at[c]
    BY <1>2, <1>5 DEF Slots
  <2> QED
    BY <1>1, <1>2, <1>5, <2>1 DEF Covers
<1>6. Covers(U)'
  BY <1>1, <1>2, <1>5 DEF Covers
<1> QED
  BY <1>4, <1>6 DEF UsedInv

(* A thread that refuses has passed every slot. *)
LEMMA RefuseUsed ==
  ASSUME TypeOK, BoundsInv, UsedInv, NEW c \in Conns, Refuse(c)
  PROVE  UsedInv'
<1>1. PICK U \in SUBSET Slots : Covers(U) /\ Pays(U)
  BY DEF UsedInv
<1>2. /\ UNCHANGED <<slot, greeted>> /\ refused' = refused \cup {c}
      /\ pc[c] = "scan" /\ pc'[c] = "read" /\ at[c] >= MAX_PEER_SLOTS
      /\ \A d \in Conns \ {c} : UNCHANGED <<pc[d], at[d]>>
  BY DEF Refuse, ScanBound, Rewound, TypeOK, Threads, Goto, peers, memory
<1>3. U = Slots
  <2>1. \A s \in Slots : s < at[c]
    BY <1>2 DEF Slots, TypeOK, Threads
  <2> QED
    BY <1>1, <1>2, <2>1 DEF Covers
<1>4. Asking' = Asking \ {c} /\ c \in Asking
  BY <1>2 DEF Asking
<1>5. /\ Cardinality(Asking') = Cardinality(Asking) - 1
      /\ Cardinality(refused') \in {Cardinality(refused), Cardinality(refused) + 1}
  BY <1>2, <1>4, Finite, FS_AddElement, FS_RemoveElement
<1>6. /\ Cardinality(U) \in Nat /\ Cardinality(Asking) \in Nat
      /\ Cardinality(refused) \in Nat /\ Cardinality(greeted) \in Nat
  BY Finite, FS_CardinalityType
<1>7. Pays(U)'
  BY <1>1, <1>2, <1>5, <1>6 DEF Pays
<1>8. Covers(U)'
  BY <1>1, <1>2, <1>3 DEF Covers
<1> QED
  BY <1>7, <1>8 DEF UsedInv

(* A slot that is claimed has been used before, or is one more. *)
LEMMA ClaimUsed ==
  ASSUME TypeOK, BoundsInv, UsedInv, NEW c \in Conns, Claim(c)
  PROVE  UsedInv'
<1>1. PICK U \in SUBSET Slots : Covers(U) /\ Pays(U)
  BY DEF UsedInv
<1>2. /\ UNCHANGED <<greeted, refused, at>> /\ at[c] \in Slots
      /\ pc[c] = "claim" /\ pc'[c] = "fill"
      /\ \A d \in Conns \ {c} : pc'[d] = pc[d]
      /\ \A s \in Slots \ {at[c]} : slot'[s] = slot[s]
  BY DEF Claim, BoundsInv, TypeOK, Threads, Goto, peers
<1>3. PICK V \in SUBSET Slots : V = U \cup {at[c]}
  BY <1>2
<1>4. Asking' = Asking \ {c} /\ c \in Asking
  BY <1>2 DEF Asking
<1>5. /\ Cardinality(Asking') = Cardinality(Asking) - 1
      /\ Cardinality(V) \in {Cardinality(U), Cardinality(U) + 1}
  BY <1>3, <1>4, Finite, FS_AddElement, FS_RemoveElement
<1>6. /\ Cardinality(U) \in Nat /\ Cardinality(Asking) \in Nat
      /\ Cardinality(refused) \in Nat /\ Cardinality(greeted) \in Nat
  BY Finite, FS_CardinalityType
<1>7. Pays(V)'
  BY <1>1, <1>2, <1>5, <1>6 DEF Pays
<1>8. Covers(V)'
  BY <1>1, <1>2, <1>3 DEF Covers
<1> QED
  BY <1>7, <1>8 DEF UsedInv

(* However registrations, departures and time-outs overlap, no peer is     *)
(* turned away unless more have registered than the table has slots: each  *)
(* slot a scan finds in use was claimed for a REGISTER of its own.         *)
THEOREM NobodyRefusedTooSoon == Spec => []RefusedBeyondSlots
<1>1. Init => RewoundInv /\ UsedInv
  <2> SUFFICES ASSUME Init PROVE RewoundInv /\ UsedInv
    OBVIOUS
  <2>1. RewoundInv
    BY DEF Init, RewoundInv, Threads
  <2>2. Asking = {} /\ Covers({})
    BY DEF Init, Asking, Covers, Threads
  <2>3. Pays({})
    BY <2>2, FS_EmptySet DEF Init, Pays
  <2> QED
    BY <2>1, <2>2, <2>3 DEF UsedInv
<1>2. TypeOK /\ BoundsInv /\ RewoundInv /\ UsedInv /\ [Next]_vars => UsedInv'
  BY NothingAskedSteps, NothingAskedFrame, RegisterUsed, ScanUsed, RefuseUsed,
     ClaimUsed
<1>3. TypeOK /\ UsedInv => RefusedBeyondSlots
  <2> SUFFICES ASSUME TypeOK, UsedInv, refused # {}
               PROVE  Cardinality(greeted) >= MAX_PEER_SLOTS + Cardinality(refused)
    BY DEF RefusedBeyondSlots
  <2>1. PICK U \in SUBSET Slots : Covers(U) /\ Pays(U)
    BY DEF UsedInv
  <2>2. Cardinality(U) = MAX_PEER_SLOTS
    BY <2>1, Finite DEF Covers
  <2>3. /\ Cardinality(Asking) \in Nat /\ Cardinality(refused) \in Nat
        /\ Cardinality(greeted) \in Nat
    BY Finite, FS_CardinalityType
  <2> QED
    BY <2>1, <2>2, <2>3 DEF Pays
<1> QED
  BY <1>1, <1>2, <1>3, RewoundStep, Invariance, PTL DEF Spec
=============================================================================
